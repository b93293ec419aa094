----------------------------- MODULE Generators -----------------------------
(***************************************************************************)
(* Generators that hold no other: the range each draws from, the extremes  *)
(* it reports for the check made before the first row                      *)
(* (src/vendor/datagen/src/probe.rs), and the one src/src/derive.rs        *)
(* chooses for each scalar type.  FieldSpecs adds those of nested values.  *)
(***************************************************************************)
EXTENDS Cells

CONSTANTS
    DerivedTop,    \* the largest integer derive.rs asks for, by type name
    WholeCap,      \* digits derive.rs gives a decimal's whole part at most
    FractionCap,   \* and its fraction at most
    Now            \* the clock's day, for datetime_around

\* The literals of derive.rs fit the widths they are meant for, and the clock
\* shows a day that can be stored, a year after the first one.
ASSUME DerivedAssumption ==
    /\ \A t \in DOMAIN IntMax : DerivedTop[t] \in 0..IntMax[t]
    /\ DerivedTop["LARGEINT"] \in 0..I128Max /\ DerivedTop["BITMAP"] \in 1..IntMax["BIGINT"]
    /\ DerivedTop["FLOAT"] \in 0..FloatMax /\ {DerivedTop["DOUBLE"], DerivedTop["QUANTILE_STATE"]} \subseteq Nat
    /\ {WholeCap, FractionCap} \subseteq Nat /\ WholeCap + FractionCap <= DECIMAL128_MAX_PRECISION
    /\ Now \in (MIN_DATE_DAYS + 365)..MAX_DATE_DAYS

\* Byte lengths of the crate's word lists: LOREM_WORDS has 5 to 7 letters.
ShortestWord == 5
longest_lorem_word == 7
LOREM_MIN_WIDTH == 64
UnboundedWidth == 2147483647
-----------------------------------------------------------------------------
(* Generators.  `nulls` says that the null rate is positive, `whole` that  *)
(* a float is rounded to precision 0.                                      *)

int_range(min, max)    == [g |-> "int", min |-> min, max |-> max, nulls |-> FALSE]
float_range(min, max)  == [g |-> "float", min |-> min, max |-> max, whole |-> FALSE, nulls |-> FALSE]
RoundedWhole(g)        == [g EXCEPT !.whole = TRUE]
DecimalRange(min, max, scale) ==
    [g |-> "decimal", min |-> min, max |-> max, scale |-> scale, nulls |-> FALSE]
datetime_around(min, max, fmt) ==
    [g |-> "datetime", min |-> min, max |-> max, fmt |-> fmt, nulls |-> FALSE]
\* Every generator of words, by the shortest and longest it draws: lorem, names,
\* addresses, emails, uuids, base64.  The longest, reported, reads as nothing but text.
TextRange(short, long) == [g |-> "text", min |-> short, max |-> long, nulls |-> FALSE]
choice(values)         == [g |-> "choice", values |-> values, nulls |-> FALSE]
IpRange(min, max, bits) == [g |-> "ip", min |-> min, max |-> max, bits |-> bits, nulls |-> FALSE]
sequence(next)         == [g |-> "sequence", next |-> next, nulls |-> FALSE]
\* A generator whose report says little of what it draws: texts that may read as a
\* number or as JSON, or nothing at all where generate() only ever bails out.
opaque(shown, values, bails) ==
    [g |-> "opaque", shown |-> shown, values |-> values, bails |-> bails, nulls |-> FALSE]
array_of(element, min, max) ==
    [g |-> "array", element |-> element, min |-> min, max |-> max, nulls |-> FALSE]
map_of(key, value, min, max) ==
    [g |-> "map", key |-> key, value |-> value, min |-> min, max |-> max, nulls |-> FALSE]
struct_of(fields)      == [g |-> "struct", fields |-> fields, nulls |-> FALSE]
Nullable(g)            == [g EXCEPT !.nulls = TRUE]

Plain(n) == Str(Word("text", n))
Zeros(n) == Str(ZeroPadded(0, n))

\* Handlebars and JavaScript report nothing; what they cannot render, or throw, fails.
template(values) == opaque(<<>>, values, TRUE)
\* A sequence_string reports its last value, and fails beyond it.
sequence_string(values) == opaque(<<values[Len(values)]>>, values, TRUE)
\* random_bytes in hex reports zeros; what it draws are digits or letters.
random_hex(min, max) == opaque(<<Zeros(2 * max)>>, <<Zeros(2 * max), Plain(2 * min), Plain(2 * max)>>, FALSE)
\* A fluctuating decimal prints as many digits as it happens to have; its ends have few.
fluctuating(values) == opaque(<<values[1], values[Len(values)]>>, values, FALSE)
\* A null rate outside 0..1, float bounds that are infinite or too far apart, weights
\* that overflow: the extremes are reported, and no draw succeeds.
bailing(shown) == opaque(shown, <<>>, TRUE)

lorem(min, max) == TextRange(min * ShortestWord + min - 1, max * longest_lorem_word + max - 1)

\* f64::round, of halves: the half goes away from zero.
RoundHalves(h) == IF h < 0 THEN -2 * ((1 - h) \div 2) ELSE 2 * ((h + 1) \div 2)

\* What a range generator draws at a point of its range.
At(g, x) ==
    CASE g.g = "int"      -> Number(x)
      [] g.g = "float"    -> Float(IF g.whole THEN RoundHalves(x) ELSE x)
      [] g.g = "decimal"  -> Dec(x, g.scale)
      [] g.g = "datetime" -> Moment(x, g.fmt)
      [] g.g = "text"     -> Plain(x)
      [] g.g = "ip"       -> Str(Address(x, g.bits))

IsRange(g) == g.g \in {"int", "float", "decimal", "datetime", "text", "ip"}

\* What a generator draws: any point of its range, one of its values, or null;
\* of a struct only that it is one.
Drawn(g, v) ==
    \/ g.nulls /\ v = Null
    \/ IsRange(g) /\ \E x \in g.min..g.max : v = At(g, x)
    \/ g.g \in {"choice", "opaque"} /\ \E i \in DOMAIN g.values : v = g.values[i]
    \/ g.g = "sequence" /\ \E n \in Int : n >= g.next /\ v = Number(n)
    \/ g.g = "struct" /\ v.k = "struct"

\* generate() may bail out: an integer, float or lorem range that ends before it
\* starts, no choice at all, and the opaque ones that say so.  compile_spec lets all
\* of them through.
Undrawable(g) ==
    \/ g.g \in {"int", "float", "text"} /\ g.min > g.max
    \/ g.g = "choice" /\ g.values = <<>>
    \/ g.g = "opaque" /\ g.bails

\* The ends of a range (of a text the longest, of a float as they are given),
\* every choice, the start of a sequence, and what an opaque one shows.
plain_extremes(g) ==
    CASE g.g = "text"     -> <<At(g, g.max)>>
      [] g.g = "float"    -> <<Float(g.min), Float(g.max)>>
      [] IsRange(g) /\ g.g \notin {"text", "float"} -> <<At(g, g.min), At(g, g.max)>>
      [] g.g = "choice"   -> g.values
      [] g.g = "sequence" -> <<Number(g.next)>>
      [] g.g = "opaque"   -> g.shown

\* What these extremes do not bound: a sequence past its start; what an opaque
\* generator's texts read as, and their length beyond that of every text shown;
\* decimals finer than the column between two ends that are not; floats between two
\* ends of fewer digits, or rounded past the larger end; an address's length as text.
TakesWhole(ty) == ty.k \in DOMAIN IntMax \cup {"LARGEINT", "BITMAP"}

Longer(v, shown) == \A i \in DOMAIN shown : Bytes(Text(v)) > Bytes(Text(shown[i]))

PlainlyBlind(g, ty) ==
    CASE g.g = "sequence" -> TRUE
      [] g.g = "opaque"  -> /\ ty.k \notin {"STRING", "HLL"}
                            /\ ty.k = "CHAR" => \E i \in DOMAIN g.values : Longer(g.values[i], g.shown)
      [] g.g = "decimal" -> ty.k = "DECIMAL" /\ g.scale > ty.s
      [] g.g = "float"   -> ty.k \in {"DECIMAL", "CHAR"} \/ (g.whole /\ TakesWhole(ty))
      [] g.g = "ip"      -> ty.k = "CHAR"
      [] OTHER -> FALSE
-----------------------------------------------------------------------------
(* derive.rs, for the types that hold no other.                            *)

string_width(ty) ==
    CASE ty.k = "CHAR" -> Ok(ty.len) [] ty.k = "STRING" -> Ok(UnboundedWidth) [] OTHER -> Err

\* Hex of len / 2 bytes; one character when that is no byte at all.
fixed_width_string(len) ==
    IF len \div 2 = 0 THEN choice(<<Plain(1)>>)
    ELSE random_hex(len \div 2, len \div 2)

\* Seeded fault: the blank between two words is forgotten.
LoremWithinTight(len) ==
    LET fit == len \div longest_lorem_word
        words == IF fit < 1 THEN 1 ELSE LeastOf(fit, 12)
    IN  lorem(LeastOf(words, 3), words)

lorem_within(len) ==
    LET fit == (len + 1) \div (longest_lorem_word + 1)
        words == IF fit < 1 THEN 1 ELSE LeastOf(fit, 12)
    IN  lorem(LeastOf(words, 3), words)

decimal_range(p, s) ==
    LET whole == LeastOf(IF p > s THEN p - s ELSE 0, WholeCap)
        scale == LeastOf(s, FractionCap)
    IN  DecimalRange(0, TenTo[whole + scale] - 1, scale)

is_integer(ty) == ty.k \in DOMAIN IntMax \cup {"LARGEINT"}

\* generator_by_type of a type that holds no other.
scalar_generator(ty) ==
    CASE ty.k = "BOOLEAN" -> choice(<<Str(Word("true", 4)), Str(Word("false", 5))>>)
      [] is_integer(ty)   -> int_range(0, DerivedTop[ty.k])
      [] ty.k = "BITMAP"  -> int_range(1, DerivedTop[ty.k])
      [] ty.k \in {"FLOAT", "DOUBLE", "QUANTILE_STATE"} -> float_range(0, 2 * DerivedTop[ty.k])
      [] ty.k = "DECIMAL" -> decimal_range(ty.p, ty.s)
      [] ty.k = "DATE"    -> datetime_around((Now - 365) * MicrosPerDay, Now * MicrosPerDay, DayOnly)
      [] ty.k = "DATETIME" -> datetime_around((Now - 30) * MicrosPerDay, Now * MicrosPerDay, ty.s)
      [] ty.k = "CHAR"    -> IF ty.varchar /\ ty.len >= LOREM_MIN_WIDTH
                             THEN lorem_within(ty.len) ELSE fixed_width_string(ty.len)
      [] ty.k = "STRING"  -> lorem(3, 12)
      [] ty.k \in {"JSON", "VARIANT"} -> struct_of(<< <<Word("id", 2), int_range(1, IntMax["INT"])>>,
                                                  <<Word("tag", 3), lorem(1, 1)>>,
                                                  <<Word("score", 5), float_range(0, 200)>> >>)
      [] ty.k = "IPV4"    -> IpRange(0, U32Max, 4)
      [] ty.k = "IPV6"    -> IpRange(0, U32Max, 6)
      [] ty.k = "HLL"     -> TextRange(36, 36)

\* Keys of a MAP want a small domain of short values.
map_key_generator(key) ==
    IF ~IsOk(string_width(key)) THEN scalar_generator(key)
    ELSE IF string_width(key)[1] >= longest_lorem_word THEN lorem(1, 1)
    ELSE fixed_width_string(string_width(key)[1])

\* The text generators a column's name asks for, by the longest they draw.
NamedText(name) ==
    CASE name = "email"      -> Ok(TextRange(24, 24))
      [] name = "uuid"       -> Ok(TextRange(36, 36))
      [] name = "first_name" -> Ok(TextRange(3, 9))
      [] name = "full_name"  -> Ok(TextRange(8, 18))
      [] name = "address"    -> Ok(TextRange(34, 63))
      [] name = "country"    -> Ok(TextRange(3, 14))
      [] name = "status"     -> Ok(choice(<<Plain(6), Plain(8), Plain(7)>>))
      [] OTHER -> Err

generator_by_name(column) ==
    LET width == string_width(column.ty) IN
    IF IsOk(width) /\ width[1] >= LOREM_MIN_WIDTH /\ IsOk(NamedText(column.name))
    THEN NamedText(column.name)
    ELSE IF is_integer(column.ty) /\ column.name = "id" THEN Ok(sequence(1)) ELSE Err
=============================================================================
