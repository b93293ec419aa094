------------------------------- MODULE Cells -------------------------------
(***************************************************************************)
(* The value conversions of src/src/parquet_out.rs: what a column of a     *)
(* given Doris type keeps of one generated value.                          *)
(*                                                                         *)
(* A Rust Result is <<x>> for Ok(x) and <<>> for an error; the text of an  *)
(* error is left out.  A text is a record of what the code can read out of *)
(* it (a number and its decimals, a word, a moment, an address, a JSON     *)
(* document), never its characters.  Integer widths are constants, so that *)
(* TLC's own integers hold a 128-bit one.                                  *)
(***************************************************************************)
EXTENDS Integers, Sequences

CONSTANTS
    IntMax,                    \* the largest TINYINT .. BIGINT, by type name
    I128Max,                   \* i128::MAX, and LARGEINT's limit
    U32Max,                    \* the largest IPv4 address
    DECIMAL128_MAX_PRECISION,  \* the digits every i128 of that many fits
    FloatMax,                  \* the largest f32
    SubSecond,                 \* fractional digits of a DATETIME(6)
    SecondsPerDay,
    MIN_DATE_DAYS, MAX_DATE_DAYS,
    BuildNested(_, _)          \* build_nested of Columns: it is recursive, and so
                               \* is handed to the modules that are proved about

\* The powers of ten.
TenTo[n \in Nat] == IF n = 0 THEN 1 ELSE 10 * TenTo[n - 1]

ASSUME WidthsNest ==
    /\ IntMax \in [{"TINYINT", "SMALLINT", "INT", "BIGINT"} -> Nat]
    /\ \A t \in DOMAIN IntMax : IntMax[t] <= IntMax["BIGINT"]
    /\ {I128Max, U32Max, DECIMAL128_MAX_PRECISION, FloatMax, SubSecond} \subseteq Nat
    /\ SecondsPerDay \in Nat \ {0} /\ {MIN_DATE_DAYS, MAX_DATE_DAYS} \subseteq Int
    /\ IntMax["BIGINT"] < I128Max
    /\ TenTo[DECIMAL128_MAX_PRECISION] <= I128Max
    /\ I128Max < TenTo[DECIMAL128_MAX_PRECISION + 1]
    /\ MIN_DATE_DAYS < 0 /\ MAX_DATE_DAYS > 0

Ok(x) == <<x>>
Err == <<>>
IsOk(r) == r # Err

\* The ? operator: go on with what is in Ok, or return the error.
Then(r, Go(_)) == IF IsOk(r) THEN Go(r[1]) ELSE Err
Provided(r, Test(_)) == IF IsOk(r) /\ Test(r[1]) THEN r ELSE Err

\* iter.map(..).collect::<Result<Vec<_>>>(): every item, or an error.
Collect(rs) ==
    IF \A i \in DOMAIN rs : IsOk(rs[i]) THEN Ok([i \in DOMAIN rs |-> rs[i][1]]) ELSE Err
CollectEach(s, Convert(_)) == Collect([i \in DOMAIN s |-> Convert(s[i])])

LeastOf(a, b) == IF a < b THEN a ELSE b
Abs(n) == IF n < 0 THEN -n ELSE n
Trunc(n, d) == IF n < 0 THEN -(-n \div d) ELSE n \div d

-----------------------------------------------------------------------------
(* datagen::Value.  An integer is an I64 when it fits one and an I128      *)
(* otherwise; every float is a whole number of halves.                     *)

Null          == [k |-> "null"]
Flag(b)       == [k |-> "bool", b |-> b]
Number(n)     == [k |-> "int", n |-> n]
Float(h)      == [k |-> "float", halves |-> h]
Infinite      == [k |-> "inf"]
Dec(u, s)     == [k |-> "dec", units |-> u, scale |-> s]
Moment(m, f)  == [k |-> "ts", micros |-> m, fmt |-> f]
Str(t)        == [k |-> "str", text |-> t]
List(items)   == [k |-> "list", items |-> items]
MapOf(es)     == [k |-> "map", entries |-> es]
StructOf(fs)  == [k |-> "struct", fields |-> fs]

Digits(u, s)  == [t |-> "num", units |-> u, scale |-> s, pad |-> 0]
Word(w, n)    == [t |-> "word", w |-> w, bytes |-> n]
Time(m, f)    == [t |-> "time", micros |-> m, fmt |-> f]
Address(n, b) == [t |-> "addr", n |-> n, bits |-> b]
Doc(v)        == [t |-> "doc", v |-> v]

IsNull(v) == v.k = "null"

MicrosPerSecond == TenTo[SubSecond]
MicrosPerDay == SecondsPerDay * MicrosPerSecond

\* A timestamp format shows the day only, or the second and fmt digits of it.
DayOnly == -1
ShownUnit(fmt) == IF fmt = DayOnly THEN MicrosPerDay ELSE TenTo[SubSecond - fmt]

\* Value::csv_string, which as_text, as_str and the key checks read.
Text(v) ==
    CASE v.k = "str"   -> v.text
      [] v.k = "bool"  -> IF v.b THEN Word("true", 4) ELSE Word("false", 5)
      [] v.k = "int"   -> Digits(v.n, 0)
      [] v.k = "float" -> IF v.halves % 2 = 0 THEN Digits(Trunc(v.halves, 2), 0)
                                              ELSE Digits(5 * v.halves, 1)
      [] v.k = "inf"   -> Word("inf", 3)
      [] v.k = "dec"   -> Digits(v.units, v.scale)
      [] v.k = "ts"    -> Time((v.micros \div ShownUnit(v.fmt)) * ShownUnit(v.fmt), v.fmt)
      [] v.k = "null"  -> Word("", 0)
      [] OTHER         -> Doc(v)

\* Value::to_json_string: numbers and flags are their own text.
JsonText(v) ==
    CASE v.k \in {"bool", "int", "float", "dec"} -> Text(v)
      [] v.k = "inf" -> Doc(Null)
      [] OTHER       -> Doc(v)

\* serde_json::from_str followed by Value::from_json.  Of a bare number only
\* that it is JSON matters: no nested column holds one.  JSON has no leading zeros.
ParseJson(t) ==
    CASE t.t = "doc" -> Ok(t.v)
      [] t.t = "num" -> IF t.pad = 0 THEN Ok(Number(t.units)) ELSE Err
      [] t.t = "word" /\ t.w \in {"true", "false"} -> Ok(Flag(t.w = "true"))
      [] OTHER -> Err

DigitCount(n) == CHOOSE d \in 1..n + 1 : n < TenTo[d] /\ (d = 1 \/ n >= TenTo[d - 1])

\* format!("{:0width$}"): `pad` counts the zeros in front.
ZeroPadded(u, width) == [Digits(u, 0) EXCEPT !.pad = width - DigitCount(u)]

\* str::len, in UTF-8 bytes, of the texts a CHAR or VARCHAR is offered.
Bytes(t) ==
    CASE t.t = "word" -> t.bytes
      [] t.t = "time" -> (CASE t.fmt = DayOnly -> 10 [] t.fmt = 0 -> 19 [] OTHER -> 20 + t.fmt)
      [] t.t = "num"  -> (IF t.units < 0 THEN 1 ELSE 0)
                         + (IF t.scale = 0 THEN 0 ELSE 1)
                         + (IF DigitCount(Abs(t.units)) > t.scale
                            THEN DigitCount(Abs(t.units)) ELSE t.scale + 1)
                         + t.pad
-----------------------------------------------------------------------------
(* Scalars.                                                                *)

as_bool(v) ==
    CASE v.k = "bool" -> Ok(v.b)
      [] v.k = "int"  -> Ok(v.n # 0)
      [] v.k = "dec"  -> Ok(v.units # 0)
      [] v.k = "str" /\ v.text \in {Word("true", 4), Word("yes", 3), Digits(1, 0)} -> Ok(TRUE)
      [] v.k = "str" /\ v.text \in {Word("false", 5), Word("no", 2), Digits(0, 0)} -> Ok(FALSE)
      [] OTHER -> Err

WholeNumber(v) ==
    CASE v.k = "int"   -> Ok(v.n)
      [] v.k = "bool"  -> Ok(IF v.b THEN 1 ELSE 0)
      [] v.k = "float" -> Ok(Trunc(v.halves, 2))
      [] v.k = "dec"   -> Ok(Trunc(v.units, TenTo[v.scale]))
      [] v.k = "str" /\ v.text.t = "num" /\ v.text.scale = 0 -> Ok(v.text.units)
      [] OTHER -> Err

as_int(v, min, max) == Provided(WholeNumber(v), LAMBDA n : n \in min..max)

\* An f64 as the exact fraction units / 10^scale it stands for.
as_f64(v) ==
    CASE v.k \in {"int", "float", "dec", "inf"} -> Ok(Text(v))
      [] v.k = "str" /\ v.text.t = "num" -> Ok(Digits(v.text.units, v.text.scale))
      [] v.k = "str" /\ v.text = Word("inf", 3) -> Ok(v.text)
      [] OTHER -> Err

\* The f64 nearest an f32 overflows to infinity above FloatMax.
FitsFloat(t) == t.t = "num" => Abs(t.units) <= FloatMax * TenTo[t.scale]

\* Digits and scale of a value, as decimal_text and split_decimal_text read them.
DecimalText(v) ==
    IF v.k \in {"int", "dec", "float"} \/ (v.k = "str" /\ v.text.t = "num")
    THEN Ok(Text(v)) ELSE Err

\* The text is padded with zeros up to the column's scale, never cut.
PaddedUnits(v, scale) ==
    Then(DecimalText(v), LAMBDA t :
        IF t.scale <= scale THEN Ok(t.units * TenTo[scale - t.scale]) ELSE Err)

FitsPrecision(units, precision) == Abs(units) < TenTo[precision]

\* Seeded fault: digits past the column's scale are cut off.
RescaleTruncating(units, from, precision, scale) ==
    LET unscaled == IF from <= scale THEN units * TenTo[scale - from]
                                     ELSE Trunc(units, TenTo[from - scale])
    IN  IF FitsPrecision(unscaled, precision) THEN Ok(unscaled) ELSE Err

rescale_decimal(units, from, precision, scale) ==
    LET unscaled == IF from <= scale THEN units * TenTo[scale - from]
                                     ELSE Trunc(units, TenTo[from - scale])
    IN  IF /\ from <= scale => Abs(unscaled) <= I128Max
           /\ from > scale => units % TenTo[from - scale] = 0
           /\ FitsPrecision(unscaled, precision)
        THEN Ok(unscaled) ELSE Err

as_decimal(v, precision, scale) ==
    IF v.k = "dec" THEN rescale_decimal(v.units, v.scale, precision, scale)
    ELSE IF v.k = "int" THEN rescale_decimal(v.n, 0, precision, scale)
    ELSE Provided(PaddedUnits(v, scale), LAMBDA units :
             Abs(units) <= I128Max /\ FitsPrecision(units, precision))

as_decimal256(v, precision, scale) ==
    Provided(PaddedUnits(v, scale), LAMBDA units : FitsPrecision(units, precision))

as_timestamp_micros(v) ==
    CASE v.k = "ts" -> Ok(v.micros)
      [] v.k = "str" /\ v.text.t = "time" -> Ok(v.text.micros)
      [] OTHER -> Err

as_date(v) == Then(as_timestamp_micros(v), LAMBDA micros : Ok(micros \div MicrosPerDay))

checked_text(v, ty) ==
    CASE ty.k \in {"STRING", "HLL"} -> Ok(Text(v))
      [] ty.k = "CHAR" -> IF Bytes(Text(v)) <= ty.len THEN Ok(Text(v)) ELSE Err
      [] ty.k = "LARGEINT" ->
           Then(as_int(v, -I128Max, I128Max), LAMBDA n : Ok(Digits(n, 0)))
      [] ty.k \in {"JSON", "VARIANT"} ->
           IF v.k # "str" THEN Ok(JsonText(v))
           ELSE IF IsOk(ParseJson(v.text)) THEN Ok(v.text) ELSE Err
      [] ty.k = "IPV4" ->
           IF v.k = "int" /\ v.n \in 0..U32Max /\ v.n <= IntMax["BIGINT"] THEN Ok(Address(v.n, 4))
           ELSE IF v.k = "str" /\ v.text.t = "addr" /\ v.text.bits = 4 THEN Ok(v.text) ELSE Err
      [] ty.k = "IPV6" ->
           IF v.k = "int" /\ v.n > IntMax["BIGINT"] THEN Ok(Address(v.n, 6))
           ELSE IF v.k = "str" /\ v.text.t = "addr" /\ v.text.bits = 6 THEN Ok(v.text) ELSE Err

\* ColumnBuilder::append of a value that is not null, in a scalar column.
Cell(ty, v) ==
    CASE ty.k = "BOOLEAN" -> as_bool(v)
      [] ty.k \in DOMAIN IntMax -> as_int(v, -IntMax[ty.k] - 1, IntMax[ty.k])
      [] ty.k = "BITMAP" -> as_int(v, 0, IntMax["BIGINT"])
      [] ty.k = "FLOAT" -> Provided(as_f64(v), FitsFloat)
      [] ty.k \in {"DOUBLE", "QUANTILE_STATE"} -> as_f64(v)
      [] ty.k = "DECIMAL" ->
           IF ty.p <= DECIMAL128_MAX_PRECISION THEN as_decimal(v, ty.p, ty.s)
                                               ELSE as_decimal256(v, ty.p, ty.s)
      [] ty.k = "DATE" -> Provided(as_date(v), LAMBDA d : d \in MIN_DATE_DAYS..MAX_DATE_DAYS)
      [] ty.k = "DATETIME" ->
           LET unit == TenTo[SubSecond - ty.s]
           IN  Then(as_timestamp_micros(v), LAMBDA m :
                   IF m \in MIN_DATE_DAYS * MicrosPerDay .. (MAX_DATE_DAYS + 1) * MicrosPerDay - 1
                   THEN Ok((m \div unit) * unit) ELSE Err)
      [] OTHER -> checked_text(v, ty)
-----------------------------------------------------------------------------
(* ColumnBuilder: one column of the batch being built.                     *)

Nested(ty) == ty.k \in {"ARRAY", "MAP", "STRUCT"}

\* JSON text is parsed; a list may stand for a STRUCT, a struct for a MAP.
shape_nested(ty, v) ==
    LET parsed == IF v.k = "str" THEN ParseJson(v.text) ELSE Ok(v)
        fits(x) == \/ IsNull(x)
                   \/ ty.k = "ARRAY" /\ x.k = "list"
                   \/ ty.k = "MAP" /\ x.k \in {"map", "struct"}
                   \/ ty.k = "STRUCT" /\ x.k \in {"struct", "list"}
    IN  Provided(parsed, fits)

\* ColumnBuilder::append: what the builder keeps of one value of the column.
\* A scalar column keeps a slot, <<>> for null; a nested one keeps the value.
Store(ty, v) ==
    IF IsNull(v) THEN Ok(IF Nested(ty) THEN Null ELSE <<>>)
    ELSE IF Nested(ty) THEN shape_nested(ty, v)
    ELSE Then(Cell(ty, v), LAMBDA x : Ok(<<x>>))

\* A column takes no null it may not hold, and no value it cannot convert.
Accepts(column, v) == ~(IsNull(v) /\ ~column.nullable) /\ IsOk(Store(column.ty, v))

\* ColumnBuilder::finish.
FinishColumn(ty, stored) ==
    IF Nested(ty) THEN BuildNested(ty, stored) ELSE Ok([slots |-> stored])
=============================================================================
