----------------------------- MODULE FieldSpecs -----------------------------
(***************************************************************************)
(* Field specs: the generator src/src/derive.rs chooses for a column, the  *)
(* values a generator can draw, nested ones included, and the extremes it  *)
(* reports for the check made before the first row.                        *)
(***************************************************************************)
EXTENDS Columns, Generators

CONSTANTS
    Gens,           \* the generators of fields, given or derived, and of their parts
    Sample(_, _),   \* the points of a range that are drawn
    MaxItems,       \* bound: items of a list or a map that is drawn
    \* probe_values, Draws, CanFail and generator_by_type below: each calls
    \* itself on the parts.
    ProbesOf(_), DrawsOf(_), CanFailIn(_), DeriveFor(_)

GenPartsOf(g) ==
    CASE g.g = "array"  -> {g.element}
      [] g.g = "map"    -> {g.key, g.value}
      [] g.g = "struct" -> {g.fields[f][2] : f \in DOMAIN g.fields}
      [] OTHER -> {}

\* The keys a map is tried with: none that is null, and of one text the first.
FirstOfEach(s) ==
    LET upto[n \in 0..Len(s)] ==
            LET seen == upto[n - 1] IN
            IF n = 0 THEN <<>>
            ELSE IF IsNull(s[n]) \/ \E i \in DOMAIN seen : Text(seen[i]) = Text(s[n]) THEN seen
            ELSE Append(seen, s[n])
    IN  upto[Len(s)]

\* Generator::probe_values: its extremes, of nested ones a list of the element's
\* probes, a map pairing the key's probes with the value's in turn, as many
\* structs as the longest field has probes; and null.
probe_values(g) ==
    LET element == ProbesOf(g.element)
        keys == FirstOfEach(ProbesOf(g.key))
        vals == ProbesOf(g.value)
        fields == [f \in DOMAIN g.fields |-> ProbesOf(g.fields[f][2])]
        rounds == Max({1} \cup {Len(fields[f]) : f \in DOMAIN fields})
        pick(s, i) == IF s = <<>> THEN Null ELSE s[((i - 1) % Len(s)) + 1]
        extremes ==
            CASE g.g = "array"    -> <<List(IF g.max = 0 THEN <<>> ELSE element)>>
              [] g.g = "map"      ->
                   <<MapOf(IF g.max = 0 THEN <<>>
                           ELSE [i \in DOMAIN keys |-> <<keys[i], pick(vals, i)>>])>>
              [] g.g = "struct"   ->
                   [r \in 1..rounds |->
                      StructOf([f \in DOMAIN g.fields |-> <<g.fields[f][1], pick(fields[f], r)>>])]
              [] OTHER -> plain_extremes(g)
    IN  extremes \o (IF g.nulls THEN <<Null>> ELSE <<>>)

\* How many items, or entries, are drawn: fewer entries than asked for where
\* the draws of keys run out, for keys are never null and never of one text.
ListSizes(g) == {n \in g.min..g.max : n <= MaxItems}
MapSizes(g) == {n \in 0..MaxItems : n <= g.max /\ (n = 0 => g.min = 0 \/ g.key.nulls)}
Lists(S, sizes) == UNION {[1..n -> S] : n \in sizes}
KeyedLists(S, sizes) == {s \in Lists(S, sizes) : KeysOk(s)}

\* What Generator::generate can return.
Draws(g) ==
    LET drawn ==
            CASE IsRange(g) -> {At(g, x) : x \in Sample(g.min, g.max)}
              [] g.g \in {"choice", "opaque"} -> ToSet(g.values)
              [] g.g = "sequence" -> {Number(n) : n \in Sample(g.next, IntMax["BIGINT"])}
              [] g.g = "array"    -> {List(s) : s \in Lists(DrawsOf(g.element), ListSizes(g))}
              [] g.g = "map"      ->
                   {MapOf(es) : es \in KeyedLists(DrawsOf(g.key) \X DrawsOf(g.value), MapSizes(g))}
              [] g.g = "struct"   ->
                   {StructOf([f \in DOMAIN g.fields |-> <<g.fields[f][1], d[f]>>]) :
                      d \in {e \in [DOMAIN g.fields -> UNION {DrawsOf(g.fields[f][2]) : f \in DOMAIN g.fields}] :
                               \A f \in DOMAIN g.fields : e[f] \in DrawsOf(g.fields[f][2])}}
    IN  drawn \cup (IF g.nulls THEN {Null} ELSE {})

\* generate() may bail out, of whatever is nested in it too.
CanFail(g) ==
    LET failing == {part \in GenPartsOf(g) : CanFailIn(part)}
    IN  CASE g.g \in {"array", "map"} -> g.max > 0 /\ failing # {}
          [] g.g = "struct" -> failing # {}
          [] OTHER -> Undrawable(g)

\* The bounds of ranges and sizes are numbers; what is opaque is text.
GenHasParameters(g) ==
    /\ IsRange(g) => {g.min, g.max} \subseteq Int /\ Sample(g.min, g.max) \subseteq g.min..g.max
    /\ g.g = "decimal" => g.scale \in Nat
    /\ g.g = "sequence" => Sample(g.next, IntMax["BIGINT"]) \subseteq g.next..IntMax["BIGINT"]
    /\ g.g \in {"array", "map"} => {g.min, g.max} \subseteq Nat
    /\ g.g \in {"choice", "opaque"} => g.values \in Seq(ToSet(g.values))
    /\ g.g = "opaque" => /\ g.shown \in Seq(ToSet(g.shown))
                         /\ g.values # <<>> => \A v \in ToSet(g.shown) \cup ToSet(g.values) :
                                                  v.k = "str" /\ (g.shown # <<>> => Bytes(v.text) \in Nat)
    /\ g.g = "struct" => g.fields \in Seq({g.fields[f] : f \in DOMAIN g.fields})
    /\ IsRange(g) \/ g.g \in {"choice", "opaque", "sequence", "array", "map", "struct"}

\* What a generator hands over, and what it reports, are values.
ASSUME GensHaveParts ==
    \A g \in Gens :
        /\ GenHasParameters(g) /\ GenPartsOf(g) \subseteq Gens
        /\ Draws(g) \subseteq Values /\ probe_values(g) \in Seq(Values)
-----------------------------------------------------------------------------
(* derive.rs.                                                              *)

generator_by_type(ty) ==
    LET key == IF Nested(ty.key) THEN DeriveFor(ty.key) ELSE map_key_generator(ty.key)
    IN  CASE ty.k = "ARRAY"   -> array_of(DeriveFor(ty.of), 0, 3)
          [] ty.k = "MAP"     -> map_of(key, DeriveFor(ty.val), 0, 3)
          [] ty.k = "STRUCT"  -> struct_of([f \in DOMAIN ty.fields |->
                                              <<ty.fields[f][1], DeriveFor(ty.fields[f][2])>>])
          [] OTHER -> scalar_generator(ty)

generator_for(column) ==
    IF IsOk(generator_by_name(column)) THEN generator_by_name(column)[1]
    ELSE generator_by_type(column.ty)

is_generatable(ty) == \A t \in TypesIn(ty) : t.k # "AGG_STATE"

\* A field of a spec: `order` and the paths its generator reads matter to
\* SpecOrder only.
Field(name, gen) == [name |-> name, order |-> 0, needs |-> {}, gen |-> gen]

\* spec_yaml_from_table: one field per column, under the column's name, or a
\* refusal naming the columns no generator serves.
spec_yaml_from_table(columns) ==
    IF \A c \in DOMAIN columns : is_generatable(columns[c].ty)
    THEN Ok([c \in DOMAIN columns |-> Field(columns[c].name, generator_for(columns[c]))])
    ELSE Err

\* validate_spec_covers and probe::validate_against_schema: every column has a
\* field, and every probe of that field fits the column.
FieldFor(spec, name) == CHOOSE f \in DOMAIN spec : spec[f].name = name

validate_spec_covers(spec, columns) ==
    \A c \in DOMAIN columns : \E f \in DOMAIN spec : spec[f].name = columns[c].name

validate_against_schema(spec, columns) ==
    \A c \in DOMAIN columns :
        LET probes == probe_values(spec[FieldFor(spec, columns[c].name)].gen)
        IN  \A i \in DOMAIN probes : probe(columns[c], probes[i])
=============================================================================
