------------------------------ MODULE Columns ------------------------------
(***************************************************************************)
(* The nested columns of src/src/parquet_out.rs: how ARRAY, MAP and STRUCT *)
(* values are flattened into offsets, validity flags and child arrays, and *)
(* the check of one value before the run.                                  *)
(***************************************************************************)
EXTENDS Cells, SequencesExt

CONSTANTS
    MaxOffset,             \* i32::MAX elements below one batch
    Types,                 \* the types a table can declare
    TypesIn(_),            \* a type and all it is made of
    Values,                \* the values generators hand over, and their parts
    ReadNested(_, _, _),   \* NestedAt and MeaningShaped below, as BuildNested is
    MeaningNested(_, _)    \* build_nested: each calls itself on the parts

PartsOf(ty) ==
    CASE ty.k = "ARRAY"  -> {ty.of}
      [] ty.k = "MAP"    -> {ty.key, ty.val}
      [] ty.k = "STRUCT" -> {ty.fields[f][2] : f \in DOMAIN ty.fields}
      [] OTHER -> {}

ScalarKinds ==
    DOMAIN IntMax \cup {"BOOLEAN", "LARGEINT", "BITMAP", "FLOAT", "DOUBLE", "QUANTILE_STATE", "DECIMAL", "DATE",
        "DATETIME", "STRING", "HLL", "CHAR", "JSON", "VARIANT", "IPV4", "IPV6", "AGG_STATE"}

\* A DECIMAL's precision and scale are u8s, a DATETIME has 0 to 6 digits, a
\* CHAR's length is a u32, and no STRUCT is parsed that has two fields of a name.
TypeHasParameters(ty) ==
    /\ Nested(ty) \/ ty.k \in ScalarKinds
    /\ ty.k = "DECIMAL" => ty.p \in Nat /\ ty.s \in Nat
    /\ ty.k = "DATETIME" => ty.s \in 0..SubSecond
    /\ ty.k = "CHAR" => ty.len \in Nat
    /\ ty.k = "STRUCT" => /\ ty.fields \in Seq({ty.fields[f] : f \in DOMAIN ty.fields})
                          /\ \A f, h \in DOMAIN ty.fields : f # h => ty.fields[f][1] # ty.fields[h][1]

\* A type is a finite tree.
ASSUME TypesAreTrees ==
    \A ty \in Types :
        /\ TypeHasParameters(ty)
        /\ IsFiniteSet(TypesIn(ty)) /\ PartsOf(ty) \subseteq Types
        /\ TypesIn(ty) = {ty} \cup UNION {TypesIn(part) : part \in PartsOf(ty)}
        /\ \A part \in PartsOf(ty) : ty \notin TypesIn(part)

\* datagen::Value holds numbers, and texts are read as numbers and moments.
ValueHasNumbers(v) ==
    /\ v.k = "int" => v.n \in Int
    /\ v.k = "float" => v.halves \in Int
    /\ v.k = "dec" => v.units \in Int /\ v.scale \in Nat
    /\ v.k = "ts" => v.micros \in Int
    /\ v.k = "str" /\ v.text.t = "num" => v.text.units \in Int /\ {v.text.scale, v.text.pad} \subseteq Nat
    /\ v.k = "str" /\ v.text.t = "time" => v.text.micros \in Int

ASSUME OffsetsCount == MaxOffset \in Nat

\* What can be taken out of a value: its items, the keys and values of its
\* entries, its fields (by name, as a MAP takes them), what its text parses to.
ASSUME ValuesHaveParts ==
    /\ Null \in Values
    /\ \A v \in Values :
          /\ ValueHasNumbers(v)
          /\ v.k = "list" => v.items \in Seq(Values)
          /\ v.k = "map" => v.entries \in Seq(Values \X Values)
          /\ v.k = "struct" =>
                /\ v.fields \in Seq({v.fields[i] : i \in DOMAIN v.fields})
                /\ \A i \in DOMAIN v.fields : {Str(v.fields[i][1]), v.fields[i][2]} \subseteq Values
          /\ v.k = "str" /\ IsOk(ParseJson(v.text)) => ParseJson(v.text)[1] \in Values

\* arrow_type succeeds: no AGG_STATE anywhere, and only scalars as MAP keys.
ArrowOk(ty) ==
    \A t \in TypesIn(ty) : t.k # "AGG_STATE" /\ (t.k = "MAP" => ~Nested(t.key))

EntriesOf(v) ==
    IF v.k = "map" THEN v.entries
    ELSE [i \in DOMAIN v.fields |-> <<Str(v.fields[i][1]), v.fields[i][2]>>]

\* Seeded fault: keys may repeat.
KeysNotNull(entries) == \A i \in DOMAIN entries : ~IsNull(entries[i][1])

\* No null key, and no two keys of the same text.
KeysOk(entries) ==
    \A i \in DOMAIN entries :
        /\ ~IsNull(entries[i][1])
        /\ \A j \in 1..(i - 1) : Text(entries[j][1]) # Text(entries[i][1])

\* Seeded fault: the total is taken after the children are added.
OffsetsShifted(groups) ==
    [i \in 1..Len(groups) + 1 |-> Len(FlattenSeq(SubSeq(groups, 1, LeastOf(i, Len(groups)))))]

\* The running totals a list or map array keeps of its children.
Offsets(groups) ==
    [i \in 1..Len(groups) + 1 |-> Len(FlattenSeq(SubSeq(groups, 1, i - 1)))]

Position(ty, name) == {i \in DOMAIN ty.fields : ty.fields[i][1] = name}

\* One struct value spread over its fields: by name, the last item of a name
\* winning and a field left out null; by position for a list; nulls for null.
Slots(ty, v) ==
    CASE v.k = "struct" ->
           IF \E i \in DOMAIN v.fields : Position(ty, v.fields[i][1]) = {} THEN Err
           ELSE Ok([f \in DOMAIN ty.fields |->
                     LET named == {i \in DOMAIN v.fields : v.fields[i][1] = ty.fields[f][1]}
                     IN  IF named = {} THEN Null
                         ELSE v.fields[CHOOSE i \in named : \A j \in named : j <= i][2]])
      [] v.k = "list" -> IF Len(v.items) = Len(ty.fields) THEN Ok(v.items) ELSE Err
      [] OTHER -> Ok([f \in DOMAIN ty.fields |-> Null])

\* Values are shaped or converted, and become one array.
build_array(ty, values) ==
    Then(CollectEach(values, LAMBDA v : Store(ty, v)), LAMBDA stored : FinishColumn(ty, stored))

\* Values already shaped become one flat child array and the offsets into it.
build_nested(ty, values) ==
    LET valid == [i \in DOMAIN values |-> ~IsNull(values[i])]
        groups(Items(_)) == [i \in DOMAIN values |-> IF valid[i] THEN Items(values[i]) ELSE <<>>]
        lists == groups(LAMBDA v : v.items)
        entries == groups(EntriesOf)
        flat == FlattenSeq(entries)
        part(n) == [i \in DOMAIN flat |-> flat[i][n]]
        small(gs) == Len(FlattenSeq(gs)) <= MaxOffset
    IN  CASE ty.k = "ARRAY" ->
               IF ~small(lists) THEN Err
               ELSE Then(build_array(ty.of, FlattenSeq(lists)), LAMBDA child :
                        Ok([valid |-> valid, offsets |-> Offsets(lists), child |-> child]))
          [] ty.k = "MAP" ->
               IF ~(small(entries) /\ \A i \in DOMAIN entries : KeysOk(entries[i])) THEN Err
               ELSE Then(Collect(<<build_array(ty.key, part(1)), build_array(ty.val, part(2))>>),
                         LAMBDA arrays : Ok([valid |-> valid, offsets |-> Offsets(entries),
                                             keys |-> arrays[1], vals |-> arrays[2]]))
          [] ty.k = "STRUCT" ->
               Then(CollectEach(values, LAMBDA v : Slots(ty, v)), LAMBDA rows :
                   Then(Collect([f \in DOMAIN ty.fields |->
                            build_array(ty.fields[f][2], [i \in DOMAIN rows |-> rows[i][f]])]),
                        LAMBDA columns : Ok([valid |-> valid, columns |-> columns])))

\* Seeded fault: the value is stored, but no array is built of it.
ProbeWithoutFinish(column, v) ==
    ~(IsNull(v) /\ ~column.nullable) /\ ArrowOk(column.ty) /\ IsOk(Store(column.ty, v))

\* parquet_out::probe.
probe(column, v) ==
    /\ ~(IsNull(v) /\ ~column.nullable)
    /\ ArrowOk(column.ty)
    /\ IsOk(Then(Store(column.ty, v), LAMBDA stored : FinishColumn(column.ty, <<stored>>)))
-----------------------------------------------------------------------------
(* The meaning of a column's array, read the way a Parquet reader reads it,*)
(* and of a value, taken one value at a time without any flattening.       *)

ReadBack(ty, array, i) == IF Nested(ty) THEN ReadNested(ty, array, i) ELSE array.slots[i]

NestedAt(ty, array, i) ==
    LET n == array.offsets[i + 1] - array.offsets[i]
        at(j) == array.offsets[i] + j
    IN  CASE ~array.valid[i] -> <<>>
          [] array.valid[i] /\ ty.k = "ARRAY" -> <<[j \in 1..n |-> ReadBack(ty.of, array.child, at(j))]>>
          [] array.valid[i] /\ ty.k = "MAP" ->
               <<[j \in 1..n |-> <<ReadBack(ty.key, array.keys, at(j)), ReadBack(ty.val, array.vals, at(j))>>]>>
          [] array.valid[i] /\ ty.k = "STRUCT" ->
               <<[f \in DOMAIN ty.fields |-> ReadBack(ty.fields[f][2], array.columns[f], i)]>>

Meaning(ty, v) ==
    IF IsNull(v) THEN <<>>
    ELSE IF Nested(ty) THEN MeaningNested(ty, shape_nested(ty, v)[1])
    ELSE <<Cell(ty, v)[1]>>

MeaningShaped(ty, v) ==
    LET entry(e) == <<Meaning(ty.key, e[1]), Meaning(ty.val, e[2])>>
    IN  IF IsNull(v) THEN <<>>
        ELSE CASE ty.k = "ARRAY" -> <<[j \in DOMAIN v.items |-> Meaning(ty.of, v.items[j])]>>
               [] ty.k = "MAP" -> <<[j \in DOMAIN EntriesOf(v) |-> entry(EntriesOf(v)[j])]>>
               [] ty.k = "STRUCT" ->
                    <<[f \in DOMAIN ty.fields |-> Meaning(ty.fields[f][2], Slots(ty, v)[1][f])]>>
=============================================================================
