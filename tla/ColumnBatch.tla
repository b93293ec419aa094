---------------------------- MODULE ColumnBatch ----------------------------
(***************************************************************************)
(* From DDL and a field spec to record batches: the start of run() in      *)
(* src/src/main.rs (read the table, derive or take a spec, check that it   *)
(* puts its fields in order, covers the table and fits it), then one       *)
(* generator task at its BatchBuilder, with the values its spec draws.     *)
(***************************************************************************)
EXTENDS FieldSpecs, SpecOrder, BatchBuilder

CONSTANTS
    \* What a run is started with: [ddl, wanted, spec, emit], the schema file,
    \* --table or <<>>, the --spec or <<>>, --emit-spec; and `meant`, the
    \* columns the DDL declares, Err where it declares no such table.
    Cases,
    ReadSchema(_, _),     \* load_schema_table of SchemaText, which is recursive
    BlindNested(_, _),    \* Blind and Overfull below, which call themselves on
    OverfullNested(_, _)  \* the parts

\* A table that is read has columns, of decimals no finer than they are long;
\* the generators of a spec, given or derived from them, are among Gens.
ASSUME CasesAreRuns ==
    \A x \in Cases : \A table \in {ReadSchema(x.ddl, x.wanted)} :
        /\ x.spec \in Seq({x.spec[f] : f \in DOMAIN x.spec})
        /\ \A f \in DOMAIN x.spec : x.spec[f].gen \in Gens
        /\ IsOk(table) =>
              LET cols == table[1].columns
              IN  /\ cols # <<>> /\ cols \in Seq({cols[c] : c \in DOMAIN cols})
                  /\ \A c \in DOMAIN cols :
                        /\ cols[c].ty \in Types
                        /\ \A t \in TypesIn(cols[c].ty) : t.k = "DECIMAL" => t.s <= t.p
                  /\ x.spec = <<>> \/ x.emit =>
                        \A c \in DOMAIN cols : is_generatable(cols[c].ty) => generator_for(cols[c]) \in Gens

VARIABLE case    \* what the run was started with

\* pc is "start", "spec", "compile" and "check" before the builder's "rows",
\* and "refused" where the run never gets there.
vars == <<case, orderVars, builderVars>>
ordering == <<indegree, ready, generation, stage>>

Derived == case.spec = <<>> \/ case.emit

Init ==
    /\ case \in Cases
    /\ columns = <<>> /\ spec = <<>> /\ pc = "start" /\ OrderInit
    /\ builders = <<>> /\ NoRows

LoadSchema ==
    /\ pc = "start"
    /\ \E table \in {ReadSchema(case.ddl, case.wanted)} :
          IF IsOk(table) THEN columns' = table[1].columns /\ pc' = "spec"
                         ELSE pc' = "refused" /\ UNCHANGED columns
    /\ UNCHANGED <<case, orderVars, progress>>

\* --emit-spec writes the derived spec and ends; otherwise a hand-written spec
\* wins over one derived from the schema.
TakeSpec ==
    LET chosen == IF Derived THEN spec_yaml_from_table(columns) ELSE Ok(case.spec)
    IN  /\ pc = "spec"
        /\ IF IsOk(chosen) THEN spec' = chosen[1] /\ pc' = IF case.emit THEN "done" ELSE "compile"
                           ELSE pc' = "refused" /\ UNCHANGED spec
        /\ UNCHANGED <<case, columns, ordering, progress>>

\* compile_spec, a step of its sort at a time.
CompileSpec ==
    /\ pc = "compile"
    /\ OrderNext
    /\ pc' = CASE stage' = "sorted" -> "check" [] stage' = "unsorted" -> "refused" [] OTHER -> pc
    /\ UNCHANGED <<case, columns, progress>>

arrow_schema == \A c \in DOMAIN columns : ArrowOk(columns[c].ty)

Accepted(s) ==
    /\ validate_spec_covers(s, columns)
    /\ validate_against_schema(s, columns)
    /\ arrow_schema

Validate ==
    /\ pc = "check"
    /\ IF Accepted(spec) THEN pc' = "rows" /\ builders' = Empty
                         ELSE pc' = "refused" /\ UNCHANGED builders
    /\ UNCHANGED <<case, columns, orderVars, rows, taken, batch, batches>>

\* Each column reads the field of its own name; fields are drawn apart.
GenOf(c) == spec[FieldFor(spec, columns[c].name)].gen
Rows == LET drawn == [c \in DOMAIN columns |-> Draws(GenOf(c))]
        IN  {row \in [DOMAIN columns -> UNION Range(drawn)] : \A c \in DOMAIN columns : row[c] \in drawn[c]}

AppendRow == pc = "rows" /\ (\E row \in Rows : AppendTo(row)) /\ UNCHANGED <<case, orderVars>>
\* generator_loop draws every field of the spec, columns or not.
DrawFails == (\E f \in DOMAIN spec : CanFail(spec[f].gen)) /\ GenerateFails /\ UNCHANGED <<case, orderVars>>
Finish == FinishBatch /\ UNCHANGED <<case, orderVars>>
Stop == EndTask /\ UNCHANGED <<case, orderVars>>

Ended == pc \in {"done", "refused", "failed"} /\ UNCHANGED vars

Next == LoadSchema \/ TakeSpec \/ CompileSpec \/ Validate \/ AppendRow \/ DrawFails \/ Finish \/ Stop \/ Ended

Spec == Init /\ [][Next]_vars
-----------------------------------------------------------------------------
\* A comma comes after an odd number of escaped quotes: split_top_level, which
\* knows no escapes, takes it for quoted where it is not, or the other way round.
AfterOddEscapes(ddl) ==
    \E i \in DOMAIN ddl : ddl[i] = "," /\ Cardinality({j \in 1..i : ddl[j] = "backslash"}) % 2 = 1

\* A table is read as its DDL declares it, name for name, type for type and
\* NOT NULL for NOT NULL, between what the cases put around its columns: comments of
\* each kind, quoted texts that hold commas, brackets, comment marks, keywords and
\* escaped quotes, quoted names, key clauses, blanks after the types.  Escaped quotes
\* may mislead it only about a comma that follows an odd number of them.  Where the
\* DDL declares no such table, or a type that does not exist, the run is refused.
\* Not among the cases, as they are misread: two blanks before a type or inside a
\* nested NOT NULL, and angle brackets in the comment of a STRUCT's field.
ReadsAsWritten ==
    pc # "start" => IF IsOk(case.meant) THEN columns = case.meant[1] \/ AfterOddEscapes(case.ddl)
                                        ELSE columns = <<>> /\ pc = "refused"

\* README "the Doris DDL supplies column types, order and nullability": a
\* column declared NOT NULL, and only such a column, is NOT NULL.
NullabilityAsDeclared ==
    columns # <<>> => \A c \in DOMAIN columns : columns[c].nullable = case.meant[1][c].nullable

\* Some level of a column has more elements than an offset counts: the items or
\* entries of what is kept of the values, put after one another.
Overfull(ty, values) ==
    LET kept == [i \in DOMAIN values |->
                   LET stored == Store(ty, values[i]) IN IF IsOk(stored) THEN stored[1] ELSE Null]
        within(Items(_)) ==
            FlattenSeq([i \in DOMAIN kept |-> IF IsNull(kept[i]) THEN <<>> ELSE Items(kept[i])])
        items == within(LAMBDA v : v.items)
        entries == within(EntriesOf)
        part(n) == [i \in DOMAIN entries |-> entries[i][n]]
        slot(f) == [i \in DOMAIN kept |->
                      LET slots == Slots(ty, kept[i]) IN IF IsOk(slots) THEN slots[1][f] ELSE Null]
    IN  CASE ty.k = "ARRAY"  -> Len(items) > MaxOffset \/ OverfullNested(ty.of, items)
          [] ty.k = "MAP"    -> \/ Len(entries) > MaxOffset
                                \/ OverfullNested(ty.key, part(1)) \/ OverfullNested(ty.val, part(2))
          [] ty.k = "STRUCT" -> \E f \in DOMAIN ty.fields : OverfullNested(ty.fields[f][2], slot(f))
          [] OTHER -> FALSE

Taken(c) == [i \in DOMAIN taken |-> taken[i][c]]

\* A derived spec fits its table: the only tables it is refused for hold a
\* type that cannot be generated or mapped, a text of no width, two columns of
\* one name or one of none, or nest so deep that the extremes outgrow an offset;
\* and no value it draws is refused afterwards, however narrow the column, but
\* a number of the endless sequence an `id` gets, and a batch only for its size.
Roomy(ty) == \A t \in TypesIn(ty) : t.k = "CHAR" => t.len > 0
ProbesOverfull(column) ==
    \E p \in Range(probe_values(generator_for(column))) : Overfull(column.ty, <<p>>)
Outgrown(column) == column.name = "id" /\ column.ty.k \in DOMAIN IntMax \ {"BIGINT"}

DerivedFits ==
    Derived /\ columns # <<>> =>
        /\ pc = "failed" =>
              \E c \in DOMAIN columns : Outgrown(columns[c]) \/ Overfull(columns[c].ty, Taken(c))
        /\ pc = "refused" =>
              \/ ~arrow_schema
              \/ \E c, d \in DOMAIN columns : c # d /\ columns[c].name = columns[d].name
              \/ \E c \in DOMAIN columns : \/ ~Roomy(columns[c].ty) \/ columns[c].name = ""
                                           \/ ProbesOverfull(columns[c])

\* What the check before the first row cannot see: what plain generators draw
\* besides their extremes, and opaque ones besides what they show, wherever they
\* are nested; the keys of a map that read like another, and its values beyond one
\* per key; how many items a list has that stands for a struct, and how long a
\* nested value is as text.
Blind(g, ty) ==
    LET tried == FirstOfEach(ProbesOf(g.key))
        repeated == \E key \in Range(ProbesOf(g.key)) \ Range(tried) : ~IsNull(key)
        crowded == Len(ProbesOf(g.value)) > Len(tried)
        inside(f) == \E i \in Position(ty, g.fields[f][1]) : BlindNested(g.fields[f][2], ty.fields[i][2])
    IN  CASE g.g = "array" /\ ty.k = "ARRAY" -> BlindNested(g.element, ty.of)
          [] g.g = "map" /\ ty.k = "MAP" ->
               BlindNested(g.key, ty.key) \/ BlindNested(g.value, ty.val) \/ repeated \/ crowded
          [] g.g = "struct" /\ ty.k = "STRUCT" -> \E f \in DOMAIN g.fields : inside(f)
          [] g.g = "struct" /\ ty.k = "MAP" -> \E f \in DOMAIN g.fields : BlindNested(g.fields[f][2], ty.val)
          [] g.g = "array" /\ ty.k = "STRUCT" -> TRUE
          [] g.g \in {"array", "map", "struct"} /\ ty.k = "CHAR" -> TRUE
          [] OTHER -> PlainlyBlind(g, ty)

\* A choice of a JSON text that is null, in a column that may not be.
ReadsNull(v) == v.k = "str" /\ IsOk(ParseJson(v.text)) /\ IsNull(ParseJson(v.text)[1])
NullText(c) ==
    /\ Nested(columns[c].ty) /\ ~columns[c].nullable
    /\ GenOf(c).g = "choice" /\ \E i \in DOMAIN GenOf(c).values : ReadsNull(GenOf(c).values[i])

\* A run that fails on a row or a batch failed for one of those reasons, because
\* a generator may bail out instead of drawing, or because the batch was too large:
\* every other value is as acceptable as the extremes its generator reported.
FailsOnlyBlind ==
    pc = "failed" =>
        \/ \E f \in DOMAIN spec : CanFail(spec[f].gen)
        \/ \E c \in DOMAIN columns : Blind(GenOf(c), columns[c].ty) \/ NullText(c)
        \/ \E c \in DOMAIN columns : Overfull(columns[c].ty, Taken(c))

\* The entries of a map stored for a derived spec have distinct keys after
\* the conversion to the key's type, not only as text before it.
DerivedKeysDistinct ==
    \A c \in DOMAIN batch.arrays : \A i \in 1..batch.rows :
        LET m == ReadBack(columns[c].ty, batch.arrays[c], i) IN
        Derived /\ columns[c].ty.k = "MAP" /\ m # <<>> =>
            \A a, b \in DOMAIN m[1] : a # b => m[1][a][1] # m[1][b][1]
=============================================================================
