----------------------------- MODULE SpecOrder -----------------------------
(***************************************************************************)
(* The order in which the fields of a row are generated: the checks of     *)
(* compile_spec in src/vendor/datagen/src/compile.rs, and                  *)
(* build_generation_order, which counts for every field the fields it      *)
(* reads and takes the fields that wait for none off a heap.  A row is     *)
(* drawn in that order into a context which later fields read and which,   *)
(* with `context.reset: never` or `batch`, still holds the row before:     *)
(* drawn too early, a field would read another row's value.                *)
(*                                                                         *)
(* A path is the list of names it may mean, the longest first:             *)
(* `customer.name` is <<"customer.name", "customer">>.                     *)
(***************************************************************************)
EXTENDS Integers, Sequences, FiniteSets

VARIABLES
    spec,         \* the fields as written: name, order, and the paths it needs
    indegree,     \* per field: fields it reads and that are not placed yet
    ready,        \* the heap: fields that wait for none
    generation,   \* generation_order: the fields placed so far
    stage         \* "raw", "sorting", "sorted" or "unsorted"

orderVars == <<spec, indegree, ready, generation, stage>>

Fields == DOMAIN spec
Placed == {generation[i] : i \in DOMAIN generation}

\* The field a path means: that of the longest of its names a field has.
Resolved(path) ==
    {f \in Fields : \E i \in DOMAIN path :
        /\ spec[f].name = path[i]
        /\ \A g \in Fields, j \in 1..(i - 1) : spec[g].name # path[j]}

Needs(f) == UNION {Resolved(path) : path \in spec[f].needs}
Readers(f) == {g \in Fields : f \in Needs(g)}

\* compile_spec's checks of the names, build_generation_order's of the paths.
Wellformed ==
    /\ spec # <<>>
    /\ \A f \in Fields : spec[f].name # "" /\ \A g \in Fields \ {f} : spec[g].name # spec[f].name
    /\ \A f \in Fields : \A path \in spec[f].needs : Resolved(path) # {}
    /\ \A f \in Fields : f \notin Needs(f)

\* Seeded fault: a field that two paths of one reader mean is counted twice.
CountEdgesPerPath ==
    /\ stage = "raw"
    /\ IF Wellformed
       THEN /\ stage' = "sorting"
            /\ indegree' = [f \in Fields |-> Cardinality(spec[f].needs)]
            /\ ready' = {f \in Fields : spec[f].needs = {}}
       ELSE stage' = "unsorted" /\ UNCHANGED <<indegree, ready>>
    /\ UNCHANGED <<spec, generation>>

CountEdges ==
    /\ stage = "raw"
    /\ IF Wellformed
       THEN /\ stage' = "sorting"
            /\ indegree' = [f \in Fields |-> Cardinality(Needs(f))]
            /\ ready' = {f \in Fields : Needs(f) = {}}
       ELSE stage' = "unsorted" /\ UNCHANGED <<indegree, ready>>
    /\ UNCHANGED <<spec, generation>>

\* The heap's key: the order asked for, then the place in the file.
Precedes(f, g) ==
    \/ spec[f].order < spec[g].order
    \/ spec[f].order = spec[g].order /\ f < g

PopReady ==
    /\ stage = "sorting"
    /\ \E f \in ready :
          /\ \A g \in ready \ {f} : Precedes(f, g)
          /\ generation' = Append(generation, f)
          /\ indegree' = [g \in Fields |-> IF g \in Readers(f) THEN indegree[g] - 1 ELSE indegree[g]]
          /\ ready' = (ready \ {f}) \cup {g \in Readers(f) : indegree[g] = 1}
    /\ UNCHANGED <<spec, stage>>

HeapEmpty ==
    /\ stage = "sorting" /\ ready = {}
    /\ stage' = IF Len(generation) = Len(spec) THEN "sorted" ELSE "unsorted"
    /\ UNCHANGED <<spec, indegree, ready, generation>>

OrderInit ==
    /\ spec \in Seq({spec[f] : f \in DOMAIN spec})
    /\ indegree = <<>> /\ ready = {} /\ generation = <<>>
    /\ stage = "raw"

OrderNext == CountEdges \/ PopReady \/ HeapEmpty

OrderSpec == OrderInit /\ [][OrderNext]_orderVars
-----------------------------------------------------------------------------
Before(i) == {generation[j] : j \in 1..(i - 1)}

\* Fields that all wait for another of them: no order serves them.
Deadlocked(waiting) == waiting # {} /\ \A f \in waiting : Needs(f) \cap waiting # {}

\* What is asked of the field in place i: neither placed before, nor before a
\* field it reads, and first among those that could come next.
InOrder(i) ==
    /\ generation[i] \in Fields \ Before(i)
    /\ Needs(generation[i]) \subseteq Before(i)
    /\ \A f \in Fields \ Before(i) :
         Needs(f) \subseteq Before(i) => f = generation[i] \/ Precedes(generation[i], f)

\* Every field comes after all it reads, so none reads a value left over from
\* another row; among the fields that could come next, the one with the lowest
\* `order` does.  A sorted spec is complete; a spec is refused only for its
\* names and paths, or for fields that wait for one another.
OrderSound ==
    /\ \A i \in DOMAIN generation : InOrder(i)
    /\ stage = "sorted" => Wellformed /\ Placed = Fields
    /\ stage = "unsorted" => ~Wellformed \/ \E waiting \in SUBSET Fields : Deadlocked(waiting)
=============================================================================
