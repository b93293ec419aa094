---------------------------- MODULE ColumnBatchProofs ----------------------------
(***************************************************************************)
(* What holds of ColumnBatch for every spec, table and value: fields are   *)
(* put in an order that can be drawn whenever there is one, the batch      *)
(* builder keeps each value in the row it came with, nested ones included, *)
(* scalars exactly, and what the check before the first row tried, or      *)
(* derive.rs chose, does not fail later on.                                *)
(***************************************************************************)
EXTENDS ColumnBatch, FiniteSetTheorems, TotalsProofs

-----------------------------------------------------------------------------
(* The order fields are generated in.                                      *)

Left(f) == Needs(f) \ Placed

(* A field's counter is the number of fields it still waits for, and the   *)
(* heap holds the unplaced fields whose counter is zero.                   *)
CountsInv ==
    stage = "sorting" =>
        /\ Wellformed
        /\ indegree = [f \in Fields |-> Cardinality(Left(f))]
        /\ ready = {f \in Fields \ Placed : Left(f) = {}}

(* Placed fields are counted once each, so that all are placed when as     *)
(* many are placed as there are.                                           *)
PlacesInv ==
    /\ spec \in Seq({spec[f] : f \in DOMAIN spec})
    /\ generation \in Seq(Fields)
    /\ IsFiniteSet(Placed) /\ Cardinality(Placed) = Len(generation)
    /\ stage = "raw" => generation = <<>>

OrderInv == PlacesInv /\ CountsInv /\ OrderSound

LEMMA FieldsFinite ==
    ASSUME spec \in Seq({spec[f] : f \in DOMAIN spec})
    PROVE  /\ Fields = 1..Len(spec) /\ Len(spec) \in Nat
           /\ IsFiniteSet(Fields) /\ Cardinality(Fields) = Len(spec)
<1>1. Fields = 1..Len(spec) /\ Len(spec) \in Nat
    BY DEF Fields
<1>2. QED
    BY <1>1, FS_Interval

LEMMA NeedsFields == ASSUME NEW f PROVE Needs(f) \subseteq Fields
    BY DEF Needs, Resolved

(* The spec never changes, and so neither does what is read off it.        *)
LEMMA SameSpec ==
    ASSUME spec' = spec
    PROVE  /\ Fields' = Fields /\ (Wellformed' <=> Wellformed)
           /\ \A f : Needs(f)' = Needs(f)
           /\ \A f, g : Precedes(f, g)' <=> Precedes(f, g)
           /\ \A waiting : Deadlocked(waiting)' <=> Deadlocked(waiting)
<1>1. Fields' = Fields
    BY DEF Fields
<1>2. \A path : Resolved(path)' = Resolved(path)
    BY <1>1 DEF Resolved
<1>3. \A f : Needs(f)' = Needs(f)
    BY <1>2 DEF Needs
<1>4. /\ \A f \in Fields : \A path \in spec'[f].needs : Resolved(path)' = Resolved(path)
      /\ \A f \in Fields : Needs(f)' = Needs(f)
    BY <1>2, <1>3
<1>5. ASSUME Wellformed PROVE Wellformed'
    BY <1>1, <1>4, <1>5 DEF Wellformed
<1>6. ASSUME Wellformed' PROVE Wellformed
    BY <1>1, <1>4, <1>6 DEF Wellformed
<1>7. \A f, g : Precedes(f, g)' <=> Precedes(f, g)
    BY DEF Precedes
<1>8. \A waiting : Deadlocked(waiting)' <=> Deadlocked(waiting)
    BY <1>3 DEF Deadlocked
<1>9. QED
    BY <1>1, <1>3, <1>5, <1>6, <1>7, <1>8

(* What is asked of a place depends on the places up to it only.           *)
LEMMA SamePlace ==
    ASSUME spec' = spec, NEW i \in Nat, \A j \in 1..i : generation'[j] = generation[j],
           InOrder(i), i > 0
    PROVE  InOrder(i)'
<1>1. Before(i)' = Before(i) /\ generation'[i] = generation[i]
    BY DEF Before
<1>2. /\ generation'[i] \in Fields' \ Before(i)'
      /\ Needs(generation[i])' \subseteq Before(i)'
    BY <1>1, SameSpec DEF InOrder
<1>3. ASSUME NEW f \in Fields' \ Before(i)', Needs(f)' \subseteq Before(i)'
      PROVE  f = generation[i] \/ Precedes(generation[i], f)'
    BY <1>1, <1>3, SameSpec DEF InOrder
<1>4. QED
    BY <1>1, <1>2, <1>3 DEF InOrder

LEMMA OrderStart == OrderInit => OrderInv
<1> SUFFICES ASSUME OrderInit PROVE OrderInv
    OBVIOUS
<1>1. generation = <<>> /\ stage = "raw" /\ Placed = {}
    BY DEF OrderInit, Placed
<1>2. PlacesInv
    BY <1>1, FS_EmptySet DEF OrderInit, PlacesInv
<1>3. OrderSound
    BY <1>1 DEF OrderSound
<1>4. QED
    BY <1>1, <1>2, <1>3 DEF OrderInv, CountsInv

(* Before anything is placed a field waits for every field it reads.       *)
LEMMA CountEdgesInv ==
    ASSUME OrderInv, CountEdges
    PROVE  OrderInv'
<1>1. spec' = spec /\ generation' = generation /\ generation = <<>> /\ stage = "raw"
    BY DEF OrderInv, PlacesInv, CountEdges
<1>2. Placed = {} /\ Placed' = {}
    BY <1>1 DEF Placed
<1>3. PlacesInv'
    BY <1>1, <1>2, FS_EmptySet DEF PlacesInv, OrderInv, Fields, CountEdges
<1>4. Fields' = Fields /\ (Wellformed' <=> Wellformed) /\ \A f : Needs(f)' = Needs(f)
    BY <1>1, SameSpec
<1>5. CASE Wellformed
    <2>1. /\ stage' = "sorting"
          /\ indegree' = [f \in Fields |-> Cardinality(Needs(f))]
          /\ ready' = {f \in Fields : Needs(f) = {}}
        BY <1>5 DEF CountEdges
    <2>2. \A f : Left(f)' = Needs(f)
        BY <1>2, <1>4 DEF Left
    <2>3. CountsInv'
        BY <1>2, <1>4, <1>5, <2>1, <2>2 DEF CountsInv
    <2>4. OrderSound'
        BY <1>1, <2>1 DEF OrderSound
    <2>5. QED
        BY <1>3, <2>3, <2>4 DEF OrderInv
<1>6. CASE ~Wellformed
    <2>1. stage' = "unsorted"
        BY <1>6 DEF CountEdges
    <2>2. QED
        BY <1>1, <1>3, <1>4, <1>6, <2>1 DEF OrderInv, CountsInv, OrderSound
<1>7. QED
    BY <1>5, <1>6

(* Placing a field takes one from the counters of the fields that read it. *)
LEMMA LeftUpdate ==
    ASSUME PlacesInv, NEW f \in Fields \ Placed, NEW g \in Fields
    PROVE  /\ IsFiniteSet(Left(g)) /\ Cardinality(Left(g)) \in Nat
           /\ Cardinality(Left(g) \ {f}) =
                IF g \in Readers(f) THEN Cardinality(Left(g)) - 1 ELSE Cardinality(Left(g))
           /\ Cardinality(Left(g)) = 1 /\ g \in Readers(f) <=> Left(g) = {f}
<1>1. IsFiniteSet(Left(g)) /\ Cardinality(Left(g)) \in Nat
    BY FieldsFinite, NeedsFields, FS_Subset, FS_CardinalityType DEF Left, PlacesInv
<1>2. g \in Readers(f) <=> f \in Left(g)
    BY DEF Readers, Left
<1>3. Cardinality(Left(g) \ {f}) = IF f \in Left(g) THEN Cardinality(Left(g)) - 1 ELSE Cardinality(Left(g))
    BY <1>1, FS_RemoveElement
<1>4. Cardinality(Left(g)) = 1 <=> \E x : Left(g) = {x}
    BY <1>1, FS_Singleton
<1>5. Cardinality(Left(g)) = 1 /\ f \in Left(g) <=> Left(g) = {f}
    BY <1>4
<1>6. QED
    BY <1>1, <1>2, <1>3, <1>5

LEMMA PopReadyInv ==
    ASSUME OrderInv, PopReady
    PROVE  OrderInv'
<1>1. PICK f \in ready :
          /\ \A g \in ready \ {f} : Precedes(f, g)
          /\ generation' = Append(generation, f)
          /\ indegree' = [g \in Fields |-> IF g \in Readers(f) THEN indegree[g] - 1 ELSE indegree[g]]
          /\ ready' = (ready \ {f}) \cup {g \in Readers(f) : indegree[g] = 1}
    BY DEF PopReady
<1>2. /\ spec' = spec /\ stage' = "sorting" /\ stage = "sorting" /\ Fields' = Fields
      /\ \A g : Needs(g)' = Needs(g)
      /\ \A g, h : Precedes(g, h)' <=> Precedes(g, h)
    BY SameSpec DEF PopReady
<1>3. /\ Wellformed
      /\ indegree = [g \in Fields |-> Cardinality(Left(g))]
      /\ ready = {g \in Fields \ Placed : Left(g) = {}}
    BY <1>2 DEF OrderInv, CountsInv
<1>4. f \in Fields \ Placed /\ Needs(f) \subseteq Placed
    BY <1>3 DEF Left
<1>5. generation \in Seq(Fields) /\ PlacesInv
    BY DEF OrderInv, PlacesInv
<1>n. PICK n \in Nat : n = Len(generation)
    BY <1>5
<1>6. /\ DOMAIN generation = 1..n /\ DOMAIN generation' = 1..(n + 1)
      /\ generation' \in Seq(Fields) /\ Len(generation') = n + 1 /\ generation'[n + 1] = f
      /\ \A i \in 1..n : generation'[i] = generation[i]
    BY <1>1, <1>4, <1>5, <1>n
<1>7. Placed' = Placed \cup {f}
    BY <1>6 DEF Placed
<1>8. PlacesInv'
    <2>1. IsFiniteSet(Placed') /\ Cardinality(Placed') = n + 1
        BY <1>4, <1>5, <1>7, <1>n, FS_AddElement DEF PlacesInv
    <2>2. QED
        BY <1>2, <1>5, <1>6, <2>1 DEF PlacesInv
<1>9. \A g : Left(g)' = Left(g) \ {f}
    BY <1>2, <1>7 DEF Left
<1>10. CountsInv'
    <2>1. Wellformed'
        BY <1>2, <1>3, SameSpec
    <2>2. \A g \in Fields : Cardinality(Left(g)') =
              IF g \in Readers(f) THEN Cardinality(Left(g)) - 1 ELSE Cardinality(Left(g))
        BY <1>4, <1>5, <1>9, LeftUpdate
    <2>3. indegree' = [g \in Fields |-> Cardinality(Left(g)')]
        BY <1>1, <1>3, <2>2
    <2>4. \A g \in Readers(f) : indegree[g] = 1 <=> Left(g) = {f}
        BY <1>3, <1>4, <1>5, LeftUpdate DEF Readers
    <2>5. \A g \in Readers(f) : g \notin Placed'
        <3>1. \A i \in 1..n : Needs(generation[i]) \subseteq Placed
            <4>1. \A i \in 1..n : Needs(generation[i]) \subseteq Before(i)
                BY <1>6 DEF OrderInv, OrderSound, InOrder
            <4>2. \A i \in 1..n : Before(i) \subseteq Placed
                BY <1>6 DEF Before, Placed
            <4>3. QED
                BY <4>1, <4>2
        <3>2. \A g \in Placed : f \notin Needs(g)
            BY <1>4, <1>6, <3>1 DEF Placed
        <3>3. f \notin Needs(f)
            BY <1>3, <1>4 DEF Wellformed
        <3>4. QED
            BY <1>7, <3>2, <3>3 DEF Readers
    <2>6. \A g \in Fields \ Placed' : Left(g)' = {} <=> Left(g) = {} \/ Left(g) = {f}
        BY <1>9
    <2>7. \A g \in Fields : Left(g) = {f} => g \in Readers(f)
        BY DEF Left, Readers
    <2>8. ready' = {g \in Fields \ Placed' : Left(g)' = {}}
        <3>1. ready \ {f} = {g \in Fields \ Placed' : Left(g) = {}}
            BY <1>3, <1>7
        <3>2. {g \in Readers(f) : indegree[g] = 1} = {g \in Fields \ Placed' : Left(g) = {f}}
            BY <2>4, <2>5, <2>7 DEF Readers
        <3>3. QED
            BY <1>1, <2>6, <3>1, <3>2
    <2>9. QED
        BY <1>2, <2>1, <2>3, <2>8 DEF CountsInv
<1>11. OrderSound'
    <2>1. Before(n + 1)' = Placed
        BY <1>6 DEF Before, Placed
    <2>2. ASSUME NEW i \in 1..n PROVE InOrder(i)'
        <3>1. InOrder(i)
            BY <1>6 DEF OrderInv, OrderSound
        <3>2. \A j \in 1..i : generation'[j] = generation[j]
            BY <1>6
        <3>3. QED
            BY <1>2, <1>6, <3>1, <3>2, SamePlace
    <2>3. InOrder(n + 1)'
        <3>1. \A g \in Fields \ Placed : Needs(g) \subseteq Placed => g \in ready
            BY <1>3 DEF Left
        <3>2. Needs(f)' \subseteq Before(n + 1)' /\ f \in Fields' \ Before(n + 1)'
            BY <1>2, <1>4, <2>1
        <3>3. ASSUME NEW g \in Fields' \ Before(n + 1)', Needs(g)' \subseteq Before(n + 1)'
              PROVE  g = f \/ Precedes(f, g)'
            BY <1>1, <1>2, <2>1, <3>1, <3>3
        <3>4. QED
            BY <1>6, <3>2, <3>3 DEF InOrder
    <2>4. \A i \in DOMAIN generation' : InOrder(i)'
        <3>1. \A i \in DOMAIN generation' : i \in 1..n \/ i = n + 1
            BY <1>6
        <3>2. QED
            BY <2>2, <2>3, <3>1
    <2>5. QED
        BY <1>2, <2>4 DEF OrderSound
<1>12. QED
    BY <1>8, <1>10, <1>11 DEF OrderInv

(* When the heap is empty, either all fields are placed or those that are  *)
(* left wait for one another.                                              *)
LEMMA HeapEmptyInv ==
    ASSUME OrderInv, HeapEmpty
    PROVE  OrderInv'
<1>1. /\ stage = "sorting" /\ ready = {} /\ spec' = spec /\ generation' = generation
      /\ stage' = IF Len(generation) = Len(spec) THEN "sorted" ELSE "unsorted"
    BY DEF HeapEmpty
<1>2. /\ Fields' = Fields /\ (Wellformed' <=> Wellformed) /\ Placed' = Placed
      /\ \A waiting : Deadlocked(waiting)' <=> Deadlocked(waiting)
    BY <1>1, SameSpec DEF Placed
<1>3. PlacesInv'
    BY <1>1, <1>2 DEF OrderInv, PlacesInv
<1>4. Wellformed /\ \A f \in Fields \ Placed : Left(f) # {}
    BY <1>1 DEF OrderInv, CountsInv
<1>5. Placed \subseteq Fields /\ PlacesInv
    BY DEF OrderInv, PlacesInv, Placed
<1>6. Len(generation) = Len(spec) => Placed = Fields
    BY <1>5, FieldsFinite, FS_Subset DEF PlacesInv
<1>7. Placed = Fields => Len(generation) = Len(spec)
    BY <1>5, FieldsFinite DEF PlacesInv
<1>8. Len(generation) # Len(spec) => Deadlocked(Fields \ Placed)
    <2>1. \A f \in Fields \ Placed : Needs(f) \cap (Fields \ Placed) # {}
        BY <1>4, NeedsFields DEF Left
    <2>2. QED
        BY <1>5, <1>7, <2>1 DEF Deadlocked
<1>10. OrderSound'
    <2>1. ASSUME NEW i \in DOMAIN generation' PROVE InOrder(i)'
        <3>1. i \in DOMAIN generation /\ i \in Nat /\ i > 0
            BY <1>1 DEF OrderInv, PlacesInv
        <3>2. InOrder(i)
            BY <3>1 DEF OrderInv, OrderSound
        <3>3. QED
            BY <1>1, <3>1, <3>2, SamePlace
    <2>2. stage' = "sorted" => Wellformed' /\ Placed' = Fields'
        BY <1>1, <1>2, <1>4, <1>6
    <2>3. stage' = "unsorted" => \E waiting \in SUBSET Fields' : Deadlocked(waiting)'
        BY <1>1, <1>2, <1>8
    <2>4. QED
        BY <2>1, <2>2, <2>3 DEF OrderSound
<1>11. CountsInv'
    BY <1>1 DEF CountsInv
<1>12. QED
    BY <1>3, <1>10, <1>11 DEF OrderInv

LEMMA StutterInv ==
    ASSUME OrderInv, UNCHANGED orderVars
    PROVE  OrderInv'
<1>1. /\ spec' = spec /\ indegree' = indegree /\ ready' = ready
      /\ generation' = generation /\ stage' = stage
    BY DEF orderVars
<1>2. /\ Fields' = Fields /\ (Wellformed' <=> Wellformed) /\ Placed' = Placed
      /\ \A f : Needs(f)' = Needs(f)
      /\ \A waiting : Deadlocked(waiting)' <=> Deadlocked(waiting)
    BY <1>1, SameSpec DEF Placed
<1>3. PlacesInv'
    BY <1>1, <1>2 DEF OrderInv, PlacesInv
<1>4. \A f : Left(f)' = Left(f)
    BY <1>2 DEF Left
<1>5. CountsInv'
    BY <1>1, <1>2, <1>4 DEF OrderInv, CountsInv
<1>6. ASSUME NEW i \in DOMAIN generation' PROVE InOrder(i)'
    <2>1. i \in DOMAIN generation /\ i \in Nat /\ i > 0
        BY <1>1 DEF OrderInv, PlacesInv
    <2>2. InOrder(i)
        BY <2>1 DEF OrderInv, OrderSound
    <2>3. QED
        BY <1>1, <2>1, <2>2, SamePlace
<1>7. OrderSound'
    BY <1>1, <1>2, <1>6 DEF OrderInv, OrderSound
<1>8. QED
    BY <1>3, <1>5, <1>7 DEF OrderInv

(* For every spec: the order built has each field after all it reads, in   *)
(* the priority asked for, and a spec is refused only if no order exists.  *)
THEOREM GenerationOrderSound == OrderSpec => []OrderSound
<1>1. OrderInit => OrderInv
    BY OrderStart
<1>2. OrderInv /\ [OrderNext]_orderVars => OrderInv'
    BY CountEdgesInv, PopReadyInv, HeapEmptyInv, StutterInv DEF OrderNext
<1>3. OrderInv => OrderSound
    BY DEF OrderInv
<1>4. QED
    BY <1>1, <1>2, <1>3, PTL DEF OrderSpec

-----------------------------------------------------------------------------
(* The powers of ten.  A recursive function on Nat is known to exist only   *)
(* by induction: p lists the powers up to the n-th.                        *)
ArePowers(p, n) ==
    /\ p \in [0..n -> Nat]
    /\ p[0] = 1
    /\ \A i \in 0..n - 1 : p[i + 1] = 10 * p[i]

LEMMA PowersExist == \A n \in Nat : \E p : ArePowers(p, n)
<1> DEFINE S == {n \in Nat : \E p : ArePowers(p, n)}
<1>1. 0 \in S
    <2>1. ArePowers([i \in 0..0 |-> 1], 0)
        BY DEF ArePowers
    <2>2. QED
        BY <2>1
<1>2. ASSUME NEW n \in Nat, n \in S PROVE n + 1 \in S
    <2>1. PICK p : ArePowers(p, n)
        BY <1>2
    <2> DEFINE q == [i \in 0..n + 1 |-> IF i = n + 1 THEN 10 * p[n] ELSE p[i]]
    <2>2. q \in [0..n + 1 -> Nat] /\ q[0] = 1
        BY <2>1 DEF ArePowers
    <2>3. ASSUME NEW i \in 0..(n + 1) - 1 PROVE q[i + 1] = 10 * q[i]
        <3>1. CASE i = n
            BY <2>1, <3>1 DEF ArePowers
        <3>2. CASE i # n
            BY <2>1, <3>2 DEF ArePowers
        <3>3. QED
            BY <3>1, <3>2
    <2> HIDE DEF q
    <2>4. ArePowers(q, n + 1)
        BY <2>2, <2>3 DEF ArePowers
    <2>5. QED
        BY <2>4
<1> HIDE DEF S
<1>3. \A n \in Nat : n \in S
    BY <1>1, <1>2, Induction
<1>4. QED
    BY <1>3 DEF S

LEMMA PowersAgree ==
    ASSUME NEW m \in Nat, NEW n \in Nat, NEW p, NEW q, ArePowers(p, m), ArePowers(q, n)
    PROVE  \A i \in Nat : i <= m /\ i <= n => p[i] = q[i]
<1> DEFINE S == {i \in Nat : i <= m /\ i <= n => p[i] = q[i]}
<1>1. 0 \in S
    BY DEF ArePowers
<1>2. ASSUME NEW i \in Nat, i \in S PROVE i + 1 \in S
    <2> SUFFICES ASSUME i + 1 <= m, i + 1 <= n PROVE p[i + 1] = q[i + 1]
        OBVIOUS
    <2>1. p[i + 1] = 10 * p[i] /\ q[i + 1] = 10 * q[i]
        BY DEF ArePowers
    <2>2. p[i] = q[i]
        BY <1>2
    <2>3. QED
        BY <2>1, <2>2
<1> HIDE DEF S
<1>3. \A i \in Nat : i \in S
    BY <1>1, <1>2, Induction
<1>4. QED
    BY <1>3 DEF S

(* TenTo is what its definition says. *)
LEMMA TenToUnfolds == TenTo = [n \in Nat |-> IF n = 0 THEN 1 ELSE 10 * TenTo[n - 1]]
<1> DEFINE F(f) == [n \in Nat |-> IF n = 0 THEN 1 ELSE 10 * f[n - 1]]
           Upto(n) == CHOOSE p : ArePowers(p, n)
           g == [n \in Nat |-> Upto(n)[n]]
<1>1. \A n \in Nat : ArePowers(Upto(n), n)
    BY PowersExist
<1> HIDE DEF Upto
<1>2. g[0] = 1
    BY <1>1 DEF ArePowers
<1>3. ASSUME NEW n \in Nat, n # 0 PROVE g[n] = 10 * g[n - 1]
    <2> DEFINE m == n - 1
    <2>1. m \in Nat /\ m + 1 = n /\ m <= n
        BY <1>3
    <2>2. ArePowers(Upto(n), n) /\ ArePowers(Upto(m), m)
        BY <1>1, <2>1
    <2>3. Upto(m)[m] = Upto(n)[m]
        BY <2>1, <2>2, PowersAgree
    <2>4. Upto(n)[m + 1] = 10 * Upto(n)[m]
        BY <2>1, <2>2 DEF ArePowers
    <2>5. QED
        BY <2>1, <2>3, <2>4
<1>4. g = F(g)
    <2> HIDE DEF g
    <2>1. g = [n \in Nat |-> g[n]]
        BY DEF g
    <2>2. QED
        BY <1>2, <1>3, <2>1
<1> HIDE DEF g
<1>5. TenTo = CHOOSE f : f = F(f)
    BY DEF TenTo
<1>6. QED
    BY <1>4, <1>5

LEMMA TenToSteps == TenTo[0] = 1 /\ \A n \in Nat : TenTo[n + 1] = 10 * TenTo[n]
BY TenToUnfolds

LEMMA TenToType == \A n \in Nat : TenTo[n] \in Nat /\ TenTo[n] >= 1
<1> DEFINE S == {n \in Nat : TenTo[n] \in Nat /\ TenTo[n] >= 1}
<1>1. 0 \in S
    BY TenToSteps
<1>2. ASSUME NEW n \in Nat, n \in S PROVE n + 1 \in S
    BY <1>2, TenToSteps
<1> HIDE DEF S
<1>3. \A n \in Nat : n \in S
    BY <1>1, <1>2, Induction
<1>4. QED
    BY <1>3 DEF S

(* 10^(m + n) = 10^m * 10^n *)
LEMMA TenToSum == \A m, n \in Nat : TenTo[m + n] = TenTo[m] * TenTo[n]
<1> SUFFICES ASSUME NEW m \in Nat PROVE \A n \in Nat : TenTo[m + n] = TenTo[m] * TenTo[n]
    OBVIOUS
<1> DEFINE S == {n \in Nat : TenTo[m + n] = TenTo[m] * TenTo[n]}
<1>1. 0 \in S
    BY TenToSteps, TenToType
<1>2. ASSUME NEW n \in Nat, n \in S PROVE n + 1 \in S
    <2>1. m + n \in Nat /\ m + (n + 1) = (m + n) + 1
        OBVIOUS
    <2>2. TenTo[(m + n) + 1] = 10 * TenTo[m + n] /\ TenTo[n + 1] = 10 * TenTo[n]
        BY <2>1, TenToSteps
    <2>3. TenTo[m] \in Int /\ TenTo[n] \in Int
        BY TenToType
    <2>4. \A a, b \in Int : 10 * (a * b) = a * (10 * b)
        OBVIOUS
    <2>5. 10 * (TenTo[m] * TenTo[n]) = TenTo[m] * (10 * TenTo[n])
        BY <2>3, <2>4
    <2>6. QED
        BY <1>2, <2>1, <2>2, <2>5
<1> HIDE DEF S
<1>3. \A n \in Nat : n \in S
    BY <1>1, <1>2, Induction
<1>4. QED
    BY <1>3 DEF S

-----------------------------------------------------------------------------
(* Conversions.                                                            *)

(* Division by a positive number, as rescaling and rounding use it. *)
LEMMA DivMod ==
    ASSUME NEW n \in Int, NEW d \in Nat, d >= 1
    PROVE  /\ n \div d \in Int /\ n % d \in 0..d - 1
           /\ n = d * (n \div d) + (n % d)
<1>1. n % d \in 0..d - 1
    OBVIOUS
<1>2. n \div d \in Int
    OBVIOUS
<1>3. n = d * (n \div d) + (n % d)
    OBVIOUS
<1>4. QED
    BY <1>1, <1>2, <1>3

LEMMA MultipleHasNoRest ==
    ASSUME NEW q \in Int, NEW d \in Nat, d >= 1
    PROVE  (q * d) % d = 0 /\ (q * d) \div d = q
<1> DEFINE n == q * d
           a == n \div d
           r == n % d
<1>1. n \in Int
    OBVIOUS
<1>2. a \in Int /\ r \in 0..d - 1 /\ n = d * a + r
    BY <1>1, DivMod
<1> HIDE DEF a, r
<1>3. r = d * (q - a)
    BY <1>2
<1> DEFINE e == q - a
<1>4. e \in Int /\ r = d * e
    BY <1>2, <1>3
<1> HIDE DEF e
<1>5. CASE e >= 1
    <2>1. d * e >= d
        BY <1>4, <1>5
    <2>2. QED
        BY <1>2, <1>4, <2>1
<1>6. CASE e <= -1
    <2>1. d * e <= -d
        BY <1>4, <1>6
    <2>2. QED
        BY <1>2, <1>4, <2>1
<1>7. CASE e = 0
    BY <1>2, <1>4, <1>7 DEF a, r, e
<1>8. QED
    BY <1>4, <1>5, <1>6, <1>7

(* Trunc is exact where there is no rest. *)
LEMMA TruncExact ==
    ASSUME NEW n \in Int, NEW d \in Nat, d >= 1, n % d = 0
    PROVE  Trunc(n, d) \in Int /\ Trunc(n, d) * d = n
<1>1. CASE n >= 0
    <2>1. n = d * (n \div d) + (n % d) /\ n \div d \in Int
        BY DivMod
    <2>2. Trunc(n, d) = n \div d
        BY <1>1 DEF Trunc
    <2>3. QED
        BY <2>1, <2>2
<1>2. CASE n < 0
    <2> DEFINE q == n \div d
    <2>1. n = d * q + 0 /\ q \in Int
        BY DivMod
    <2> HIDE DEF q
    <2>2. -n = (-q) * d /\ -q \in Int
        BY <2>1
    <2>3. (-n) \div d = -q
        BY <2>2, MultipleHasNoRest
    <2>4. Trunc(n, d) = -(-q)
        BY <1>2, <2>3 DEF Trunc
    <2>5. QED
        BY <2>1, <2>4
<1>3. QED
    BY <1>1, <1>2

(* An Ok is not an error, and holds one value. *)
LEMMA OkIsOne == \A x, y : Ok(x) # Err /\ (Ok(x) = Ok(y) => x = y)
BY DEF Ok, Err

LEMMA AbsType == \A n \in Int : Abs(n) \in Nat
BY DEF Abs

(* A typed decimal arrives with every digit and in its precision, or not   *)
(* at all.                                                                 *)
LEMMA RescaleExact ==
    ASSUME NEW units \in Int, NEW from \in Nat, NEW precision \in Nat, NEW scale \in Nat, NEW x,
           rescale_decimal(units, from, precision, scale) = Ok(x)
    PROVE  /\ x \in Int /\ x * TenTo[from] = units * TenTo[scale]
           /\ Abs(x) < TenTo[precision]
<1> DEFINE unscaled == IF from <= scale THEN units * TenTo[scale - from]
                                        ELSE Trunc(units, TenTo[from - scale])
<1>1. /\ x = unscaled /\ FitsPrecision(unscaled, precision)
      /\ from > scale => units % TenTo[from - scale] = 0
    BY DEF rescale_decimal, Ok, Err
<1>2. TenTo[from] \in Int /\ TenTo[scale] \in Int
    BY TenToType
<1>3. CASE from <= scale
    <2> DEFINE d == scale - from
    <2>1. d \in Nat /\ from + d = scale
        BY <1>3
    <2>2. TenTo[d] \in Int /\ TenTo[from + d] = TenTo[from] * TenTo[d]
        <3>1. d \in Nat /\ from \in Nat
            BY <2>1
        <3> HIDE DEF d
        <3>2. TenTo[from + d] = TenTo[from] * TenTo[d]
            BY ONLY <3>1, TenToSum
        <3>3. QED
            BY <3>1, <3>2, TenToType
    <2>3. x = units * TenTo[d]
        BY <1>1, <1>3
    <2> HIDE DEF d
    <2>4. \A a, b \in Int : (units * b) * a = units * (a * b)
        OBVIOUS
    <2>5. x \in Int /\ x * TenTo[from] = units * TenTo[scale]
        BY <1>2, <2>1, <2>2, <2>3, <2>4
    <2>6. QED
        BY <1>1, <2>5 DEF FitsPrecision
<1>4. CASE from > scale
    <2> DEFINE d == from - scale
    <2>1. d \in Nat /\ scale + d = from
        BY <1>4
    <2>2. TenTo[d] \in Nat /\ TenTo[d] >= 1 /\ TenTo[scale + d] = TenTo[scale] * TenTo[d]
        BY <2>1, TenToSum, TenToType
    <2>3. x = Trunc(units, TenTo[d]) /\ units % TenTo[d] = 0
        BY <1>1, <1>4
    <2> HIDE DEF d
    <2>4. x \in Int /\ x * TenTo[d] = units
        BY <2>2, <2>3, TruncExact
    <2>5. \A a, b \in Int : x * (a * b) = (x * b) * a
        BY <2>4
    <2>6. x * TenTo[from] = units * TenTo[scale]
        BY <1>2, <2>1, <2>2, <2>4, <2>5
    <2>7. QED
        BY <1>1, <2>4, <2>6 DEF FitsPrecision
<1>5. QED
    BY <1>3, <1>4

(* What a decimal is read from holds a number. *)
LEMMA DecimalTextNumbers ==
    ASSUME NEW v, ValueHasNumbers(v), NEW t, DecimalText(v) = Ok(t)
    PROVE  t = Text(v) /\ t.units \in Int /\ t.scale \in Nat
<1>1. t = Text(v)
    BY OkIsOne DEF DecimalText
<1>6. v.k \in {"int", "dec", "float"} \/ (v.k = "str" /\ v.text.t = "num")
    BY OkIsOne DEF DecimalText
<1>2. CASE v.k = "int"
    BY <1>1, <1>2 DEF Text, Digits, ValueHasNumbers
<1>3. CASE v.k = "dec"
    BY <1>1, <1>3 DEF Text, Digits, ValueHasNumbers
<1>4. CASE v.k = "float"
    <2>1. v.halves \in Int /\ Trunc(v.halves, 2) \in Int
        BY <1>4 DEF ValueHasNumbers, Trunc
    <2>2. CASE v.halves % 2 = 0
        BY <1>1, <1>4, <2>1, <2>2 DEF Text, Digits
    <2>3. CASE v.halves % 2 # 0
        BY <1>1, <1>4, <2>1, <2>3 DEF Text, Digits
    <2>4. QED
        BY <2>2, <2>3
<1>5. CASE v.k = "str" /\ v.text.t = "num"
    BY <1>1, <1>5 DEF Text, ValueHasNumbers
<1>7. QED
    BY <1>1, <1>2, <1>3, <1>4, <1>5, <1>6

(* The path through text loses no digit either. *)
LEMMA PaddedExact ==
    ASSUME NEW v, ValueHasNumbers(v), NEW scale \in Nat, NEW x, PaddedUnits(v, scale) = Ok(x)
    PROVE  x \in Int /\ x * TenTo[Text(v).scale] = Text(v).units * TenTo[scale]
<1> DEFINE t == Text(v)
<1>1. DecimalText(v) = Ok(t)
    BY DEF PaddedUnits, Then, IsOk, DecimalText, Ok, Err
<1>2. t.units \in Int /\ t.scale \in Nat
    BY <1>1, DecimalTextNumbers
<1>3. t.scale <= scale /\ x = t.units * TenTo[scale - t.scale]
    BY <1>1 DEF PaddedUnits, Then, IsOk, Ok, Err
<1> HIDE DEF t
<1> DEFINE d == scale - t.scale
<1>4. d \in Nat /\ t.scale + d = scale
    BY <1>2, <1>3
<1>5. TenTo[d] \in Int /\ TenTo[t.scale] \in Int
    BY <1>2, <1>4, TenToType
<1> DEFINE a == t.scale
<1>10. TenTo[a + d] = TenTo[a] * TenTo[d]
    <2> HIDE DEF a, d
    <2>1. a \in Nat /\ d \in Nat
        BY <1>2, <1>4 DEF a
    <2>2. QED
        BY <2>1, TenToSum
<1>6. \A i, j, k \in Int : (i * j) * k = i * (k * j)
    OBVIOUS
<1>7. x * TenTo[t.scale] = t.units * TenTo[scale]
    BY <1>2, <1>3, <1>4, <1>5, <1>6, <1>10
<1>8. x \in Int
    BY <1>2, <1>3, <1>5
<1>9. QED
    BY <1>7, <1>8 DEF t

LEMMA DecimalExact ==
    ASSUME NEW ty, NEW v, ValueHasNumbers(v), TypeHasParameters(ty), ty.k = "DECIMAL",
           NEW x, Cell(ty, v) = Ok(x)
    PROVE  Exact(ty, v, <<x>>)
<1>1. ty.p \in Nat /\ ty.s \in Nat
    BY DEF TypeHasParameters
<1>2. Cell(ty, v) = IF ty.p <= DECIMAL128_MAX_PRECISION THEN as_decimal(v, ty.p, ty.s)
                                                        ELSE as_decimal256(v, ty.p, ty.s)
    BY WidthsNest DEF Cell
<1>3. SUFFICES x * TenTo[Text(v).scale] = Text(v).units * TenTo[ty.s] /\ Abs(x) < TenTo[ty.p]
    BY DEF Exact
<1>4. CASE as_decimal(v, ty.p, ty.s) = Ok(x) /\ v.k = "dec"
    <2>1. rescale_decimal(v.units, v.scale, ty.p, ty.s) = Ok(x)
        BY <1>4 DEF as_decimal
    <2>2. v.units \in Int /\ v.scale \in Nat
        BY <1>4 DEF ValueHasNumbers
    <2>3. Text(v) = Digits(v.units, v.scale)
        BY <1>4 DEF Text
    <2>4. QED
        BY <1>1, <2>1, <2>2, <2>3, RescaleExact DEF Digits
<1>5. CASE as_decimal(v, ty.p, ty.s) = Ok(x) /\ v.k = "int"
    <2>1. rescale_decimal(v.n, 0, ty.p, ty.s) = Ok(x)
        BY <1>5 DEF as_decimal
    <2>2. v.n \in Int
        BY <1>5 DEF ValueHasNumbers
    <2>3. Text(v) = Digits(v.n, 0)
        BY <1>5 DEF Text
    <2>4. QED
        BY <1>1, <2>1, <2>2, <2>3, RescaleExact DEF Digits
<1>6. CASE PaddedUnits(v, ty.s) = Ok(x) /\ FitsPrecision(x, ty.p)
    BY <1>1, <1>6, PaddedExact DEF FitsPrecision
<1>7. CASE as_decimal(v, ty.p, ty.s) = Ok(x) /\ v.k \notin {"dec", "int"}
    <2>1. PaddedUnits(v, ty.s) = Ok(x) /\ FitsPrecision(x, ty.p)
        BY <1>7 DEF as_decimal, Provided, IsOk, Ok, Err
    <2>2. QED
        BY <1>6, <2>1
<1>8. CASE as_decimal256(v, ty.p, ty.s) = Ok(x)
    <2>1. PaddedUnits(v, ty.s) = Ok(x) /\ FitsPrecision(x, ty.p)
        BY <1>8 DEF as_decimal256, Provided, IsOk, Ok, Err
    <2>2. QED
        BY <1>6, <2>1
<1>9. QED
    BY <1>2, <1>4, <1>5, <1>7, <1>8

(* A moment is cut down to the unit it falls into. *)
LEMMA FloorsIntoUnit ==
    ASSUME NEW m \in Int, NEW u \in Nat, u >= 1
    PROVE  /\ ((m \div u) * u) % u = 0
           /\ m \in (m \div u) * u..(m \div u) * u + u - 1
<1> DEFINE q == m \div u
           r == m % u
<1>1. q \in Int /\ r \in 0..u - 1 /\ m = u * q + r
    BY DivMod
<1> HIDE DEF q, r
<1>2. q * u \in Int /\ q * u = u * q
    BY <1>1
<1>3. m \in q * u..q * u + u - 1
    BY <1>1, <1>2
<1>4. (q * u) % u = 0
    BY <1>1, MultipleHasNoRest
<1>5. QED
    BY <1>3, <1>4 DEF q

LEMMA DayType == MicrosPerDay \in Nat /\ MicrosPerDay >= 1
<1>1. TenTo[SubSecond] \in Nat /\ TenTo[SubSecond] >= 1
    BY TenToType, WidthsNest
<1>2. SecondsPerDay \in Nat /\ SecondsPerDay >= 1
    BY WidthsNest
<1>3. QED
    BY <1>1, <1>2 DEF MicrosPerDay, MicrosPerSecond

LEMMA MomentExact ==
    ASSUME NEW ty, NEW v, ValueHasNumbers(v), TypeHasParameters(ty),
           ty.k \in {"DATE", "DATETIME"}, v.k = "ts", NEW x, Cell(ty, v) = Ok(x)
    PROVE  Exact(ty, v, <<x>>)
<1>1. v.micros \in Int /\ as_timestamp_micros(v) = Ok(v.micros)
    BY DEF ValueHasNumbers, as_timestamp_micros
<1>2. CASE ty.k = "DATE"
    <2> DEFINE date == as_date(v)
    <2>1. Cell(ty, v) = Provided(date, LAMBDA d : d \in MIN_DATE_DAYS..MAX_DATE_DAYS)
        BY <1>2, WidthsNest DEF Cell
    <2> HIDE DEF date
    <2>2. Cell(ty, v) \in {date, Err}
        BY <2>1 DEF Provided
    <2>3. date = Ok(x)
        BY <2>2, OkIsOne
    <2>4. as_date(v) = Ok(x)
        BY <2>3 DEF date
    <2>5. x = v.micros \div MicrosPerDay
        BY <1>1, <2>4 DEF as_date, Then, IsOk, Ok, Err
    <2>6. QED
        BY <1>1, <1>2, <2>5, DayType, FloorsIntoUnit DEF Exact
<1>3. CASE ty.k = "DATETIME"
    <2> DEFINE unit == TenTo[SubSecond - ty.s]
    <2>1. unit \in Nat /\ unit >= 1
        <3>1. SubSecond - ty.s \in Nat
            BY <1>3, WidthsNest DEF TypeHasParameters
        <3>2. QED
            BY <3>1, TenToType
    <2>2. Cell(ty, v) = Then(as_timestamp_micros(v), LAMBDA m :
                   IF m \in MIN_DATE_DAYS * MicrosPerDay .. (MAX_DATE_DAYS + 1) * MicrosPerDay - 1
                   THEN Ok((m \div unit) * unit) ELSE Err)
        BY <1>3, WidthsNest DEF Cell
    <2> DEFINE Rounded(m) ==
            IF m \in MIN_DATE_DAYS * MicrosPerDay .. (MAX_DATE_DAYS + 1) * MicrosPerDay - 1
            THEN Ok((m \div unit) * unit) ELSE Err
    <2>6. Cell(ty, v) = Rounded(v.micros)
        <3> HIDE DEF unit
        <3>1. QED
            BY <1>1, <2>2 DEF Then, IsOk, Ok, Err
    <2>3. x = (v.micros \div unit) * unit
        BY <2>6, OkIsOne
    <2>4. Exact(ty, v, <<x>>) = /\ x % unit = 0
                                /\ v.micros \in x..(x + unit - 1)
        BY <1>3 DEF Exact
    <2> HIDE DEF unit
    <2>5. QED
        BY <1>1, <2>1, <2>3, <2>4, FloorsIntoUnit
<1>4. QED
    BY <1>2, <1>3

(* Every value a scalar column takes is kept exactly. *)
LEMMA CellExact ==
    ASSUME NEW ty, NEW v, ValueHasNumbers(v), TypeHasParameters(ty), NEW x, Cell(ty, v) = Ok(x)
    PROVE  Exact(ty, v, <<x>>)
<1>1. CASE ty.k = "DECIMAL"
    BY <1>1, DecimalExact
<1>2. CASE ty.k \in {"DATE", "DATETIME"} /\ v.k = "ts"
    BY <1>2, MomentExact
<1>3. CASE ty.k # "DECIMAL" /\ v.k # "ts"
    BY <1>3 DEF Exact
<1>4. CASE ty.k # "DECIMAL" /\ ty.k \notin {"DATE", "DATETIME"}
    BY <1>4 DEF Exact
<1>5. QED
    BY <1>1, <1>2, <1>3, <1>4

-----------------------------------------------------------------------------
(* The builder.                                                            *)

IsSequence(s) == \E S : s \in Seq(S)

LEMMA AppendToSequence ==
    ASSUME NEW s, IsSequence(s), NEW x
    PROVE  /\ Len(s) \in Nat /\ IsSequence(Append(s, x))
           /\ Len(Append(s, x)) = Len(s) + 1
           /\ \A i \in 1..Len(s) : Append(s, x)[i] = s[i]
           /\ Append(s, x)[Len(s) + 1] = x
<1>1. PICK S : s \in Seq(S)
    BY DEF IsSequence
<1> DEFINE T == S \cup {x}
<1>2. s \in Seq(T) /\ x \in T
    BY <1>1
<1> HIDE DEF T
<1>3. Append(s, x) \in Seq(T)
    BY <1>2
<1>4. QED
    BY <1>2, <1>3 DEF IsSequence

(* Column c holds, value by value, what it keeps of the rows in from.       *)
Keeps(slots, from, n, c) ==
    /\ Len(slots) = n
    /\ \A i \in 1..n :
          /\ from[i][c] \in Values /\ Takes(c, from[i][c])
          /\ slots[i] = Store(columns[c].ty, from[i][c])[1]

TableInv ==
    /\ columns # <<>> /\ columns \in Seq({columns[c] : c \in DOMAIN columns})
    /\ \A c \in DOMAIN columns : columns[c].ty \in Types

(* Between two rows every column, nested or not, holds all rows taken, and  *)
(* no other.  A row refused half way leaves uneven columns behind, but also *)
(* ends the task.                                                          *)
RowsInv ==
    /\ rows \in Nat /\ IsSequence(taken) /\ Len(taken) = rows
    /\ \A c \in DOMAIN columns : IsSequence(builders[c])
    /\ pc # "failed" => \A c \in DOMAIN columns : Keeps(builders[c], taken, rows, c)

(* array is what column c finishes to when it holds the rows in from.       *)
FinishedFrom(array, from, n, c) ==
    \E stored : /\ IsSequence(stored) /\ Keeps(stored, from, n, c)
                /\ IsOk(FinishColumn(columns[c].ty, stored))
                /\ array = FinishColumn(columns[c].ty, stored)[1]

(* What was handed over of a column is the array of the rows it held. *)
BatchInv ==
    /\ Len(batch.from) = batch.rows
    /\ \A c \in DOMAIN batch.arrays :
          /\ c \in DOMAIN columns
          /\ FinishedFrom(batch.arrays[c], batch.from, batch.rows, c)

BuilderInv == TableInv /\ RowsInv /\ BatchInv

LEMMA BuilderStart == BuilderInit => BuilderInv
<1> SUFFICES ASSUME BuilderInit PROVE BuilderInv
    OBVIOUS
<1>1. IsSequence(<<>>) /\ Len(<<>>) = 0
    <2>1. <<>> \in Seq({})
        OBVIOUS
    <2>2. QED
        BY <2>1 DEF IsSequence
<1>2. TableInv
    BY DEF BuilderInit, TableInv
<1>3. \A c \in DOMAIN columns : builders[c] = <<>>
    BY DEF BuilderInit, Empty
<1>4. \A c \in DOMAIN columns : IsSequence(builders[c]) /\ Keeps(builders[c], taken, rows, c)
    BY <1>1, <1>3 DEF BuilderInit, NoRows, Keeps
<1>5. RowsInv
    BY <1>1, <1>4 DEF BuilderInit, NoRows, RowsInv
<1>6. BatchInv
    BY <1>1 DEF BuilderInit, NoRows, NoBatch, BatchInv
<1>7. QED
    BY <1>2, <1>5, <1>6 DEF BuilderInv

(* A row goes into every column, or ends the task. *)
LEMMA AppendKeepsRows ==
    ASSUME BuilderInv, NEW row, \A c \in DOMAIN columns : row[c] \in Values, AppendTo(row)
    PROVE  RowsInv'
<1> DEFINE refusing == {c \in DOMAIN columns : ~Takes(c, row[c])}
           first == CHOOSE c \in refusing : \A d \in refusing : c <= d
           stored(c) == Store(columns[c].ty, row[c])[1]
<1>1. pc = "rows" /\ UNCHANGED columns
    BY DEF AppendTo
<1>2. rows \in Nat /\ Len(taken) = rows /\ IsSequence(taken)
    BY DEF BuilderInv, RowsInv
<1>3. DOMAIN columns = 1..Len(columns) /\ Len(columns) \in Nat
    BY DEF BuilderInv, TableInv
<1>4. ASSUME NEW c \in DOMAIN columns
      PROVE  IsSequence(builders[c]) /\ Keeps(builders[c], taken, rows, c)
    BY <1>1 DEF BuilderInv, RowsInv
<1>5. CASE refusing = {}
    <2>1. builders' = Appended(row, Len(columns)) /\ rows' = rows + 1 /\ taken' = Append(taken, row)
        BY <1>5 DEF AppendTo
    <2>2. IsSequence(taken') /\ Len(taken') = rows'
        BY <1>2, <2>1, AppendToSequence
    <2>3. ASSUME NEW c \in DOMAIN columns
          PROVE  IsSequence(builders'[c]) /\ Keeps(builders[c], taken, rows, c)'
        <3>1. builders'[c] = Append(builders[c], stored(c))
            BY <1>3, <2>1 DEF Appended
        <3>2. /\ IsSequence(builders'[c]) /\ Len(builders'[c]) = rows'
              /\ builders'[c][rows + 1] = stored(c)
              /\ \A i \in 1..rows : builders'[c][i] = builders[c][i]
            BY <1>4, <2>1, <3>1, AppendToSequence DEF Keeps
        <3>3. taken'[rows + 1] = row /\ \A i \in 1..rows : taken'[i] = taken[i]
            BY <1>2, <2>1, AppendToSequence
        <3>4. Takes(c, row[c]) /\ row[c] \in Values
            BY <1>5
        <3>5. ASSUME NEW i \in 1..rows'
              PROVE  /\ taken'[i][c] \in Values /\ Takes(c, taken'[i][c])
                     /\ builders'[c][i] = Store(columns[c].ty, taken'[i][c])[1]
            <4>1. CASE i = rows + 1
                BY <3>2, <3>3, <3>4, <4>1
            <4>2. CASE i \in 1..rows
                BY <1>4, <3>2, <3>3, <4>2 DEF Keeps
            <4>3. i = rows + 1 \/ i \in 1..rows
                BY <1>2, <2>1
            <4>4. QED
                BY <4>1, <4>2, <4>3
        <3>6. \A i \in 1..rows' :
                 /\ (taken[i][c] \in Values)' /\ Takes(c, taken[i][c])'
                 /\ builders'[c][i] = Store(columns[c].ty, taken[i][c])'[1]
            BY <1>1, <3>5 DEF Takes, Accepts
        <3>7. QED
            BY <3>2, <3>6 DEF Keeps
    <2>4. QED
        BY <1>1, <1>2, <2>1, <2>2, <2>3 DEF RowsInv
<1>6. CASE refusing # {}
    <2>1. builders' = Appended(row, first - 1) /\ pc' = "failed" /\ UNCHANGED <<rows, taken>>
        BY <1>6 DEF AppendTo
    <2>2. ASSUME NEW c \in DOMAIN columns PROVE IsSequence(builders'[c])
        <3>1. builders'[c] = Append(builders[c], stored(c)) \/ builders'[c] = builders[c]
            <4>1. PICK upto : builders' = Appended(row, upto)
                BY <2>1
            <4>2. QED
                BY <4>1, Zenon DEF Appended
        <3>2. IsSequence(builders[c])
            BY <1>4
        <3>3. IsSequence(Append(builders[c], stored(c)))
            <4> HIDE DEF stored
            <4>1. QED
                BY <3>2, AppendToSequence
        <3>4. QED
            BY <3>1, <3>2, <3>3
    <2>3. QED
        BY <1>1, <1>2, <2>1, <2>2 DEF RowsInv
<1>7. QED
    BY <1>5, <1>6

(* The arrays of a batch, where the columns could be finished. *)
LEMMA FinishedArrays ==
    ASSUME NEW arrays, FinishedColumns = Ok(arrays)
    PROVE  /\ DOMAIN arrays = DOMAIN columns
           /\ \A c \in DOMAIN columns : /\ IsOk(FinishColumn(columns[c].ty, builders[c]))
                                        /\ arrays[c] = FinishColumn(columns[c].ty, builders[c])[1]
<1> DEFINE rs == [c \in DOMAIN columns |-> FinishColumn(columns[c].ty, builders[c])]
<1>1. arrays = [c \in DOMAIN rs |-> rs[c][1]] /\ \A c \in DOMAIN rs : IsOk(rs[c])
    BY OkIsOne DEF FinishedColumns, Collect
<1>2. QED
    BY <1>1

LEMMA FinishKeepsRows ==
    ASSUME BuilderInv, FinishBatch
    PROVE  BuilderInv'
<1>1. pc = "rows" /\ UNCHANGED columns
    BY DEF FinishBatch
<1>2. TableInv'
    BY <1>1 DEF BuilderInv, TableInv
<1>3. CASE UNCHANGED progress
    BY <1>1, <1>2, <1>3 DEF BuilderInv, RowsInv, BatchInv, FinishedFrom, Keeps, Takes, Accepts, progress
<1>4. CASE /\ IsOk(FinishedColumns)
           /\ batch' = [rows |-> rows, arrays |-> FinishedColumns[1], from |-> taken]
           /\ builders' = Empty /\ rows' = 0 /\ taken' = <<>>
    <2>1. IsSequence(<<>>) /\ Len(<<>>) = 0
        <3>1. <<>> \in Seq({})
            OBVIOUS
        <3>2. QED
            BY <3>1 DEF IsSequence
    <2>2. RowsInv'
        BY <1>1, <1>4, <2>1 DEF RowsInv, Keeps, Empty
    <2>3. FinishedColumns = Ok(FinishedColumns[1])
        BY <1>4 DEF FinishedColumns, Collect, IsOk, Ok
    <2>4. ASSUME NEW c \in DOMAIN batch'.arrays
          PROVE  /\ c \in DOMAIN columns
                 /\ FinishedFrom(batch'.arrays[c], batch'.from, batch'.rows, c)
        <3>1. batch'.arrays = FinishedColumns[1] /\ batch'.from = taken /\ batch'.rows = rows
            BY <1>4
        <3>2. c \in DOMAIN columns
            BY <2>3, <3>1, FinishedArrays
        <3>3. /\ IsOk(FinishColumn(columns[c].ty, builders[c]))
              /\ batch'.arrays[c] = FinishColumn(columns[c].ty, builders[c])[1]
            BY <2>3, <3>1, <3>2, FinishedArrays
        <3>4. IsSequence(builders[c]) /\ Keeps(builders[c], taken, rows, c)
            BY <1>1, <3>2 DEF BuilderInv, RowsInv
        <3>5. QED
            BY <3>1, <3>2, <3>3, <3>4 DEF FinishedFrom
    <2>5. Len(batch'.from) = batch'.rows
        BY <1>4 DEF BuilderInv, RowsInv
    <2>6. BatchInv'
        BY <1>1, <2>4, <2>5 DEF BatchInv, FinishedFrom, Keeps, Takes, Accepts
    <2>7. QED
        BY <1>2, <2>2, <2>6 DEF BuilderInv
<1>5. QED
    BY <1>3, <1>4 DEF FinishBatch

LEMMA BuilderStep ==
    ASSUME BuilderInv, [BuilderNext]_builderVars
    PROVE  BuilderInv'
<1>1. CASE UNCHANGED builderVars
    BY <1>1 DEF BuilderInv, TableInv, RowsInv, BatchInv, FinishedFrom, Keeps, Takes, Accepts, builderVars, progress
<1>2. ASSUME NEW row, \A c \in DOMAIN columns : row[c] \in Values, AppendTo(row)
      PROVE  BuilderInv'
    <2>1. RowsInv'
        BY <1>2, AppendKeepsRows
    <2>2. TableInv' /\ BatchInv'
        BY <1>2 DEF BuilderInv, TableInv, BatchInv, AppendTo, FinishedFrom, Keeps, Takes, Accepts
    <2>3. QED
        BY <2>1, <2>2 DEF BuilderInv
<1>3. CASE FinishBatch
    BY <1>3, FinishKeepsRows
<1>4. CASE EndTask
    <2>1. pc = "rows" /\ UNCHANGED <<columns, builders, rows, taken, batch>>
        BY <1>4 DEF EndTask, progress
    <2>2. QED
        BY <2>1 DEF BuilderInv, TableInv, RowsInv, BatchInv, FinishedFrom, Keeps, Takes, Accepts
<1>5. CASE GenerateFails
    <2>1. pc = "rows" /\ UNCHANGED <<columns, builders, rows, taken, batch>>
        BY <1>5 DEF GenerateFails, progress
    <2>2. QED
        BY <2>1 DEF BuilderInv, TableInv, RowsInv, BatchInv, FinishedFrom, Keeps, Takes, Accepts
<1>6. QED
    BY <1>1, <1>2, <1>3, <1>4, <1>5 DEF BuilderNext

LEMMA BuilderInvariant == BuilderSpec => []BuilderInv
BY BuilderStart, BuilderStep, PTL DEF BuilderSpec

(* What is kept of a value is nothing for null, and else what it converts to.  *)
LEMMA StoreScalar ==
    ASSUME NEW ty, ~Nested(ty), NEW v, IsOk(Store(ty, v))
    PROVE  /\ IsNull(v) => Store(ty, v)[1] = <<>>
           /\ ~IsNull(v) => IsOk(Cell(ty, v)) /\ Store(ty, v)[1] = <<Cell(ty, v)[1]>>
<1>1. CASE IsNull(v)
    BY <1>1 DEF Store, Ok
<1>2. CASE ~IsNull(v)
    <2>1. Store(ty, v) = IF IsOk(Cell(ty, v)) THEN Ok(<<Cell(ty, v)[1]>>) ELSE Err
        BY <1>2 DEF Store, Then
    <2>2. IsOk(Cell(ty, v)) /\ Store(ty, v) = Ok(<<Cell(ty, v)[1]>>)
        BY <2>1 DEF IsOk
    <2>3. Store(ty, v)[1] = <<Cell(ty, v)[1]>>
        BY <2>2 DEF Ok
    <2>4. QED
        BY <1>2, <2>2, <2>3
<1>3. QED
    BY <1>1, <1>2

(* A conversion the exactness is about answers one value or an error. *)
LEMMA CellIsResult ==
    ASSUME NEW ty, ty.k \in {"DECIMAL", "DATE", "DATETIME"}, NEW v, IsOk(Cell(ty, v))
    PROVE  Cell(ty, v) = Ok(Cell(ty, v)[1])
<1>1. \A x : Ok(x)[1] = x
    BY DEF Ok
<1>2. as_timestamp_micros(v) = Err \/ \E x : as_timestamp_micros(v) = Ok(x)
    BY DEF as_timestamp_micros
<1>3. CASE ty.k = "DECIMAL"
    <2>1. Cell(ty, v) = as_decimal(v, ty.p, ty.s) \/ Cell(ty, v) = as_decimal256(v, ty.p, ty.s)
        BY <1>3, WidthsNest DEF Cell
    <2>2. \A units, from, p, s : \/ rescale_decimal(units, from, p, s) = Err
                                \/ \E x : rescale_decimal(units, from, p, s) = Ok(x)
        BY DEF rescale_decimal
    <2>3. \A s : PaddedUnits(v, s) = Err \/ \E x : PaddedUnits(v, s) = Ok(x)
        BY DEF PaddedUnits, Then
    <2>4. \E x : Cell(ty, v) = Ok(x)
        <3>1. CASE Cell(ty, v) = as_decimal(v, ty.p, ty.s)
            BY <2>2, <2>3, <3>1 DEF as_decimal, Provided, IsOk
        <3>2. CASE Cell(ty, v) = as_decimal256(v, ty.p, ty.s)
            BY <2>3, <3>2 DEF as_decimal256, Provided, IsOk
        <3>3. QED
            BY <2>1, <3>1, <3>2
    <2>5. QED
        BY <1>1, <2>4
<1>4. CASE ty.k = "DATE"
    <2>1. Cell(ty, v) = Provided(as_date(v), LAMBDA d : d \in MIN_DATE_DAYS..MAX_DATE_DAYS)
        BY <1>4, WidthsNest DEF Cell
    <2>2. as_date(v) = Err \/ \E x : as_date(v) = Ok(x)
        BY DEF as_date, Then
    <2>3. QED
        BY <1>1, <2>1, <2>2 DEF Provided, IsOk
<1>5. CASE ty.k = "DATETIME"
    <2> DEFINE unit == TenTo[SubSecond - ty.s]
    <2>1. Cell(ty, v) = Then(as_timestamp_micros(v), LAMBDA m :
                   IF m \in MIN_DATE_DAYS * MicrosPerDay .. (MAX_DATE_DAYS + 1) * MicrosPerDay - 1
                   THEN Ok((m \div unit) * unit) ELSE Err)
        BY <1>5, WidthsNest DEF Cell
    <2>2. \E x : Cell(ty, v) = Ok(x)
        BY <2>1 DEF Then, IsOk
    <2>3. QED
        BY <1>1, <2>2
<1>6. QED
    BY <1>3, <1>4, <1>5

(* What is stored of a value is that value, wherever the column could take it. *)
LEMMA SlotExact ==
    ASSUME NEW ty, ~Nested(ty), TypeHasParameters(ty), NEW v, ValueHasNumbers(v), ~IsNull(v),
           IsOk(Store(ty, v))
    PROVE  Exact(ty, v, Store(ty, v)[1])
<1>1. IsOk(Cell(ty, v)) /\ Store(ty, v)[1] = <<Cell(ty, v)[1]>>
    BY StoreScalar
<1>2. CASE ty.k \in {"DECIMAL", "DATE", "DATETIME"}
    BY <1>1, <1>2, CellIsResult, CellExact
<1>3. CASE ty.k \notin {"DECIMAL", "DATE", "DATETIME"}
    BY <1>3 DEF Exact
<1>4. QED
    BY <1>2, <1>3

(* Every cell of a scalar column handed over is the value it came from.    *)
LEMMA RowsKeptExactly == BuilderInv => CellsExact
<1> SUFFICES ASSUME BuilderInv, NEW c \in DOMAIN batch.arrays, NEW i \in 1..batch.rows,
                    ~Nested(columns[c].ty), ~IsNull(batch.from[i][c])
             PROVE  Exact(columns[c].ty, batch.from[i][c], batch.arrays[c].slots[i])
    BY DEF CellsExact
<1>1. c \in DOMAIN columns /\ FinishedFrom(batch.arrays[c], batch.from, batch.rows, c)
    BY DEF BuilderInv, BatchInv
<1>2. PICK stored : /\ Keeps(stored, batch.from, batch.rows, c)
                    /\ batch.arrays[c] = FinishColumn(columns[c].ty, stored)[1]
    BY <1>1 DEF FinishedFrom
<1>3. batch.arrays[c].slots = stored
    BY <1>2 DEF FinishColumn, Ok
<1>4. TypeHasParameters(columns[c].ty)
    BY <1>1, TypesAreTrees DEF BuilderInv, TableInv
<1>5. /\ ValueHasNumbers(batch.from[i][c]) /\ Takes(c, batch.from[i][c])
      /\ batch.arrays[c].slots[i] = Store(columns[c].ty, batch.from[i][c])[1]
    BY <1>2, <1>3, ValuesHaveParts DEF Keeps
<1>6. QED
    BY <1>4, <1>5, SlotExact DEF Takes, Accepts

LEMMA StoredNullness ==
    ASSUME NEW ty, ~Nested(ty), NEW v, IsOk(Store(ty, v)), Store(ty, v)[1] = <<>>
    PROVE  IsNull(v)
<1>1. \A x : <<x>> # <<>>
    OBVIOUS
<1>2. QED
    BY <1>1, StoreScalar

(* Columns finished apart make one batch: all of one length, and a null     *)
(* only where the schema allows one.                                        *)
BatchAssembles == IsOk(FinishedColumns) /\ RecordBatch(FinishedColumns[1])

ScalarTable == \A c \in DOMAIN columns : ~Nested(columns[c].ty)

LEMMA ScalarBatchAssembles ==
    ASSUME BuilderInv, ScalarTable, pc = "rows"
    PROVE  BatchAssembles
<1>1. FinishedColumns = Ok([c \in DOMAIN columns |-> [slots |-> builders[c]]])
    <2> DEFINE rs == [c \in DOMAIN columns |-> FinishColumn(columns[c].ty, builders[c])]
    <2>1. rs = [c \in DOMAIN columns |-> Ok([slots |-> builders[c]])]
        BY DEF FinishColumn, ScalarTable
    <2>2. \A c \in DOMAIN columns : rs[c] = <<[slots |-> builders[c]]>>
        BY <2>1 DEF Ok
    <2>3. DOMAIN rs = DOMAIN columns
        OBVIOUS
    <2> HIDE DEF rs
    <2>4. \A c \in DOMAIN rs : IsOk(rs[c]) /\ rs[c][1] = [slots |-> builders[c]]
        BY <2>2, <2>3 DEF IsOk, Err
    <2>5. [c \in DOMAIN rs |-> rs[c][1]] = [c \in DOMAIN columns |-> [slots |-> builders[c]]]
        BY <2>3, <2>4
    <2>6. Collect(rs) = Ok([c \in DOMAIN rs |-> rs[c][1]])
        BY <2>4 DEF Collect
    <2>7. QED
        BY <2>5, <2>6 DEF FinishedColumns, rs
<1> DEFINE arrays == [c \in DOMAIN columns |-> [slots |-> builders[c]]]
<1>2. FinishedColumns[1] = arrays /\ IsOk(FinishedColumns)
    BY <1>1, OkIsOne DEF Ok, IsOk
<1>3. 1 \in DOMAIN columns
    BY DEF BuilderInv, TableInv
<1>4. \A c \in DOMAIN columns : arrays[c].slots = builders[c]
    OBVIOUS
<1> HIDE DEF arrays
<1>5. ASSUME NEW c \in DOMAIN columns
      PROVE  Len(arrays[c].slots) = rows /\ Keeps(builders[c], taken, rows, c)
    <2>1. Keeps(builders[c], taken, rows, c)
        BY DEF BuilderInv, RowsInv
    <2>2. QED
        BY <1>4, <2>1 DEF Keeps
<1>6. ASSUME NEW c \in DOMAIN columns, NEW i \in DOMAIN arrays[c].slots, arrays[c].slots[i] = <<>>
      PROVE  columns[c].nullable
    <2>1. IsSequence(builders[c])
        BY DEF BuilderInv, RowsInv
    <2>2. i \in 1..rows
        BY <1>4, <1>5, <2>1 DEF IsSequence
    <2>3. /\ Takes(c, taken[i][c])
          /\ Store(columns[c].ty, taken[i][c])[1] = <<>>
        BY <1>4, <1>5, <1>6, <2>2 DEF Keeps
    <2>4. IsNull(taken[i][c])
        BY <2>3, StoredNullness DEF Takes, Accepts, ScalarTable
    <2>5. QED
        BY <2>3, <2>4 DEF Takes, Accepts
<1>7. RecordBatch(arrays)
    <2>1. \A c \in DOMAIN columns : /\ ArrayLen(columns[c].ty, arrays[c]) = Len(arrays[c].slots)
                                    /\ HasNull(columns[c].ty, arrays[c]) =>
                                         \E i \in DOMAIN arrays[c].slots : arrays[c].slots[i] = <<>>
        BY DEF ArrayLen, HasNull, ScalarTable
    <2>2. QED
        BY <1>3, <1>5, <1>6, <2>1 DEF RecordBatch
<1>8. QED
    BY <1>2, <1>7 DEF BatchAssembles

(* RecordBatch::try_new never refuses what BatchBuilder::finish built of a  *)
(* table of scalar columns: between two rows the columns are of one length, *)
(* and a null is only ever in a nullable one.  A task on such a table fails *)
(* on a value or not at all.                                                *)
THEOREM ScalarBatchesAssemble ==
    BuilderSpec => [](ScalarTable /\ pc = "rows" => BatchAssembles)
<1>1. BuilderInv => (ScalarTable /\ pc = "rows" => BatchAssembles)
    BY ScalarBatchAssembles
<1>2. QED
    BY <1>1, BuilderInvariant, PTL

-----------------------------------------------------------------------------
(* The check before the first row.  Between two ends a column accepts lies  *)
(* nothing it refuses, which is what validate_against_schema takes for      *)
(* granted when it tries the extremes only.                                 *)

IsScalar(ty) ==
    ty.k \in {"BOOLEAN", "TINYINT", "SMALLINT", "INT", "BIGINT", "LARGEINT", "BITMAP", "FLOAT",
              "DOUBLE", "QUANTILE_STATE", "DECIMAL", "DATE", "DATETIME", "STRING", "HLL", "CHAR",
              "JSON", "VARIANT", "IPV4", "IPV6"}

RangeHasNumbers(g) ==
    /\ g.min \in Int /\ g.max \in Int
    /\ g.g = "decimal" => g.scale \in Nat

LEMMA CellByKind ==
    ASSUME NEW ty, NEW v
    PROVE  /\ ty.k = "BOOLEAN" => Cell(ty, v) = as_bool(v)
           /\ ty.k \in {"TINYINT", "SMALLINT", "INT", "BIGINT"} =>
                Cell(ty, v) = as_int(v, -IntMax[ty.k] - 1, IntMax[ty.k])
           /\ ty.k = "BITMAP" => Cell(ty, v) = as_int(v, 0, IntMax["BIGINT"])
           /\ ty.k = "FLOAT" => Cell(ty, v) = Provided(as_f64(v), FitsFloat)
           /\ ty.k \in {"DOUBLE", "QUANTILE_STATE"} => Cell(ty, v) = as_f64(v)
           /\ ty.k = "DECIMAL" =>
                Cell(ty, v) = IF ty.p <= DECIMAL128_MAX_PRECISION THEN as_decimal(v, ty.p, ty.s)
                                                                  ELSE as_decimal256(v, ty.p, ty.s)
           /\ ty.k = "DATE" =>
                Cell(ty, v) = Provided(as_date(v), LAMBDA d : d \in MIN_DATE_DAYS..MAX_DATE_DAYS)
           /\ ty.k \in {"STRING", "HLL", "CHAR", "LARGEINT", "JSON", "VARIANT", "IPV4", "IPV6"} =>
                Cell(ty, v) = checked_text(v, ty)
<1>1. DOMAIN IntMax = {"TINYINT", "SMALLINT", "INT", "BIGINT"}
    BY WidthsNest
<1>2. QED
    BY <1>1 DEF Cell

LEMMA IntMaxType ==
    /\ \A t \in {"TINYINT", "SMALLINT", "INT", "BIGINT"} : IntMax[t] \in Nat
    /\ I128Max \in Nat /\ U32Max \in Nat /\ FloatMax \in Nat /\ DECIMAL128_MAX_PRECISION \in Nat
BY WidthsNest

(* Whole numbers. *)
LEMMA WholeBetween ==
    ASSUME NEW a \in Int, NEW b \in Int, NEW lo, NEW v, NEW hi,
           NEW i \in Int, NEW j \in Int, NEW k \in Int, i <= j, j <= k,
           WholeNumber(lo) = Ok(i), WholeNumber(v) = Ok(j), WholeNumber(hi) = Ok(k),
           IsOk(as_int(lo, a, b)), IsOk(as_int(hi, a, b))
    PROVE  IsOk(as_int(v, a, b))
<1>1. i \in a..b /\ k \in a..b
    BY DEF as_int, Provided, IsOk, Ok, Err
<1>2. j \in a..b
    BY <1>1
<1>3. QED
    BY <1>2 DEF as_int, Provided, IsOk, Ok, Err

LEMMA TimesMonotone ==
    ASSUME NEW a \in Int, NEW b \in Int, a <= b, NEW c \in Nat
    PROVE  a * c <= b * c
<1>1. (b - a) * c >= 0
    OBVIOUS
<1>2. (b - a) * c = b * c - a * c
    OBVIOUS
<1>3. QED
    BY <1>1, <1>2

LEMMA DivMonotone ==
    ASSUME NEW a \in Int, NEW b \in Int, a <= b, NEW d \in Nat, d >= 1
    PROVE  a \div d <= b \div d
<1> DEFINE p == a \div d
           q == b \div d
           r == a % d
           s == b % d
<1>1. /\ p \in Int /\ q \in Int /\ r \in 0..d - 1 /\ s \in 0..d - 1
      /\ a = d * p + r /\ b = d * q + s
    BY DivMod
<1> HIDE DEF p, q, r, s
<1>2. SUFFICES ASSUME p > q PROVE FALSE
    BY <1>1 DEF p, q
<1>3. d * p >= d * (q + 1)
    <2>1. (q + 1) * d <= p * d
        BY <1>1, <1>2, TimesMonotone
    <2>2. QED
        BY <1>1, <2>1
<1>4. d * (q + 1) = d * q + d
    BY <1>1
<1>5. QED
    BY <1>1, <1>3, <1>4

LEMMA TruncMonotone ==
    ASSUME NEW a \in Int, NEW b \in Int, a <= b, NEW d \in Nat, d >= 1
    PROVE  Trunc(a, d) \in Int /\ Trunc(b, d) \in Int /\ Trunc(a, d) <= Trunc(b, d)
<1>1. \A n \in Nat : n \div d \in Nat
    OBVIOUS
<1>2. CASE a >= 0
    BY <1>1, <1>2, DivMonotone DEF Trunc
<1>3. CASE a < 0 /\ b >= 0
    <2>1. (-a) \div d \in Nat /\ b \div d \in Nat
        BY <1>1, <1>3
    <2>2. QED
        BY <1>3, <2>1 DEF Trunc
<1>4. CASE b < 0
    <2>1. (-a) \div d \in Nat /\ (-b) \div d \in Nat
        BY <1>1, <1>4
    <2>2. (-b) \div d <= (-a) \div d
        BY <1>4, DivMonotone
    <2>3. QED
        BY <1>4, <2>1, <2>2 DEF Trunc
<1>5. QED
    BY <1>2, <1>3, <1>4

LEMMA AbsBetween ==
    ASSUME NEW a \in Int, NEW b \in Int, NEW c \in Int, a <= b, b <= c, NEW k \in Nat
    PROVE  /\ Abs(a * k) \in Nat /\ Abs(b * k) \in Nat /\ Abs(c * k) \in Nat
           /\ Abs(b * k) <= Abs(a * k) \/ Abs(b * k) <= Abs(c * k)
<1>1. a * k <= b * k /\ b * k <= c * k
    BY TimesMonotone
<1>2. a * k \in Int /\ b * k \in Int /\ c * k \in Int
    OBVIOUS
<1>3. \A p, q, r \in Int : p <= q /\ q <= r =>
          /\ Abs(p) \in Nat /\ Abs(q) \in Nat /\ Abs(r) \in Nat
          /\ Abs(q) <= Abs(p) \/ Abs(q) <= Abs(r)
    BY DEF Abs
<1>4. QED
    BY <1>1, <1>2, <1>3

(* Decimals no finer than the column. *)
LEMMA RescaleBetween ==
    ASSUME NEW a \in Int, NEW b \in Int, NEW c \in Int, a <= b, b <= c,
           NEW from \in Nat, NEW p \in Nat, NEW s \in Nat, from <= s,
           IsOk(rescale_decimal(a, from, p, s)), IsOk(rescale_decimal(c, from, p, s))
    PROVE  IsOk(rescale_decimal(b, from, p, s))
<1> DEFINE k == TenTo[s - from]
           Fits(n) == Abs(n * k) <= I128Max /\ Abs(n * k) < TenTo[p]
<1>1. s - from \in Nat
    OBVIOUS
<1>2. k \in Nat /\ TenTo[p] \in Nat
    BY <1>1, TenToType
<1>3. \A n : IsOk(rescale_decimal(n, from, p, s)) <=> Fits(n)
    BY OkIsOne DEF rescale_decimal, FitsPrecision, IsOk
<1> HIDE DEF k
<1>4. Fits(a) /\ Fits(c)
    BY <1>3
<1>5. /\ Abs(a * k) \in Nat /\ Abs(b * k) \in Nat /\ Abs(c * k) \in Nat
      /\ Abs(b * k) <= Abs(a * k) \/ Abs(b * k) <= Abs(c * k)
    BY <1>2, AbsBetween
<1>6. Fits(b)
    BY <1>2, <1>4, <1>5, IntMaxType
<1>7. QED
    BY <1>3, <1>6

LEMMA PaddedBetween ==
    ASSUME NEW lo, NEW v, NEW hi, NEW a \in Int, NEW b \in Int, NEW c \in Int, a <= b, b <= c,
           NEW from \in Nat, NEW p \in Nat, NEW s \in Nat, from <= s,
           DecimalText(lo) = Ok(Digits(a, from)), DecimalText(v) = Ok(Digits(b, from)),
           DecimalText(hi) = Ok(Digits(c, from)),
           IsOk(as_decimal256(lo, p, s)), IsOk(as_decimal256(hi, p, s))
    PROVE  IsOk(as_decimal256(v, p, s))
<1> DEFINE k == TenTo[s - from]
           Fits(n) == Abs(n * k) < TenTo[p]
<1>1. s - from \in Nat
    OBVIOUS
<1>2. k \in Nat /\ TenTo[p] \in Nat
    BY <1>1, TenToType
<1>3. \A w, n : DecimalText(w) = Ok(Digits(n, from)) => (IsOk(as_decimal256(w, p, s)) <=> Fits(n))
    <2> SUFFICES ASSUME NEW w, NEW n, DecimalText(w) = Ok(Digits(n, from))
                 PROVE  IsOk(as_decimal256(w, p, s)) <=> Fits(n)
        OBVIOUS
    <2>1. PaddedUnits(w, s) = Ok(n * k)
        <3>1. Ok(Digits(n, from)) # Err /\ Ok(Digits(n, from))[1] = Digits(n, from)
            BY OkIsOne DEF Ok
        <3>2. Digits(n, from).units = n /\ Digits(n, from).scale = from
            BY DEF Digits
        <3>3. QED
            BY <3>1, <3>2 DEF PaddedUnits, Then, IsOk
    <2>2. Ok(n * k) # Err /\ Ok(n * k)[1] = n * k
        BY OkIsOne DEF Ok
    <2> HIDE DEF k
    <2>3. QED
        BY <2>1, <2>2 DEF as_decimal256, Provided, IsOk, FitsPrecision
<1> HIDE DEF k
<1>4. Fits(a) /\ Fits(c)
    BY <1>3
<1>5. /\ Abs(a * k) \in Nat /\ Abs(b * k) \in Nat /\ Abs(c * k) \in Nat
      /\ Abs(b * k) <= Abs(a * k) \/ Abs(b * k) <= Abs(c * k)
    BY <1>2, AbsBetween
<1>6. Fits(b)
    BY <1>2, <1>4, <1>5
<1>7. QED
    BY <1>3, <1>6

LEMMA NumbersRead ==
    /\ \A n : Text(Number(n)) = Digits(n, 0) /\ DecimalText(Number(n)) = Ok(Digits(n, 0))
    /\ \A n, s : Text(Dec(n, s)) = Digits(n, s) /\ DecimalText(Dec(n, s)) = Ok(Digits(n, s))
<1>1. \A n : Text(Number(n)) = Digits(n, 0) /\ Number(n).k = "int"
    BY DEF Text, Number
<1>2. \A n, s : Text(Dec(n, s)) = Digits(n, s) /\ Dec(n, s).k = "dec"
    BY DEF Text, Dec
<1>3. QED
    BY <1>1, <1>2 DEF DecimalText

LEMMA DecimalBetween ==
    ASSUME NEW lo, NEW v, NEW hi, NEW a \in Int, NEW b \in Int, NEW c \in Int, a <= b, b <= c,
           NEW ty, ty.k = "DECIMAL", TypeHasParameters(ty), NEW from \in Nat, from <= ty.s,
           \/ lo = Dec(a, from) /\ v = Dec(b, from) /\ hi = Dec(c, from)
           \/ from = 0 /\ lo = Number(a) /\ v = Number(b) /\ hi = Number(c),
           IsOk(Cell(ty, lo)), IsOk(Cell(ty, hi))
    PROVE  IsOk(Cell(ty, v))
<1>1. ty.p \in Nat /\ ty.s \in Nat
    BY DEF TypeHasParameters
<1>2. /\ DecimalText(lo) = Ok(Digits(a, from)) /\ DecimalText(v) = Ok(Digits(b, from))
      /\ DecimalText(hi) = Ok(Digits(c, from))
    BY NumbersRead
<1>3. /\ as_decimal(lo, ty.p, ty.s) = rescale_decimal(a, from, ty.p, ty.s)
      /\ as_decimal(v, ty.p, ty.s) = rescale_decimal(b, from, ty.p, ty.s)
      /\ as_decimal(hi, ty.p, ty.s) = rescale_decimal(c, from, ty.p, ty.s)
    BY DEF as_decimal, Dec, Number
<1>4. CASE ty.p <= DECIMAL128_MAX_PRECISION
    <2>1. /\ Cell(ty, lo) = rescale_decimal(a, from, ty.p, ty.s)
          /\ Cell(ty, v) = rescale_decimal(b, from, ty.p, ty.s)
          /\ Cell(ty, hi) = rescale_decimal(c, from, ty.p, ty.s)
        BY <1>3, <1>4, CellByKind
    <2>2. QED
        BY <1>1, <2>1, RescaleBetween
<1>5. CASE ~(ty.p <= DECIMAL128_MAX_PRECISION)
    <2>1. \A w : Cell(ty, w) = as_decimal256(w, ty.p, ty.s)
        BY <1>5, CellByKind
    <2>2. QED
        BY <1>1, <1>2, <2>1, PaddedBetween
<1>6. QED
    BY <1>4, <1>5

(* Floats of 32 bits. *)
LEMMA FitsBetween ==
    ASSUME NEW a \in Int, NEW b \in Int, NEW c \in Int, a <= b, b <= c, NEW s \in Nat,
           FitsFloat(Digits(a, s)), FitsFloat(Digits(c, s))
    PROVE  FitsFloat(Digits(b, s))
<1>1. \A n : FitsFloat(Digits(n, s)) <=> Abs(n) <= FloatMax * TenTo[s]
    BY DEF FitsFloat, Digits
<1>2. FloatMax * TenTo[s] \in Nat
    BY IntMaxType, TenToType
<1>3. /\ Abs(a) \in Nat /\ Abs(b) \in Nat /\ Abs(c) \in Nat
      /\ Abs(b) <= Abs(a) \/ Abs(b) <= Abs(c)
    BY DEF Abs
<1> DEFINE limit == FloatMax * TenTo[s]
<1> HIDE DEF limit
<1>4. Abs(a) <= limit /\ Abs(c) <= limit /\ limit \in Nat
    BY <1>1, <1>2 DEF limit
<1>5. Abs(b) <= limit
    BY <1>3, <1>4
<1>6. QED
    BY <1>1, <1>5 DEF limit

LEMMA FloatFits ==
    ASSUME NEW h \in Int
    PROVE  FitsFloat(Text(Float(h))) <=> Abs(h) <= 2 * FloatMax
<1>1. TenTo[0] = 1 /\ TenTo[1] = 10
    BY TenToSteps
<1>2. CASE h % 2 = 0
    <2>1. Trunc(h, 2) \in Int /\ Trunc(h, 2) * 2 = h
        <3>1. \A d \in Nat : d >= 1 /\ h % d = 0 => Trunc(h, d) \in Int /\ Trunc(h, d) * d = h
            BY TruncExact
        <3>2. 2 \in Nat /\ 2 >= 1
            OBVIOUS
        <3>3. QED
            BY <1>2, <3>1, <3>2, Zenon
    <2>2. Text(Float(h)) = Digits(Trunc(h, 2), 0)
        BY <1>2 DEF Text, Float
    <2>3. FitsFloat(Text(Float(h))) <=> Abs(Trunc(h, 2)) <= FloatMax * 1
        BY <1>1, <2>2 DEF FitsFloat, Digits
    <2> DEFINE n == Trunc(h, 2)
    <2> HIDE DEF n
    <2>4. n \in Int /\ n * 2 = h
        BY <2>1 DEF n
    <2>5. Abs(n) <= FloatMax * 1 <=> Abs(h) <= 2 * FloatMax
        BY <2>4, IntMaxType DEF Abs
    <2>6. QED
        BY <2>3, <2>5 DEF n
<1>3. CASE h % 2 # 0
    <2>1. Text(Float(h)) = Digits(5 * h, 1)
        BY <1>3 DEF Text, Float
    <2>2. FitsFloat(Text(Float(h))) <=> Abs(5 * h) <= FloatMax * 10
        BY <1>1, <2>1 DEF FitsFloat, Digits
    <2>3. Abs(5 * h) <= FloatMax * 10 <=> Abs(h) <= 2 * FloatMax
        BY IntMaxType DEF Abs
    <2>4. QED
        BY <2>2, <2>3
<1>4. QED
    BY <1>2, <1>3

(* Moments. *)
LEMMA MomentBetween ==
    ASSUME NEW a \in Int, NEW b \in Int, NEW c \in Int, a <= b, b <= c, NEW f,
           NEW ty, ty.k \in {"DATE", "DATETIME"},
           IsOk(Cell(ty, Moment(a, f))), IsOk(Cell(ty, Moment(c, f)))
    PROVE  IsOk(Cell(ty, Moment(b, f)))
<1>1. \A m : as_timestamp_micros(Moment(m, f)) = Ok(m)
    BY DEF as_timestamp_micros, Moment
<1>2. \A m : Ok(m) # Err /\ Ok(m)[1] = m
    BY OkIsOne DEF Ok
<1>3. MIN_DATE_DAYS \in Int /\ MAX_DATE_DAYS \in Int
    BY WidthsNest
<1>4. CASE ty.k = "DATE"
    <2>1. \A m : as_date(Moment(m, f)) = Ok(m \div MicrosPerDay)
        BY <1>1, <1>2 DEF as_date, Then, IsOk
    <2>2. \A m : IsOk(Cell(ty, Moment(m, f))) <=> m \div MicrosPerDay \in MIN_DATE_DAYS..MAX_DATE_DAYS
        BY <1>2, <1>4, <2>1, CellByKind DEF Provided, IsOk
    <2> DEFINE d == MicrosPerDay
    <2>3. d \in Nat /\ d >= 1
        BY DayType
    <2> HIDE DEF d
    <2>4. /\ a \div d \in Int /\ b \div d \in Int /\ c \div d \in Int
          /\ a \div d <= b \div d /\ b \div d <= c \div d
        BY <2>3, DivMod, DivMonotone
    <2>5. a \div d \in MIN_DATE_DAYS..MAX_DATE_DAYS /\ c \div d \in MIN_DATE_DAYS..MAX_DATE_DAYS
        BY <2>2 DEF d
    <2>6. b \div d \in MIN_DATE_DAYS..MAX_DATE_DAYS
        BY <1>3, <2>4, <2>5
    <2>7. QED
        BY <2>2, <2>6 DEF d
<1>5. CASE ty.k = "DATETIME"
    <2> DEFINE first == MIN_DATE_DAYS * MicrosPerDay
               last == (MAX_DATE_DAYS + 1) * MicrosPerDay - 1
               unit == TenTo[SubSecond - ty.s]
    <2>1. first \in Int /\ last \in Int
        BY <1>3, DayType
    <2>2. \A v : Cell(ty, v) = Then(as_timestamp_micros(v), LAMBDA m :
                   IF m \in first..last THEN Ok((m \div unit) * unit) ELSE Err)
        BY <1>5, WidthsNest DEF Cell
    <2> HIDE DEF first, last, unit
    <2>3. \A m : IsOk(Cell(ty, Moment(m, f))) <=> m \in first..last
        BY <1>1, <1>2, <2>2 DEF Then, IsOk
    <2>4. b \in first..last
        BY <2>1, <2>3
    <2>5. QED
        BY <2>3, <2>4
<1>6. QED
    BY <1>4, <1>5

(* Numbers as text: more digits never print shorter. *)
HasDigits(n, d) == d \in 1..n + 1 /\ n < TenTo[d] /\ (d = 1 \/ n >= TenTo[d - 1])

LEMMA DigitsExist == \A n \in Nat : \E d : HasDigits(n, d)
<1> DEFINE S == {n \in Nat : \E d : HasDigits(n, d)}
<1>1. 0 \in S
    <2>1. HasDigits(0, 1)
        BY TenToSteps, TenToType DEF HasDigits
    <2>2. QED
        BY <2>1
<1>2. ASSUME NEW n \in Nat, n \in S PROVE n + 1 \in S
    <2>1. PICK d : HasDigits(n, d)
        BY <1>2
    <2>2. d \in Nat /\ TenTo[d] \in Nat /\ TenTo[d] >= 1 /\ TenTo[d + 1] = 10 * TenTo[d]
        BY <2>1, TenToType, TenToSteps DEF HasDigits
    <2>3. CASE n + 1 < TenTo[d]
        <3>1. d = 1 \/ d - 1 \in Nat
            BY <2>1 DEF HasDigits
        <3>2. HasDigits(n + 1, d)
            BY <2>1, <2>2, <2>3, <3>1, TenToType DEF HasDigits
        <3>3. QED
            BY <3>2
    <2>4. CASE n + 1 = TenTo[d]
        <3>1. (d + 1) - 1 = d /\ d + 1 \in 1..(n + 1) + 1
            BY <2>1, <2>2 DEF HasDigits
        <3>2. HasDigits(n + 1, d + 1)
            BY <2>2, <2>4, <3>1 DEF HasDigits
        <3>3. QED
            BY <3>2
    <2>5. n + 1 < TenTo[d] \/ n + 1 = TenTo[d]
        BY <2>1, <2>2 DEF HasDigits
    <2>6. QED
        BY <2>3, <2>4, <2>5
<1> HIDE DEF S
<1>3. \A n \in Nat : n \in S
    BY <1>1, <1>2, Induction
<1>4. QED
    BY <1>3 DEF S

LEMMA TenToMonotone == \A m, n \in Nat : m <= n => TenTo[m] <= TenTo[n]
<1> SUFFICES ASSUME NEW m \in Nat, NEW n \in Nat, m <= n PROVE TenTo[m] <= TenTo[n]
    OBVIOUS
<1> DEFINE d == n - m
<1>1. d \in Nat /\ m + d = n
    OBVIOUS
<1> HIDE DEF d
<1>2. TenTo[n] = TenTo[m] * TenTo[d]
    BY <1>1, TenToSum
<1>3. TenTo[m] \in Nat /\ TenTo[d] \in Nat /\ TenTo[d] >= 1
    BY <1>1, TenToType
<1>4. \A a, b \in Nat : b >= 1 => a <= a * b
    <2> SUFFICES ASSUME NEW a \in Nat, NEW b \in Nat, b >= 1 PROVE a <= a * b
        OBVIOUS
    <2>1. 1 * a <= b * a
        BY TimesMonotone
    <2>2. QED
        BY <2>1
<1>5. QED
    BY <1>2, <1>3, <1>4

LEMMA DigitCountMonotone ==
    ASSUME NEW m \in Nat, NEW n \in Nat, m <= n
    PROVE  /\ DigitCount(m) \in Nat /\ DigitCount(n) \in Nat
           /\ DigitCount(m) <= DigitCount(n)
<1>1. ASSUME NEW k \in Nat PROVE HasDigits(k, DigitCount(k))
    <2>1. PICK d : HasDigits(k, d)
        BY DigitsExist
    <2>2. QED
        BY <2>1 DEF DigitCount, HasDigits
<1> DEFINE d == DigitCount(m)
           e == DigitCount(n)
<1>2. HasDigits(m, d) /\ HasDigits(n, e)
    BY <1>1
<1> HIDE DEF d, e
<1>3. d \in Nat /\ e \in Nat /\ d >= 1 /\ e >= 1
    BY <1>2 DEF HasDigits
<1>4. SUFFICES ASSUME d > e PROVE FALSE
    BY <1>3 DEF d, e
<1>5. d - 1 \in Nat /\ e <= d - 1
    BY <1>3, <1>4
<1>6. TenTo[e] <= TenTo[d - 1] /\ TenTo[e] \in Nat /\ TenTo[d - 1] \in Nat
    BY <1>3, <1>5, TenToMonotone, TenToType
<1>7. m >= TenTo[d - 1] /\ n < TenTo[e]
    BY <1>2, <1>3, <1>4 DEF HasDigits
<1>8. QED
    BY <1>6, <1>7

LEMMA BytesBetween ==
    ASSUME NEW a \in Int, NEW b \in Int, NEW c \in Int, a <= b, b <= c, NEW s \in Nat,
           NEW len \in Nat, Bytes(Digits(a, s)) <= len, Bytes(Digits(c, s)) <= len
    PROVE  Bytes(Digits(b, s)) <= len
<1> DEFINE Width(n) == IF DigitCount(n) > s THEN DigitCount(n) ELSE s + 1
           point == IF s = 0 THEN 0 ELSE 1
<1>1. \A n : Bytes(Digits(n, s)) = (IF n < 0 THEN 1 ELSE 0) + point + Width(Abs(n)) + 0
    BY DEF Bytes, Digits
<1>2. \A m, n \in Nat : m <= n => Width(m) \in Nat /\ Width(n) \in Nat /\ Width(m) <= Width(n)
    BY DigitCountMonotone
<1>3. point \in Nat
    OBVIOUS
<1> HIDE DEF Width, point
<1>4. CASE b < 0
    <2>1. Abs(b) \in Nat /\ Abs(a) \in Nat /\ Abs(b) <= Abs(a)
        BY <1>4 DEF Abs
    <2>2. Width(Abs(b)) \in Nat /\ Width(Abs(a)) \in Nat /\ Width(Abs(b)) <= Width(Abs(a))
        BY <1>2, <2>1
    <2>3. QED
        BY <1>1, <1>3, <1>4, <2>2
<1>5. CASE b >= 0
    <2>1. Abs(b) \in Nat /\ Abs(c) \in Nat /\ Abs(b) <= Abs(c)
        BY <1>5 DEF Abs
    <2>2. Width(Abs(b)) \in Nat /\ Width(Abs(c)) \in Nat /\ Width(Abs(b)) <= Width(Abs(c))
        BY <1>2, <2>1
    <2>3. QED
        BY <1>1, <1>3, <1>5, <2>2
<1>6. QED
    BY <1>4, <1>5

(* One generator kind after the other. *)
LEMMA OkFacts == /\ \A x : Ok(x) # Err /\ Ok(x)[1] = x /\ IsOk(Ok(x))
                 /\ ~IsOk(Err)
BY OkIsOne DEF Ok, IsOk

LEMMA WholeCell ==
    ASSUME NEW ty, ty.k \in {"TINYINT", "SMALLINT", "INT", "BIGINT", "BITMAP", "LARGEINT"},
           NEW lo, NEW v, NEW hi,
           NEW i \in Int, NEW j \in Int, NEW k \in Int, i <= j, j <= k,
           WholeNumber(lo) = Ok(i), WholeNumber(v) = Ok(j), WholeNumber(hi) = Ok(k),
           IsOk(Cell(ty, lo)), IsOk(Cell(ty, hi))
    PROVE  IsOk(Cell(ty, v))
<1>1. CASE ty.k \in {"TINYINT", "SMALLINT", "INT", "BIGINT"}
    <2>1. -IntMax[ty.k] - 1 \in Int /\ IntMax[ty.k] \in Int
        BY <1>1, IntMaxType
    <2>2. \A w : Cell(ty, w) = as_int(w, -IntMax[ty.k] - 1, IntMax[ty.k])
        BY <1>1, CellByKind
    <2>3. QED
        BY <2>1, <2>2, WholeBetween
<1>2. CASE ty.k = "BITMAP"
    <2>1. 0 \in Int /\ IntMax["BIGINT"] \in Int
        BY IntMaxType
    <2>2. \A w : Cell(ty, w) = as_int(w, 0, IntMax["BIGINT"])
        BY <1>2, CellByKind
    <2>3. QED
        BY <2>1, <2>2, WholeBetween
<1>3. CASE ty.k = "LARGEINT"
    <2>1. -I128Max \in Int /\ I128Max \in Int
        BY IntMaxType
    <2>2. \A w : IsOk(Cell(ty, w)) <=> IsOk(as_int(w, -I128Max, I128Max))
        <3>1. \A w : Cell(ty, w) = checked_text(w, ty)
            BY <1>3, CellByKind
        <3>2. \A w : checked_text(w, ty) =
                       Then(as_int(w, -I128Max, I128Max), LAMBDA n : Ok(Digits(n, 0)))
            BY <1>3 DEF checked_text
        <3>3. QED
            BY <3>1, <3>2, OkFacts DEF Then, IsOk
    <2>3. QED
        BY <2>1, <2>2, WholeBetween
<1>4. QED
    BY <1>1, <1>2, <1>3

LEMMA MomentsOnly ==
    ASSUME NEW ty, ty.k \in {"DATE", "DATETIME"}, NEW v, ~IsOk(as_timestamp_micros(v))
    PROVE  ~IsOk(Cell(ty, v))
<1>1. CASE ty.k = "DATE"
    <2>1. as_date(v) = Err
        BY DEF as_date, Then
    <2>2. QED
        BY <1>1, <2>1, CellByKind, OkFacts DEF Provided
<1>2. CASE ty.k = "DATETIME"
    <2>1. Cell(ty, v) = Err
        BY <1>2, WidthsNest DEF Cell, Then
    <2>2. QED
        BY <2>1, OkFacts
<1>3. QED
    BY <1>1, <1>2

LEMMA IntsBetween ==
    ASSUME NEW ty, IsScalar(ty), TypeHasParameters(ty),
           NEW a \in Int, NEW b \in Int, NEW c \in Int, a <= b, b <= c,
           IsOk(Cell(ty, Number(a))), IsOk(Cell(ty, Number(c)))
    PROVE  IsOk(Cell(ty, Number(b)))
<1>1. \A n : Number(n).k = "int" /\ Number(n).n = n
    BY DEF Number
<1>2. CASE ty.k = "BOOLEAN"
    <2>1. as_bool(Number(b)) = Ok(b # 0)
        BY <1>1 DEF as_bool
    <2>2. QED
        BY <1>2, <2>1, CellByKind, OkFacts
<1>3. CASE ty.k \in {"TINYINT", "SMALLINT", "INT", "BIGINT", "BITMAP", "LARGEINT"}
    <2>1. \A n : WholeNumber(Number(n)) = Ok(n)
        BY <1>1 DEF WholeNumber
    <2>2. QED
        BY <1>3, <2>1, WholeCell
<1>4. CASE ty.k = "FLOAT"
    <2>1. \A n : as_f64(Number(n)) = Ok(Digits(n, 0))
        BY <1>1, NumbersRead DEF as_f64
    <2>2. \A n : IsOk(Cell(ty, Number(n))) <=> FitsFloat(Digits(n, 0))
        BY <1>4, <2>1, CellByKind, OkFacts DEF Provided
    <2>3. QED
        BY <2>2, FitsBetween
<1>5. CASE ty.k \in {"DOUBLE", "QUANTILE_STATE"}
    <2>1. as_f64(Number(b)) = Ok(Digits(b, 0))
        BY <1>1, NumbersRead DEF as_f64
    <2>2. QED
        BY <1>5, <2>1, CellByKind, OkFacts
<1>6. CASE ty.k = "DECIMAL"
    <2>1. ty.s \in Nat /\ 0 <= ty.s
        BY <1>6 DEF TypeHasParameters
    <2>2. QED
        BY <1>6, <2>1, DecimalBetween
<1>7. CASE ty.k \in {"DATE", "DATETIME"}
    <2>1. ~IsOk(as_timestamp_micros(Number(a)))
        BY <1>1, OkFacts DEF as_timestamp_micros
    <2>2. ~IsOk(Cell(ty, Number(a)))
        BY <1>7, <2>1, MomentsOnly
    <2>3. QED
        BY <2>2
<1>8. CASE ty.k \in {"STRING", "HLL", "CHAR", "JSON", "VARIANT", "IPV4", "IPV6"}
    <2>1. \A n : Cell(ty, Number(n)) = checked_text(Number(n), ty)
        BY <1>8, CellByKind
    <2>2. CASE ty.k \in {"STRING", "HLL", "JSON", "VARIANT"}
        BY <1>1, <2>1, <2>2, OkFacts DEF checked_text
    <2>3. CASE ty.k = "CHAR"
        <3>1. \A n : IsOk(Cell(ty, Number(n))) <=> Bytes(Digits(n, 0)) <= ty.len
            BY <2>1, <2>3, NumbersRead, OkFacts DEF checked_text
        <3>2. ty.len \in Nat
            BY <2>3 DEF TypeHasParameters
        <3>3. QED
            BY <3>1, <3>2, BytesBetween
    <2>4. CASE ty.k = "IPV4"
        <3>1. \A n : IsOk(Cell(ty, Number(n))) <=> n \in 0..U32Max /\ n <= IntMax["BIGINT"]
            BY <1>1, <2>1, <2>4, OkFacts DEF checked_text
        <3>2. QED
            BY <3>1, IntMaxType
    <2>5. CASE ty.k = "IPV6"
        <3>1. \A n : IsOk(Cell(ty, Number(n))) <=> n > IntMax["BIGINT"]
            BY <1>1, <2>1, <2>5, OkFacts DEF checked_text
        <3>2. QED
            BY <3>1, IntMaxType
    <2>6. QED
        BY <1>8, <2>2, <2>3, <2>4, <2>5
<1>9. QED
    BY <1>2, <1>3, <1>4, <1>5, <1>6, <1>7, <1>8 DEF IsScalar

(* What is no number, flag or address is refused where one is asked for. *)
LEMMA NoNumber ==
    ASSUME NEW ty, ty.k \in {"BOOLEAN", "TINYINT", "SMALLINT", "INT", "BIGINT", "BITMAP", "FLOAT",
                             "DOUBLE", "QUANTILE_STATE", "DECIMAL", "LARGEINT", "IPV4", "IPV6"},
           NEW v, v.k = "ts"
    PROVE  ~IsOk(Cell(ty, v))
<1>1. as_bool(v) = Err /\ WholeNumber(v) = Err /\ as_f64(v) = Err /\ DecimalText(v) = Err
    BY DEF as_bool, WholeNumber, as_f64, DecimalText
<1>2. \A a, b : as_int(v, a, b) = Err
    BY <1>1, OkFacts DEF as_int, Provided
<1>3. CASE ty.k = "BOOLEAN"
    BY <1>1, <1>3, CellByKind, OkFacts
<1>4. CASE ty.k \in {"TINYINT", "SMALLINT", "INT", "BIGINT"}
    <2>1. Cell(ty, v) = as_int(v, -IntMax[ty.k] - 1, IntMax[ty.k])
        BY <1>4, CellByKind
    <2>2. QED
        BY <1>2, <2>1, OkFacts
<1>5. CASE ty.k = "BITMAP"
    <2>1. Cell(ty, v) = as_int(v, 0, IntMax["BIGINT"])
        BY <1>5, CellByKind
    <2>2. QED
        BY <1>2, <2>1, OkFacts
<1>6. CASE ty.k = "FLOAT"
    BY <1>1, <1>6, CellByKind, OkFacts DEF Provided
<1>7. CASE ty.k \in {"DOUBLE", "QUANTILE_STATE"}
    BY <1>1, <1>7, CellByKind, OkFacts
<1>8. CASE ty.k = "DECIMAL"
    <2>1. \A s : PaddedUnits(v, s) = Err
        BY <1>1, OkFacts DEF PaddedUnits, Then
    <2>2. \A p, s : as_decimal(v, p, s) = Err
        BY <2>1, OkFacts DEF as_decimal, Provided
    <2>3. \A p, s : as_decimal256(v, p, s) = Err
        BY <2>1, OkFacts DEF as_decimal256, Provided
    <2>4. Cell(ty, v) = Err
        BY <1>8, <2>2, <2>3, CellByKind
    <2>5. QED
        BY <2>4, OkFacts
<1>9. CASE ty.k = "LARGEINT"
    <2>1. checked_text(v, ty) = Err
        BY <1>2, <1>9, OkFacts DEF checked_text, Then
    <2>2. QED
        BY <1>9, <2>1, CellByKind, OkFacts
<1>10. CASE ty.k \in {"IPV4", "IPV6"}
    <2>1. checked_text(v, ty) = Err
        BY <1>10 DEF checked_text
    <2>2. QED
        BY <1>10, <2>1, CellByKind, OkFacts
<1>11. QED
    BY <1>3, <1>4, <1>5, <1>6, <1>7, <1>8, <1>9, <1>10

LEMMA DecimalsBetween ==
    ASSUME NEW ty, IsScalar(ty), TypeHasParameters(ty), NEW s \in Nat, ty.k = "DECIMAL" => s <= ty.s,
           NEW a \in Int, NEW b \in Int, NEW c \in Int, a <= b, b <= c,
           IsOk(Cell(ty, Dec(a, s))), IsOk(Cell(ty, Dec(c, s)))
    PROVE  IsOk(Cell(ty, Dec(b, s)))
<1>1. \A n : Dec(n, s).k = "dec" /\ Dec(n, s).units = n /\ Dec(n, s).scale = s
    BY DEF Dec
<1>2. CASE ty.k = "BOOLEAN"
    <2>1. as_bool(Dec(b, s)) = Ok(b # 0)
        BY <1>1 DEF as_bool
    <2>2. QED
        BY <1>2, <2>1, CellByKind, OkFacts
<1>3. CASE ty.k \in {"TINYINT", "SMALLINT", "INT", "BIGINT", "BITMAP", "LARGEINT"}
    <2> DEFINE d == TenTo[s]
    <2>1. \A n : WholeNumber(Dec(n, s)) = Ok(Trunc(n, d))
        BY <1>1 DEF WholeNumber
    <2>2. d \in Nat /\ d >= 1
        BY TenToType
    <2> HIDE DEF d
    <2>3. /\ Trunc(a, d) \in Int /\ Trunc(b, d) \in Int /\ Trunc(c, d) \in Int
          /\ Trunc(a, d) <= Trunc(b, d) /\ Trunc(b, d) <= Trunc(c, d)
        BY <2>2, TruncMonotone
    <2>4. QED
        BY <1>3, <2>1, <2>3, WholeCell
<1>4. CASE ty.k = "FLOAT"
    <2>1. \A n : as_f64(Dec(n, s)) = Ok(Digits(n, s))
        BY <1>1, NumbersRead DEF as_f64
    <2>2. \A n : IsOk(Cell(ty, Dec(n, s))) <=> FitsFloat(Digits(n, s))
        BY <1>4, <2>1, CellByKind, OkFacts DEF Provided
    <2>3. QED
        BY <2>2, FitsBetween
<1>5. CASE ty.k \in {"DOUBLE", "QUANTILE_STATE"}
    <2>1. as_f64(Dec(b, s)) = Ok(Digits(b, s))
        BY <1>1, NumbersRead DEF as_f64
    <2>2. QED
        BY <1>5, <2>1, CellByKind, OkFacts
<1>6. CASE ty.k = "DECIMAL"
    BY <1>6, DecimalBetween
<1>7. CASE ty.k \in {"DATE", "DATETIME"}
    <2>1. ~IsOk(as_timestamp_micros(Dec(a, s)))
        BY <1>1, OkFacts DEF as_timestamp_micros
    <2>2. ~IsOk(Cell(ty, Dec(a, s)))
        BY <1>7, <2>1, MomentsOnly
    <2>3. QED
        BY <2>2
<1>8. CASE ty.k \in {"STRING", "HLL", "CHAR", "JSON", "VARIANT", "IPV4", "IPV6"}
    <2>1. \A n : Cell(ty, Dec(n, s)) = checked_text(Dec(n, s), ty)
        BY <1>8, CellByKind
    <2>2. CASE ty.k \in {"STRING", "HLL", "JSON", "VARIANT"}
        BY <1>1, <2>1, <2>2, OkFacts DEF checked_text
    <2>3. CASE ty.k = "CHAR"
        <3>1. \A n : IsOk(Cell(ty, Dec(n, s))) <=> Bytes(Digits(n, s)) <= ty.len
            BY <2>1, <2>3, NumbersRead, OkFacts DEF checked_text
        <3>2. ty.len \in Nat
            BY <2>3 DEF TypeHasParameters
        <3>3. QED
            BY <3>1, <3>2, BytesBetween
    <2>4. CASE ty.k \in {"IPV4", "IPV6"}
        <3>1. ~IsOk(Cell(ty, Dec(a, s)))
            BY <1>1, <2>1, <2>4, OkFacts DEF checked_text
        <3>2. QED
            BY <3>1
    <2>5. QED
        BY <1>8, <2>2, <2>3, <2>4
<1>9. QED
    BY <1>2, <1>3, <1>4, <1>5, <1>6, <1>7, <1>8 DEF IsScalar

LEMMA FloatsAlike ==
    ASSUME NEW ty, ty.k \in {"BOOLEAN", "DOUBLE", "QUANTILE_STATE", "DATE", "DATETIME", "STRING", "HLL",
                             "JSON", "VARIANT", "IPV4", "IPV6"},
           NEW a, NEW b, IsOk(Cell(ty, Float(a)))
    PROVE  IsOk(Cell(ty, Float(b)))
<1>1. \A n : Float(n).k = "float" /\ Float(n).halves = n
    BY DEF Float
<1>2. CASE ty.k = "BOOLEAN"
    <2>1. as_bool(Float(a)) = Err
        BY <1>1 DEF as_bool
    <2>2. QED
        BY <1>2, <2>1, CellByKind, OkFacts
<1>3. CASE ty.k \in {"DOUBLE", "QUANTILE_STATE"}
    <2>1. as_f64(Float(b)) = Ok(Text(Float(b)))
        BY <1>1 DEF as_f64
    <2>2. QED
        BY <1>3, <2>1, CellByKind, OkFacts
<1>4. CASE ty.k \in {"DATE", "DATETIME"}
    <2>1. ~IsOk(as_timestamp_micros(Float(a)))
        BY <1>1, OkFacts DEF as_timestamp_micros
    <2>2. ~IsOk(Cell(ty, Float(a)))
        BY <1>4, <2>1, MomentsOnly
    <2>3. QED
        BY <2>2
<1>5. CASE ty.k \in {"STRING", "HLL", "JSON", "VARIANT", "IPV4", "IPV6"}
    <2>1. \A n : Cell(ty, Float(n)) = checked_text(Float(n), ty)
        BY <1>5, CellByKind
    <2>2. CASE ty.k \in {"STRING", "HLL", "JSON", "VARIANT"}
        BY <1>1, <2>1, <2>2, OkFacts DEF checked_text
    <2>3. CASE ty.k \in {"IPV4", "IPV6"}
        <3>1. ~IsOk(Cell(ty, Float(a)))
            BY <1>1, <2>1, <2>3, OkFacts DEF checked_text
        <3>2. QED
            BY <3>1
    <2>4. QED
        BY <1>5, <2>2, <2>3
<1>6. QED
    BY <1>2, <1>3, <1>4, <1>5

LEMMA FloatCell ==
    ASSUME NEW ty, ty.k = "FLOAT", NEW h \in Int
    PROVE  IsOk(Cell(ty, Float(h))) <=> Abs(h) <= 2 * FloatMax
<1>1. as_f64(Float(h)) = Ok(Text(Float(h)))
    BY DEF as_f64, Float
<1>2. IsOk(Cell(ty, Float(h))) <=> FitsFloat(Text(Float(h)))
    BY <1>1, CellByKind, OkFacts DEF Provided
<1>3. QED
    BY <1>2, FloatFits

LEMMA FloatsBetween ==
    ASSUME NEW ty, IsScalar(ty), ty.k \notin {"DECIMAL", "CHAR"},
           NEW a \in Int, NEW b \in Int, NEW c \in Int, a <= b, b <= c,
           IsOk(Cell(ty, Float(a))), IsOk(Cell(ty, Float(c)))
    PROVE  IsOk(Cell(ty, Float(b)))
<1>1. CASE ty.k \in {"TINYINT", "SMALLINT", "INT", "BIGINT", "BITMAP", "LARGEINT"}
    <2> DEFINE d == 2
    <2>1. \A n : WholeNumber(Float(n)) = Ok(Trunc(n, d))
        BY DEF WholeNumber, Float
    <2>2. d \in Nat /\ d >= 1
        OBVIOUS
    <2> HIDE DEF d
    <2>3. /\ Trunc(a, d) \in Int /\ Trunc(b, d) \in Int /\ Trunc(c, d) \in Int
          /\ Trunc(a, d) <= Trunc(b, d) /\ Trunc(b, d) <= Trunc(c, d)
        BY <2>2, TruncMonotone
    <2>4. QED
        BY <1>1, <2>1, <2>3, WholeCell
<1>2. CASE ty.k = "FLOAT"
    <2>1. Abs(a) <= 2 * FloatMax /\ Abs(c) <= 2 * FloatMax
        BY <1>2, FloatCell
    <2>2. Abs(b) <= 2 * FloatMax
        BY <2>1, IntMaxType DEF Abs
    <2>3. QED
        BY <1>2, <2>2, FloatCell
<1>3. CASE ty.k \notin {"TINYINT", "SMALLINT", "INT", "BIGINT", "BITMAP", "LARGEINT", "FLOAT"}
    BY <1>3, FloatsAlike DEF IsScalar
<1>4. QED
    BY <1>1, <1>2, <1>3

(* Rounded, a float may leave its range, but no further than to the next    *)
(* whole number, and the largest f32 is one.                                *)
LEMMA RoundedBetween ==
    ASSUME NEW ty, IsScalar(ty), ~TakesWhole(ty), ty.k \notin {"DECIMAL", "CHAR"},
           NEW a \in Int, NEW b \in Int, NEW c \in Int, a <= b, b <= c,
           IsOk(Cell(ty, Float(a))), IsOk(Cell(ty, Float(c)))
    PROVE  IsOk(Cell(ty, Float(RoundHalves(b))))
<1>1. ty.k \notin {"TINYINT", "SMALLINT", "INT", "BIGINT", "BITMAP", "LARGEINT"}
    BY WidthsNest DEF TakesWhole
<1>2. CASE ty.k = "FLOAT"
    <2>1. Abs(a) <= 2 * FloatMax /\ Abs(c) <= 2 * FloatMax
        BY <1>2, FloatCell
    <2>2. RoundHalves(b) \in Int /\ Abs(RoundHalves(b)) <= 2 * FloatMax
        BY <2>1, IntMaxType DEF Abs, RoundHalves
    <2>3. QED
        BY <1>2, <2>2, FloatCell
<1>3. CASE ty.k # "FLOAT"
    BY <1>1, <1>3, FloatsAlike DEF IsScalar
<1>4. QED
    BY <1>2, <1>3

LEMMA MomentsBetween ==
    ASSUME NEW ty, IsScalar(ty), NEW f,
           NEW a \in Int, NEW b \in Int, NEW c \in Int, a <= b, b <= c,
           IsOk(Cell(ty, Moment(a, f))), IsOk(Cell(ty, Moment(c, f)))
    PROVE  IsOk(Cell(ty, Moment(b, f)))
<1>1. \A n : Moment(n, f).k = "ts" /\ Moment(n, f).fmt = f
    BY DEF Moment
<1>2. CASE ty.k \in {"BOOLEAN", "TINYINT", "SMALLINT", "INT", "BIGINT", "BITMAP", "FLOAT",
                     "DOUBLE", "QUANTILE_STATE", "DECIMAL", "LARGEINT", "IPV4", "IPV6"}
    <2>1. ~IsOk(Cell(ty, Moment(a, f)))
        BY <1>1, <1>2, NoNumber
    <2>2. QED
        BY <2>1
<1>3. CASE ty.k \in {"DATE", "DATETIME"}
    BY <1>3, MomentBetween
<1>4. CASE ty.k \in {"STRING", "HLL", "JSON", "VARIANT", "CHAR"}
    <2>1. \A n : Cell(ty, Moment(n, f)) = checked_text(Moment(n, f), ty)
        BY <1>4, CellByKind
    <2>2. CASE ty.k \in {"STRING", "HLL", "JSON", "VARIANT"}
        BY <1>1, <2>1, <2>2, OkFacts DEF checked_text
    <2>3. CASE ty.k = "CHAR"
        <3>1. \A n : IsOk(Cell(ty, Moment(n, f))) <=> Bytes(Text(Moment(n, f))) <= ty.len
            BY <2>1, <2>3, OkFacts DEF checked_text
        <3>2. \A n : Text(Moment(n, f)).t = "time" /\ Text(Moment(n, f)).fmt = f
            BY DEF Text, Moment, Time
        <3>3. Bytes(Text(Moment(a, f))) = Bytes(Text(Moment(b, f)))
            BY <3>2 DEF Bytes
        <3>4. QED
            BY <3>1, <3>3
    <2>4. QED
        BY <1>4, <2>2, <2>3
<1>5. QED
    BY <1>2, <1>3, <1>4 DEF IsScalar

(* Nor is a text that is neither a number, a flag, a moment nor JSON. *)
LEMMA NoSuchText ==
    ASSUME NEW ty, ty.k \in {"BOOLEAN", "TINYINT", "SMALLINT", "INT", "BIGINT", "BITMAP", "FLOAT", "DOUBLE",
                             "QUANTILE_STATE", "DECIMAL", "LARGEINT", "DATE", "DATETIME", "JSON", "VARIANT"},
           NEW v, v.k = "str", v.text.t \in {"word", "addr"}, v.text.t = "word" => v.text.w = "text"
    PROVE  ~IsOk(Cell(ty, v))
<1>1. as_bool(v) = Err
    <2>1. v.text \notin {Word("true", 4), Word("yes", 3), Digits(1, 0)}
        BY DEF Word, Digits
    <2>2. v.text \notin {Word("false", 5), Word("no", 2), Digits(0, 0)}
        BY DEF Word, Digits
    <2>3. QED
        BY <2>1, <2>2 DEF as_bool
<1>2. WholeNumber(v) = Err /\ DecimalText(v) = Err /\ as_timestamp_micros(v) = Err /\ ParseJson(v.text) = Err
    BY DEF WholeNumber, DecimalText, as_timestamp_micros, ParseJson
<1>3. as_f64(v) = Err
    <2>1. v.text # Word("inf", 3)
        BY DEF Word
    <2>2. QED
        BY <2>1 DEF as_f64
<1>4. \A a, b : as_int(v, a, b) = Err
    BY <1>2, OkFacts DEF as_int, Provided
<1>5. CASE ty.k = "BOOLEAN"
    BY <1>1, <1>5, CellByKind, OkFacts
<1>6. CASE ty.k \in {"TINYINT", "SMALLINT", "INT", "BIGINT"}
    <2>1. Cell(ty, v) = as_int(v, -IntMax[ty.k] - 1, IntMax[ty.k])
        BY <1>6, CellByKind
    <2>2. QED
        BY <1>4, <2>1, OkFacts
<1>7. CASE ty.k = "BITMAP"
    <2>1. Cell(ty, v) = as_int(v, 0, IntMax["BIGINT"])
        BY <1>7, CellByKind
    <2>2. QED
        BY <1>4, <2>1, OkFacts
<1>8. CASE ty.k = "FLOAT"
    BY <1>3, <1>8, CellByKind, OkFacts DEF Provided
<1>9. CASE ty.k \in {"DOUBLE", "QUANTILE_STATE"}
    BY <1>3, <1>9, CellByKind, OkFacts
<1>10. CASE ty.k = "DECIMAL"
    <2>1. \A s : PaddedUnits(v, s) = Err
        BY <1>2, OkFacts DEF PaddedUnits, Then
    <2>2. \A p, s : as_decimal(v, p, s) = Err
        BY <2>1, OkFacts DEF as_decimal, Provided
    <2>3. \A p, s : as_decimal256(v, p, s) = Err
        BY <2>1, OkFacts DEF as_decimal256, Provided
    <2>4. Cell(ty, v) = Err
        BY <1>10, <2>2, <2>3, CellByKind
    <2>5. QED
        BY <2>4, OkFacts
<1>11. CASE ty.k \in {"LARGEINT", "JSON", "VARIANT"}
    <2>1. Cell(ty, v) = checked_text(v, ty)
        BY <1>11, CellByKind
    <2>2. checked_text(v, ty) = Err
        BY <1>2, <1>4, <1>11, OkFacts DEF checked_text, Then
    <2>3. QED
        BY <2>1, <2>2, OkFacts
<1>12. CASE ty.k \in {"DATE", "DATETIME"}
    BY <1>2, <1>12, OkFacts, MomentsOnly
<1>13. QED
    BY <1>5, <1>6, <1>7, <1>8, <1>9, <1>10, <1>11, <1>12

LEMMA TextsBelow ==
    ASSUME NEW ty, IsScalar(ty), TypeHasParameters(ty),
           NEW b \in Int, NEW c \in Int, b <= c, IsOk(Cell(ty, Plain(c)))
    PROVE  IsOk(Cell(ty, Plain(b)))
<1>1. \A n : /\ Plain(n).k = "str" /\ Plain(n).text = Word("text", n)
             /\ Word("text", n).t = "word" /\ Word("text", n).w = "text" /\ Word("text", n).bytes = n
    BY DEF Plain, Str, Word
<1>2. CASE ty.k \notin {"STRING", "HLL", "CHAR", "IPV4", "IPV6"}
    <2>1. ~IsOk(Cell(ty, Plain(c)))
        BY <1>1, <1>2, NoSuchText DEF IsScalar
    <2>2. QED
        BY <2>1
<1>3. CASE ty.k \in {"STRING", "HLL", "CHAR", "IPV4", "IPV6"}
    <2>1. \A n : Cell(ty, Plain(n)) = checked_text(Plain(n), ty)
        BY <1>3, CellByKind
    <2>2. CASE ty.k \in {"STRING", "HLL"}
        BY <2>1, <2>2, OkFacts DEF checked_text
    <2>3. CASE ty.k \in {"IPV4", "IPV6"}
        <3>1. Plain(c).k = "str" /\ Plain(c).text.t = "word"
            BY <1>1
        <3>2. checked_text(Plain(c), ty) = Err
            BY <2>3, <3>1 DEF checked_text
        <3>3. ~IsOk(Cell(ty, Plain(c)))
            BY <2>1, <3>2, OkFacts
        <3>4. QED
            BY <3>3
    <2>4. CASE ty.k = "CHAR"
        <3>1. ASSUME NEW n PROVE Bytes(Text(Plain(n))) = n
            <4>1. Text(Plain(n)) = Word("text", n)
                BY <1>1 DEF Text
            <4>2. QED
                BY <1>1, <4>1 DEF Bytes
        <3>2. \A n : IsOk(Cell(ty, Plain(n))) <=> n <= ty.len
            BY <2>1, <2>4, <3>1, OkFacts DEF checked_text
        <3>3. ty.len \in Nat
            BY <2>4 DEF TypeHasParameters
        <3>4. QED
            BY <3>2, <3>3
    <2>5. QED
        BY <1>3, <2>2, <2>3, <2>4
<1>4. QED
    BY <1>2, <1>3

LEMMA AddressesAlike ==
    ASSUME NEW ty, IsScalar(ty), ty.k # "CHAR", NEW bits, NEW a, NEW b,
           IsOk(Cell(ty, Str(Address(a, bits))))
    PROVE  IsOk(Cell(ty, Str(Address(b, bits))))
<1> DEFINE v(n) == Str(Address(n, bits))
<1>1. \A n : v(n).k = "str" /\ v(n).text.t = "addr" /\ v(n).text.bits = bits
    BY DEF Str, Address
<1> HIDE DEF v
<1>2. SUFFICES ASSUME IsOk(Cell(ty, v(a))) PROVE IsOk(Cell(ty, v(b)))
    BY DEF v
<1>3. CASE ty.k \notin {"STRING", "HLL", "IPV4", "IPV6"}
    <2>1. ~IsOk(Cell(ty, v(a)))
        BY <1>1, <1>3, NoSuchText DEF IsScalar
    <2>2. QED
        BY <1>2, <2>1
<1>4. CASE ty.k \in {"STRING", "HLL", "IPV4", "IPV6"}
    <2>1. \A n : Cell(ty, v(n)) = checked_text(v(n), ty)
        BY <1>4, CellByKind
    <2>2. CASE ty.k \in {"STRING", "HLL"}
        BY <2>1, <2>2, OkFacts DEF checked_text
    <2>3. CASE ty.k = "IPV4"
        <3>1. \A n : IsOk(Cell(ty, v(n))) <=> bits = 4
            BY <1>1, <2>1, <2>3, OkFacts DEF checked_text
        <3>2. QED
            BY <1>2, <3>1
    <2>4. CASE ty.k = "IPV6"
        <3>1. \A n : IsOk(Cell(ty, v(n))) <=> bits = 6
            BY <1>1, <2>1, <2>4, OkFacts DEF checked_text
        <3>2. QED
            BY <1>2, <3>1
    <2>5. QED
        BY <1>4, <2>2, <2>3, <2>4
<1>5. QED
    BY <1>3, <1>4

LEMMA AcceptsScalar ==
    ASSUME NEW column, ~Nested(column.ty), NEW v
    PROVE  /\ IsNull(v) => (Accepts(column, v) <=> column.nullable)
           /\ ~IsNull(v) => (Accepts(column, v) <=> IsOk(Cell(column.ty, v)))
<1>1. CASE IsNull(v)
    BY <1>1, OkFacts DEF Accepts, Store
<1>2. CASE ~IsNull(v)
    <2>1. Store(column.ty, v) = IF IsOk(Cell(column.ty, v)) THEN Ok(<<Cell(column.ty, v)[1]>>) ELSE Err
        BY <1>2 DEF Store, Then
    <2>2. QED
        BY <1>2, <2>1, OkFacts DEF Accepts
<1>3. QED
    BY <1>1, <1>2

LEMMA PointsOfRanges ==
    ASSUME NEW g, IsRange(g), NEW x
    PROVE  /\ ~IsNull(At(g, x))
           /\ g.g = "int" => At(g, x) = Number(x)
           /\ g.g = "float" => At(g, x) = Float(IF g.whole THEN RoundHalves(x) ELSE x)
           /\ g.g = "decimal" => At(g, x) = Dec(x, g.scale)
           /\ g.g = "datetime" => At(g, x) = Moment(x, g.fmt)
           /\ g.g = "text" => At(g, x) = Plain(x)
           /\ g.g = "ip" => At(g, x) = Str(Address(x, g.bits))
<1>1. /\ g.g = "int" => At(g, x) = Number(x)
      /\ g.g = "float" => At(g, x) = Float(IF g.whole THEN RoundHalves(x) ELSE x)
      /\ g.g = "decimal" => At(g, x) = Dec(x, g.scale)
      /\ g.g = "datetime" => At(g, x) = Moment(x, g.fmt)
      /\ g.g = "text" => At(g, x) = Plain(x)
      /\ g.g = "ip" => At(g, x) = Str(Address(x, g.bits))
    BY DEF At
<1>2. ~IsNull(At(g, x))
    BY <1>1 DEF IsRange, IsNull, Number, Float, Dec, Moment, Plain, Str
<1>3. QED
    BY <1>1, <1>2

(* What the check tries of a column and what it leaves untried. *)
Tried(column, g) ==
    /\ \A i \in DOMAIN plain_extremes(g) : Accepts(column, plain_extremes(g)[i])
    /\ g.nulls => Accepts(column, Null)

TextsHaveLengths(g) ==
    g.values # <<>> =>
        /\ \A i \in DOMAIN g.values : g.values[i].k = "str"
        /\ \A j \in DOMAIN g.shown : g.shown[j].k = "str"
        /\ \A j \in DOMAIN g.shown, i \in DOMAIN g.values :
              Bytes(Text(g.shown[j])) \in Nat /\ Bytes(Text(g.values[i])) \in Nat

Checkable(ty, g) ==
    /\ IsScalar(ty) /\ TypeHasParameters(ty) /\ ~PlainlyBlind(g, ty)
    /\ IsRange(g) => RangeHasNumbers(g)
    /\ g.g = "opaque" => TextsHaveLengths(g)
    /\ g.g = "ip" => ty.k # "CHAR"
    /\ g.g # "struct"

(* A column of text takes what an opaque generator draws: any text at all,  *)
(* or, of limited length, what is no longer than some text that was tried.  *)
LEMMA OpaqueTextTaken ==
    ASSUME NEW column, NEW g, g.g = "opaque", TextsHaveLengths(g), Tried(column, g),
           ~PlainlyBlind(g, column.ty), TypeHasParameters(column.ty), NEW i \in DOMAIN g.values
    PROVE  Accepts(column, g.values[i])
<1> DEFINE ty == column.ty
           v == g.values[i]
<1>1. g.values # <<>>
    OBVIOUS
<1>2. v.k = "str" /\ ~IsNull(v)
    BY <1>1 DEF TextsHaveLengths, IsNull
<1>3. /\ ty.k \in {"STRING", "HLL", "CHAR"}
      /\ ty.k = "CHAR" => ~Longer(v, g.shown)
    BY DEF PlainlyBlind
<1>4. ~Nested(ty)
    BY <1>3 DEF Nested
<1>5. \A w : Cell(ty, w) = checked_text(w, ty)
    BY <1>3, CellByKind
<1>6. IsOk(Cell(ty, v))
    <2>1. CASE ty.k \in {"STRING", "HLL"}
        BY <1>5, <2>1, OkFacts DEF checked_text
    <2>2. CASE ty.k = "CHAR"
        <3>1. PICK j \in DOMAIN g.shown : ~(Bytes(Text(v)) > Bytes(Text(g.shown[j])))
            BY <1>3, <2>2 DEF Longer
        <3> DEFINE w == g.shown[j]
        <3>2. plain_extremes(g) = g.shown
            BY DEF plain_extremes, IsRange
        <3>3. Accepts(column, w)
            BY <3>2 DEF Tried
        <3>4. w.k = "str" /\ ~IsNull(w)
            BY <1>1 DEF TextsHaveLengths, IsNull
        <3>5. IsOk(Cell(ty, w))
            BY <1>4, <3>3, <3>4, AcceptsScalar
        <3>6. \A u : IsOk(Cell(ty, u)) <=> Bytes(Text(u)) <= ty.len
            BY <1>5, <2>2, OkFacts DEF checked_text
        <3>7. Bytes(Text(w)) \in Nat /\ Bytes(Text(v)) \in Nat /\ ty.len \in Nat
            BY <1>1, <2>2 DEF TextsHaveLengths, TypeHasParameters
        <3> HIDE DEF v, w
        <3>8. Bytes(Text(v)) <= Bytes(Text(w))
            BY <3>1, <3>7 DEF w
        <3>9. Bytes(Text(w)) <= ty.len
            BY <3>5, <3>6
        <3>10. QED
            BY <3>6, <3>7, <3>8, <3>9
    <2>3. QED
        BY <1>3, <2>1, <2>2
<1>7. QED
    BY <1>2, <1>4, <1>6, AcceptsScalar

(* validate_against_schema with Generator::probe_values (src/probe.rs,       *)
(* src/vendor/datagen/src/probe.rs): where a column takes the extremes a     *)
(* generator reports, it takes every value the generator can draw; the       *)
(* exceptions are those of PlainlyBlind, which drop out of Checkable.  What  *)
(* an opaque generator shows (nothing, zeros, a last value) is thus relied   *)
(* on only where a column stores any text, or any that is short enough.  For *)
(* every width of the types and every bound of the ranges.                   *)
THEOREM ProbesSuffice ==
    ASSUME NEW column, NEW g, Checkable(column.ty, g), Tried(column, g), NEW v, Drawn(g, v)
    PROVE  Accepts(column, v)
<1> DEFINE ty == column.ty
<1>1. IsScalar(ty) /\ TypeHasParameters(ty) /\ ~PlainlyBlind(g, ty) /\ ~Nested(ty)
    BY DEF Checkable, IsScalar, Nested
<1>2. CASE g.nulls /\ v = Null
    BY <1>2 DEF Tried
<1>3. ASSUME IsRange(g), NEW x \in g.min..g.max, v = At(g, x)
      PROVE  Accepts(column, v)
    <2>1. g.min \in Int /\ g.max \in Int /\ x \in Int /\ g.min <= x /\ x <= g.max
        BY <1>3 DEF Checkable, RangeHasNumbers
    <2>2. /\ g.g # "float" => Accepts(column, At(g, g.max))
          /\ g.g \notin {"text", "float"} => Accepts(column, At(g, g.min))
          /\ g.g = "float" => Accepts(column, Float(g.min)) /\ Accepts(column, Float(g.max))
        <3>1. CASE g.g = "text"
            <4>1. plain_extremes(g) = <<At(g, g.max)>>
                BY <3>1 DEF plain_extremes
            <4>2. QED
                BY <3>1, <4>1 DEF Tried
        <3>2. CASE g.g = "float"
            <4> DEFINE ends == <<Float(g.min), Float(g.max)>>
            <4>1. plain_extremes(g) = ends
                BY <3>2 DEF plain_extremes, IsRange
            <4>2. ends[1] = Float(g.min) /\ ends[2] = Float(g.max) /\ DOMAIN ends = {1, 2}
                OBVIOUS
            <4> HIDE DEF ends
            <4>3. \A i \in DOMAIN ends : Accepts(column, ends[i])
                BY <4>1 DEF Tried
            <4>4. QED
                BY <3>2, <4>2, <4>3
        <3>3. CASE g.g \notin {"text", "float"}
            <4> DEFINE ends == <<At(g, g.min), At(g, g.max)>>
            <4>1. plain_extremes(g) = ends
                <5>1. g.g \in {"int", "decimal", "datetime", "ip"}
                    BY <1>3, <3>3 DEF IsRange
                <5>2. IsRange(g)
                    BY <1>3
                <5>3. QED
                    BY <5>1, <5>2, Zenon DEF plain_extremes
            <4>2. ends[1] = At(g, g.min) /\ ends[2] = At(g, g.max) /\ DOMAIN ends = {1, 2}
                OBVIOUS
            <4> HIDE DEF ends
            <4>3. \A i \in DOMAIN ends : Accepts(column, ends[i])
                BY <4>1 DEF Tried
            <4>4. QED
                BY <3>3, <4>2, <4>3
        <3>4. QED
            BY <3>1, <3>2, <3>3
    <2>3. \A y : ~IsNull(At(g, y)) /\ (Accepts(column, At(g, y)) <=> IsOk(Cell(ty, At(g, y))))
        BY <1>1, <1>3, PointsOfRanges, AcceptsScalar
    <2>4. /\ g.g # "float" => IsOk(Cell(ty, At(g, g.max)))
          /\ g.g \notin {"text", "float"} => IsOk(Cell(ty, At(g, g.min)))
          /\ g.g = "float" => IsOk(Cell(ty, Float(g.min))) /\ IsOk(Cell(ty, Float(g.max)))
        <3>1. \A h : ~IsNull(Float(h))
            BY DEF IsNull, Float
        <3>2. QED
            BY <1>1, <2>2, <2>3, <3>1, AcceptsScalar
    <2> HIDE DEF ty
    <2>5. CASE g.g = "int"
        <3>1. IsOk(Cell(ty, Number(x)))
            BY <1>1, <1>3, <2>1, <2>4, <2>5, PointsOfRanges, IntsBetween
        <3>2. QED
            BY <1>3, <2>3, <2>5, <3>1, PointsOfRanges
    <2>6. CASE g.g = "float"
        <3>1. ty.k \notin {"DECIMAL", "CHAR"}
            BY <1>1, <2>6 DEF PlainlyBlind
        <3>2. IsOk(Cell(ty, Float(IF g.whole THEN RoundHalves(x) ELSE x)))
            <4>1. CASE g.whole
                <5>1. ~TakesWhole(ty)
                    BY <1>1, <2>6, <4>1 DEF PlainlyBlind
                <5>2. QED
                    BY <1>1, <2>1, <2>4, <2>6, <3>1, <4>1, <5>1, RoundedBetween
            <4>2. CASE ~g.whole
                BY <1>1, <2>1, <2>4, <2>6, <3>1, <4>2, FloatsBetween
            <4>3. QED
                BY <4>1, <4>2
        <3>3. QED
            BY <1>3, <2>3, <2>6, <3>2, PointsOfRanges
    <2>7. CASE g.g = "decimal"
        <3>1. g.scale \in Nat
            BY <1>3, <2>7 DEF Checkable, RangeHasNumbers
        <3>2. ty.k = "DECIMAL" => g.scale <= ty.s
            BY <1>1, <2>7, <3>1 DEF PlainlyBlind, TypeHasParameters
        <3>3. IsOk(Cell(ty, Dec(x, g.scale)))
            BY <1>1, <1>3, <2>1, <2>4, <2>7, <3>1, <3>2, PointsOfRanges, DecimalsBetween
        <3>4. QED
            BY <1>3, <2>3, <2>7, <3>3, PointsOfRanges
    <2>8. CASE g.g = "datetime"
        <3>1. IsOk(Cell(ty, Moment(x, g.fmt)))
            BY <1>1, <1>3, <2>1, <2>4, <2>8, PointsOfRanges, MomentsBetween
        <3>2. QED
            BY <1>3, <2>3, <2>8, <3>1, PointsOfRanges
    <2>9. CASE g.g = "text"
        <3>1. IsOk(Cell(ty, Plain(x)))
            BY <1>1, <1>3, <2>1, <2>4, <2>9, PointsOfRanges, TextsBelow
        <3>2. QED
            BY <1>3, <2>3, <2>9, <3>1, PointsOfRanges
    <2>10. CASE g.g = "ip"
        <3>1. ty.k # "CHAR"
            BY <2>10 DEF Checkable, ty
        <3>2. IsOk(Cell(ty, Str(Address(x, g.bits))))
            BY <1>1, <1>3, <2>4, <2>10, <3>1, PointsOfRanges, AddressesAlike
        <3>3. QED
            BY <1>3, <2>3, <2>10, <3>2, PointsOfRanges
    <2>11. QED
        BY <1>3, <2>5, <2>6, <2>7, <2>8, <2>9, <2>10 DEF IsRange
<1>4. CASE g.g = "choice" /\ \E i \in DOMAIN g.values : v = g.values[i]
    <2>1. plain_extremes(g) = g.values
        BY <1>4 DEF plain_extremes, IsRange
    <2>2. QED
        BY <1>4, <2>1 DEF Tried
<1>5. CASE g.g = "opaque" /\ \E i \in DOMAIN g.values : v = g.values[i]
    <2>1. TextsHaveLengths(g)
        BY <1>5 DEF Checkable
    <2>2. QED
        BY <1>1, <1>5, <2>1, OpaqueTextTaken
<1>6. g.g \notin {"sequence", "struct"}
    BY <1>1 DEF PlainlyBlind, Checkable
<1>7. QED
    BY <1>2, <1>3, <1>4, <1>5, <1>6 DEF Drawn

(* The generators derive.rs chooses, one shape of them after the other. *)
LEMMA DrawnPoint ==
    ASSUME NEW g, IsRange(g), g.nulls = FALSE, NEW v, Drawn(g, v)
    PROVE  \E x \in g.min..g.max : v = At(g, x)
BY DEF Drawn, IsRange

LEMMA DrawnChoice ==
    ASSUME NEW g, g.g = "choice", g.nulls = FALSE, NEW v, Drawn(g, v)
    PROVE  \E i \in DOMAIN g.values : v = g.values[i]
BY DEF Drawn, IsRange

LEMMA DrawnOfOne ==
    ASSUME NEW a, NEW v, Drawn(choice(<<a>>), v)
    PROVE  v = a
<1> DEFINE one == <<a>>
<1>1. choice(one).g = "choice" /\ choice(one).nulls = FALSE /\ choice(one).values = one
    BY DEF choice
<1>2. DOMAIN one = {1} /\ one[1] = a
    OBVIOUS
<1>3. Drawn(choice(one), v)
    OBVIOUS
<1> HIDE DEF one
<1>4. \E i \in DOMAIN choice(one).values : v = choice(one).values[i]
    BY <1>1, <1>3, DrawnChoice
<1>5. QED
    BY <1>1, <1>2, <1>4

LEMMA DrawnOfTwo ==
    ASSUME NEW a, NEW b, NEW v, Drawn(choice(<<a, b>>), v)
    PROVE  v \in {a, b}
<1> DEFINE both == <<a, b>>
<1>1. choice(both).g = "choice" /\ choice(both).nulls = FALSE /\ choice(both).values = both
    BY DEF choice
<1>2. DOMAIN both = {1, 2} /\ both[1] = a /\ both[2] = b
    OBVIOUS
<1>3. Drawn(choice(both), v)
    OBVIOUS
<1> HIDE DEF both
<1>4. \E i \in DOMAIN choice(both).values : v = choice(both).values[i]
    BY <1>1, <1>3, DrawnChoice
<1>5. QED
    BY <1>1, <1>2, <1>4

LEMMA DrawnOfThree ==
    ASSUME NEW a, NEW b, NEW c, NEW v, Drawn(choice(<<a, b, c>>), v)
    PROVE  v \in {a, b, c}
<1> DEFINE all == <<a, b, c>>
<1>1. choice(all).g = "choice" /\ choice(all).nulls = FALSE /\ choice(all).values = all
    BY DEF choice
<1>2. DOMAIN all = {1, 2, 3} /\ all[1] = a /\ all[2] = b /\ all[3] = c
    OBVIOUS
<1>3. Drawn(choice(all), v)
    OBVIOUS
<1> HIDE DEF all
<1>4. \E i \in DOMAIN choice(all).values : v = choice(all).values[i]
    BY <1>1, <1>3, DrawnChoice
<1>5. QED
    BY <1>1, <1>2, <1>4

Fits(ty, v) == ~IsNull(v) /\ ValueHasNumbers(v) /\ IsOk(Cell(ty, v))

LEMMA TextFits ==
    ASSUME NEW ty, NEW n, ty.k \in {"STRING", "HLL"} \/ (ty.k = "CHAR" /\ n <= ty.len)
    PROVE  Fits(ty, Plain(n))
<1>1. /\ Plain(n).k = "str" /\ Plain(n).text = Word("text", n)
      /\ Word("text", n).t = "word" /\ Word("text", n).bytes = n
    BY DEF Plain, Str, Word
<1>2. Cell(ty, Plain(n)) = checked_text(Plain(n), ty)
    BY CellByKind
<1>3. IsOk(Cell(ty, Plain(n)))
    <2>1. Text(Plain(n)) = Word("text", n)
        BY <1>1 DEF Text
    <2>2. Bytes(Text(Plain(n))) = n
        BY <1>1, <2>1 DEF Bytes
    <2>3. CASE ty.k \in {"STRING", "HLL"}
        BY <1>2, <2>3, OkFacts DEF checked_text
    <2>4. CASE ty.k = "CHAR" /\ n <= ty.len
        BY <1>2, <2>2, <2>4, OkFacts DEF checked_text
    <2>5. QED
        BY <2>3, <2>4
<1>4. ~IsNull(Plain(n)) /\ ValueHasNumbers(Plain(n))
    BY <1>1 DEF IsNull, ValueHasNumbers
<1>5. QED
    BY <1>3, <1>4 DEF Fits

(* The zeros a random_bytes generator is probed with are as long as asked. *)
LEMMA ZerosFit ==
    ASSUME NEW ty, NEW n \in Nat, n >= 1, ty.k = "CHAR", ty.len \in Nat, n <= ty.len
    PROVE  Fits(ty, Zeros(n))
<1> DEFINE t == ZeroPadded(0, n)
<1>1. DigitCount(0) = 1
    <2>1. DigitCount(0) = CHOOSE d \in 1..1 : 0 < TenTo[d] /\ (d = 1 \/ 0 >= TenTo[d - 1])
        BY DEF DigitCount
    <2>2. 0 < TenTo[1]
        BY TenToType
    <2>3. \E d \in 1..1 : 0 < TenTo[d] /\ (d = 1 \/ 0 >= TenTo[d - 1])
        BY <2>2
    <2>4. DigitCount(0) \in 1..1
        BY <2>1, <2>3
    <2>5. QED
        BY <2>4
<1>2. t.t = "num" /\ t.units = 0 /\ t.scale = 0 /\ t.pad = n - 1
    BY <1>1 DEF ZeroPadded, Digits
<1> HIDE DEF t
<1>3. Bytes(t) = n
    <2>1. Abs(t.units) = 0
        BY <1>2 DEF Abs
    <2>2. Bytes(t) = 0 + 0 + (IF DigitCount(0) > 0 THEN DigitCount(0) ELSE 1) + (n - 1)
        BY <1>2, <2>1 DEF Bytes
    <2>3. QED
        BY <1>1, <2>2
<1>4. Zeros(n).k = "str" /\ Zeros(n).text = t
    BY DEF Zeros, Str, t
<1>5. Text(Zeros(n)) = t
    BY <1>4 DEF Text
<1>6. Cell(ty, Zeros(n)) = checked_text(Zeros(n), ty)
    BY CellByKind
<1>7. IsOk(Cell(ty, Zeros(n)))
    BY <1>3, <1>5, <1>6, OkFacts DEF checked_text
<1>8. ~IsNull(Zeros(n)) /\ ValueHasNumbers(Zeros(n))
    BY <1>2, <1>4 DEF IsNull, ValueHasNumbers
<1>9. QED
    BY <1>7, <1>8 DEF Fits

(* What hex is drawn. *)
LEMMA HexShape ==
    ASSUME NEW half
    PROVE  /\ random_hex(half, half).g = "opaque" /\ random_hex(half, half).nulls = FALSE
           /\ random_hex(half, half).bails = FALSE
           /\ random_hex(half, half).values = <<Zeros(2 * half), Plain(2 * half), Plain(2 * half)>>
BY DEF random_hex, opaque

LEMMA DrawnHex ==
    ASSUME NEW half, NEW v, Drawn(random_hex(half, half), v)
    PROVE  v \in {Zeros(2 * half), Plain(2 * half)}
<1> DEFINE g == random_hex(half, half)
           all == <<Zeros(2 * half), Plain(2 * half), Plain(2 * half)>>
<1>1. g.g = "opaque" /\ g.nulls = FALSE /\ g.values = all
    BY HexShape
<1>2. DOMAIN all = {1, 2, 3} /\ all[1] = Zeros(2 * half) /\ all[2] = Plain(2 * half) /\ all[3] = Plain(2 * half)
    OBVIOUS
<1>3. Drawn(g, v)
    OBVIOUS
<1> HIDE DEF g, all
<1>4. \E i \in DOMAIN g.values : v = g.values[i]
    BY <1>1, <1>3 DEF Drawn, IsRange
<1>5. QED
    BY <1>1, <1>2, <1>4

(* Text between two lengths, the longer one within the column. *)
LEMMA TextRangeFits ==
    ASSUME NEW ty, NEW short \in Int, NEW long \in Int,
           ty.k \in {"STRING", "HLL"} \/ (ty.k = "CHAR" /\ ty.len \in Nat /\ long <= ty.len),
           NEW v, Drawn(TextRange(short, long), v)
    PROVE  Fits(ty, v)
<1> DEFINE g == TextRange(short, long)
<1>1. g.g = "text" /\ g.nulls = FALSE /\ g.min = short /\ g.max = long
    BY DEF TextRange
<1> HIDE DEF g
<1>2. IsRange(g)
    BY <1>1 DEF IsRange
<1>3. PICK x \in short..long : v = At(g, x)
    BY <1>1, <1>2, DrawnPoint DEF g
<1>4. v = Plain(x)
    BY <1>1, <1>2, <1>3, PointsOfRanges
<1>5. QED
    BY <1>3, <1>4, TextFits

LEMMA LoremRange ==
    ASSUME NEW len \in Nat
    PROVE  \E short, long \in Int : /\ lorem_within(len) = TextRange(short, long)
                                    /\ short <= long
                                    /\ len >= longest_lorem_word => long <= len
<1> DEFINE fit == (len + 1) \div 8
           words == IF fit < 1 THEN 1 ELSE LeastOf(fit, 12)
           least == LeastOf(words, 3)
<1>1. fit \in Int /\ 8 * fit <= len + 1
    OBVIOUS
<1>2. lorem_within(len) = TextRange(least * 5 + least - 1, words * 7 + words - 1)
    BY DEF lorem_within, lorem, longest_lorem_word, ShortestWord
<1> HIDE DEF fit
<1>3. words \in Int /\ words >= 1 /\ least \in Int /\ least <= words /\ (words = 1 \/ words <= fit)
    BY <1>1 DEF LeastOf
<1> HIDE DEF words, least
<1>4. /\ words * 7 + words - 1 \in Int /\ least * 5 + least - 1 \in Int
      /\ least * 5 + least - 1 <= words * 7 + words - 1
      /\ len >= 7 => words * 7 + words - 1 <= len
    BY <1>1, <1>3
<1>5. QED
    BY <1>2, <1>4 DEF longest_lorem_word

LEMMA FixedWidthFits ==
    ASSUME NEW ty, ty.k = "CHAR", ty.len \in Nat, ty.len >= 1,
           NEW v, Drawn(fixed_width_string(ty.len), v)
    PROVE  Fits(ty, v)
<1> DEFINE half == ty.len \div 2
<1>1. half \in Int /\ 2 * half <= ty.len
    OBVIOUS
<1> HIDE DEF half
<1>2. CASE half = 0
    <2>1. fixed_width_string(ty.len) = choice(<<Plain(1)>>)
        BY <1>2 DEF fixed_width_string, half
    <2>2. Drawn(choice(<<Plain(1)>>), v)
        BY <2>1
    <2>3. v = Plain(1)
        BY <2>2, DrawnOfOne
    <2>4. QED
        BY <2>3, TextFits
<1>3. CASE half # 0
    <2>1. fixed_width_string(ty.len) = random_hex(half, half)
        BY <1>3 DEF fixed_width_string, half
    <2>2. 2 * half \in Nat /\ 2 * half >= 1 /\ 2 * half <= ty.len
        <3>1. half >= 0
            BY DEF half
        <3>2. QED
            BY <1>1, <1>3, <3>1
    <2>3. v \in {Zeros(2 * half), Plain(2 * half)}
        BY <2>1, DrawnHex
    <2>4. Fits(ty, Zeros(2 * half)) /\ Fits(ty, Plain(2 * half))
        BY <2>2, ZerosFit, TextFits
    <2>5. QED
        BY <2>3, <2>4
<1>4. QED
    BY <1>2, <1>3

LEMMA IntRangeFits ==
    ASSUME NEW ty, NEW lo \in Nat, NEW hi \in Nat,
           \/ ty.k \in {"TINYINT", "SMALLINT", "INT", "BIGINT"} /\ hi <= IntMax[ty.k]
           \/ ty.k = "LARGEINT" /\ hi <= I128Max
           \/ ty.k = "BITMAP" /\ hi <= IntMax["BIGINT"],
           NEW v, Drawn(int_range(lo, hi), v)
    PROVE  Fits(ty, v)
<1> DEFINE g == int_range(lo, hi)
<1>1. g.g = "int" /\ g.nulls = FALSE /\ g.min = lo /\ g.max = hi
    BY DEF int_range
<1> HIDE DEF g
<1>2. IsRange(g)
    BY <1>1 DEF IsRange
<1>3. PICK x \in lo..hi : v = At(g, x)
    BY <1>1, <1>2, DrawnPoint DEF g
<1>4. v = Number(x)
    BY <1>1, <1>2, <1>3, PointsOfRanges
<1>5. v.k = "int" /\ v.n = x
    BY <1>4 DEF Number
<1>6. WholeNumber(v) = Ok(x)
    BY <1>5 DEF WholeNumber
<1>7. \A a, b : x \in a..b => as_int(v, a, b) = Ok(x)
    BY <1>6, OkFacts DEF as_int, Provided
<1>8. IsOk(Cell(ty, v))
    <2>1. CASE ty.k \in {"TINYINT", "SMALLINT", "INT", "BIGINT"}
        <3>1. x \in -IntMax[ty.k] - 1 .. IntMax[ty.k]
            BY <2>1, IntMaxType
        <3>2. Cell(ty, v) = as_int(v, -IntMax[ty.k] - 1, IntMax[ty.k])
            BY <2>1, CellByKind
        <3>3. QED
            BY <1>7, <3>1, <3>2, OkFacts
    <2>2. CASE ty.k = "LARGEINT"
        <3>1. x \in -I128Max .. I128Max
            BY <2>2, IntMaxType
        <3>2. checked_text(v, ty) = Then(as_int(v, -I128Max, I128Max), LAMBDA n : Ok(Digits(n, 0)))
            BY <2>2 DEF checked_text
        <3>3. IsOk(checked_text(v, ty))
            BY <1>7, <3>1, <3>2, OkFacts DEF Then
        <3>4. QED
            BY <2>2, <3>3, CellByKind
    <2>3. CASE ty.k = "BITMAP"
        <3>1. x \in 0 .. IntMax["BIGINT"]
            BY <2>3, IntMaxType
        <3>2. Cell(ty, v) = as_int(v, 0, IntMax["BIGINT"])
            BY <2>3, CellByKind
        <3>3. QED
            BY <1>7, <3>1, <3>2, OkFacts
    <2>4. QED
        BY <2>1, <2>2, <2>3
<1>9. QED
    BY <1>5, <1>8 DEF Fits, IsNull, ValueHasNumbers

LEMMA FloatRangeFits ==
    ASSUME NEW ty, NEW top \in Nat,
           (ty.k = "FLOAT" /\ top <= FloatMax) \/ ty.k \in {"DOUBLE", "QUANTILE_STATE"},
           NEW v, Drawn(float_range(0, 2 * top), v)
    PROVE  Fits(ty, v)
<1> DEFINE g == float_range(0, 2 * top)
<1>1. g.g = "float" /\ g.nulls = FALSE /\ g.whole = FALSE /\ g.min = 0 /\ g.max = 2 * top
    BY DEF float_range
<1> HIDE DEF g
<1>2. IsRange(g)
    BY <1>1 DEF IsRange
<1>3. PICK h \in 0..2 * top : v = At(g, h)
    BY <1>1, <1>2, DrawnPoint DEF g
<1>4. v = Float(h)
    BY <1>1, <1>2, <1>3, PointsOfRanges
<1>5. v.k = "float" /\ v.halves = h
    BY <1>4 DEF Float
<1>6. as_f64(v) = Ok(Text(v))
    BY <1>5 DEF as_f64
<1>7. ASSUME top <= FloatMax PROVE FitsFloat(Text(v))
    <2>1. TenTo[0] = 1 /\ TenTo[1] = 10 /\ FloatMax \in Nat
        BY TenToSteps, IntMaxType
    <2>2. Text(v) = IF h % 2 = 0 THEN Digits(Trunc(h, 2), 0) ELSE Digits(5 * h, 1)
        BY <1>5 DEF Text
    <2>3. Trunc(h, 2) = h \div 2 /\ h \div 2 \in 0..top /\ 5 * h \in 0..10 * top
        BY DEF Trunc
    <2>4. Abs(h \div 2) = h \div 2 /\ Abs(5 * h) = 5 * h
        BY <2>3 DEF Abs
    <2>5. CASE h % 2 = 0
        <3>1. Text(v).units = h \div 2 /\ Text(v).scale = 0
            BY <2>2, <2>3, <2>5 DEF Digits
        <3>2. QED
            BY <1>7, <2>1, <2>3, <2>4, <3>1 DEF FitsFloat
    <2>6. CASE h % 2 # 0
        <3>1. Text(v).units = 5 * h /\ Text(v).scale = 1
            BY <2>2, <2>6 DEF Digits
        <3>2. QED
            BY <1>7, <2>1, <2>3, <2>4, <3>1 DEF FitsFloat
    <2>7. QED
        BY <2>5, <2>6
<1>8. IsOk(Cell(ty, v))
    <2>1. CASE ty.k = "FLOAT" /\ top <= FloatMax
        BY <1>6, <1>7, <2>1, CellByKind, OkFacts DEF Provided
    <2>2. CASE ty.k \in {"DOUBLE", "QUANTILE_STATE"}
        BY <1>6, <2>2, CellByKind, OkFacts
    <2>3. QED
        BY <2>1, <2>2
<1>9. QED
    BY <1>5, <1>8 DEF Fits, IsNull, ValueHasNumbers

LEMMA GeneratorByKind ==
    ASSUME NEW ty
    PROVE  /\ ty.k = "BOOLEAN" =>
                scalar_generator(ty) = choice(<<Str(Word("true", 4)), Str(Word("false", 5))>>)
           /\ ty.k \in {"TINYINT", "SMALLINT", "INT", "BIGINT", "LARGEINT"} =>
                scalar_generator(ty) = int_range(0, DerivedTop[ty.k])
           /\ ty.k = "BITMAP" => scalar_generator(ty) = int_range(1, DerivedTop[ty.k])
           /\ ty.k \in {"FLOAT", "DOUBLE", "QUANTILE_STATE"} =>
                scalar_generator(ty) = float_range(0, 2 * DerivedTop[ty.k])
           /\ ty.k = "DECIMAL" => scalar_generator(ty) = decimal_range(ty.p, ty.s)
           /\ ty.k = "DATE" => scalar_generator(ty) =
                datetime_around((Now - 365) * MicrosPerDay, Now * MicrosPerDay, DayOnly)
           /\ ty.k = "DATETIME" => scalar_generator(ty) =
                datetime_around((Now - 30) * MicrosPerDay, Now * MicrosPerDay, ty.s)
           /\ ty.k = "CHAR" => scalar_generator(ty) =
                IF ty.varchar /\ ty.len >= LOREM_MIN_WIDTH THEN lorem_within(ty.len)
                                                           ELSE fixed_width_string(ty.len)
           /\ ty.k = "STRING" => scalar_generator(ty) = lorem(3, 12)
           /\ ty.k \in {"JSON", "VARIANT"} => \E fields : scalar_generator(ty) = struct_of(fields)
           /\ ty.k = "IPV4" => scalar_generator(ty) = IpRange(0, U32Max, 4)
           /\ ty.k = "IPV6" => scalar_generator(ty) = IpRange(0, U32Max, 6)
           /\ ty.k = "HLL" => scalar_generator(ty) = TextRange(36, 36)
<1>1. is_integer(ty) <=> ty.k \in {"TINYINT", "SMALLINT", "INT", "BIGINT", "LARGEINT"}
    BY WidthsNest DEF is_integer
<1> HIDE DEF is_integer
<1>2. QED
    BY <1>1 DEF scalar_generator

LEMMA DecimalRangeFits ==
    ASSUME NEW ty, ty.k = "DECIMAL", ty.p \in Nat, ty.s \in Nat, ty.s <= ty.p,
           NEW v, Drawn(decimal_range(ty.p, ty.s), v)
    PROVE  Fits(ty, v)
<1> DEFINE whole == LeastOf(IF ty.p > ty.s THEN ty.p - ty.s ELSE 0, WholeCap)
           scale == LeastOf(ty.s, FractionCap)
           top == TenTo[whole + scale] - 1
           g == DecimalRange(0, top, scale)
<1>1. whole \in Nat /\ scale \in Nat /\ scale <= ty.s /\ whole + ty.s <= ty.p
    BY DerivedAssumption DEF LeastOf
<1>2. decimal_range(ty.p, ty.s) = g
    BY DEF decimal_range
<1>3. g.g = "decimal" /\ g.nulls = FALSE /\ g.min = 0 /\ g.max = top /\ g.scale = scale
    BY DEF DecimalRange
<1>4. TenTo[whole + scale] \in Nat
    BY <1>1, TenToType
<1> DEFINE all == TenTo[whole + scale]
<1> HIDE DEF g, whole, scale, top
<1>5. IsRange(g) /\ Drawn(g, v)
    BY <1>2, <1>3 DEF IsRange
<1>6. PICK x \in 0..top : v = At(g, x)
    BY <1>3, <1>5, DrawnPoint
<1>7. v = Dec(x, scale)
    BY <1>3, <1>5, <1>6, PointsOfRanges
<1>8. v.k = "dec" /\ v.units = x /\ v.scale = scale
    BY <1>7 DEF Dec
<1>9. x \in Nat /\ x < TenTo[whole + scale]
    BY <1>4, <1>6 DEF top
<1> DEFINE pad == TenTo[ty.s - scale]
           unscaled == x * pad
<1>10. pad \in Nat /\ pad >= 1
    BY <1>1, TenToType
<1>11. TenTo[whole + scale] * pad = TenTo[whole + ty.s]
    <2>1. whole + scale \in Nat /\ ty.s - scale \in Nat /\ (whole + scale) + (ty.s - scale) = whole + ty.s
        BY <1>1
    <2>2. QED
        BY <2>1, TenToSum
<1>12. TenTo[whole + ty.s] <= TenTo[ty.p] /\ TenTo[ty.p] \in Nat /\ TenTo[whole + ty.s] \in Nat
    BY <1>1, TenToMonotone, TenToType
<1> HIDE DEF pad
<1>13. unscaled \in Nat /\ unscaled < TenTo[ty.p]
    <2>1. x * pad < TenTo[whole + scale] * pad
        <3>1. all \in Nat /\ x + 1 <= all
            BY <1>4, <1>9
        <3> HIDE DEF all
        <3>2. (x + 1) * pad <= all * pad
            BY <1>9, <1>10, <3>1, TimesMonotone
        <3>3. (x + 1) * pad = x * pad + pad
            BY <1>9, <1>10
        <3>4. x * pad \in Nat /\ all * pad \in Nat
            BY <1>9, <1>10, <3>1
        <3>5. QED
            BY <1>10, <3>2, <3>3, <3>4 DEF all
    <2>2. x * pad \in Nat
        BY <1>9, <1>10
    <2>3. x * pad < TenTo[whole + ty.s]
        BY <1>11, <2>1
    <2> HIDE DEF unscaled
    <2>4. unscaled \in Nat /\ unscaled < TenTo[whole + ty.s]
        BY <2>2, <2>3 DEF unscaled
    <2>5. QED
        BY <1>12, <2>4
<1> HIDE DEF unscaled
<1>14. FitsPrecision(unscaled, ty.p) /\ Abs(unscaled) = unscaled
    BY <1>13 DEF FitsPrecision, Abs
<1>15. CASE ty.p <= DECIMAL128_MAX_PRECISION
    <2>1. TenTo[ty.p] <= I128Max
        <3>1. TenTo[ty.p] <= TenTo[DECIMAL128_MAX_PRECISION]
            BY <1>15, IntMaxType, TenToMonotone
        <3>2. TenTo[DECIMAL128_MAX_PRECISION] <= I128Max /\ TenTo[DECIMAL128_MAX_PRECISION] \in Nat /\ I128Max \in Nat
            BY WidthsNest, IntMaxType, TenToType
        <3>3. QED
            BY <1>12, <3>1, <3>2
    <2>2. Abs(unscaled) <= I128Max
        BY <1>12, <1>13, <1>14, <2>1, IntMaxType
    <2>3. scale <= ty.s /\ ~(scale > ty.s)
        BY <1>1
    <2>4. rescale_decimal(x, scale, ty.p, ty.s) = Ok(unscaled)
        BY <1>14, <2>2, <2>3 DEF rescale_decimal, unscaled, pad
    <2>5. as_decimal(v, ty.p, ty.s) = Ok(unscaled)
        BY <1>8, <2>4 DEF as_decimal
    <2>6. IsOk(Cell(ty, v))
        BY <1>15, <2>5, CellByKind, OkFacts
    <2>7. QED
        BY <1>1, <1>8, <1>9, <2>6 DEF Fits, IsNull, ValueHasNumbers
<1>16. CASE ~(ty.p <= DECIMAL128_MAX_PRECISION)
    <2>1. DecimalText(v) = Ok(Digits(x, scale))
        BY <1>8 DEF DecimalText, Text
    <2>2. Digits(x, scale).units = x /\ Digits(x, scale).scale = scale
        BY DEF Digits
    <2>3. PaddedUnits(v, ty.s) = Ok(unscaled)
        BY <1>1, <2>1, <2>2, OkFacts DEF PaddedUnits, Then, unscaled, pad
    <2>4. as_decimal256(v, ty.p, ty.s) = Ok(unscaled)
        BY <1>14, <2>3, OkFacts DEF as_decimal256, Provided
    <2>5. IsOk(Cell(ty, v))
        BY <1>16, <2>4, CellByKind, OkFacts
    <2>6. QED
        BY <1>1, <1>8, <1>9, <2>5 DEF Fits, IsNull, ValueHasNumbers
<1>17. QED
    BY <1>15, <1>16

LEMMA MomentRangeFits ==
    ASSUME NEW ty, ty.k \in {"DATE", "DATETIME"}, NEW days \in 0..365, NEW f,
           NEW v, Drawn(datetime_around((Now - days) * MicrosPerDay, Now * MicrosPerDay, f), v)
    PROVE  Fits(ty, v)
<1> DEFINE d == MicrosPerDay
           lo == (Now - days) * d
           hi == Now * d
           g == datetime_around(lo, hi, f)
<1>1. d \in Nat /\ d >= 1
    BY DayType
<1>2. /\ Now \in Int /\ MIN_DATE_DAYS \in Int /\ MAX_DATE_DAYS \in Int
      /\ MIN_DATE_DAYS <= Now - days /\ Now <= MAX_DATE_DAYS
    BY WidthsNest, DerivedAssumption
<1>3. g.g = "datetime" /\ g.nulls = FALSE /\ g.min = lo /\ g.max = hi /\ g.fmt = f
    BY DEF datetime_around
<1> HIDE DEF g
<1>4. IsRange(g)
    BY <1>3 DEF IsRange
<1>5. PICK m \in lo..hi : v = At(g, m)
    BY <1>3, <1>4, DrawnPoint DEF g
<1>6. v = Moment(m, f)
    BY <1>3, <1>4, <1>5, PointsOfRanges
<1>7. v.k = "ts" /\ v.micros = m
    BY <1>6 DEF Moment
<1> HIDE DEF d
<1>8. lo \in Int /\ hi \in Int /\ m \in Int /\ lo <= m /\ m <= hi
    BY <1>1, <1>2, <1>5
<1>9. as_timestamp_micros(v) = Ok(m)
    BY <1>7 DEF as_timestamp_micros
<1>10. CASE ty.k = "DATE"
    <2>1. m \div d \in MIN_DATE_DAYS..MAX_DATE_DAYS
        <3>1. lo \div d = Now - days /\ hi \div d = Now
            BY <1>1, <1>2, MultipleHasNoRest
        <3>2. lo \div d <= m \div d /\ m \div d <= hi \div d /\ m \div d \in Int
            BY <1>1, <1>8, DivMonotone, DivMod
        <3> HIDE DEF lo, hi
        <3>3. QED
            BY <1>2, <3>1, <3>2
    <2>2. as_date(v) = Ok(m \div MicrosPerDay)
        BY <1>9, OkFacts DEF as_date, Then
    <2>3. Cell(ty, v) = Ok(m \div MicrosPerDay)
        BY <1>10, <2>1, <2>2, CellByKind, OkFacts DEF Provided, d
    <2>4. QED
        BY <1>7, <1>8, <2>3, OkFacts DEF Fits, IsNull, ValueHasNumbers
<1>11. CASE ty.k = "DATETIME"
    <2> DEFINE first == MIN_DATE_DAYS * d
               last == (MAX_DATE_DAYS + 1) * d - 1
               unit == TenTo[SubSecond - ty.s]
    <2>1. m \in first..last
        <3>1. first \in Int /\ last \in Int
            BY <1>1, <1>2
        <3>2. first <= lo
            BY <1>1, <1>2, TimesMonotone
        <3>3. hi <= last
            <4>1. hi <= MAX_DATE_DAYS * d
                BY <1>1, <1>2, TimesMonotone
            <4>2. last = MAX_DATE_DAYS * d + d - 1 /\ MAX_DATE_DAYS * d \in Int
                BY <1>1, <1>2
            <4> HIDE DEF hi, last
            <4>3. QED
                BY <1>1, <1>8, <3>1, <4>1, <4>2
        <3> HIDE DEF lo, hi, first, last
        <3>4. QED
            BY <1>8, <3>1, <3>2, <3>3
    <2>2. Cell(ty, v) = Then(as_timestamp_micros(v), LAMBDA n :
                   IF n \in first..last THEN Ok((n \div unit) * unit) ELSE Err)
        BY <1>11, WidthsNest DEF Cell, d
    <2> HIDE DEF first, last, unit
    <2>3. IsOk(Cell(ty, v))
        BY <1>9, <2>1, <2>2, OkFacts DEF Then
    <2>4. QED
        BY <1>7, <1>8, <2>3 DEF Fits, IsNull, ValueHasNumbers
<1>12. QED
    BY <1>10, <1>11

LEMMA AddressRangeFits ==
    ASSUME NEW ty, NEW bits, (ty.k = "IPV4" /\ bits = 4) \/ (ty.k = "IPV6" /\ bits = 6),
           NEW v, Drawn(IpRange(0, U32Max, bits), v)
    PROVE  Fits(ty, v)
<1> DEFINE g == IpRange(0, U32Max, bits)
<1>1. g.g = "ip" /\ g.nulls = FALSE /\ g.min = 0 /\ g.max = U32Max /\ g.bits = bits
    BY DEF IpRange
<1> HIDE DEF g
<1>2. IsRange(g)
    BY <1>1 DEF IsRange
<1>3. PICK x \in 0..U32Max : v = At(g, x)
    BY <1>1, <1>2, DrawnPoint DEF g
<1>4. v = Str(Address(x, bits))
    BY <1>1, <1>2, <1>3, PointsOfRanges
<1>5. v.k = "str" /\ v.text.t = "addr" /\ v.text.bits = bits
    BY <1>4 DEF Str, Address
<1>6. checked_text(v, ty) = Ok(v.text)
    BY <1>5 DEF checked_text
<1>7. IsOk(Cell(ty, v))
    BY <1>6, CellByKind, OkFacts
<1>8. QED
    BY <1>5, <1>7 DEF Fits, IsNull, ValueHasNumbers

LEMMA FlagsRead ==
    /\ as_bool(Str(Word("true", 4))) = Ok(TRUE)
    /\ as_bool(Str(Word("false", 5))) = Ok(FALSE)
<1> DEFINE high == Str(Word("true", 4))
           low == Str(Word("false", 5))
<1>1. /\ high.k = "str" /\ high.text = Word("true", 4)
      /\ low.k = "str" /\ low.text = Word("false", 5)
    BY DEF Str
<1> HIDE DEF high, low
<1>2. as_bool(high) = Ok(TRUE)
    <2>1. high.text \in {Word("true", 4), Word("yes", 3), Digits(1, 0)}
        BY <1>1
    <2>2. high.text \notin {Word("false", 5), Word("no", 2), Digits(0, 0)}
        BY <1>1 DEF Word, Digits
    <2>3. QED
        BY <1>1, <2>1, <2>2 DEF as_bool
<1>3. as_bool(low) = Ok(FALSE)
    <2>1. low.text \notin {Word("true", 4), Word("yes", 3), Digits(1, 0)}
        BY <1>1 DEF Word, Digits
    <2>2. QED
        BY <1>1, <2>1 DEF as_bool
<1>4. QED
    BY <1>2, <1>3 DEF high, low

LEMMA FlagsFit ==
    ASSUME NEW ty, ty.k = "BOOLEAN", NEW v, Drawn(scalar_generator(ty), v)
    PROVE  Fits(ty, v)
<1> DEFINE high == Str(Word("true", 4))
           low == Str(Word("false", 5))
<1>1. Drawn(choice(<<high, low>>), v)
    BY GeneratorByKind
<1>2. /\ high.k = "str" /\ high.text = Word("true", 4) /\ high.text.t = "word"
      /\ low.k = "str" /\ low.text = Word("false", 5) /\ low.text.t = "word"
    BY DEF Str, Word
<1>3. as_bool(high) = Ok(TRUE) /\ as_bool(low) = Ok(FALSE)
    BY FlagsRead
<1> HIDE DEF high, low
<1>4. v = high \/ v = low
    BY <1>1, DrawnOfTwo
<1>5. IsOk(Cell(ty, v))
    <2>1. Cell(ty, v) = as_bool(v)
        BY CellByKind
    <2>2. IsOk(Ok(TRUE)) /\ IsOk(Ok(FALSE))
        BY OkFacts
    <2>3. QED
        BY <1>3, <1>4, <2>1, <2>2
<1>6. QED
    BY <1>2, <1>4, <1>5 DEF Fits, IsNull, ValueHasNumbers

(* What the parser of schema.rs lets through: a scale within the precision, *)
(* and here also a text of some width.                                      *)
Derivable(ty) ==
    /\ IsScalar(ty) /\ TypeHasParameters(ty)
    /\ ty.k = "DECIMAL" => ty.s <= ty.p
    /\ ty.k = "CHAR" => ty.len >= 1

LEMMA DerivedByType ==
    ASSUME NEW ty, Derivable(ty), NEW v, Drawn(scalar_generator(ty), v)
    PROVE  Fits(ty, v)
<1>1. IsScalar(ty) /\ TypeHasParameters(ty)
    BY DEF Derivable
<1>2. CASE ty.k = "BOOLEAN"
    BY <1>2, FlagsFit
<1>3. CASE ty.k \in {"TINYINT", "SMALLINT", "INT", "BIGINT", "LARGEINT", "BITMAP"}
    <2>1. DOMAIN IntMax = {"TINYINT", "SMALLINT", "INT", "BIGINT"}
        BY WidthsNest
    <2> DEFINE top == DerivedTop[ty.k]
    <2>2. top \in Nat /\ \/ ty.k \in {"TINYINT", "SMALLINT", "INT", "BIGINT"} /\ top <= IntMax[ty.k]
                         \/ ty.k = "LARGEINT" /\ top <= I128Max
                         \/ ty.k = "BITMAP" /\ top <= IntMax["BIGINT"]
        BY <1>3, <2>1, IntMaxType, DerivedAssumption
    <2>3. Drawn(int_range(0, top), v) \/ Drawn(int_range(1, top), v)
        BY <1>3, GeneratorByKind
    <2> HIDE DEF top
    <2>4. QED
        BY <2>2, <2>3, IntRangeFits
<1>4. CASE ty.k \in {"FLOAT", "DOUBLE", "QUANTILE_STATE"}
    <2> DEFINE top == DerivedTop[ty.k]
    <2>1. top \in Nat /\ (ty.k = "FLOAT" => top <= FloatMax)
        BY <1>4, IntMaxType, DerivedAssumption
    <2>2. Drawn(float_range(0, 2 * top), v)
        BY <1>4, GeneratorByKind
    <2> HIDE DEF top
    <2>3. QED
        BY <1>4, <2>1, <2>2, FloatRangeFits
<1>5. CASE ty.k = "DECIMAL"
    BY <1>1, <1>5, GeneratorByKind, DecimalRangeFits DEF Derivable, TypeHasParameters
<1>6. CASE ty.k = "DATE"
    <2>1. Drawn(datetime_around((Now - 365) * MicrosPerDay, Now * MicrosPerDay, DayOnly), v)
        BY <1>6, GeneratorByKind
    <2>2. 365 \in 0..365
        OBVIOUS
    <2>3. QED
        BY <1>6, <2>1, <2>2, MomentRangeFits
<1>7. CASE ty.k = "DATETIME"
    <2>1. Drawn(datetime_around((Now - 30) * MicrosPerDay, Now * MicrosPerDay, ty.s), v)
        BY <1>7, GeneratorByKind
    <2>2. 30 \in 0..365
        OBVIOUS
    <2>3. QED
        BY <1>7, <2>1, <2>2, MomentRangeFits
<1>8. CASE ty.k = "CHAR"
    <2>1. ty.len \in Nat /\ ty.len >= 1
        BY <1>1, <1>8 DEF Derivable, TypeHasParameters
    <2>2. CASE ty.varchar /\ ty.len >= LOREM_MIN_WIDTH
        <3>1. ty.len >= longest_lorem_word
            BY <2>1, <2>2 DEF LOREM_MIN_WIDTH, longest_lorem_word
        <3>2. PICK short, long \in Int : lorem_within(ty.len) = TextRange(short, long) /\ long <= ty.len
            BY <2>1, <3>1, LoremRange
        <3>3. Drawn(TextRange(short, long), v)
            BY <1>8, <2>2, <3>2, GeneratorByKind
        <3>4. QED
            BY <1>8, <2>1, <3>2, <3>3, TextRangeFits
    <2>3. CASE ~(ty.varchar /\ ty.len >= LOREM_MIN_WIDTH)
        <3>1. Drawn(fixed_width_string(ty.len), v)
            BY <1>8, <2>3, GeneratorByKind
        <3>2. QED
            BY <1>8, <2>1, <3>1, FixedWidthFits
    <2>4. QED
        BY <2>2, <2>3
<1>9. CASE ty.k = "STRING"
    <2>1. lorem(3, 12) = TextRange(17, 95)
        BY DEF lorem, ShortestWord, longest_lorem_word
    <2>2. Drawn(TextRange(17, 95), v)
        BY <1>9, <2>1, GeneratorByKind
    <2>3. 17 \in Int /\ 95 \in Int /\ ty.k \in {"STRING", "HLL"}
        BY <1>9
    <2>4. QED
        BY <2>2, <2>3, TextRangeFits
<1>10. CASE ty.k = "HLL"
    <2>1. Drawn(TextRange(36, 36), v)
        BY <1>10, GeneratorByKind
    <2>2. 36 \in Int /\ ty.k \in {"STRING", "HLL"}
        BY <1>10
    <2>3. QED
        BY <2>1, <2>2, TextRangeFits
<1>11. CASE ty.k \in {"JSON", "VARIANT"}
    <2>1. PICK fields : scalar_generator(ty) = struct_of(fields)
        BY <1>11, GeneratorByKind
    <2>2. struct_of(fields).g = "struct" /\ struct_of(fields).nulls = FALSE
        BY DEF struct_of
    <2>3. v.k = "struct"
        BY <2>1, <2>2 DEF Drawn, IsRange
    <2>4. checked_text(v, ty) = Ok(JsonText(v))
        BY <1>11, <2>3 DEF checked_text
    <2>5. IsOk(Cell(ty, v))
        BY <1>11, <2>4, CellByKind, OkFacts
    <2>6. QED
        BY <2>3, <2>5 DEF Fits, IsNull, ValueHasNumbers
<1>12. CASE ty.k \in {"IPV4", "IPV6"}
    <2>1. CASE ty.k = "IPV4"
        BY <2>1, GeneratorByKind, AddressRangeFits
    <2>2. CASE ty.k = "IPV6"
        BY <2>2, GeneratorByKind, AddressRangeFits
    <2>3. QED
        BY <1>12, <2>1, <2>2
<1>13. QED
    BY <1>1, <1>2, <1>3, <1>4, <1>5, <1>6, <1>7, <1>8, <1>9, <1>10, <1>11, <1>12 DEF IsScalar

(* A text a column's name asks for is at most 63 bytes long. *)
LEMMA NameAsksForText ==
    ASSUME NEW column, IsOk(generator_by_name(column)),
           generator_by_name(column)[1].g # "sequence"
    PROVE  /\ IsOk(string_width(column.ty)) /\ string_width(column.ty)[1] >= LOREM_MIN_WIDTH
           /\ \/ \E short, long \in 3..63 : short <= long /\ generator_by_name(column)[1] = TextRange(short, long)
              \/ generator_by_name(column)[1] = choice(<<Plain(6), Plain(8), Plain(7)>>)
<1>1. sequence(1).g = "sequence"
    BY DEF sequence
<1>2. generator_by_name(column) # Ok(sequence(1))
    BY <1>1, OkFacts
<1>3. /\ IsOk(string_width(column.ty)) /\ string_width(column.ty)[1] >= LOREM_MIN_WIDTH
      /\ generator_by_name(column) = NamedText(column.name)
    BY <1>2, OkFacts DEF generator_by_name
<1>4. IsOk(NamedText(column.name))
    BY <1>3
<1>5. \/ \E short, long \in 3..63 : short <= long /\ NamedText(column.name) = Ok(TextRange(short, long))
      \/ NamedText(column.name) = Ok(choice(<<Plain(6), Plain(8), Plain(7)>>))
    <2> HIDE DEF TextRange, choice
    <2>1. \/ NamedText(column.name) \in {Ok(TextRange(24, 24)), Ok(TextRange(36, 36)),
                   Ok(TextRange(3, 9)), Ok(TextRange(8, 18)), Ok(TextRange(34, 63)), Ok(TextRange(3, 14))}
          \/ NamedText(column.name) = Ok(choice(<<Plain(6), Plain(8), Plain(7)>>))
        BY <1>4, OkFacts DEF NamedText
    <2>2. {3, 8, 9, 14, 18, 24, 34, 36, 63} \subseteq 3..63
        OBVIOUS
    <2>3. QED
        BY <2>1, <2>2
<1>6. QED
    BY <1>3, <1>5, OkFacts

LEMMA DerivedByName ==
    ASSUME NEW column, Derivable(column.ty), IsOk(generator_by_name(column)),
           generator_by_name(column)[1].g # "sequence",
           NEW v, Drawn(generator_by_name(column)[1], v)
    PROVE  Fits(column.ty, v)
<1> DEFINE ty == column.ty
           g == generator_by_name(column)[1]
<1>1. IsOk(string_width(ty)) /\ string_width(ty)[1] >= LOREM_MIN_WIDTH
    BY NameAsksForText
<1>2. \/ \E short, long \in 3..63 : g = TextRange(short, long)
      \/ g = choice(<<Plain(6), Plain(8), Plain(7)>>)
    BY NameAsksForText
<1>3. ty.k = "STRING" \/ (ty.k = "CHAR" /\ ty.len \in Nat /\ ty.len >= 64)
    <2>1. ty.k = "CHAR" => ty.len \in Nat
        BY DEF Derivable, TypeHasParameters
    <2>2. ty.k \in {"STRING", "CHAR"} /\ (ty.k = "CHAR" => string_width(ty) = Ok(ty.len))
        BY <1>1, OkFacts DEF string_width
    <2>3. QED
        BY <1>1, <2>1, <2>2, OkFacts DEF LOREM_MIN_WIDTH
<1> HIDE DEF ty, g
<1>4. Drawn(g, v)
    BY DEF g
<1>5. ASSUME NEW short \in 3..63, NEW long \in 3..63, g = TextRange(short, long)
      PROVE  Fits(ty, v)
    <2>1. short \in Int /\ long \in Int /\ (ty.k = "CHAR" => long <= ty.len)
        BY <1>3
    <2>2. Drawn(TextRange(short, long), v)
        BY <1>4, <1>5
    <2>3. QED
        BY <1>3, <2>1, <2>2, TextRangeFits
<1>6. CASE g = choice(<<Plain(6), Plain(8), Plain(7)>>)
    <2>1. v \in {Plain(6), Plain(8), Plain(7)}
        BY <1>4, <1>6, DrawnOfThree
    <2>2. ASSUME NEW n \in {6, 8, 7} PROVE Fits(ty, Plain(n))
        <3>1. ty.k \in {"STRING", "HLL"} \/ (ty.k = "CHAR" /\ n <= ty.len)
            BY <1>3
        <3>2. QED
            BY <3>1, TextFits
    <2>3. QED
        BY <2>1, <2>2 DEF ty
<1>7. QED
    BY <1>2, <1>5, <1>6 DEF ty

(* spec_yaml_from_table, for a column that holds no other. *)
DerivedFor(column) ==
    IF IsOk(generator_by_name(column)) THEN generator_by_name(column)[1]
                                       ELSE scalar_generator(column.ty)

(* generator_by_type and generator_by_name (src/src/derive.rs): whatever    *)
(* the generator derived for a scalar column draws, the column takes,       *)
(* however narrow its integer, its text or its decimal.  The one generator  *)
(* left out is the `id` sequence, which a long enough run takes past any    *)
(* width.                                                                   *)
THEOREM DerivedScalarsFit ==
    ASSUME NEW column, Derivable(column.ty), DerivedFor(column).g # "sequence",
           NEW v, Drawn(DerivedFor(column), v)
    PROVE  Accepts(column, v) /\ ValueHasNumbers(v)
<1>1. Fits(column.ty, v)
    <2>1. CASE IsOk(generator_by_name(column))
        <3>1. DerivedFor(column) = generator_by_name(column)[1]
            BY <2>1 DEF DerivedFor
        <3>2. QED
            BY <2>1, <3>1, DerivedByName
    <2>2. CASE ~IsOk(generator_by_name(column))
        <3>1. DerivedFor(column) = scalar_generator(column.ty)
            BY <2>2 DEF DerivedFor
        <3>2. QED
            BY <3>1, DerivedByType
    <2>3. QED
        BY <2>1, <2>2
<1>2. ~Nested(column.ty)
    BY DEF Derivable, IsScalar, Nested
<1>3. QED
    BY <1>1, <1>2, AcceptsScalar DEF Fits

(* A generator derived for a scalar column always has something to draw. *)
LEMMA RangeDraws ==
    ASSUME NEW g, g.g \notin {"int", "float", "text", "choice", "opaque"}
    PROVE  ~Undrawable(g)
BY DEF Undrawable

LEMMA TextDraws ==
    ASSUME NEW short \in Int, NEW long \in Int, short <= long
    PROVE  ~Undrawable(TextRange(short, long))
<1> DEFINE g == TextRange(short, long)
<1>1. g.g = "text" /\ g.min = short /\ g.max = long
    BY DEF TextRange
<1> HIDE DEF g
<1>2. ~Undrawable(g)
    BY <1>1 DEF Undrawable
<1>3. QED
    BY <1>2 DEF g

LEMMA ChoiceDraws ==
    ASSUME NEW values, values # <<>>
    PROVE  ~Undrawable(choice(values))
<1> DEFINE g == choice(values)
<1>1. g.g = "choice" /\ g.values = values
    BY DEF choice
<1> HIDE DEF g
<1>2. ~Undrawable(g)
    BY <1>1 DEF Undrawable
<1>3. QED
    BY <1>2 DEF g

LEMMA FixedWidthDraws ==
    ASSUME NEW len \in Nat
    PROVE  ~Undrawable(fixed_width_string(len))
<1> DEFINE half == len \div 2
<1>1. half \in Int
    OBVIOUS
<1> HIDE DEF half
<1>2. CASE half = 0
    <2>1. fixed_width_string(len) = choice(<<Plain(1)>>)
        BY <1>2 DEF fixed_width_string, half
    <2>2. <<Plain(1)>> # <<>>
        OBVIOUS
    <2>3. QED
        BY <2>1, <2>2, ChoiceDraws
<1>3. CASE half # 0
    <2>1. fixed_width_string(len) = random_hex(half, half)
        BY <1>3 DEF fixed_width_string, half
    <2>2. ~Undrawable(random_hex(half, half))
        BY HexShape DEF Undrawable
    <2>3. QED
        BY <2>1, <2>2
<1>4. QED
    BY <1>2, <1>3

LEMMA DerivedByTypeDraws ==
    ASSUME NEW ty, Derivable(ty)
    PROVE  ~Undrawable(scalar_generator(ty))
<1>1. IsScalar(ty) /\ TypeHasParameters(ty)
    BY DEF Derivable
<1>2. CASE ty.k = "BOOLEAN"
    <2>1. <<Str(Word("true", 4)), Str(Word("false", 5))>> # <<>>
        OBVIOUS
    <2>2. QED
        BY <1>2, <2>1, GeneratorByKind, ChoiceDraws
<1>3. CASE ty.k \in {"TINYINT", "SMALLINT", "INT", "BIGINT", "LARGEINT", "BITMAP"}
    <2>1. DOMAIN IntMax = {"TINYINT", "SMALLINT", "INT", "BIGINT"}
        BY WidthsNest
    <2> DEFINE top == DerivedTop[ty.k]
    <2>2. top \in Nat /\ (ty.k = "BITMAP" => top >= 1)
        BY <1>3, <2>1, IntMaxType, DerivedAssumption
    <2>3. \E low \in {0, 1} : low <= top /\ scalar_generator(ty) = int_range(low, top)
        BY <1>3, <2>2, GeneratorByKind
    <2> HIDE DEF top
    <2>4. PICK low \in {0, 1} : low <= top /\ scalar_generator(ty) = int_range(low, top)
        BY <2>3
    <2> DEFINE g == int_range(low, top)
    <2>5. g.g = "int" /\ g.min = low /\ g.max = top
        BY DEF int_range
    <2> HIDE DEF g
    <2>6. ~Undrawable(g)
        BY <2>2, <2>4, <2>5 DEF Undrawable
    <2>7. QED
        BY <2>4, <2>6 DEF g
<1>4. CASE ty.k \in {"FLOAT", "DOUBLE", "QUANTILE_STATE"}
    <2> DEFINE top == DerivedTop[ty.k]
               g == float_range(0, 2 * top)
    <2>1. top \in Nat
        BY <1>4, IntMaxType, DerivedAssumption
    <2>2. scalar_generator(ty) = g
        BY <1>4, GeneratorByKind
    <2>3. g.g = "float" /\ g.min = 0 /\ g.max = 2 * top
        BY DEF float_range
    <2> HIDE DEF g, top
    <2>4. QED
        BY <2>1, <2>2, <2>3 DEF Undrawable
<1>5. CASE ty.k = "DECIMAL"
    <2>1. decimal_range(ty.p, ty.s).g = "decimal"
        BY DEF decimal_range, DecimalRange
    <2>2. QED
        BY <1>5, <2>1, GeneratorByKind, RangeDraws
<1>6. CASE ty.k \in {"DATE", "DATETIME"}
    <2>1. \A lo, hi, f : datetime_around(lo, hi, f).g = "datetime"
        BY DEF datetime_around
    <2>2. scalar_generator(ty).g = "datetime"
        BY <1>6, <2>1, GeneratorByKind
    <2>3. QED
        BY <2>2, RangeDraws
<1>7. CASE ty.k = "CHAR"
    <2>1. ty.len \in Nat
        BY <1>1, <1>7 DEF TypeHasParameters
    <2>2. PICK short, long \in Int : lorem_within(ty.len) = TextRange(short, long) /\ short <= long
        BY <2>1, LoremRange
    <2>3. QED
        BY <1>7, <2>1, <2>2, TextDraws, FixedWidthDraws, GeneratorByKind
<1>8. CASE ty.k \in {"STRING", "HLL"}
    <2>1. lorem(3, 12) = TextRange(17, 95)
        BY DEF lorem, ShortestWord, longest_lorem_word
    <2>2. scalar_generator(ty) \in {TextRange(17, 95), TextRange(36, 36)}
        BY <1>8, <2>1, GeneratorByKind
    <2>3. ~Undrawable(TextRange(17, 95)) /\ ~Undrawable(TextRange(36, 36))
        BY TextDraws
    <2>4. QED
        BY <2>2, <2>3
<1>9. CASE ty.k \in {"JSON", "VARIANT"}
    <2>1. PICK fields : scalar_generator(ty) = struct_of(fields)
        BY <1>9, GeneratorByKind
    <2>2. struct_of(fields).g = "struct"
        BY DEF struct_of
    <2>3. QED
        BY <2>1, <2>2, RangeDraws
<1>10. CASE ty.k \in {"IPV4", "IPV6"}
    <2>1. \A bits : IpRange(0, U32Max, bits).g = "ip"
        BY DEF IpRange
    <2>2. scalar_generator(ty).g = "ip"
        BY <1>10, <2>1, GeneratorByKind
    <2>3. QED
        BY <2>2, RangeDraws
<1>11. QED
    BY <1>1, <1>2, <1>3, <1>4, <1>5, <1>6, <1>7, <1>8, <1>9, <1>10 DEF IsScalar

LEMMA DerivedDraws ==
    ASSUME NEW column, Derivable(column.ty), DerivedFor(column).g # "sequence"
    PROVE  ~Undrawable(DerivedFor(column))
<1>1. CASE ~IsOk(generator_by_name(column))
    BY <1>1, DerivedByTypeDraws DEF DerivedFor
<1>2. CASE IsOk(generator_by_name(column))
    <2> DEFINE g == DerivedFor(column)
    <2>1. g = generator_by_name(column)[1]
        BY <1>2 DEF DerivedFor
    <2>2. \/ \E short, long \in 3..63 : short <= long /\ g = TextRange(short, long)
          \/ g = choice(<<Plain(6), Plain(8), Plain(7)>>)
        BY <1>2, <2>1, NameAsksForText
    <2> HIDE DEF g
    <2>3. CASE \E short, long \in 3..63 : short <= long /\ g = TextRange(short, long)
        BY <2>3, TextDraws DEF g
    <2>4. CASE g = choice(<<Plain(6), Plain(8), Plain(7)>>)
        <3>1. <<Plain(6), Plain(8), Plain(7)>> # <<>>
            OBVIOUS
        <3>2. QED
            BY <2>4, <3>1, ChoiceDraws DEF g
    <2>5. QED
        BY <2>2, <2>3, <2>4
<1>3. QED
    BY <1>1, <1>2

(* A task on a table of scalar columns, each with a generator that can draw *)
(* and was tried before the first row, or was derived from the column.      *)
Served(gens) ==
    \A c \in DOMAIN columns :
        \/ ~Undrawable(gens[c]) /\ Checkable(columns[c].ty, gens[c]) /\ Tried(columns[c], gens[c])
        \/ Derivable(columns[c].ty) /\ gens[c] = DerivedFor(columns[c]) /\ gens[c].g # "sequence"

DrawnRow(gens, row) ==
    \A c \in DOMAIN columns : Drawn(gens[c], row[c]) /\ row[c] \in Values

TaskInit(gens) == BuilderInit /\ Served(gens)

TaskNext(gens) ==
    \/ \E row : DrawnRow(gens, row) /\ AppendTo(row)
    \/ (\E c \in DOMAIN columns : Undrawable(gens[c])) /\ GenerateFails
    \/ FinishBatch
    \/ EndTask

TaskSpec(gens) == TaskInit(gens) /\ [][TaskNext(gens)]_builderVars

LEMMA ServedRowsTaken ==
    ASSUME NEW gens, Served(gens), NEW row, DrawnRow(gens, row), NEW c \in DOMAIN columns
    PROVE  Takes(c, row[c])
<1> ValueHasNumbers(row[c])
    BY ValuesHaveParts DEF DrawnRow
<1>1. CASE Checkable(columns[c].ty, gens[c]) /\ Tried(columns[c], gens[c])
    BY <1>1, ProbesSuffice DEF DrawnRow, Takes
<1>2. CASE Derivable(columns[c].ty) /\ gens[c] = DerivedFor(columns[c]) /\ gens[c].g # "sequence"
    BY <1>2, DerivedScalarsFit DEF DrawnRow, Takes
<1>3. QED
    BY <1>1, <1>2 DEF Served

LEMMA ServedStep ==
    ASSUME NEW gens, BuilderInv, Served(gens), pc # "failed", [TaskNext(gens)]_builderVars
    PROVE  BuilderInv' /\ Served(gens)' /\ pc' # "failed"
<1>1. BuilderInv'
    BY BuilderStep DEF TaskNext, BuilderNext, DrawnRow
<1>2. UNCHANGED columns
    BY DEF TaskNext, AppendTo, GenerateFails, FinishBatch, EndTask, builderVars
<1>3. Served(gens)'
    BY <1>2 DEF Served, Checkable, Tried, Derivable, DerivedFor, Accepts
<1>4. pc' # "failed"
    <2>1. CASE UNCHANGED builderVars
        BY <2>1 DEF builderVars
    <2>2. ASSUME NEW row, DrawnRow(gens, row), AppendTo(row)
          PROVE  pc' # "failed"
        <3>1. {c \in DOMAIN columns : ~Takes(c, row[c])} = {}
            BY <2>2, ServedRowsTaken
        <3>2. QED
            BY <2>2, <3>1 DEF AppendTo
    <2>3. CASE FinishBatch
        <3>1. ScalarTable
            BY DEF Served, Checkable, Derivable, IsScalar, Nested, ScalarTable
        <3>2. BatchAssembles
            BY <2>3, <3>1, ScalarBatchAssembles DEF FinishBatch
        <3>3. QED
            BY <2>3, <3>2 DEF FinishBatch, BatchAssembles
    <2>4. CASE EndTask
        BY <2>4 DEF EndTask
    <2>5. ASSUME NEW c \in DOMAIN columns, Undrawable(gens[c])
          PROVE  FALSE
        BY <2>5, DerivedDraws DEF Served
    <2>6. QED
        BY <2>1, <2>2, <2>3, <2>4, <2>5 DEF TaskNext
<1>5. QED
    BY <1>1, <1>3, <1>4

(* A run that got past the check before the first row (src/src/main.rs)     *)
(* does not fail on a row afterwards: no task of a table of scalar columns, *)
(* each with a generator derived from the column, or with one that never    *)
(* bails out, whose extremes were tried and to which the column is not      *)
(* blind, ever ends in an error of generate, append_row or finish, however  *)
(* many rows it draws.                                                      *)
THEOREM ServedTasksNeverFail ==
    ASSUME NEW gens
    PROVE  TaskSpec(gens) => [](pc # "failed")
<1> DEFINE Inv == BuilderInv /\ Served(gens) /\ pc # "failed"
<1>1. TaskInit(gens) => Inv
    BY BuilderStart DEF TaskInit, BuilderInit
<1>2. Inv /\ [TaskNext(gens)]_builderVars => Inv'
    BY ServedStep
<1>3. QED
    BY <1>1, <1>2, PTL DEF TaskSpec

-----------------------------------------------------------------------------
(* The keys of a MAP.  build_nested compares them as text, before they are  *)
(* converted; keys of one type that differ as text could become one.        *)

(* What a key drawn for a derived spec looks like. *)
KeyShape(ty, v) ==
    /\ ty.k = "BOOLEAN" => v \in {Str(Word("true", 4)), Str(Word("false", 5))}
    /\ ty.k \in {"TINYINT", "SMALLINT", "INT", "BIGINT", "BITMAP", "LARGEINT"} => \E n \in Int : v = Number(n)
    /\ ty.k \in {"FLOAT", "DOUBLE", "QUANTILE_STATE"} => \E h : v = Float(h)
    /\ ty.k = "DECIMAL" => \E u \in Int : v = Dec(u, LeastOf(ty.s, FractionCap))
    /\ ty.k = "DATE" => \E m \in Int : v = Moment(m, DayOnly)
    /\ ty.k = "DATETIME" => \E m \in Int : v = Moment(m, ty.s)
    /\ ty.k \in {"JSON", "VARIANT"} => v.k = "struct"
    /\ ty.k \in {"IPV4", "IPV6"} => \E n, bits : v = Str(Address(n, bits))

LEMMA KeyGeneratorByKind ==
    ASSUME NEW ty
    PROVE  /\ ty.k \notin {"CHAR", "STRING"} => map_key_generator(ty) = scalar_generator(ty)
           /\ ty.k = "STRING" => map_key_generator(ty) = lorem(1, 1)
           /\ ty.k = "CHAR" => map_key_generator(ty) =
                IF ty.len >= longest_lorem_word THEN lorem(1, 1) ELSE fixed_width_string(ty.len)
<1>1. CASE ty.k \notin {"CHAR", "STRING"}
    <2>1. string_width(ty) = Err
        BY <1>1 DEF string_width
    <2>2. QED
        BY <1>1, <2>1 DEF map_key_generator, IsOk
<1>2. CASE ty.k = "STRING"
    <2>1. string_width(ty) = Ok(UnboundedWidth)
        BY <1>2 DEF string_width
    <2>2. UnboundedWidth >= longest_lorem_word
        BY DEF UnboundedWidth, longest_lorem_word
    <2>3. QED
        BY <1>2, <2>1, <2>2, OkFacts DEF map_key_generator
<1>3. CASE ty.k = "CHAR"
    <2>1. string_width(ty) = Ok(ty.len)
        BY <1>3 DEF string_width
    <2>2. QED
        BY <1>3, <2>1, OkFacts DEF map_key_generator
<1>4. QED
    BY <1>1, <1>2, <1>3

LEMMA KeysFit ==
    ASSUME NEW ty, Derivable(ty), NEW v, Drawn(map_key_generator(ty), v)
    PROVE  Fits(ty, v)
<1>1. lorem(1, 1) = TextRange(5, 7)
    BY DEF lorem, ShortestWord, longest_lorem_word
<1>2. CASE ty.k \notin {"CHAR", "STRING"}
    BY <1>2, KeyGeneratorByKind, DerivedByType
<1>3. CASE ty.k = "STRING"
    <2>1. Drawn(TextRange(5, 7), v)
        BY <1>1, <1>3, KeyGeneratorByKind
    <2>2. 5 \in Int /\ 7 \in Int /\ ty.k \in {"STRING", "HLL"}
        BY <1>3
    <2>3. QED
        BY <2>1, <2>2, TextRangeFits
<1>4. CASE ty.k = "CHAR"
    <2>1. ty.len \in Nat /\ ty.len >= 1
        BY <1>4 DEF Derivable, TypeHasParameters
    <2>2. CASE ty.len >= longest_lorem_word
        <3>1. 7 <= ty.len
            BY <2>1, <2>2 DEF longest_lorem_word
        <3>2. Drawn(TextRange(5, 7), v)
            BY <1>1, <1>4, <2>2, KeyGeneratorByKind
        <3>3. QED
            BY <1>4, <2>1, <3>1, <3>2, TextRangeFits
    <2>3. CASE ~(ty.len >= longest_lorem_word)
        <3>1. Drawn(fixed_width_string(ty.len), v)
            BY <1>4, <2>3, KeyGeneratorByKind
        <3>2. QED
            BY <1>4, <2>1, <3>1, FixedWidthFits
    <2>4. QED
        BY <2>2, <2>3
<1>5. QED
    BY <1>2, <1>3, <1>4

LEMMA DrawnInRange ==
    ASSUME NEW g, IsRange(g), g.nulls = FALSE, g.min \in Int, g.max \in Int, NEW v, Drawn(g, v)
    PROVE  \E x \in Int : v = At(g, x)
<1>1. PICK x \in g.min..g.max : v = At(g, x)
    BY DrawnPoint
<1>2. x \in Int
    OBVIOUS
<1>3. QED
    BY <1>1, <1>2

LEMMA KeysShaped ==
    ASSUME NEW ty, Derivable(ty), NEW v, Drawn(map_key_generator(ty), v)
    PROVE  KeyShape(ty, v)
<1>1. IsScalar(ty) /\ TypeHasParameters(ty)
    BY DEF Derivable
<1>2. ty.k \notin {"CHAR", "STRING"} => Drawn(scalar_generator(ty), v)
    BY KeyGeneratorByKind
<1>3. CASE ty.k = "BOOLEAN"
    <2>1. Drawn(choice(<<Str(Word("true", 4)), Str(Word("false", 5))>>), v)
        BY <1>2, <1>3, GeneratorByKind
    <2>2. v \in {Str(Word("true", 4)), Str(Word("false", 5))}
        BY <2>1, DrawnOfTwo
    <2>3. QED
        BY <1>3, <2>2 DEF KeyShape
<1>4. CASE ty.k \in {"TINYINT", "SMALLINT", "INT", "BIGINT", "BITMAP", "LARGEINT"}
    <2>1. DOMAIN IntMax = {"TINYINT", "SMALLINT", "INT", "BIGINT"}
        BY WidthsNest
    <2> DEFINE top == DerivedTop[ty.k]
    <2>2. top \in Int
        BY <1>4, <2>1, IntMaxType, DerivedAssumption
    <2>3. \E low \in {0, 1} : Drawn(int_range(low, top), v)
        BY <1>2, <1>4, GeneratorByKind
    <2> HIDE DEF top
    <2>4. PICK low \in {0, 1} : Drawn(int_range(low, top), v)
        BY <2>3
    <2> DEFINE g == int_range(low, top)
    <2>5. g.g = "int" /\ g.nulls = FALSE /\ g.min = low /\ g.max = top
        BY DEF int_range
    <2>6. Drawn(g, v)
        BY <2>4
    <2> HIDE DEF g
    <2>7. IsRange(g) /\ g.min \in Int /\ g.max \in Int
        BY <2>2, <2>5 DEF IsRange
    <2>8. PICK x \in Int : v = At(g, x)
        BY <2>5, <2>6, <2>7, DrawnInRange
    <2>9. v = Number(x)
        BY <2>5, <2>7, <2>8, PointsOfRanges
    <2>10. QED
        BY <1>4, <2>9 DEF KeyShape
<1>5. CASE ty.k \in {"FLOAT", "DOUBLE", "QUANTILE_STATE"}
    <2> DEFINE g == float_range(0, 2 * DerivedTop[ty.k])
    <2>1. Drawn(g, v)
        BY <1>2, <1>5, GeneratorByKind
    <2>2. g.g = "float" /\ g.nulls = FALSE
        BY DEF float_range
    <2> HIDE DEF g
    <2>3. IsRange(g)
        BY <2>2 DEF IsRange
    <2>4. \E x : v = At(g, x)
        BY <2>1, <2>2, <2>3, DrawnPoint
    <2>5. \E h : v = Float(h)
        BY <2>2, <2>3, <2>4, PointsOfRanges
    <2>6. QED
        BY <1>5, <2>5 DEF KeyShape
<1>6. CASE ty.k = "DECIMAL"
    <2> DEFINE scale == LeastOf(ty.s, FractionCap)
               digits == LeastOf(IF ty.p > ty.s THEN ty.p - ty.s ELSE 0, WholeCap) + scale
               g == DecimalRange(0, TenTo[digits] - 1, scale)
    <2>1. ty.p \in Nat /\ ty.s \in Nat
        BY <1>1, <1>6 DEF TypeHasParameters
    <2>2. digits \in Nat
        BY <2>1, DerivedAssumption DEF LeastOf
    <2>3. TenTo[digits] \in Int
        BY <2>2, TenToType
    <2>4. decimal_range(ty.p, ty.s) = g
        BY DEF decimal_range
    <2>5. Drawn(g, v)
        BY <1>2, <1>6, <2>4, GeneratorByKind
    <2>6. g.g = "decimal" /\ g.nulls = FALSE /\ g.min = 0 /\ g.max = TenTo[digits] - 1 /\ g.scale = scale
        BY DEF DecimalRange
    <2> HIDE DEF g, scale, digits
    <2>7. IsRange(g) /\ g.min \in Int /\ g.max \in Int
        BY <2>3, <2>6 DEF IsRange
    <2>8. PICK x \in Int : v = At(g, x)
        BY <2>5, <2>6, <2>7, DrawnInRange
    <2>9. v = Dec(x, scale)
        BY <2>6, <2>7, <2>8, PointsOfRanges
    <2>10. QED
        BY <1>6, <2>9 DEF KeyShape, scale
<1>7. CASE ty.k \in {"DATE", "DATETIME"}
    <2> DEFINE days == IF ty.k = "DATE" THEN 365 ELSE 30
               fmt == IF ty.k = "DATE" THEN DayOnly ELSE ty.s
               lo == (Now - days) * MicrosPerDay
               hi == Now * MicrosPerDay
               g == datetime_around(lo, hi, fmt)
    <2>1. lo \in Int /\ hi \in Int
        BY DayType, WidthsNest, DerivedAssumption
    <2>2. Drawn(g, v)
        BY <1>2, <1>7, GeneratorByKind
    <2>3. g.g = "datetime" /\ g.nulls = FALSE /\ g.min = lo /\ g.max = hi /\ g.fmt = fmt
        BY DEF datetime_around
    <2> HIDE DEF g, lo, hi
    <2>4. IsRange(g) /\ g.min \in Int /\ g.max \in Int
        BY <2>1, <2>3 DEF IsRange
    <2>5. PICK x \in Int : v = At(g, x)
        BY <2>2, <2>3, <2>4, DrawnInRange
    <2>6. v = Moment(x, fmt)
        BY <2>3, <2>4, <2>5, PointsOfRanges
    <2>7. QED
        BY <1>7, <2>6 DEF KeyShape
<1>8. CASE ty.k \in {"JSON", "VARIANT"}
    <2>1. PICK fields : scalar_generator(ty) = struct_of(fields)
        BY <1>8, GeneratorByKind
    <2>2. struct_of(fields).g = "struct" /\ struct_of(fields).nulls = FALSE
        BY DEF struct_of
    <2>3. Drawn(struct_of(fields), v)
        BY <1>2, <1>8, <2>1
    <2>4. v.k = "struct"
        BY <2>2, <2>3 DEF Drawn, IsRange
    <2>5. QED
        BY <1>8, <2>4 DEF KeyShape
<1>9. CASE ty.k \in {"IPV4", "IPV6"}
    <2> DEFINE g == IpRange(0, U32Max, IF ty.k = "IPV4" THEN 4 ELSE 6)
    <2>1. Drawn(g, v)
        BY <1>2, <1>9, GeneratorByKind
    <2>2. g.g = "ip" /\ g.nulls = FALSE
        BY DEF IpRange
    <2> HIDE DEF g
    <2>3. IsRange(g)
        BY <2>2 DEF IsRange
    <2>4. \E x : v = At(g, x)
        BY <2>1, <2>2, <2>3, DrawnPoint
    <2>5. \E n, bits : v = Str(Address(n, bits))
        BY <2>2, <2>3, <2>4, PointsOfRanges
    <2>6. QED
        BY <1>9, <2>5 DEF KeyShape
<1>10. CASE ty.k \in {"CHAR", "STRING", "HLL"}
    BY <1>10 DEF KeyShape
<1>11. QED
    BY <1>1, <1>3, <1>4, <1>5, <1>6, <1>7, <1>8, <1>9, <1>10 DEF IsScalar

LEMMA TimesInjective ==
    ASSUME NEW a \in Int, NEW b \in Int, NEW unit \in Nat, unit >= 1, a * unit = b * unit
    PROVE  a = b
<1>1. CASE a < b
    <2>1. (a + 1) * unit <= b * unit
        BY <1>1, TimesMonotone
    <2>2. (a + 1) * unit = a * unit + unit
        OBVIOUS
    <2>3. a * unit \in Int
        OBVIOUS
    <2>4. QED
        BY <2>1, <2>2, <2>3
<1>2. CASE b < a
    <2>1. (b + 1) * unit <= a * unit
        BY <1>2, TimesMonotone
    <2>2. (b + 1) * unit = b * unit + unit
        OBVIOUS
    <2>3. b * unit \in Int
        OBVIOUS
    <2>4. QED
        BY <2>1, <2>2, <2>3
<1>3. QED
    BY <1>1, <1>2

(* A key is kept as its text, or as something its text can be told from. *)
LEMMA TextKept ==
    ASSUME NEW ty, ty.k \notin {"BOOLEAN", "TINYINT", "SMALLINT", "INT", "BIGINT", "BITMAP",
                               "DECIMAL", "DATE", "DATETIME"}, IsScalar(ty),
           NEW v, KeyShape(ty, v), IsOk(Cell(ty, v))
    PROVE  Cell(ty, v) = Ok(Text(v))
<1>1. CASE ty.k \in {"STRING", "HLL", "CHAR"}
    <2>1. Cell(ty, v) = checked_text(v, ty)
        BY <1>1, CellByKind
    <2>2. QED
        BY <1>1, <2>1 DEF checked_text, IsOk
<1>2. CASE ty.k = "LARGEINT"
    <2>1. Cell(ty, v) = Then(as_int(v, -I128Max, I128Max), LAMBDA n : Ok(Digits(n, 0)))
        BY <1>2, CellByKind DEF checked_text
    <2>2. PICK n \in Int : v = Number(n)
        BY <1>2 DEF KeyShape
    <2>3. v.k = "int" /\ v.n = n
        BY <2>2 DEF Number
    <2>4. WholeNumber(v) = Ok(n) /\ Text(v) = Digits(n, 0)
        BY <2>3 DEF WholeNumber, Text
    <2>5. as_int(v, -I128Max, I128Max) \in {Ok(n), Err}
        BY <2>4 DEF as_int, Provided
    <2>6. as_int(v, -I128Max, I128Max) = Err => Cell(ty, v) = Err
        BY <2>1 DEF Then, IsOk
    <2>7. as_int(v, -I128Max, I128Max) = Ok(n)
        BY <2>5, <2>6 DEF IsOk
    <2>8. QED
        BY <2>1, <2>4, <2>7, OkFacts DEF Then
<1>3. CASE ty.k \in {"FLOAT", "DOUBLE", "QUANTILE_STATE"}
    <2>1. PICK h : v = Float(h)
        BY <1>3 DEF KeyShape
    <2>2. as_f64(v) = Ok(Text(v))
        BY <2>1 DEF as_f64, Float
    <2>3. Cell(ty, v) \in {as_f64(v), Err}
        BY <1>3, CellByKind DEF Provided
    <2>4. QED
        BY <2>2, <2>3 DEF IsOk
<1>4. CASE ty.k \in {"JSON", "VARIANT"}
    <2>1. v.k = "struct"
        BY <1>4 DEF KeyShape
    <2>2. JsonText(v) = Doc(v) /\ Text(v) = Doc(v)
        BY <2>1 DEF JsonText, Text
    <2>3. checked_text(v, ty) = Ok(JsonText(v))
        BY <1>4, <2>1 DEF checked_text
    <2>4. QED
        BY <1>4, <2>2, <2>3, CellByKind
<1>5. CASE ty.k \in {"IPV4", "IPV6"}
    <2>1. PICK n, bits : v = Str(Address(n, bits))
        BY <1>5 DEF KeyShape
    <2>2. v.k = "str" /\ Text(v) = v.text
        BY <2>1 DEF Str, Text
    <2>3. checked_text(v, ty) \in {Ok(v.text), Err}
        BY <1>5, <2>2 DEF checked_text
    <2>4. QED
        BY <1>5, <2>2, <2>3, CellByKind DEF IsOk
<1>6. QED
    BY <1>1, <1>2, <1>3, <1>4, <1>5 DEF IsScalar

LEMMA ShownAsKept ==
    ASSUME NEW ty, ty.k \in {"DATE", "DATETIME"}, TypeHasParameters(ty), NEW m \in Int,
           NEW v, v = Moment(m, IF ty.k = "DATE" THEN DayOnly ELSE ty.s), IsOk(Cell(ty, v))
    PROVE  IF ty.k = "DATE" THEN /\ Cell(ty, v) = Ok(m \div MicrosPerDay)
                                 /\ Text(v) = Time((m \div MicrosPerDay) * MicrosPerDay, DayOnly)
                            ELSE \E cut : Cell(ty, v) = Ok(cut) /\ Text(v) = Time(cut, ty.s)
<1>1. v.k = "ts" /\ v.micros = m /\ v.fmt = IF ty.k = "DATE" THEN DayOnly ELSE ty.s
    BY DEF Moment
<1>2. as_timestamp_micros(v) = Ok(m)
    BY <1>1 DEF as_timestamp_micros
<1>3. Text(v) = Time((m \div ShownUnit(v.fmt)) * ShownUnit(v.fmt), v.fmt)
    BY <1>1 DEF Text
<1>4. CASE ty.k = "DATE"
    <2>1. as_date(v) = Ok(m \div MicrosPerDay)
        BY <1>2, OkFacts DEF as_date, Then
    <2>2. Cell(ty, v) \in {as_date(v), Err}
        BY <1>4, CellByKind DEF Provided
    <2>3. Cell(ty, v) = Ok(m \div MicrosPerDay)
        BY <2>1, <2>2 DEF IsOk
    <2>4. v.fmt = DayOnly /\ ShownUnit(v.fmt) = MicrosPerDay
        BY <1>1, <1>4 DEF ShownUnit
    <2>5. QED
        BY <1>3, <1>4, <2>3, <2>4
<1>5. CASE ty.k = "DATETIME"
    <2> DEFINE unit == TenTo[SubSecond - ty.s]
               cut == (m \div unit) * unit
    <2>1. ty.s # DayOnly
        BY <1>5, WidthsNest DEF TypeHasParameters, DayOnly
    <2>2. v.fmt = ty.s /\ ShownUnit(v.fmt) = unit
        BY <1>1, <1>5, <2>1 DEF ShownUnit
    <2>3. Cell(ty, v) = Then(as_timestamp_micros(v), LAMBDA n :
                   IF n \in MIN_DATE_DAYS * MicrosPerDay .. (MAX_DATE_DAYS + 1) * MicrosPerDay - 1
                   THEN Ok((n \div unit) * unit) ELSE Err)
        BY <1>5, WidthsNest DEF Cell
    <2>4. Text(v) = Time(cut, ty.s)
        BY <1>3, <2>2
    <2>5. Cell(ty, v) \in {Ok(cut), Err}
        <3>1. Cell(ty, v) = IF m \in MIN_DATE_DAYS * MicrosPerDay .. (MAX_DATE_DAYS + 1) * MicrosPerDay - 1
                            THEN Ok(cut) ELSE Err
            <4> HIDE DEF unit
            <4>1. QED
                BY <1>2, <2>3, OkFacts DEF Then
        <3>2. QED
            BY <3>1
    <2> HIDE DEF cut
    <2>6. Cell(ty, v) = Ok(cut)
        BY <2>5 DEF IsOk
    <2>7. QED
        BY <1>5, <2>4, <2>6
<1>6. QED
    BY <1>4, <1>5

(* KeysOk of build_nested (src/src/parquet_out.rs) compares the keys of a    *)
(* MAP as text.  For the keys derive.rs generates, of any scalar type, that *)
(* is enough: two that differ as text are both taken and stored as two      *)
(* different keys.  This is what DerivedKeysDistinct needs of each entry.   *)
THEOREM DerivedKeysStayApart ==
    ASSUME NEW ty, Derivable(ty),
           NEW v, Drawn(map_key_generator(ty), v), NEW w, Drawn(map_key_generator(ty), w),
           Text(v) # Text(w)
    PROVE  IsOk(Cell(ty, v)) /\ IsOk(Cell(ty, w)) /\ Cell(ty, v) # Cell(ty, w)
<1>1. IsOk(Cell(ty, v)) /\ IsOk(Cell(ty, w)) /\ ValueHasNumbers(v) /\ ValueHasNumbers(w)
    BY KeysFit DEF Fits
<1>2. KeyShape(ty, v) /\ KeyShape(ty, w)
    BY KeysShaped
<1>3. IsScalar(ty) /\ TypeHasParameters(ty)
    BY DEF Derivable
<1>4. SUFFICES ASSUME Cell(ty, v) = Cell(ty, w) PROVE Text(v) = Text(w)
    BY <1>1
<1>5. CASE ty.k = "BOOLEAN"
    <2>1. v \in {Str(Word("true", 4)), Str(Word("false", 5))} /\ w \in {Str(Word("true", 4)), Str(Word("false", 5))}
        BY <1>2, <1>5 DEF KeyShape
    <2>2. Cell(ty, Str(Word("true", 4))) = Ok(TRUE) /\ Cell(ty, Str(Word("false", 5))) = Ok(FALSE)
        BY <1>5, FlagsRead, CellByKind
    <2>3. Ok(TRUE) # Ok(FALSE)
        BY OkIsOne
    <2> DEFINE high == Str(Word("true", 4))
               low == Str(Word("false", 5))
    <2>4. v \in {high, low} /\ w \in {high, low} /\ Cell(ty, high) # Cell(ty, low)
        BY <2>1, <2>2, <2>3
    <2> HIDE DEF high, low
    <2>5. v = w
        BY <1>4, <2>4
    <2>6. QED
        BY <2>5
<1>6. CASE ty.k \in {"TINYINT", "SMALLINT", "INT", "BIGINT", "BITMAP"}
    <2>1. PICK m \in Int : v = Number(m)
        BY <1>2, <1>6 DEF KeyShape
    <2>2. PICK n \in Int : w = Number(n)
        BY <1>2, <1>6 DEF KeyShape
    <2>3. WholeNumber(v) = Ok(m) /\ WholeNumber(w) = Ok(n)
        BY <2>1, <2>2 DEF WholeNumber, Number
    <2>4. \E lo, hi : Cell(ty, v) = as_int(v, lo, hi) /\ Cell(ty, w) = as_int(w, lo, hi)
        BY <1>6, CellByKind
    <2>5. Cell(ty, v) \in {Ok(m), Err} /\ Cell(ty, w) \in {Ok(n), Err}
        BY <2>3, <2>4 DEF as_int, Provided
    <2>6. Ok(m) = Ok(n)
        BY <1>1, <1>4, <2>5 DEF IsOk
    <2>7. m = n
        BY <2>6, OkIsOne
    <2>8. QED
        BY <2>1, <2>2, <2>7
<1>7. CASE ty.k = "DECIMAL"
    <2> DEFINE scale == LeastOf(ty.s, FractionCap)
    <2>1. PICK a \in Int : v = Dec(a, scale)
        BY <1>2, <1>7 DEF KeyShape
    <2>2. PICK b \in Int : w = Dec(b, scale)
        BY <1>2, <1>7 DEF KeyShape
    <2>3. Text(v) = Digits(a, scale) /\ Text(w) = Digits(b, scale)
        BY <2>1, <2>2 DEF Text, Dec
    <2>4. /\ Text(v).units = a /\ Text(v).scale = scale
          /\ Text(w).units = b /\ Text(w).scale = scale
        BY <2>3 DEF Digits
    <2>5. PICK x : Cell(ty, v) = Ok(x)
        BY <1>1, <1>3, <1>7, CellIsResult DEF IsOk
    <2>6. Exact(ty, v, <<x>>) /\ Exact(ty, w, <<x>>)
        BY <1>1, <1>3, <1>4, <1>7, <2>5, DecimalExact
    <2>7. x * TenTo[scale] = a * TenTo[ty.s] /\ x * TenTo[scale] = b * TenTo[ty.s]
        <3> HIDE DEF scale
        <3>1. QED
            BY <1>7, <2>4, <2>6 DEF Exact
    <2>8. TenTo[ty.s] \in Nat /\ TenTo[ty.s] >= 1
        BY <1>3, <1>7, TenToType DEF TypeHasParameters
    <2> DEFINE unit == TenTo[ty.s]
    <2>9. a * unit = b * unit /\ unit \in Nat /\ unit >= 1
        BY <2>7, <2>8
    <2> HIDE DEF unit
    <2>10. a = b
        BY <2>9, TimesInjective
    <2>11. QED
        BY <2>3, <2>10
<1>8. CASE ty.k = "DATE"
    <2>1. PICK m \in Int : v = Moment(m, DayOnly)
        BY <1>2, <1>8 DEF KeyShape
    <2>2. PICK n \in Int : w = Moment(n, DayOnly)
        BY <1>2, <1>8 DEF KeyShape
    <2> DEFINE i == m \div MicrosPerDay
               j == n \div MicrosPerDay
    <2>3. Cell(ty, v) = Ok(i) /\ Text(v) = Time(i * MicrosPerDay, DayOnly)
        BY <1>1, <1>3, <1>8, <2>1, ShownAsKept
    <2>4. Cell(ty, w) = Ok(j) /\ Text(w) = Time(j * MicrosPerDay, DayOnly)
        BY <1>1, <1>3, <1>8, <2>2, ShownAsKept
    <2> HIDE DEF i, j
    <2>5. i = j
        BY <1>4, <2>3, <2>4, OkIsOne
    <2>6. QED
        BY <2>3, <2>4, <2>5
<1>9. CASE ty.k = "DATETIME"
    <2>1. PICK m \in Int : v = Moment(m, ty.s)
        BY <1>2, <1>9 DEF KeyShape
    <2>2. PICK n \in Int : w = Moment(n, ty.s)
        BY <1>2, <1>9 DEF KeyShape
    <2>3. PICK i : Cell(ty, v) = Ok(i) /\ Text(v) = Time(i, ty.s)
        BY <1>1, <1>3, <1>9, <2>1, ShownAsKept
    <2>4. PICK j : Cell(ty, w) = Ok(j) /\ Text(w) = Time(j, ty.s)
        BY <1>1, <1>3, <1>9, <2>2, ShownAsKept
    <2>5. i = j
        BY <1>4, <2>3, <2>4, OkIsOne
    <2>6. QED
        BY <2>3, <2>4, <2>5
<1>10. CASE ty.k \notin {"BOOLEAN", "TINYINT", "SMALLINT", "INT", "BIGINT", "BITMAP", "DECIMAL", "DATE", "DATETIME"}
    <2>1. Cell(ty, v) = Ok(Text(v)) /\ Cell(ty, w) = Ok(Text(w))
        BY <1>1, <1>2, <1>3, <1>10, TextKept
    <2>2. QED
        BY <1>4, <2>1, OkIsOne
<1>11. QED
    BY <1>5, <1>6, <1>7, <1>8, <1>9, <1>10
-----------------------------------------------------------------------------
(* Flattened groups.  Nested columns keep what their values hold one after *)
(* another, and offsets that say where each value's begin.                 *)

(* f joins the first n groups of s, one more at each argument.             *)
Joins(f, s, n) == f = [i \in 1..n |-> IF i = 1 THEN s[i] ELSE f[i - 1] \o s[i]]

LEMMA JoinsExist ==
    ASSUME NEW s
    PROVE  \A n \in Nat : \E f : Joins(f, s, n)
<1> DEFINE S == {n \in Nat : \E f : Joins(f, s, n)}
<1>1. 0 \in S
    <2>1. Joins([i \in 1..0 |-> <<>>], s, 0)
        BY DEF Joins
    <2>2. QED
        BY <2>1
<1>2. ASSUME NEW n \in Nat, n \in S PROVE n + 1 \in S
    <2>1. PICK f : Joins(f, s, n)
        BY <1>2
    <2> DEFINE next == IF n = 0 THEN s[1] ELSE f[n] \o s[n + 1]
               g == [i \in 1..n + 1 |-> IF i = n + 1 THEN next ELSE f[i]]
    <2>2. ASSUME NEW i \in 1..n + 1 PROVE g[i] = IF i = 1 THEN s[i] ELSE g[i - 1] \o s[i]
        <3>1. CASE i = n + 1
            <4>1. CASE n = 0
                <5>1. i = 1 /\ i = n + 1 /\ next = s[1]
                    BY <3>1, <4>1
                <5>2. g[i] = next
                    BY <5>1
                <5>3. QED
                    BY <5>1, <5>2
            <4>2. CASE n # 0
                <5>0. next = f[n] \o s[i]
                    BY <3>1, <4>2
                <5> HIDE DEF next, g
                <5>1. i # 1 /\ i - 1 = n /\ n \in 1..n + 1 /\ n # n + 1
                    BY <3>1, <4>2
                <5> USE DEF g
                <5>2. g[n] = f[n] /\ g[i] = next
                    BY <5>1, <3>1
                <5>3. QED
                    BY <5>0, <5>1, <5>2
            <4>3. QED
                BY <4>1, <4>2
        <3>2. CASE i # n + 1
            <4>1. i \in 1..n /\ g[i] = f[i]
                BY <3>2
            <4>2. f[i] = IF i = 1 THEN s[i] ELSE f[i - 1] \o s[i]
                BY <2>1, <4>1 DEF Joins
            <4>3. i # 1 => i - 1 \in 1..n + 1 /\ i - 1 # n + 1
                BY <4>1
            <4>4. i # 1 => g[i - 1] = f[i - 1]
                BY <4>3
            <4>5. QED
                BY <4>1, <4>2, <4>4
        <3>3. QED
            BY <3>1, <3>2
    <2> HIDE DEF next
    <2>3. g = [i \in 1..n + 1 |-> IF i = 1 THEN s[i] ELSE g[i - 1] \o s[i]]
        <3>1. g = [i \in 1..n + 1 |-> g[i]]
            OBVIOUS
        <3> HIDE DEF g
        <3>2. QED
            BY <2>2, <3>1
    <2>4. Joins(g, s, n + 1)
        BY <2>3 DEF Joins
    <2>5. QED
        BY <2>4
<1> HIDE DEF S
<1>3. \A n \in Nat : n \in S
    BY <1>1, <1>2, Induction
<1>4. QED
    BY <1>3 DEF S

LEMMA JoinsAgree ==
    ASSUME NEW s, NEW m \in Nat, NEW n \in Nat, m <= n,
           NEW f, NEW g, Joins(f, s, m), Joins(g, s, n)
    PROVE  \A i \in 1..m : f[i] = g[i]
<1> DEFINE S == {k \in Nat : k \in 1..m => f[k] = g[k]}
<1>1. 0 \in S
    OBVIOUS
<1>2. ASSUME NEW k \in Nat, k \in S PROVE k + 1 \in S
    <2> SUFFICES ASSUME k + 1 \in 1..m PROVE f[k + 1] = g[k + 1]
        OBVIOUS
    <2>1. f[k + 1] = IF k + 1 = 1 THEN s[k + 1] ELSE f[(k + 1) - 1] \o s[k + 1]
        BY DEF Joins
    <2>2. g[k + 1] = IF k + 1 = 1 THEN s[k + 1] ELSE g[(k + 1) - 1] \o s[k + 1]
        BY k + 1 \in 1..n DEF Joins
    <2>3. (k + 1) - 1 = k
        OBVIOUS
    <2>4. k # 0 => f[k] = g[k]
        BY <1>2
    <2>5. QED
        BY <2>1, <2>2, <2>3, <2>4
<1> HIDE DEF S
<1>3. \A k \in Nat : k \in S
    BY <1>1, <1>2, Induction
<1>4. QED
    BY <1>3 DEF S

LEMMA FlattenJoins ==
    ASSUME NEW s, Len(s) \in Nat, Len(s) # 0
    PROVE  \E f : Joins(f, s, Len(s)) /\ FlattenSeq(s) = f[Len(s)]
<1> DEFINE join == CHOOSE f : f = [i \in 1..Len(s) |-> IF i = 1 THEN s[i] ELSE f[i - 1] \o s[i]]
<1>1. FlattenSeq(s) = join[Len(s)]
    BY DEF FlattenSeq
<1>2. \E f : f = [i \in 1..Len(s) |-> IF i = 1 THEN s[i] ELSE f[i - 1] \o s[i]]
    BY JoinsExist DEF Joins
<1>3. join = [i \in 1..Len(s) |-> IF i = 1 THEN s[i] ELSE join[i - 1] \o s[i]]
    BY <1>2
<1> HIDE DEF join
<1>4. Joins(join, s, Len(s))
    BY <1>3 DEF Joins
<1>5. QED
    BY <1>1, <1>4

(* The first k groups, joined. *)
Joined(groups, k) == FlattenSeq(SubSeq(groups, 1, k))

LEMMA JoinedStarts ==
    ASSUME NEW S, NEW groups \in Seq(Seq(S))
    PROVE  Joined(groups, 0) = <<>> /\ Joined(groups, Len(groups)) = FlattenSeq(groups)
<1>1. SubSeq(groups, 1, 0) = <<>> /\ SubSeq(groups, 1, Len(groups)) = groups
    OBVIOUS
<1>2. FlattenSeq(<<>>) = <<>>
    BY DEF FlattenSeq
<1>3. QED
    BY <1>1, <1>2 DEF Joined

LEMMA JoinedGrows ==
    ASSUME NEW S, NEW groups \in Seq(Seq(S)), NEW k \in Nat, k < Len(groups),
           Joined(groups, k) \in Seq(S)
    PROVE  /\ Joined(groups, k + 1) = Joined(groups, k) \o groups[k + 1]
           /\ Joined(groups, k + 1) \in Seq(S)
<1> DEFINE now == SubSeq(groups, 1, k)
           then == SubSeq(groups, 1, k + 1)
<1>1. /\ Len(now) = k /\ \A i \in 1..k : now[i] = groups[i]
      /\ Len(then) = k + 1 /\ \A i \in 1..k + 1 : then[i] = groups[i]
      /\ groups[k + 1] \in Seq(S)
    BY SMTT(30)
<1> HIDE DEF now, then
<1>2. PICK g : Joins(g, groups, k + 1) /\ FlattenSeq(then) = g[k + 1]
    <2>1. Len(then) = k + 1 /\ Len(then) \in Nat /\ Len(then) # 0
        BY <1>1
    <2>2. PICK g : Joins(g, then, Len(then)) /\ FlattenSeq(then) = g[Len(then)]
        BY <2>1, FlattenJoins
    <2>3. Joins(g, groups, k + 1)
        BY <2>1, <2>2, <1>1 DEF Joins
    <2>4. QED
        BY <2>1, <2>2, <2>3
<1>3. g[k + 1] = IF k + 1 = 1 THEN groups[k + 1] ELSE g[(k + 1) - 1] \o groups[k + 1]
    BY <1>2, k + 1 \in 1..k + 1 DEF Joins
<1>5. Joined(groups, k + 1) = FlattenSeq(then) /\ Joined(groups, k) = FlattenSeq(now)
    BY DEF Joined, now, then
<1>6. CASE k = 0
    <2>1. Joined(groups, k) = <<>>
        BY <1>6, JoinedStarts
    <2>2. Joined(groups, k + 1) = groups[k + 1]
        BY <1>2, <1>3, <1>5, <1>6
    <2>3. QED
        BY <2>1, <2>2, <1>1
<1>7. CASE k # 0
    <2>1. PICK f : Joins(f, groups, k) /\ FlattenSeq(now) = f[k]
        <3>1. Len(now) = k /\ Len(now) \in Nat /\ Len(now) # 0
            BY <1>1, <1>7
        <3>2. PICK f : Joins(f, now, Len(now)) /\ FlattenSeq(now) = f[Len(now)]
            BY <3>1, FlattenJoins
        <3>3. Joins(f, groups, k)
            BY <3>1, <3>2, <1>1 DEF Joins
        <3>4. QED
            BY <3>1, <3>2, <3>3
    <2>3. f[k] = g[k]
        <3>1. PICK n \in Nat : n = k + 1 /\ k <= n
            OBVIOUS
        <3>2. Joins(g, groups, n)
            BY <1>2, <3>1
        <3>3. \A i \in 1..k : f[i] = g[i]
            BY <2>1, <3>1, <3>2, JoinsAgree
        <3>4. QED
            BY <3>3, <1>7
    <2>4. (k + 1) - 1 = k /\ k + 1 # 1
        BY <1>7
    <2>5. Joined(groups, k + 1) = Joined(groups, k) \o groups[k + 1]
        <3>1. Joined(groups, k + 1) = g[(k + 1) - 1] \o groups[k + 1]
            BY <1>2, <1>3, <1>5, <2>4
        <3>2. Joined(groups, k + 1) = f[k] \o groups[k + 1]
            BY <3>1, <2>3, <2>4
        <3>3. QED
            BY <3>2, <2>1, <1>5
    <2>6. Joined(groups, k) \o groups[k + 1] \in Seq(S)
        BY <1>1
    <2>7. QED
        BY <2>5, <2>6
<1>8. QED
    BY <1>6, <1>7

LEMMA JoinedType ==
    ASSUME NEW S, NEW groups \in Seq(Seq(S))
    PROVE  \A k \in 0..Len(groups) : Joined(groups, k) \in Seq(S)
<1> DEFINE T == {k \in Nat : k <= Len(groups) => Joined(groups, k) \in Seq(S)}
<1>1. 0 \in T
    <2>1. <<>> \in Seq(S)
        OBVIOUS
    <2>2. QED
        BY <2>1, JoinedStarts
<1>2. ASSUME NEW k \in Nat, k \in T PROVE k + 1 \in T
    BY <1>2, JoinedGrows
<1> HIDE DEF T
<1>3. \A k \in Nat : k \in T
    BY <1>1, <1>2, Induction
<1>4. QED
    BY <1>3 DEF T

(* What a group holds stays where it was put, whatever is joined after it. *)
LEMMA JoinedKeeps ==
    ASSUME NEW S, NEW groups \in Seq(Seq(S)), NEW i \in 1..Len(groups), NEW j \in 1..Len(groups[i])
    PROVE  \A k \in i..Len(groups) :
              /\ Len(Joined(groups, i - 1)) + j \in 1..Len(Joined(groups, k))
              /\ Joined(groups, k)[Len(Joined(groups, i - 1)) + j] = groups[i][j]
<1> DEFINE before == Joined(groups, i - 1)
           at == Len(before) + j
           T == {k \in Nat : k \in i..Len(groups) =>
                    at \in 1..Len(Joined(groups, k)) /\ Joined(groups, k)[at] = groups[i][j]}
<1>0. i \in Nat /\ i >= 1 /\ groups[i] \in Seq(S) /\ Len(groups) \in Nat
    OBVIOUS
<1>1. 0 \in T
    BY <1>0
<1>2. ASSUME NEW k \in Nat, k \in T PROVE k + 1 \in T
    <2> SUFFICES ASSUME k + 1 \in i..Len(groups)
                 PROVE  at \in 1..Len(Joined(groups, k + 1)) /\ Joined(groups, k + 1)[at] = groups[i][j]
        OBVIOUS
    <2>0. k \in 0..Len(groups) /\ k + 1 \in 1..Len(groups)
        BY <1>0
    <2>1. k < Len(groups) /\ Joined(groups, k) \in Seq(S) /\ groups[k + 1] \in Seq(S)
        BY JoinedType, <1>0, <2>0
    <2>2. Joined(groups, k + 1) = Joined(groups, k) \o groups[k + 1]
        BY <2>1, JoinedGrows
    <2> DEFINE joined == Joined(groups, k)
               next == groups[k + 1]
    <2>3. /\ \A p \in 1..Len(joined) : p \in 1..Len(joined \o next) /\ (joined \o next)[p] = joined[p]
          /\ \A p \in 1..Len(next) : /\ Len(joined) + p \in 1..Len(joined \o next)
                                     /\ (joined \o next)[Len(joined) + p] = next[p]
        <3> HIDE DEF joined, next
        <3>1. joined \in Seq(S) /\ next \in Seq(S)
            BY <2>1 DEF joined, next
        <3>2. QED
            BY <3>1
    <2>4. CASE k + 1 = i
        <3>1. k = i - 1
            BY <2>4, <1>0
        <3>2. before = joined /\ next = groups[i]
            BY <2>4, <3>1
        <3> HIDE DEF before, joined, next, T
        <3>3. QED
            BY <2>2, <2>3, <3>2 DEF joined, next
    <2>5. CASE k + 1 # i
        <3>1. at \in 1..Len(joined) /\ joined[at] = groups[i][j]
            BY <1>2, <2>5, <1>0
        <3> HIDE DEF at, joined, next
        <3>2. QED
            BY <2>2, <2>3, <3>1 DEF joined, next
    <2>6. QED
        BY <2>4, <2>5
<1> HIDE DEF T
<1>3. \A k \in Nat : k \in T
    BY <1>1, <1>2, Induction
<1>4. ASSUME NEW k \in i..Len(groups)
      PROVE  at \in 1..Len(Joined(groups, k)) /\ Joined(groups, k)[at] = groups[i][j]
    <2>1. k \in Nat /\ k \in T
        BY <1>3, <1>0
    <2>2. QED
        BY <2>1 DEF T
<1>5. QED
    BY <1>4

(* What offsets are for: group i is found in the flat array from offset i  *)
(* on, and ends where the next begins.                                     *)
LEMMA OffsetsPlace ==
    ASSUME NEW S, NEW groups \in Seq(Seq(S)), NEW i \in 1..Len(groups)
    PROVE  /\ FlattenSeq(groups) \in Seq(S) /\ Offsets(groups)[i] \in Nat
           /\ Offsets(groups)[i + 1] - Offsets(groups)[i] = Len(groups[i])
           /\ \A j \in 1..Len(groups[i]) :
                 /\ Offsets(groups)[i] + j \in 1..Len(FlattenSeq(groups))
                 /\ FlattenSeq(groups)[Offsets(groups)[i] + j] = groups[i][j]
<1>1. /\ Offsets(groups)[i] = Len(Joined(groups, i - 1))
      /\ Offsets(groups)[i + 1] = Len(Joined(groups, i))
    BY DEF Offsets, Joined
<1>2. /\ Joined(groups, i - 1) \in Seq(S) /\ groups[i] \in Seq(S)
      /\ i - 1 \in Nat /\ i - 1 < Len(groups) /\ (i - 1) + 1 = i
    BY JoinedType
<1>3. Joined(groups, i) = Joined(groups, i - 1) \o groups[i]
    BY <1>2, JoinedGrows
<1>4. FlattenSeq(groups) = Joined(groups, Len(groups)) /\ FlattenSeq(groups) \in Seq(S)
    BY JoinedStarts, JoinedType
<1>5. ASSUME NEW j \in 1..Len(groups[i])
      PROVE  /\ Offsets(groups)[i] + j \in 1..Len(FlattenSeq(groups))
             /\ FlattenSeq(groups)[Offsets(groups)[i] + j] = groups[i][j]
    <2>1. Len(groups) \in i..Len(groups)
        OBVIOUS
    <2>2. /\ Len(Joined(groups, i - 1)) + j \in 1..Len(Joined(groups, Len(groups)))
          /\ Joined(groups, Len(groups))[Len(Joined(groups, i - 1)) + j] = groups[i][j]
        BY <2>1, JoinedKeeps
    <2>3. QED
        BY <2>2, <1>1, <1>4
<1>6. Len(Joined(groups, i)) = Len(Joined(groups, i - 1)) + Len(groups[i])
    BY <1>2, <1>3
<1>7. QED
    BY <1>1, <1>2, <1>4, <1>5, <1>6
-----------------------------------------------------------------------------
(* Nested columns, of any depth.                                           *)

(* What build_nested and the two readings call for the parts of a type is  *)
(* that operator again: the configurations of the runs say so, and here it *)
(* is the one hypothesis of what is proved of nested columns.              *)
Recursion ==
    \A ty \in Types :
        /\ \A values : BuildNested(ty, values) = build_nested(ty, values)
        /\ \A array, i : ReadNested(ty, array, i) = NestedAt(ty, array, i)
        /\ \A v : MeaningNested(ty, v) = MeaningShaped(ty, v)

(* An array of the values reads back as the values.                        *)
ReadsBack(ty, array, values) ==
    /\ ArrayLen(ty, array) = Len(values)
    /\ \A i \in 1..Len(values) : ReadBack(ty, array, i) = Meaning(ty, values[i])

(* So does any that build_array can build.                                 *)
Restores(ty) ==
    \A values \in Seq(Values) :
        IsOk(build_array(ty, values)) => ReadsBack(ty, build_array(ty, values)[1], values)

(* What a nested column keeps of its values, and what it makes of it.      *)
Shaped(ty) ==
    {v \in Values : \/ IsNull(v)
                    \/ ty.k = "ARRAY" /\ v.k = "list"
                    \/ ty.k = "MAP" /\ v.k \in {"map", "struct"}
                    \/ ty.k = "STRUCT" /\ v.k \in {"struct", "list"}}

RestoresShaped(ty) ==
    \A kept \in Seq(Shaped(ty)) :
        IsOk(build_nested(ty, kept)) =>
            /\ Len(build_nested(ty, kept)[1].valid) = Len(kept)
            /\ \A i \in 1..Len(kept) :
                  NestedAt(ty, build_nested(ty, kept)[1], i) = MeaningShaped(ty, kept[i])

(* build_array stores its values one by one and finishes a column of them. *)
LEMMA ArrayOfStored ==
    ASSUME NEW ty, NEW values, IsOk(build_array(ty, values))
    PROVE  /\ \A i \in DOMAIN values : IsOk(Store(ty, values[i]))
           /\ build_array(ty, values) = FinishColumn(ty, [i \in DOMAIN values |-> Store(ty, values[i])[1]])
<1> DEFINE rs == [i \in DOMAIN values |-> Store(ty, values[i])]
           stored == [i \in DOMAIN rs |-> rs[i][1]]
<1>1. build_array(ty, values) = Then(Collect(rs), LAMBDA kept : FinishColumn(ty, kept))
    BY DEF build_array, CollectEach
<1>2. IsOk(Collect(rs)) /\ build_array(ty, values) = FinishColumn(ty, Collect(rs)[1])
    BY <1>1 DEF Then, IsOk
<1>3. (\A i \in DOMAIN rs : IsOk(rs[i])) /\ Collect(rs) = Ok(stored)
    <2> HIDE DEF rs, stored
    <2>1. Collect(rs) = IF \A i \in DOMAIN rs : IsOk(rs[i]) THEN Ok(stored) ELSE Err
        BY DEF Collect, stored
    <2>2. QED
        BY <1>2, <2>1 DEF IsOk
<1>4. stored = [i \in DOMAIN values |-> Store(ty, values[i])[1]]
    OBVIOUS
<1> HIDE DEF stored
<1>5. Collect(rs)[1] = stored
    BY <1>3 DEF Ok
<1>6. QED
    BY <1>2, <1>3, <1>4, <1>5

LEMMA ScalarsRestore ==
    ASSUME NEW ty, ~Nested(ty)
    PROVE  Restores(ty)
<1> SUFFICES ASSUME NEW values \in Seq(Values), IsOk(build_array(ty, values))
             PROVE  ReadsBack(ty, build_array(ty, values)[1], values)
    BY DEF Restores
<1> DEFINE stored == [i \in DOMAIN values |-> Store(ty, values[i])[1]]
<1>1. DOMAIN values = 1..Len(values) /\ Len(values) \in Nat
    OBVIOUS
<1>2. build_array(ty, values)[1] = [slots |-> stored] /\ \A i \in DOMAIN values : IsOk(Store(ty, values[i]))
    <2>1. build_array(ty, values) = FinishColumn(ty, stored) /\ \A i \in DOMAIN values : IsOk(Store(ty, values[i]))
        BY ArrayOfStored
    <2> HIDE DEF stored
    <2>2. QED
        BY <2>1 DEF FinishColumn, Ok
<1>3. Len(stored) = Len(values)
    BY <1>1
<1>4. ASSUME NEW i \in 1..Len(values)
      PROVE  stored[i] = IF IsNull(values[i]) THEN <<>> ELSE <<Cell(ty, values[i])[1]>>
    BY <1>1, <1>2, StoreScalar
<1> HIDE DEF stored
<1>5. QED
    BY <1>2, <1>3, <1>4 DEF ReadsBack, ArrayLen, ReadBack, Meaning

(* A nested value is parsed and checked for its shape, and means what the  *)
(* value kept of it means.                                                 *)
LEMMA StoreShaped ==
    ASSUME Recursion, NEW ty \in Types, Nested(ty), NEW v \in Values, IsOk(Store(ty, v))
    PROVE  /\ Store(ty, v)[1] \in Shaped(ty)
           /\ Meaning(ty, v) = MeaningShaped(ty, Store(ty, v)[1])
<1>1. Null \in Values /\ IsNull(Null) /\ \A x : Ok(x)[1] = x /\ Ok(x) # Err
    BY ValuesHaveParts DEF Null, IsNull, Ok, Err
<1>2. CASE IsNull(v)
    <2>1. Store(ty, v) = Ok(Null)
        BY <1>2 DEF Store
    <2>2. MeaningShaped(ty, Null) = <<>> /\ Meaning(ty, v) = <<>>
        BY <1>1, <1>2 DEF MeaningShaped, Meaning
    <2>3. QED
        BY <1>1, <2>1, <2>2 DEF Shaped
<1>3. CASE ~IsNull(v)
    <2>1. Store(ty, v) = shape_nested(ty, v)
        BY <1>3 DEF Store
    <2> DEFINE parsed == IF v.k = "str" THEN ParseJson(v.text) ELSE Ok(v)
    <2>2. /\ IsOk(parsed) /\ shape_nested(ty, v) = parsed
          /\ \/ IsNull(parsed[1])
             \/ ty.k = "ARRAY" /\ parsed[1].k = "list"
             \/ ty.k = "MAP" /\ parsed[1].k \in {"map", "struct"}
             \/ ty.k = "STRUCT" /\ parsed[1].k \in {"struct", "list"}
        BY <2>1 DEF shape_nested, Provided, IsOk
    <2>3. parsed[1] \in Values
        BY <1>1, <2>2, ValuesHaveParts
    <2>4. Meaning(ty, v) = MeaningNested(ty, shape_nested(ty, v)[1])
        BY <1>3 DEF Meaning
    <2>5. MeaningNested(ty, parsed[1]) = MeaningShaped(ty, parsed[1])
        BY DEF Recursion
    <2> HIDE DEF parsed
    <2>6. QED
        BY <2>1, <2>2, <2>3, <2>4, <2>5 DEF Shaped
<1>4. QED
    BY <1>2, <1>3

LEMMA ShapedRestore ==
    ASSUME Recursion, NEW ty \in Types, Nested(ty), RestoresShaped(ty)
    PROVE  Restores(ty)
<1> SUFFICES ASSUME NEW values \in Seq(Values), IsOk(build_array(ty, values))
             PROVE  ReadsBack(ty, build_array(ty, values)[1], values)
    BY DEF Restores
<1> DEFINE kept == [i \in DOMAIN values |-> Store(ty, values[i])[1]]
<1>1. DOMAIN values = 1..Len(values) /\ Len(values) \in Nat
    OBVIOUS
<1>2. ASSUME NEW i \in 1..Len(values)
      PROVE  /\ kept[i] \in Shaped(ty)
             /\ Meaning(ty, values[i]) = MeaningShaped(ty, kept[i])
    <2>1. i \in DOMAIN values /\ values[i] \in Values /\ kept[i] = Store(ty, values[i])[1]
        BY <1>1
    <2>2. IsOk(Store(ty, values[i]))
        BY <2>1, ArrayOfStored
    <2>3. QED
        BY <2>1, <2>2, StoreShaped
<1>3. kept \in Seq(Shaped(ty)) /\ Len(kept) = Len(values)
    <2>1. kept \in [1..Len(values) -> Shaped(ty)]
        BY <1>1, <1>2
    <2> HIDE DEF kept
    <2>2. QED
        BY <1>1, <2>1
<1>4. build_array(ty, values) = build_nested(ty, kept)
    BY ArrayOfStored DEF FinishColumn, Recursion
<1> DEFINE array == build_nested(ty, kept)[1]
<1>5. /\ Len(array.valid) = Len(kept)
      /\ \A i \in 1..Len(kept) : NestedAt(ty, array, i) = MeaningShaped(ty, kept[i])
    BY <1>3, <1>4 DEF RestoresShaped
<1> HIDE DEF kept, array
<1>6. \A i \in 1..Len(values) : ReadBack(ty, array, i) = Meaning(ty, values[i])
    BY <1>2, <1>3, <1>5 DEF ReadBack, Recursion
<1>7. ArrayLen(ty, array) = Len(values)
    BY <1>3, <1>5 DEF ArrayLen
<1>8. QED
    BY <1>4, <1>6, <1>7 DEF ReadsBack, array

(* Slices of a child array, between two offsets, are the groups it was     *)
(* made of.                                                                *)
LEMMA ChildReadsBack ==
    ASSUME NEW part, NEW child, NEW groups \in Seq(Seq(Values)),
           ReadsBack(part, child, FlattenSeq(groups)), NEW i \in 1..Len(groups)
    PROVE  \A j \in 1..Len(groups[i]) :
              ReadBack(part, child, Offsets(groups)[i] + j) = Meaning(part, groups[i][j])
<1> SUFFICES ASSUME NEW j \in 1..Len(groups[i])
             PROVE  ReadBack(part, child, Offsets(groups)[i] + j) = Meaning(part, groups[i][j])
    OBVIOUS
<1> DEFINE at == Offsets(groups)[i] + j
<1>1. at \in 1..Len(FlattenSeq(groups)) /\ FlattenSeq(groups)[at] = groups[i][j]
    BY OffsetsPlace
<1> HIDE DEF at
<1>2. ReadBack(part, child, at) = Meaning(part, FlattenSeq(groups)[at])
    BY <1>1 DEF ReadsBack
<1>3. QED
    BY <1>1, <1>2 DEF at

LEMMA ArraysRestore ==
    ASSUME NEW ty, ty.k = "ARRAY", Restores(ty.of)
    PROVE  RestoresShaped(ty)
<1> SUFFICES ASSUME NEW kept \in Seq(Shaped(ty)), IsOk(build_nested(ty, kept))
             PROVE  /\ Len(build_nested(ty, kept)[1].valid) = Len(kept)
                    /\ \A i \in 1..Len(kept) :
                          NestedAt(ty, build_nested(ty, kept)[1], i) = MeaningShaped(ty, kept[i])
    BY DEF RestoresShaped
<1> DEFINE valid == [i \in DOMAIN kept |-> ~IsNull(kept[i])]
           lists == [i \in DOMAIN kept |-> IF valid[i] THEN kept[i].items ELSE <<>>]
           flat == FlattenSeq(lists)
           child == build_array(ty.of, flat)
           array == [valid |-> valid, offsets |-> Offsets(lists), child |-> child[1]]
<1>1. DOMAIN kept = 1..Len(kept) /\ Len(kept) \in Nat
    OBVIOUS
<1>2. build_nested(ty, kept) =
         IF ~(Len(flat) <= MaxOffset) THEN Err
         ELSE Then(child, LAMBDA x : Ok([valid |-> valid, offsets |-> Offsets(lists), child |-> x]))
    BY DEF build_nested
<1>3. IsOk(child) /\ build_nested(ty, kept) = Ok(array)
    <2> HIDE DEF valid, lists, flat, child
    <2>1. QED
        BY <1>2 DEF Then, IsOk
<1>4. build_nested(ty, kept)[1] = array
    <2> HIDE DEF array
    <2>1. QED
        BY <1>3 DEF Ok
<1>5. ASSUME NEW i \in 1..Len(kept)
      PROVE  /\ lists[i] \in Seq(Values)
             /\ valid[i] <=> ~IsNull(kept[i])
             /\ valid[i] => lists[i] = kept[i].items
    <2>1. kept[i] \in Values /\ (IsNull(kept[i]) \/ kept[i].k = "list")
        BY DEF Shaped
    <2>2. ~IsNull(kept[i]) => kept[i].items \in Seq(Values)
        BY <2>1, ValuesHaveParts
    <2>3. <<>> \in Seq(Values)
        OBVIOUS
    <2>4. QED
        BY <1>1, <2>2, <2>3
<1>6. Len(valid) = Len(kept) /\ Len(lists) = Len(kept) /\ lists \in Seq(Seq(Values))
    <2>1. lists \in [1..Len(kept) -> Seq(Values)] /\ DOMAIN valid = 1..Len(kept)
        BY <1>1, <1>5
    <2>2. Len(valid) = Len(kept)
        BY <1>1
    <2> HIDE DEF lists, valid
    <2>3. QED
        BY <1>1, <2>1, <2>2
<1> HIDE DEF valid, lists
<1>7. ReadsBack(ty.of, child[1], flat)
    <2>1. flat \in Seq(Values)
        BY <1>6, JoinedStarts, JoinedType
    <2> HIDE DEF flat
    <2>2. QED
        BY <1>3, <2>1 DEF Restores
<1> HIDE DEF child
<1>8. ASSUME NEW i \in 1..Len(kept) PROVE NestedAt(ty, array, i) = MeaningShaped(ty, kept[i])
    <2>1. array.valid = valid /\ array.offsets = Offsets(lists) /\ array.child = child[1]
        OBVIOUS
    <2> HIDE DEF array, flat
    <2>2. CASE IsNull(kept[i])
        BY <1>5, <2>1, <2>2 DEF NestedAt, MeaningShaped
    <2>3. CASE ~IsNull(kept[i])
        <3> DEFINE n == Offsets(lists)[i + 1] - Offsets(lists)[i]
                   read == [j \in 1..n |-> ReadBack(ty.of, child[1], Offsets(lists)[i] + j)]
                   meant == [j \in DOMAIN kept[i].items |-> Meaning(ty.of, kept[i].items[j])]
        <3>1. valid[i] /\ lists[i] = kept[i].items /\ lists[i] \in Seq(Values)
            BY <1>5, <2>3
        <3>2. n = Len(lists[i]) /\ DOMAIN lists[i] = 1..Len(lists[i])
            BY <1>6, <3>1, OffsetsPlace
        <3>3. \A j \in 1..Len(lists[i]) :
                 ReadBack(ty.of, child[1], Offsets(lists)[i] + j) = Meaning(ty.of, lists[i][j])
            BY <1>6, <1>7, ChildReadsBack DEF flat
        <3>4. NestedAt(ty, array, i) = <<read>>
            BY <2>1, <3>1 DEF NestedAt
        <3>5. MeaningShaped(ty, kept[i]) = <<meant>>
            BY <2>3 DEF MeaningShaped
        <3>6. read = meant
            <4> HIDE DEF n
            <4>1. QED
                BY <3>1, <3>2, <3>3
        <3> HIDE DEF read, meant
        <3>7. QED
            BY <3>4, <3>5, <3>6
    <2>4. QED
        BY <2>2, <2>3
<1>9. array.valid = valid
    OBVIOUS
<1> HIDE DEF array
<1>10. QED
    BY <1>4, <1>6, <1>8, <1>9

LEMMA EntriesType ==
    ASSUME NEW v \in Values, v.k \in {"map", "struct"}
    PROVE  EntriesOf(v) \in Seq(Values \X Values)
<1>1. CASE v.k = "map"
    BY <1>1, ValuesHaveParts DEF EntriesOf
<1>2. CASE v.k = "struct"
    <2> DEFINE F == {v.fields[i] : i \in DOMAIN v.fields}
               entries == [i \in DOMAIN v.fields |-> <<Str(v.fields[i][1]), v.fields[i][2]>>]
    <2>1. v.fields \in Seq(F) /\ \A i \in DOMAIN v.fields : {Str(v.fields[i][1]), v.fields[i][2]} \subseteq Values
        BY <1>2, ValuesHaveParts
    <2>2. EntriesOf(v) = entries
        BY <1>2 DEF EntriesOf
    <2> HIDE DEF F
    <2>3. DOMAIN v.fields = 1..Len(v.fields) /\ Len(v.fields) \in Nat
        BY <2>1
    <2>4. entries \in [1..Len(v.fields) -> Values \X Values]
        BY <2>1, <2>3
    <2> HIDE DEF entries
    <2>5. QED
        BY <2>2, <2>3, <2>4
<1>3. QED
    BY <1>1, <1>2

(* Two arrays built side by side are both built, or neither.               *)
LEMMA BothBuilt ==
    ASSUME NEW a, NEW b, IsOk(Collect(<<a, b>>))
    PROVE  IsOk(a) /\ IsOk(b) /\ Collect(<<a, b>>)[1] = <<a[1], b[1]>>
<1> DEFINE rs == <<a, b>>
           both == [i \in DOMAIN rs |-> rs[i][1]]
<1>1. DOMAIN rs = 1..2 /\ rs[1] = a /\ rs[2] = b
    OBVIOUS
<1>2. Collect(rs) = IF \A i \in DOMAIN rs : IsOk(rs[i]) THEN Ok(both) ELSE Err
    BY DEF Collect
<1>3. both = <<a[1], b[1]>>
    OBVIOUS
<1> HIDE DEF both, rs
<1>4. (\A i \in DOMAIN rs : IsOk(rs[i])) /\ Collect(rs) = Ok(both)
    BY <1>2 DEF IsOk, rs
<1>5. QED
    BY <1>1, <1>3, <1>4 DEF Ok, rs

LEMMA MapsRestore ==
    ASSUME NEW ty, ty.k = "MAP", Restores(ty.key), Restores(ty.val)
    PROVE  RestoresShaped(ty)
<1> SUFFICES ASSUME NEW kept \in Seq(Shaped(ty)), IsOk(build_nested(ty, kept))
             PROVE  /\ Len(build_nested(ty, kept)[1].valid) = Len(kept)
                    /\ \A i \in 1..Len(kept) :
                          NestedAt(ty, build_nested(ty, kept)[1], i) = MeaningShaped(ty, kept[i])
    BY DEF RestoresShaped
<1> DEFINE valid == [i \in DOMAIN kept |-> ~IsNull(kept[i])]
           entries == [i \in DOMAIN kept |-> IF valid[i] THEN EntriesOf(kept[i]) ELSE <<>>]
           flat == FlattenSeq(entries)
           side(n) == [e \in DOMAIN flat |-> flat[e][n]]
           keys == build_array(ty.key, side(1))
           vals == build_array(ty.val, side(2))
           array == [valid |-> valid, offsets |-> Offsets(entries), keys |-> keys[1], vals |-> vals[1]]
           sound == Len(flat) <= MaxOffset /\ \A i \in DOMAIN entries : KeysOk(entries[i])
<1>1. DOMAIN kept = 1..Len(kept) /\ Len(kept) \in Nat
    OBVIOUS
<1>2. build_nested(ty, kept) =
         IF ~sound THEN Err
         ELSE Then(Collect(<<keys, vals>>), LAMBDA arrays :
                   Ok([valid |-> valid, offsets |-> Offsets(entries), keys |-> arrays[1], vals |-> arrays[2]]))
    BY DEF build_nested
<1>3. IsOk(keys) /\ IsOk(vals) /\ build_nested(ty, kept) = Ok(array)
    <2> HIDE DEF valid, entries, flat, keys, vals, sound
    <2>1. IsOk(Collect(<<keys, vals>>))
        BY <1>2 DEF Then, IsOk
    <2>2. build_nested(ty, kept) =
             Ok([valid |-> valid, offsets |-> Offsets(entries),
                 keys |-> Collect(<<keys, vals>>)[1][1], vals |-> Collect(<<keys, vals>>)[1][2]])
        BY <1>2, <2>1 DEF Then, IsOk
    <2>3. IsOk(keys) /\ IsOk(vals) /\ Collect(<<keys, vals>>)[1] = <<keys[1], vals[1]>>
        BY <2>1, BothBuilt
    <2>4. QED
        BY <2>2, <2>3
<1>4. build_nested(ty, kept)[1] = array
    <2> HIDE DEF array
    <2>1. QED
        BY <1>3 DEF Ok
<1>5. ASSUME NEW i \in 1..Len(kept)
      PROVE  /\ entries[i] \in Seq(Values \X Values)
             /\ valid[i] <=> ~IsNull(kept[i])
             /\ valid[i] => entries[i] = EntriesOf(kept[i])
    <2>1. kept[i] \in Values /\ (IsNull(kept[i]) \/ kept[i].k \in {"map", "struct"})
        BY DEF Shaped
    <2>2. ~IsNull(kept[i]) => EntriesOf(kept[i]) \in Seq(Values \X Values)
        BY <2>1, EntriesType
    <2>3. <<>> \in Seq(Values \X Values)
        OBVIOUS
    <2>4. QED
        BY <1>1, <2>2, <2>3
<1>6. Len(valid) = Len(kept) /\ Len(entries) = Len(kept) /\ entries \in Seq(Seq(Values \X Values))
    <2>1. entries \in [1..Len(kept) -> Seq(Values \X Values)]
        BY <1>1, <1>5
    <2>2. Len(valid) = Len(kept)
        BY <1>1
    <2> HIDE DEF entries, valid
    <2>3. QED
        BY <1>1, <2>1, <2>2
<1> HIDE DEF valid, entries
<1>7. /\ ReadsBack(ty.key, keys[1], side(1)) /\ ReadsBack(ty.val, vals[1], side(2))
      /\ \A n \in {1, 2} : /\ Len(side(n)) = Len(FlattenSeq(entries))
                           /\ \A e \in 1..Len(side(n)) : side(n)[e] = FlattenSeq(entries)[e][n]
    <2>1. flat \in Seq(Values \X Values)
        BY <1>6, JoinedStarts, JoinedType
    <2> HIDE DEF flat
    <2>2. DOMAIN flat = 1..Len(flat) /\ Len(flat) \in Nat
        BY <2>1
    <2>3. ASSUME NEW n \in {1, 2} PROVE side(n) \in Seq(Values)
        <3>1. side(n) \in [1..Len(flat) -> Values]
            BY <2>1, <2>2
        <3>2. QED
            BY <2>2, <3>1
    <2>4. side(1) \in Seq(Values) /\ side(2) \in Seq(Values)
        BY <2>3
    <2>5. ReadsBack(ty.key, keys[1], side(1)) /\ ReadsBack(ty.val, vals[1], side(2))
        BY <1>3, <2>4 DEF Restores
    <2>6. ASSUME NEW n \in {1, 2}
          PROVE  Len(side(n)) = Len(flat) /\ \A e \in 1..Len(side(n)) : side(n)[e] = flat[e][n]
        BY <2>2
    <2>7. QED
        BY <2>5, <2>6 DEF flat
<1> HIDE DEF keys, vals
<1>8. ASSUME NEW i \in 1..Len(kept) PROVE NestedAt(ty, array, i) = MeaningShaped(ty, kept[i])
    <2>1. /\ array.valid = valid /\ array.offsets = Offsets(entries)
          /\ array.keys = keys[1] /\ array.vals = vals[1]
        OBVIOUS
    <2> HIDE DEF array, flat
    <2>2. CASE IsNull(kept[i])
        BY <1>5, <2>1, <2>2 DEF NestedAt, MeaningShaped
    <2>3. CASE ~IsNull(kept[i])
        <3> DEFINE n == Offsets(entries)[i + 1] - Offsets(entries)[i]
                   at(j) == Offsets(entries)[i] + j
                   held == EntriesOf(kept[i])
                   read == [j \in 1..n |-> <<ReadBack(ty.key, keys[1], at(j)), ReadBack(ty.val, vals[1], at(j))>>]
                   meant == [j \in DOMAIN held |-> <<Meaning(ty.key, held[j][1]), Meaning(ty.val, held[j][2])>>]
        <3>1. valid[i] /\ entries[i] = held /\ entries[i] \in Seq(Values \X Values)
            BY <1>5, <2>3
        <3>2. n = Len(entries[i]) /\ DOMAIN entries[i] = 1..Len(entries[i])
            BY <1>6, <3>1, OffsetsPlace
        <3>3. ASSUME NEW j \in 1..Len(entries[i])
              PROVE  /\ ReadBack(ty.key, keys[1], at(j)) = Meaning(ty.key, entries[i][j][1])
                     /\ ReadBack(ty.val, vals[1], at(j)) = Meaning(ty.val, entries[i][j][2])
            <4>1. at(j) \in 1..Len(FlattenSeq(entries)) /\ FlattenSeq(entries)[at(j)] = entries[i][j]
                BY <1>6, OffsetsPlace
            <4> HIDE DEF at, read, meant, n, held, side
            <4>2. at(j) \in 1..Len(side(1)) /\ side(1)[at(j)] = entries[i][j][1]
                BY <1>7, <4>1
            <4>3. at(j) \in 1..Len(side(2)) /\ side(2)[at(j)] = entries[i][j][2]
                BY <1>7, <4>1
            <4>4. QED
                BY <1>7, <4>2, <4>3 DEF ReadsBack
        <3>4. NestedAt(ty, array, i) = <<read>>
            BY <2>1, <3>1 DEF NestedAt
        <3>5. MeaningShaped(ty, kept[i]) = <<meant>>
            BY <2>3 DEF MeaningShaped
        <3>6. read = meant
            <4> HIDE DEF n, held
            <4>1. QED
                BY <3>1, <3>2, <3>3
        <3> HIDE DEF read, meant
        <3>7. QED
            BY <3>4, <3>5, <3>6
    <2>4. QED
        BY <2>2, <2>3
<1>9. array.valid = valid
    OBVIOUS
<1> HIDE DEF array
<1>10. QED
    BY <1>4, <1>6, <1>8, <1>9

LEMMA SlotsType ==
    ASSUME NEW ty \in Types, ty.k = "STRUCT", NEW v \in Shaped(ty), IsOk(Slots(ty, v)),
           NEW f \in DOMAIN ty.fields
    PROVE  Slots(ty, v)[1][f] \in Values
<1>1. /\ \A x : Ok(x)[1] = x
      /\ Null \in Values /\ v \in Values /\ (IsNull(v) \/ v.k \in {"struct", "list"})
    BY ValuesHaveParts DEF Shaped, Ok
<1>2. CASE v.k = "struct"
    <2> DEFINE named(g) == {i \in DOMAIN v.fields : v.fields[i][1] = ty.fields[g][1]}
               last(g) == CHOOSE i \in named(g) : \A j \in named(g) : j <= i
               slots == [g \in DOMAIN ty.fields |-> IF named(g) = {} THEN Null ELSE v.fields[last(g)][2]]
    <2>1. Slots(ty, v) = IF \E i \in DOMAIN v.fields : Position(ty, v.fields[i][1]) = {} THEN Err
                         ELSE Ok(slots)
        BY <1>2 DEF Slots
    <2>2. \A i \in DOMAIN v.fields : v.fields[i][2] \in Values
        BY <1>1, <1>2, ValuesHaveParts
    <2>3. named(f) # {} => last(f) \in DOMAIN v.fields
        <3> SUFFICES ASSUME named(f) # {} PROVE last(f) \in DOMAIN v.fields
            OBVIOUS
        <3> DEFINE S == named(f)
        <3>1. v.fields \in Seq({v.fields[i] : i \in DOMAIN v.fields})
            BY <1>1, <1>2, ValuesHaveParts
        <3>2. DOMAIN v.fields = 1..Len(v.fields) /\ Len(v.fields) \in Nat
            BY <3>1
        <3>3. S \in SUBSET 1..Len(v.fields) /\ S # {}
            BY <3>2
        <3>4. last(f) = CHOOSE i \in S : \A j \in S : j <= i
            OBVIOUS
        <3> HIDE DEF S
        <3>5. \E i \in S : \A j \in S : j <= i
            <4> DEFINE T == {Len(v.fields) - j : j \in S}
            <4>0. \A j \in S : Len(v.fields) - j \in Nat
                BY <3>2, <3>3
            <4>1. T \in SUBSET Nat /\ T # {}
                BY <3>3, <4>0
            <4> HIDE DEF T
            <4>2. PICK t \in T : \A u \in T : t <= u
                BY <4>1, LeastElement
            <4>3. PICK i \in S : t = Len(v.fields) - i
                BY DEF T
            <4>4. \A j \in S : Len(v.fields) - j \in T
                BY DEF T
            <4>5. \A j \in S : j <= i
                BY <3>2, <3>3, <4>2, <4>3, <4>4
            <4>6. QED
                BY <4>5
        <3>6. QED
            BY <3>2, <3>3, <3>4, <3>5
    <2>4. slots[f] \in Values
        <3> HIDE DEF named, last
        <3>1. slots[f] = IF named(f) = {} THEN Null ELSE v.fields[last(f)][2]
            OBVIOUS
        <3>2. QED
            BY <1>1, <2>2, <2>3, <3>1
    <2> HIDE DEF slots
    <2>5. Slots(ty, v) = Ok(slots)
        BY <2>1 DEF IsOk
    <2>6. QED
        BY <1>1, <2>4, <2>5
<1>3. CASE v.k = "list"
    <2>1. Slots(ty, v) = Ok(v.items) /\ Len(v.items) = Len(ty.fields)
        BY <1>3 DEF Slots, IsOk
    <2>2. v.items \in Seq(Values) /\ ty.fields \in Seq({ty.fields[g] : g \in DOMAIN ty.fields})
        BY <1>1, <1>3, ValuesHaveParts, TypesAreTrees DEF TypeHasParameters
    <2>3. DOMAIN ty.fields = 1..Len(v.items)
        BY <2>1, <2>2
    <2>4. QED
        BY <1>1, <2>1, <2>2, <2>3
<1>4. CASE IsNull(v)
    <2>1. Slots(ty, v) = Ok([g \in DOMAIN ty.fields |-> Null])
        BY <1>4 DEF Slots, IsNull
    <2>2. QED
        BY <1>1, <2>1
<1>5. QED
    BY <1>1, <1>2, <1>3, <1>4

(* Results collected are all Ok, and what is in them.                      *)
LEMMA CollectedAll ==
    ASSUME NEW rs, IsOk(Collect(rs))
    PROVE  (\A i \in DOMAIN rs : IsOk(rs[i])) /\ Collect(rs)[1] = [i \in DOMAIN rs |-> rs[i][1]]
<1> DEFINE all == [i \in DOMAIN rs |-> rs[i][1]]
<1>1. Collect(rs) = IF \A i \in DOMAIN rs : IsOk(rs[i]) THEN Ok(all) ELSE Err
    BY DEF Collect
<1> HIDE DEF all
<1>2. (\A i \in DOMAIN rs : IsOk(rs[i])) /\ Collect(rs) = Ok(all)
    BY <1>1 DEF IsOk
<1>3. QED
    BY <1>2 DEF Ok, all

LEMMA StructsRestore ==
    ASSUME NEW ty \in Types, ty.k = "STRUCT", \A f \in DOMAIN ty.fields : Restores(ty.fields[f][2])
    PROVE  RestoresShaped(ty)
<1> SUFFICES ASSUME NEW kept \in Seq(Shaped(ty)), IsOk(build_nested(ty, kept))
             PROVE  /\ Len(build_nested(ty, kept)[1].valid) = Len(kept)
                    /\ \A i \in 1..Len(kept) :
                          NestedAt(ty, build_nested(ty, kept)[1], i) = MeaningShaped(ty, kept[i])
    BY DEF RestoresShaped
<1> DEFINE valid == [i \in DOMAIN kept |-> ~IsNull(kept[i])]
           slots == [i \in DOMAIN kept |-> Slots(ty, kept[i])]
           rows_ == Collect(slots)[1]
           field(f) == [i \in DOMAIN rows_ |-> rows_[i][f]]
           built == [f \in DOMAIN ty.fields |-> build_array(ty.fields[f][2], field(f))]
           array == [valid |-> valid, columns |-> Collect(built)[1]]
<1>1. DOMAIN kept = 1..Len(kept) /\ Len(kept) \in Nat
    OBVIOUS
<1>2. build_nested(ty, kept) =
         Then(Collect(slots), LAMBDA rs :
             Then(Collect([f \in DOMAIN ty.fields |->
                              build_array(ty.fields[f][2], [i \in DOMAIN rs |-> rs[i][f]])]),
                  LAMBDA columns_ : Ok([valid |-> valid, columns |-> columns_])))
    BY DEF build_nested, CollectEach
<1>3. IsOk(Collect(slots)) /\ IsOk(Collect(built)) /\ build_nested(ty, kept) = Ok(array)
    <2>1. /\ IsOk(Collect(slots))
          /\ build_nested(ty, kept) = Then(Collect(built), LAMBDA columns_ : Ok([valid |-> valid, columns |-> columns_]))
        <3> HIDE DEF valid, slots
        <3>1. QED
            BY <1>2 DEF Then, IsOk
    <2> HIDE DEF valid, slots, built
    <2>2. QED
        BY <2>1 DEF Then, IsOk
<1>4. build_nested(ty, kept)[1] = array
    <2> HIDE DEF array
    <2>1. QED
        BY <1>3 DEF Ok
<1>5. /\ \A i \in 1..Len(kept) : IsOk(Slots(ty, kept[i]))
      /\ rows_ = [i \in 1..Len(kept) |-> Slots(ty, kept[i])[1]]
    <2>1. DOMAIN slots = 1..Len(kept) /\ \A i \in 1..Len(kept) : slots[i] = Slots(ty, kept[i])
        BY <1>1
    <2>2. (\A i \in DOMAIN slots : IsOk(slots[i])) /\ rows_ = [i \in DOMAIN slots |-> slots[i][1]]
        <3> HIDE DEF slots
        <3>1. QED
            BY <1>3, CollectedAll
    <2> HIDE DEF slots, rows_
    <2>3. QED
        BY <2>1, <2>2
<1>6. /\ \A f \in DOMAIN ty.fields : IsOk(build_array(ty.fields[f][2], field(f)))
      /\ Collect(built)[1] = [f \in DOMAIN ty.fields |-> build_array(ty.fields[f][2], field(f))[1]]
    <2> HIDE DEF field
    <2>1. DOMAIN built = DOMAIN ty.fields
          /\ \A f \in DOMAIN ty.fields : built[f] = build_array(ty.fields[f][2], field(f))
        OBVIOUS
    <2> HIDE DEF built
    <2>2. QED
        BY <1>3, <2>1, CollectedAll
<1> HIDE DEF rows_, built, slots
<1>7. ASSUME NEW f \in DOMAIN ty.fields
      PROVE  /\ field(f) \in Seq(Values) /\ Len(field(f)) = Len(kept)
             /\ \A i \in 1..Len(kept) : field(f)[i] = Slots(ty, kept[i])[1][f]
    <2>1. field(f) = [i \in 1..Len(kept) |-> Slots(ty, kept[i])[1][f]]
        BY <1>5
    <2>2. \A i \in 1..Len(kept) : Slots(ty, kept[i])[1][f] \in Values
        <3>1. ASSUME NEW i \in 1..Len(kept) PROVE Slots(ty, kept[i])[1][f] \in Values
            <4>1. kept[i] \in Shaped(ty)
                BY <1>1
            <4>2. QED
                BY <1>5, <4>1, SlotsType
        <3>2. QED
            BY <3>1
    <2>3. field(f) \in [1..Len(kept) -> Values]
        BY <2>1, <2>2
    <2>4. \A i \in 1..Len(kept) : field(f)[i] = Slots(ty, kept[i])[1][f]
        BY <2>1
    <2> HIDE DEF field
    <2>5. QED
        BY <1>1, <2>3, <2>4
<1>8. ASSUME NEW f \in DOMAIN ty.fields
      PROVE  ReadsBack(ty.fields[f][2], Collect(built)[1][f], field(f))
    <2> HIDE DEF field
    <2>1. QED
        BY <1>6, <1>7 DEF Restores
<1>9. Len(valid) = Len(kept) /\ \A i \in 1..Len(kept) : valid[i] <=> ~IsNull(kept[i])
    <2>1. Len(valid) = Len(kept)
        BY <1>1
    <2>2. QED
        BY <1>1, <2>1
<1> HIDE DEF valid, field
<1>10. ASSUME NEW i \in 1..Len(kept) PROVE NestedAt(ty, array, i) = MeaningShaped(ty, kept[i])
    <2> DEFINE arrays == Collect(built)[1]
    <2>1. array.valid = valid /\ array.columns = arrays
        OBVIOUS
    <2> HIDE DEF array, arrays
    <2>2. CASE IsNull(kept[i])
        BY <1>9, <2>1, <2>2 DEF NestedAt, MeaningShaped
    <2>3. CASE ~IsNull(kept[i])
        <3> DEFINE read == [f \in DOMAIN ty.fields |-> ReadBack(ty.fields[f][2], arrays[f], i)]
                   meant == [f \in DOMAIN ty.fields |-> Meaning(ty.fields[f][2], Slots(ty, kept[i])[1][f])]
        <3>1. \A f \in DOMAIN ty.fields :
                 ReadBack(ty.fields[f][2], arrays[f], i) = Meaning(ty.fields[f][2], Slots(ty, kept[i])[1][f])
            BY <1>7, <1>8 DEF ReadsBack, arrays
        <3>2. read = meant
            BY <3>1
        <3>3. NestedAt(ty, array, i) = <<read>>
            BY <1>9, <2>1, <2>3 DEF NestedAt
        <3>4. MeaningShaped(ty, kept[i]) = <<meant>>
            BY <2>3 DEF MeaningShaped
        <3> HIDE DEF read, meant
        <3>5. QED
            BY <3>2, <3>3, <3>4
    <2>4. QED
        BY <2>2, <2>3
<1>11. array.valid = valid
    OBVIOUS
<1> HIDE DEF array
<1>12. QED
    BY <1>4, <1>9, <1>10, <1>11

(* A part of a type is made of fewer types than the type, so that what     *)
(* passes from the parts to the whole holds of every type.                 *)
LEMMA PartsAreSmaller ==
    ASSUME NEW ty \in Types, NEW part \in PartsOf(ty)
    PROVE  /\ part \in Types
           /\ Cardinality(TypesIn(part)) \in Nat /\ Cardinality(TypesIn(ty)) \in Nat
           /\ Cardinality(TypesIn(part)) < Cardinality(TypesIn(ty))
<1> DEFINE whole == TypesIn(ty)
           rest == whole \ {ty}
<1>1. part \in Types
    BY TypesAreTrees
<1>2. ty \in whole /\ TypesIn(part) \subseteq rest /\ IsFiniteSet(whole) /\ IsFiniteSet(TypesIn(part))
    <2>1. whole = {ty} \cup UNION {TypesIn(p) : p \in PartsOf(ty)}
        BY TypesAreTrees
    <2>2. TypesIn(part) \subseteq whole /\ ty \in whole
        BY <2>1
    <2>3. ty \notin TypesIn(part) /\ IsFiniteSet(whole) /\ IsFiniteSet(TypesIn(part))
        BY <1>1, TypesAreTrees
    <2>4. QED
        BY <2>2, <2>3
<1> HIDE DEF whole
<1>3. IsFiniteSet(rest) /\ Cardinality(rest) = Cardinality(whole) - 1
    BY <1>2, FS_RemoveElement
<1>4. Cardinality(TypesIn(part)) <= Cardinality(rest)
    BY <1>2, <1>3, FS_Subset
<1>5. Cardinality(whole) \in Nat /\ Cardinality(TypesIn(part)) \in Nat
    BY <1>2, FS_CardinalityType
<1>6. QED
    BY <1>1, <1>3, <1>4, <1>5 DEF whole

LEMMA WholeRestores ==
    ASSUME Recursion, NEW ty \in Types, \A part \in PartsOf(ty) : Restores(part)
    PROVE  Restores(ty)
<1>1. CASE ty.k = "ARRAY"
    <2>1. ty.of \in PartsOf(ty)
        BY <1>1 DEF PartsOf
    <2>2. QED
        BY <1>1, <2>1, ArraysRestore, ShapedRestore DEF Nested
<1>2. CASE ty.k = "MAP"
    <2>1. {ty.key, ty.val} \subseteq PartsOf(ty)
        BY <1>2 DEF PartsOf
    <2>2. QED
        BY <1>2, <2>1, MapsRestore, ShapedRestore DEF Nested
<1>3. CASE ty.k = "STRUCT"
    <2>1. \A f \in DOMAIN ty.fields : ty.fields[f][2] \in PartsOf(ty)
        BY <1>3 DEF PartsOf
    <2>2. QED
        BY <1>3, <2>1, StructsRestore, ShapedRestore DEF Nested
<1>4. CASE ~Nested(ty)
    BY <1>4, ScalarsRestore
<1>5. QED
    BY <1>1, <1>2, <1>3, <1>4 DEF Nested

(* Whatever the depth of a type, the array build_array makes of values     *)
(* reads back as them.                                                     *)
THEOREM EveryTypeRestores ==
    ASSUME Recursion
    PROVE  \A ty \in Types : Restores(ty)
<1> DEFINE size(ty) == Cardinality(TypesIn(ty))
           S == {n \in Nat : \A ty \in Types : size(ty) < n => Restores(ty)}
<1>1. \A ty \in Types : size(ty) \in Nat
    BY TypesAreTrees, FS_CardinalityType
<1>2. 0 \in S
    BY <1>1
<1>3. ASSUME NEW n \in Nat, n \in S PROVE n + 1 \in S
    <2> SUFFICES ASSUME NEW ty \in Types, size(ty) < n + 1 PROVE Restores(ty)
        OBVIOUS
    <2>1. ASSUME NEW part \in PartsOf(ty) PROVE Restores(part)
        <3>1. part \in Types /\ size(part) < size(ty)
            BY PartsAreSmaller
        <3>2. size(part) < n
            BY <1>1, <3>1
        <3>3. QED
            BY <1>3, <3>1, <3>2
    <2>2. QED
        BY <2>1, WholeRestores
<1> HIDE DEF S
<1>4. \A n \in Nat : n \in S
    BY <1>2, <1>3, Induction
<1>5. ASSUME NEW ty \in Types PROVE Restores(ty)
    <2>1. size(ty) + 1 \in Nat /\ size(ty) < size(ty) + 1
        BY <1>1
    <2>2. size(ty) + 1 \in S
        BY <1>4, <2>1
    <2>3. QED
        BY <2>1, <2>2 DEF S
<1>6. QED
    BY <1>5

(* The array of a batch is the one build_array makes of the rows' values.  *)
LEMMA BatchOfValues ==
    ASSUME BuilderInv, NEW c \in DOMAIN batch.arrays
    PROVE  LET values == [i \in 1..batch.rows |-> batch.from[i][c]] IN
           /\ columns[c].ty \in Types /\ batch.rows \in Nat /\ values \in Seq(Values)
           /\ IsOk(build_array(columns[c].ty, values))
           /\ batch.arrays[c] = build_array(columns[c].ty, values)[1]
<1> DEFINE ty == columns[c].ty
           values == [i \in 1..batch.rows |-> batch.from[i][c]]
           rs == [i \in DOMAIN values |-> Store(ty, values[i])]
<1>1. c \in DOMAIN columns /\ FinishedFrom(batch.arrays[c], batch.from, batch.rows, c)
    BY DEF BuilderInv, BatchInv
<1>2. ty \in Types
    BY <1>1 DEF BuilderInv, TableInv
<1>3. PICK stored : /\ IsSequence(stored) /\ Keeps(stored, batch.from, batch.rows, c)
                    /\ IsOk(FinishColumn(ty, stored))
                    /\ batch.arrays[c] = FinishColumn(ty, stored)[1]
    BY <1>1 DEF FinishedFrom
<1>4. batch.rows \in Nat /\ stored = [i \in 1..batch.rows |-> stored[i]]
    BY <1>3 DEF IsSequence, Keeps
<1>5. ASSUME NEW i \in 1..batch.rows
      PROVE  values[i] \in Values /\ IsOk(Store(ty, values[i])) /\ stored[i] = Store(ty, values[i])[1]
    BY <1>3 DEF Keeps, Takes, Accepts
<1>6. values \in Seq(Values) /\ DOMAIN values = 1..batch.rows
    <2>1. values \in [1..batch.rows -> Values]
        BY <1>5
    <2> HIDE DEF values
    <2>2. QED
        BY <1>4, <2>1
<1> HIDE DEF values
<1>7. Collect(rs) = Ok(stored)
    <2>1. DOMAIN rs = 1..batch.rows /\ \A i \in DOMAIN rs : IsOk(rs[i]) /\ rs[i][1] = stored[i]
        BY <1>5, <1>6
    <2> HIDE DEF rs
    <2>2. [i \in DOMAIN rs |-> rs[i][1]] = stored
        BY <1>4, <2>1
    <2>3. QED
        BY <2>1, <2>2 DEF Collect
<1>8. build_array(ty, values) = FinishColumn(ty, stored)
    <2>1. build_array(ty, values) = Then(Collect(rs), LAMBDA kept : FinishColumn(ty, kept))
        BY DEF build_array, CollectEach
    <2>2. IsOk(Ok(stored)) /\ Ok(stored)[1] = stored
        BY DEF Ok, IsOk, Err
    <2> HIDE DEF rs
    <2>3. QED
        BY <1>7, <2>1, <2>2 DEF Then
<1>9. QED
    BY <1>2, <1>3, <1>4, <1>6, <1>8 DEF values

(* Every batch handed over reads back as the rows it was built of.         *)
LEMMA RowsKeptInPlace ==
    ASSUME Recursion
    PROVE  BuilderInv => RowsReadBack
<1> SUFFICES ASSUME BuilderInv, NEW c \in DOMAIN batch.arrays
             PROVE  /\ ArrayLen(columns[c].ty, batch.arrays[c]) = batch.rows
                    /\ Len(batch.from) = batch.rows
                    /\ \A i \in 1..batch.rows :
                         ReadBack(columns[c].ty, batch.arrays[c], i) = Meaning(columns[c].ty, batch.from[i][c])
    BY DEF RowsReadBack
<1> DEFINE ty == columns[c].ty
           values == [i \in 1..batch.rows |-> batch.from[i][c]]
<1>1. /\ ty \in Types /\ batch.rows \in Nat /\ values \in Seq(Values)
      /\ IsOk(build_array(ty, values)) /\ batch.arrays[c] = build_array(ty, values)[1]
    BY BatchOfValues
<1>2. Len(values) = batch.rows /\ \A i \in 1..batch.rows : values[i] = batch.from[i][c]
    BY <1>1
<1> HIDE DEF values
<1>3. ReadsBack(ty, batch.arrays[c], values)
    BY <1>1, EveryTypeRestores DEF Restores
<1>4. Len(batch.from) = batch.rows
    BY DEF BuilderInv, BatchInv
<1>5. QED
    BY <1>2, <1>3, <1>4 DEF ReadsBack
-----------------------------------------------------------------------------
(* The whole run: from DDL and spec to the last batch.                     *)

(* The columns are those of the file, and the spec the one derived from    *)
(* them or the one given.                                                  *)
Parsed ==
    /\ IsOk(ReadSchema(case.ddl, case.wanted))
    /\ columns = ReadSchema(case.ddl, case.wanted)[1].columns

Chosen == IF Derived THEN spec_yaml_from_table(columns) ELSE Ok(case.spec)
SpecChosen == IsOk(Chosen) /\ spec = Chosen[1]

Fresh == builders = <<>> /\ NoRows

(* What each step of the start leaves to the next.                         *)
StartInv ==
    /\ pc \in {"start", "spec"} => OrderInit /\ spec = <<>>
    /\ pc = "start" => columns = <<>>
    /\ pc \notin {"start", "refused"} => Parsed
    /\ pc \in {"compile", "check", "rows", "failed"} => SpecChosen
    /\ pc \in {"check", "rows", "failed"} => stage = "sorted"
    /\ pc \in {"rows", "failed"} => Accepted(spec)

TaskInv ==
    /\ Fresh \/ BuilderInv
    /\ pc \in {"start", "spec", "compile", "check"} => Fresh
    /\ pc \in {"rows", "failed"} => BuilderInv

RunInv == case \in Cases /\ OrderInv /\ StartInv /\ TaskInv

(* The tables and generators the assumptions speak of are those of a run.  *)
LEMMA ParsedTable ==
    ASSUME case \in Cases, Parsed
    PROVE  TableInv /\ columns \in Seq({columns[c] : c \in DOMAIN columns})
<1> DEFINE table == ReadSchema(case.ddl, case.wanted)
<1>1. table \in {ReadSchema(case.ddl, case.wanted)} /\ IsOk(table) /\ columns = table[1].columns
    BY DEF Parsed
<1> HIDE DEF table
<1>2. /\ columns # <<>> /\ columns \in Seq({columns[c] : c \in DOMAIN columns})
      /\ \A c \in DOMAIN columns : columns[c].ty \in Types
    BY <1>1, CasesAreRuns
<1>3. QED
    BY <1>2 DEF TableInv

LEMMA ChosenGens ==
    ASSUME case \in Cases, Parsed, IsOk(Chosen)
    PROVE  /\ Chosen[1] \in Seq({Chosen[1][f] : f \in DOMAIN Chosen[1]})
           /\ \A f \in DOMAIN Chosen[1] : Chosen[1][f].gen \in Gens
<1> DEFINE table == ReadSchema(case.ddl, case.wanted)
<1>1. table \in {ReadSchema(case.ddl, case.wanted)} /\ IsOk(table) /\ columns = table[1].columns
    BY DEF Parsed
<1> HIDE DEF table
<1>2. /\ case.spec \in Seq({case.spec[f] : f \in DOMAIN case.spec})
      /\ \A f \in DOMAIN case.spec : case.spec[f].gen \in Gens
      /\ Derived => \A c \in DOMAIN columns : is_generatable(columns[c].ty) => generator_for(columns[c]) \in Gens
    BY <1>1, CasesAreRuns DEF Derived
<1>3. CASE ~Derived
    <2>1. Chosen[1] = case.spec
        BY <1>3 DEF Chosen, Ok
    <2>2. QED
        BY <1>2, <2>1
<1>4. CASE Derived
    <2> DEFINE fields == [c \in DOMAIN columns |-> Field(columns[c].name, generator_for(columns[c]))]
    <2>1. (\A c \in DOMAIN columns : is_generatable(columns[c].ty)) /\ Chosen[1] = fields
        BY <1>4 DEF Chosen, spec_yaml_from_table, Ok, IsOk, Err
    <2>2. columns \in Seq({columns[c] : c \in DOMAIN columns})
        BY ParsedTable
    <2>3. \A c \in DOMAIN columns : fields[c].gen \in Gens
        BY <1>2, <1>4, <2>1 DEF Field
    <2>4. DOMAIN fields = 1..Len(columns) /\ Len(columns) \in Nat
        BY <2>2
    <2> HIDE DEF fields
    <2>5. fields = [f \in 1..Len(columns) |-> fields[f]]
        BY <2>4 DEF fields
    <2>6. fields \in [1..Len(columns) -> {fields[f] : f \in DOMAIN fields}]
        BY <2>4, <2>5
    <2>7. QED
        BY <2>1, <2>3, <2>4, <2>6 DEF fields
<1>5. QED
    BY <1>3, <1>4

LEMMA RunStart == Init => RunInv
<1> SUFFICES ASSUME Init PROVE RunInv
    OBVIOUS
<1>1. OrderInv
    BY OrderStart DEF Init
<1>2. StartInv
    BY DEF Init, StartInv
<1>3. TaskInv
    BY DEF Init, TaskInv, Fresh
<1>4. QED
    BY <1>1, <1>2, <1>3 DEF Init, RunInv

LEMMA LoadSchemaStep ==
    ASSUME RunInv, LoadSchema
    PROVE  RunInv'
<1>1. /\ case' = case /\ pc = "start" /\ UNCHANGED <<orderVars, progress>>
      /\ \/ Parsed' /\ pc' = "spec"
         \/ columns' = columns /\ pc' = "refused"
    BY DEF LoadSchema, Parsed
<1>2. OrderInv'
    BY <1>1, StutterInv DEF RunInv
<1>3. OrderInit' /\ spec' = <<>>
    <2>1. OrderInit /\ spec = <<>>
        BY <1>1 DEF RunInv, StartInv
    <2>2. QED
        BY <1>1, <2>1 DEF OrderInit, orderVars
<1>4. StartInv'
    BY <1>1, <1>3 DEF StartInv
<1>5. Fresh'
    BY <1>1 DEF RunInv, TaskInv, Fresh, NoRows, progress
<1>6. QED
    BY <1>1, <1>2, <1>4, <1>5 DEF RunInv, TaskInv

LEMMA SameTable ==
    ASSUME UNCHANGED <<case, columns>>
    PROVE  (Parsed' <=> Parsed) /\ Chosen' = Chosen /\ Derived' = Derived
<1>1. Derived' = Derived
    BY DEF Derived
<1>2. QED
    BY <1>1 DEF Parsed, Chosen

LEMMA TakeSpecStep ==
    ASSUME RunInv, TakeSpec
    PROVE  RunInv'
<1>1. /\ UNCHANGED <<case, columns, ordering, progress>> /\ pc = "spec"
      /\ \/ IsOk(Chosen) /\ spec' = Chosen[1] /\ pc' \in {"done", "compile"}
         \/ spec' = spec /\ pc' = "refused"
    BY DEF TakeSpec, Chosen
<1>2. OrderInit /\ spec = <<>> /\ Parsed /\ case \in Cases
    BY <1>1 DEF RunInv, StartInv
<1>3. OrderInit'
    <2>1. spec' \in Seq({spec'[f] : f \in DOMAIN spec'})
        BY <1>1, <1>2, ChosenGens DEF OrderInit
    <2>2. QED
        BY <1>1, <1>2, <2>1 DEF OrderInit, ordering
<1>4. OrderInv'
    BY <1>3, OrderStart, PTL
<1>5. (Parsed' <=> Parsed) /\ Chosen' = Chosen
    BY <1>1, SameTable
<1>6. StartInv'
    BY <1>1, <1>2, <1>5 DEF StartInv, SpecChosen
<1>7. Fresh'
    BY <1>1 DEF RunInv, TaskInv, Fresh, NoRows, progress
<1>8. QED
    BY <1>1, <1>2, <1>4, <1>6, <1>7 DEF RunInv, TaskInv

LEMMA CompileStep ==
    ASSUME RunInv, CompileSpec
    PROVE  RunInv'
<1>1. /\ UNCHANGED <<case, columns, progress>> /\ pc = "compile" /\ OrderNext
      /\ pc' \in {"check", "refused", "compile"} /\ (pc' = "check" => stage' = "sorted")
    BY DEF CompileSpec
<1>2. OrderInv' /\ spec' = spec
    BY <1>1, CountEdgesInv, PopReadyInv, HeapEmptyInv DEF RunInv, OrderNext, CountEdges, PopReady, HeapEmpty
<1>3. SpecChosen'
    BY <1>1, <1>2, SameTable DEF RunInv, StartInv, SpecChosen
<1>4. StartInv'
    BY <1>1, <1>3, SameTable DEF RunInv, StartInv
<1>5. Fresh'
    BY <1>1 DEF RunInv, TaskInv, Fresh, NoRows, progress
<1>6. QED
    BY <1>1, <1>2, <1>4, <1>5 DEF RunInv, TaskInv

LEMMA SameSpecTaken ==
    ASSUME UNCHANGED <<case, columns, spec>>
    PROVE  (SpecChosen' <=> SpecChosen) /\ (Accepted(spec)' <=> Accepted(spec))
BY SameTable DEF SpecChosen, Accepted, arrow_schema

LEMMA ValidateStep ==
    ASSUME RunInv, Validate
    PROVE  RunInv'
<1>1. /\ UNCHANGED <<case, columns, orderVars, rows, taken, batch, batches>> /\ pc = "check"
      /\ \/ Accepted(spec) /\ pc' = "rows" /\ builders' = Empty
         \/ pc' = "refused" /\ builders' = builders
    BY DEF Validate
<1>2. OrderInv' /\ spec' = spec /\ stage' = stage
    BY <1>1, StutterInv DEF RunInv, orderVars
<1>3. StartInv'
    BY <1>1, <1>2, SameTable, SameSpecTaken DEF RunInv, StartInv
<1>4. Fresh /\ Parsed /\ case \in Cases
    BY <1>1 DEF RunInv, TaskInv, StartInv
<1>5. NoRows'
    BY <1>1, <1>4 DEF Fresh, NoRows
<1>6. CASE pc' = "rows"
    <2>1. TableInv
        BY <1>4, ParsedTable
    <2>2. builders' = Empty'
        BY <1>1, <1>6 DEF Empty
    <2>3. BuilderInit'
        BY <1>1, <1>5, <1>6, <2>1, <2>2 DEF BuilderInit, TableInv
    <2>4. BuilderInv'
        BY <2>3, BuilderStart, PTL
    <2>5. QED
        BY <1>1, <1>2, <1>3, <1>4, <1>6, <2>4 DEF RunInv, TaskInv
<1>7. CASE pc' # "rows"
    <2>1. Fresh' /\ pc' = "refused"
        BY <1>1, <1>4, <1>5, <1>7 DEF Fresh
    <2>2. QED
        BY <1>1, <1>2, <1>3, <1>4, <2>1 DEF RunInv, TaskInv
<1>8. QED
    BY <1>6, <1>7

(* From the first row on the task is the builder's, on rows of values.     *)
LEMMA ColumnGen ==
    ASSUME RunInv, pc \in {"rows", "failed"}, NEW c \in DOMAIN columns
    PROVE  /\ FieldFor(spec, columns[c].name) \in DOMAIN spec
           /\ spec[FieldFor(spec, columns[c].name)].name = columns[c].name
           /\ spec[FieldFor(spec, columns[c].name)].gen \in Gens
<1>1. validate_spec_covers(spec, columns) /\ case \in Cases /\ Parsed /\ SpecChosen
    BY DEF RunInv, StartInv, Accepted
<1>2. \E f \in DOMAIN spec : spec[f].name = columns[c].name
    BY <1>1 DEF validate_spec_covers
<1>3. /\ FieldFor(spec, columns[c].name) \in DOMAIN spec
      /\ spec[FieldFor(spec, columns[c].name)].name = columns[c].name
    BY <1>2 DEF FieldFor
<1>4. QED
    BY <1>1, <1>3, ChosenGens DEF SpecChosen

LEMMA RowsAreDrawn ==
    ASSUME RunInv, pc \in {"rows", "failed"}, NEW row \in Rows, NEW c \in DOMAIN columns
    PROVE  /\ row[c] \in Draws(spec[FieldFor(spec, columns[c].name)].gen)
           /\ row[c] \in Values
<1>1. row[c] \in Draws(spec[FieldFor(spec, columns[c].name)].gen)
    BY DEF Rows, GenOf
<1>2. spec[FieldFor(spec, columns[c].name)].gen \in Gens
    BY ColumnGen
<1>3. QED
    BY <1>1, <1>2, GensHaveParts

LEMMA RunIsTask ==
    ASSUME RunInv, AppendRow \/ DrawFails \/ Finish \/ Stop
    PROVE  /\ BuilderNext /\ UNCHANGED <<case, orderVars, columns>>
           /\ pc = "rows" /\ pc' \in {"rows", "failed", "done"}
<1>1. CASE AppendRow
    <2>1. pc = "rows"
        BY <1>1 DEF AppendRow
    <2>2. PICK row \in Rows : AppendTo(row)
        BY <1>1 DEF AppendRow
    <2>3. \A c \in DOMAIN columns : row[c] \in Values
        BY <2>1, RowsAreDrawn
    <2>4. BuilderNext
        BY <2>2, <2>3 DEF BuilderNext
    <2>5. QED
        BY <1>1, <2>1, <2>2, <2>4 DEF AppendRow, AppendTo
<1>2. CASE DrawFails
    BY <1>2 DEF DrawFails, GenerateFails, BuilderNext
<1>3. CASE Finish
    BY <1>3 DEF Finish, FinishBatch, BuilderNext
<1>4. CASE Stop
    BY <1>4 DEF Stop, EndTask, BuilderNext
<1>5. QED
    BY <1>1, <1>2, <1>3, <1>4

LEMMA TaskStep ==
    ASSUME RunInv, AppendRow \/ DrawFails \/ Finish \/ Stop
    PROVE  RunInv'
<1>1. /\ BuilderNext /\ UNCHANGED <<case, orderVars, columns>>
      /\ pc = "rows" /\ pc' \in {"rows", "failed", "done"}
    BY RunIsTask
<1>2. OrderInv' /\ spec' = spec /\ stage' = stage
    BY <1>1, StutterInv DEF RunInv, orderVars
<1>3. BuilderInv'
    BY <1>1, BuilderStep DEF RunInv, TaskInv
<1>4. StartInv'
    BY <1>1, <1>2, SameTable, SameSpecTaken DEF RunInv, StartInv
<1>5. QED
    BY <1>1, <1>2, <1>3, <1>4 DEF RunInv, TaskInv

LEMMA RunStutters ==
    ASSUME RunInv, UNCHANGED vars
    PROVE  RunInv'
<1>1. UNCHANGED <<case, orderVars, builderVars>> /\ UNCHANGED <<columns, pc, progress, spec, stage>>
    BY DEF vars, orderVars, builderVars
<1>2. OrderInv'
    BY <1>1, StutterInv DEF RunInv
<1>3. OrderInit => OrderInit'
    BY <1>1 DEF OrderInit, orderVars
<1>4. StartInv'
    BY <1>1, <1>3, SameTable, SameSpecTaken DEF RunInv, StartInv
<1>5. (Fresh => Fresh') /\ (BuilderInv => BuilderInv')
    BY <1>1, BuilderStep DEF Fresh, NoRows, progress
<1>6. QED
    BY <1>1, <1>2, <1>4, <1>5 DEF RunInv, TaskInv

LEMMA RunInvariant == Spec => []RunInv
<1>1. RunInv /\ [Next]_vars => RunInv'
    BY LoadSchemaStep, TakeSpecStep, CompileStep, ValidateStep, TaskStep, RunStutters DEF Next, Ended
<1>2. QED
    BY <1>1, RunStart, PTL DEF Spec

(* The fields of every spec, given or derived, are put in an order that     *)
(* can be drawn, or refused for a reason (build_generation_order).          *)
THEOREM RunsOrderFields == Spec => []OrderSound
<1>1. RunInv => OrderSound
    BY DEF RunInv, OrderInv
<1>2. QED
    BY <1>1, RunInvariant, PTL

(* Until the first batch is handed over there is nothing to read back.      *)
LEMMA NothingHandedOver == ASSUME Fresh PROVE CellsExact /\ RowsReadBack
<1>1. DOMAIN batch.arrays = {}
    BY DEF Fresh, NoRows, NoBatch
<1>2. QED
    BY <1>1 DEF CellsExact, RowsReadBack

(* Every cell of every batch of every scalar column is exactly the value    *)
(* the generator gave for it (BatchBuilder::append_row and finish, with     *)
(* ColumnBuilder::append): no decimal loses a digit or leaves its           *)
(* precision, no moment moves into another day or second, in any table,     *)
(* of any rows, whichever rows ended the task.                              *)
THEOREM CellsAreExact == Spec => []CellsExact
<1>1. RunInv => CellsExact
    BY NothingHandedOver, RowsKeptExactly DEF RunInv, TaskInv
<1>2. QED
    BY <1>1, RunInvariant, PTL

(* Every batch handed over reads back as the rows it was built of, in      *)
(* every column of every type, however deep (BatchBuilder::append_row and  *)
(* finish, with build_nested): lists, maps and structs, their nulls and    *)
(* those inside them come out row by row and item by item, as many as the  *)
(* batch counts, none of an earlier batch and none moved into another row. *)
THEOREM EveryRowReadsBack ==
    ASSUME Recursion
    PROVE  Spec => []RowsReadBack
<1>1. RunInv => RowsReadBack
    BY NothingHandedOver, RowsKeptInPlace DEF RunInv, TaskInv
<1>2. QED
    BY <1>1, RunInvariant, PTL

-----------------------------------------------------------------------------
(* What is drawn.  Generators, too, call themselves on their parts: this is *)
(* the hypothesis the configurations of the runs make true.                *)
GeneratorRecursion ==
    /\ \A g \in Gens : ProbesOf(g) = probe_values(g) /\ DrawsOf(g) = Draws(g) /\ CanFailIn(g) = CanFail(g)
    /\ \A ty \in Types : DeriveFor(ty) = generator_by_type(ty)
    /\ \A g \in Gens, ty \in Types : BlindNested(g, ty) = Blind(g, ty)
    /\ \A ty \in Types : \A values : OverfullNested(ty, values) = Overfull(ty, values)

IsPlain(g) == IsRange(g) \/ g.g \in {"choice", "opaque", "sequence"}

LEMMA GenParameters ==
    ASSUME NEW g \in Gens
    PROVE  /\ GenHasParameters(g) /\ GenPartsOf(g) \subseteq Gens
           /\ Draws(g) \subseteq Values /\ probe_values(g) \in Seq(Values)
           /\ \A i \in DOMAIN probe_values(g) : probe_values(g)[i] \in Values
<1>1. /\ GenHasParameters(g) /\ GenPartsOf(g) \subseteq Gens
      /\ Draws(g) \subseteq Values /\ probe_values(g) \in Seq(Values)
    BY GensHaveParts
<1>2. QED
    BY <1>1

(* What an opaque generator draws and shows is text, as long as it shows any. *)
LEMMA OpaqueParameters ==
    ASSUME NEW g \in Gens, g.g = "opaque"
    PROVE  TextsHaveLengths(g)
<1> SUFFICES ASSUME g.values # <<>> PROVE TextsHaveLengths(g)
    BY DEF TextsHaveLengths
<1>1. \A v \in ToSet(g.shown) \cup ToSet(g.values) : v.k = "str" /\ (g.shown # <<>> => Bytes(v.text) \in Nat)
    BY GenParameters DEF GenHasParameters
<1>2. \A j \in DOMAIN g.shown : g.shown[j] \in ToSet(g.shown) /\ g.shown # <<>>
    BY DEF ToSet
<1>3. \A i \in DOMAIN g.values : g.values[i] \in ToSet(g.values)
    BY DEF ToSet
<1>4. \A v : v.k = "str" => Text(v) = v.text
    BY DEF Text
<1>5. QED
    BY <1>1, <1>2, <1>3, <1>4 DEF TextsHaveLengths

LEMMA PlainDraws ==
    ASSUME NEW g \in Gens, IsPlain(g), NEW v \in Draws(g)
    PROVE  Drawn(g, v)
<1>1. GenHasParameters(g)
    BY GenParameters
<1>2. CASE g.nulls /\ v = Null
    BY <1>2 DEF Drawn
<1>3. CASE ~(g.nulls /\ v = Null)
    <2>1. CASE IsRange(g)
        <3>1. Draws(g) = {At(g, x) : x \in Sample(g.min, g.max)} \cup (IF g.nulls THEN {Null} ELSE {})
            BY <2>1 DEF Draws, IsRange
        <3>2. QED
            BY <1>1, <1>3, <2>1, <3>1 DEF GenHasParameters, Drawn
    <2>2. CASE g.g \in {"choice", "opaque"}
        <3>1. Draws(g) = ToSet(g.values) \cup (IF g.nulls THEN {Null} ELSE {})
            BY <2>2 DEF Draws, IsRange
        <3>2. QED
            BY <1>3, <2>2, <3>1 DEF ToSet, Drawn
    <2>3. CASE g.g = "sequence"
        <3>1. Draws(g) = {Number(n) : n \in Sample(g.next, IntMax["BIGINT"])} \cup (IF g.nulls THEN {Null} ELSE {})
            BY <2>3 DEF Draws, IsRange
        <3>2. PICK n \in Sample(g.next, IntMax["BIGINT"]) : v = Number(n)
            BY <1>3, <3>1
        <3>3. n \in g.next..IntMax["BIGINT"]
            BY <1>1, <2>3, <3>2 DEF GenHasParameters
        <3>4. n \in Int /\ n >= g.next
            BY <3>3
        <3>5. QED
            BY <2>3, <3>2, <3>4 DEF Drawn
    <2>4. QED
        BY <2>1, <2>2, <2>3 DEF IsPlain
<1>4. QED
    BY <1>2, <1>3

LEMMA MapDraws ==
    ASSUME GeneratorRecursion, NEW g \in Gens, g.g = "map", NEW v \in Draws(g), v # Null
    PROVE  \E es : /\ v = MapOf(es) /\ es \in Seq(Draws(g.key) \X Draws(g.value)) /\ KeysOk(es)
                   /\ g.max = 0 => es = <<>>
<1>1. /\ g.min \in Nat /\ g.max \in Nat /\ {g.key, g.value} \subseteq Gens
    BY GenParameters DEF GenHasParameters, GenPartsOf
<1>2. DrawsOf(g.key) = Draws(g.key) /\ DrawsOf(g.value) = Draws(g.value)
    BY <1>1 DEF GeneratorRecursion
<1> DEFINE pairs == Draws(g.key) \X Draws(g.value)
<1>3. PICK es \in KeyedLists(pairs, MapSizes(g)) : v = MapOf(es)
    BY <1>2 DEF Draws, IsRange
<1> HIDE DEF pairs
<1>4. PICK n \in MapSizes(g) : es \in [1..n -> pairs]
    BY DEF KeyedLists, Lists
<1>5. n \in Nat /\ n <= g.max
    BY DEF MapSizes
<1>6. es \in Seq(pairs) /\ (g.max = 0 => es = <<>>)
    BY <1>1, <1>4, <1>5
<1>7. QED
    BY <1>3, <1>6 DEF pairs, KeyedLists

(* The rows a task holds and has handed over are rows its spec draws.      *)
RowsDrawn ==
    /\ \A i \in 1..rows : taken[i] \in Rows
    /\ \A i \in 1..batch.rows : batch.from[i] \in Rows

LEMMA SameRows == ASSUME UNCHANGED <<columns, spec>> PROVE Rows' = Rows
BY DEF Rows, GenOf

LEMMA NoRowsDrawn == ASSUME Fresh PROVE RowsDrawn
BY DEF Fresh, NoRows, NoBatch, RowsDrawn

LEMMA AppendDrawn ==
    ASSUME RunInv, RowsDrawn, AppendRow
    PROVE  RowsDrawn'
<1>1. pc = "rows" /\ UNCHANGED <<columns, spec, batch>>
    BY DEF AppendRow, AppendTo, orderVars
<1>2. PICK row \in Rows : AppendTo(row)
    BY DEF AppendRow
<1>3. IsSequence(taken) /\ Len(taken) = rows /\ rows \in Nat
    BY <1>1 DEF RunInv, TaskInv, BuilderInv, RowsInv
<1>4. \/ rows' = rows + 1 /\ taken' = Append(taken, row)
      \/ rows' = rows /\ taken' = taken
    BY <1>2 DEF AppendTo
<1>5. \A i \in 1..rows' : taken'[i] \in Rows
    <2>1. CASE rows' = rows /\ taken' = taken
        BY <2>1 DEF RowsDrawn
    <2>2. CASE rows' = rows + 1 /\ taken' = Append(taken, row)
        <3>1. taken \in Seq({taken[i] : i \in DOMAIN taken})
            BY <1>3 DEF IsSequence
        <3>2. \A i \in 1..(rows + 1) : taken'[i] = IF i <= rows THEN taken[i] ELSE row
            BY <1>3, <2>2, <3>1
        <3>3. QED
            BY <1>3, <2>2, <3>2 DEF RowsDrawn
    <2>3. QED
        BY <1>4, <2>1, <2>2
<1>6. QED
    BY <1>1, <1>5, SameRows DEF RowsDrawn

LEMMA DrawnStep ==
    ASSUME RunInv, RowsDrawn, [Next]_vars
    PROVE  RowsDrawn'
<1>1. CASE LoadSchema \/ TakeSpec \/ CompileSpec
    <2>1. UNCHANGED progress /\ Fresh
        BY <1>1 DEF LoadSchema, TakeSpec, CompileSpec, RunInv, TaskInv
    <2>2. rows' = 0 /\ batch'.rows = 0
        BY <2>1 DEF progress, Fresh, NoRows, NoBatch
    <2>3. QED
        BY <2>2 DEF RowsDrawn
<1>2. CASE Validate
    <2>1. UNCHANGED <<rows, batch>> /\ Fresh
        BY <1>2 DEF Validate, RunInv, TaskInv
    <2>2. rows' = 0 /\ batch'.rows = 0
        BY <2>1 DEF Fresh, NoRows, NoBatch
    <2>3. QED
        BY <2>2 DEF RowsDrawn
<1>3. CASE AppendRow
    BY <1>3, AppendDrawn
<1>4. CASE DrawFails \/ Stop \/ UNCHANGED vars
    <2>1. UNCHANGED <<columns, spec, rows, taken, batch>>
        BY <1>4 DEF DrawFails, Stop, GenerateFails, EndTask, progress, orderVars, vars, builderVars
    <2>2. QED
        BY <2>1, SameRows DEF RowsDrawn
<1>5. CASE Finish
    <2>1. UNCHANGED <<columns, spec>>
        BY <1>5 DEF Finish, FinishBatch, orderVars
    <2>2. \/ UNCHANGED <<rows, taken, batch>>
          \/ rows' = 0 /\ batch'.rows = rows /\ batch'.from = taken
        BY <1>5 DEF Finish, FinishBatch, progress
    <2>3. QED
        BY <2>1, <2>2, SameRows DEF RowsDrawn
<1>6. QED
    BY <1>1, <1>2, <1>3, <1>4, <1>5 DEF Next, Ended

LEMMA RunDraws == Spec => [](RunInv /\ RowsDrawn)
<1>1. Init => RowsDrawn
    BY NoRowsDrawn DEF Init, Fresh
<1>2. RunInv /\ RowsDrawn /\ [Next]_vars => RowsDrawn'
    BY DrawnStep
<1>3. QED
    BY <1>1, <1>2, RunInvariant, PTL DEF Spec

(* What a conversion returns is a result.                                  *)
IsResult(r) == r = Err \/ r = Ok(r[1])

LEMMA EveryCellIsResult ==
    ASSUME NEW ty, IsScalar(ty), NEW v
    PROVE  IsResult(Cell(ty, v))
<1>1. IsResult(Err) /\ \A x : IsResult(Ok(x))
    <2>1. ASSUME NEW x PROVE IsResult(Ok(x))
        <3>1. Ok(x)[1] = x
            BY OkFacts
        <3>2. QED
            BY <3>1 DEF IsResult
    <2>2. QED
        BY <2>1 DEF IsResult
<1>3. IsResult(as_bool(v)) /\ IsResult(WholeNumber(v)) /\ IsResult(as_f64(v)) /\ IsResult(as_timestamp_micros(v))
    BY <1>1 DEF as_bool, WholeNumber, as_f64, as_timestamp_micros
<1>4. \A lo, hi : IsResult(as_int(v, lo, hi))
    BY <1>1, <1>3 DEF as_int, Provided
<1>5. IsResult(as_date(v))
    BY <1>1 DEF as_date, Then
<1>6. \A p, s : IsResult(PaddedUnits(v, s)) /\ \A u, f : IsResult(rescale_decimal(u, f, p, s))
    BY <1>1 DEF PaddedUnits, Then, rescale_decimal
<1>7. \A p, s : IsResult(as_decimal(v, p, s)) /\ IsResult(as_decimal256(v, p, s))
    BY <1>1, <1>6 DEF as_decimal, as_decimal256, Provided
<1>8. ASSUME ty.k \in {"STRING", "HLL", "CHAR", "LARGEINT", "JSON", "VARIANT", "IPV4", "IPV6"}
      PROVE  IsResult(checked_text(v, ty))
    BY <1>1, <1>8 DEF checked_text, Then
<1>9. ty.k = "DATETIME" => IsResult(Cell(ty, v))
    <2>1. DOMAIN IntMax = {"TINYINT", "SMALLINT", "INT", "BIGINT"}
        BY WidthsNest
    <2>2. QED
        BY <1>1, <2>1 DEF Cell, Then
<1>10. CASE ty.k \in {"BOOLEAN", "TINYINT", "SMALLINT", "INT", "BIGINT", "BITMAP", "DOUBLE", "QUANTILE_STATE"}
    BY <1>3, <1>4, <1>10, CellByKind
<1>11. CASE ty.k \in {"FLOAT", "DATE"}
    BY <1>1, <1>3, <1>5, <1>11, CellByKind DEF Provided
<1>12. CASE ty.k = "DECIMAL"
    BY <1>7, <1>12, CellByKind
<1>13. CASE ty.k \in {"STRING", "HLL", "CHAR", "LARGEINT", "JSON", "VARIANT", "IPV4", "IPV6"}
    BY <1>8, <1>13, CellByKind
<1>14. QED
    BY <1>9, <1>10, <1>11, <1>12, <1>13 DEF IsScalar

(* The fields were put in order and the spec fits the table before the     *)
(* first row, and after the last.                                          *)
CheckedFirst == Fresh \/ (Parsed /\ SpecChosen /\ stage = "sorted" /\ Accepted(spec))

LEMMA CheckedStep ==
    ASSUME RunInv, CheckedFirst, [Next]_vars
    PROVE  CheckedFirst'
<1>1. CASE LoadSchema \/ TakeSpec \/ CompileSpec
    <2>1. UNCHANGED progress /\ Fresh
        BY <1>1 DEF LoadSchema, TakeSpec, CompileSpec, RunInv, TaskInv
    <2>2. QED
        BY <2>1 DEF CheckedFirst, Fresh, NoRows, progress
<1>2. CASE Validate
    <2>1. RunInv'
        BY <1>2, ValidateStep
    <2>2. pc' = "rows" \/ Fresh'
        BY <1>2 DEF Validate, RunInv, TaskInv, Fresh, NoRows
    <2>3. QED
        BY <2>1, <2>2 DEF CheckedFirst, RunInv, StartInv
<1>3. CASE AppendRow \/ DrawFails \/ Finish \/ Stop
    <2>1. UNCHANGED <<case, columns, spec, stage>> /\ pc = "rows"
        BY <1>3, RunIsTask DEF orderVars
    <2>2. Parsed /\ SpecChosen /\ stage = "sorted" /\ Accepted(spec)
        BY <2>1 DEF RunInv, StartInv
    <2>3. QED
        BY <2>1, <2>2, SameTable, SameSpecTaken DEF CheckedFirst
<1>4. CASE UNCHANGED vars
    <2>1. UNCHANGED <<case, columns, spec, stage, builders, rows, taken, batch, batches>>
        BY <1>4 DEF vars, orderVars, builderVars, progress
    <2>2. QED
        BY <2>1, SameTable, SameSpecTaken DEF CheckedFirst, Fresh, NoRows
<1>5. QED
    BY <1>1, <1>2, <1>3, <1>4 DEF Next, Ended

LEMMA RunChecked == Spec => [](RunInv /\ RowsDrawn /\ CheckedFirst)
<1>1. Init => CheckedFirst
    BY DEF Init, CheckedFirst, Fresh
<1>2. RunInv /\ CheckedFirst /\ [Next]_vars => CheckedFirst'
    BY CheckedStep
<1>3. QED
    BY <1>1, <1>2, RunDraws, PTL DEF Spec

(* The field of a column in a derived spec is the one derived for it.      *)
LEMMA DerivedField ==
    ASSUME RunInv, CheckedFirst, ~Fresh, Derived, NEW c \in DOMAIN columns
    PROVE  /\ spec[FieldFor(spec, columns[c].name)].gen = generator_for(columns[c])
           /\ generator_for(columns[c]) \in Gens
<1>1. Parsed /\ SpecChosen /\ stage = "sorted" /\ case \in Cases
    BY DEF CheckedFirst, RunInv
<1>2. spec = [d \in DOMAIN columns |-> Field(columns[d].name, generator_for(columns[d]))]
    BY <1>1 DEF SpecChosen, Chosen, spec_yaml_from_table, Ok, IsOk, Err
<1>3. Wellformed
    BY <1>1 DEF RunInv, OrderInv, OrderSound
<1>4. \A f \in DOMAIN spec : spec[f].name = columns[c].name => f = c
    BY <1>2, <1>3 DEF Wellformed, Fields, Field
<1>5. c \in DOMAIN spec /\ spec[c].name = columns[c].name /\ spec[c].gen = generator_for(columns[c])
    BY <1>2 DEF Field
<1>6. FieldFor(spec, columns[c].name) = c
    BY <1>4, <1>5 DEF FieldFor
<1>7. spec[c].gen \in Gens
    BY <1>1, <1>5, ChosenGens DEF SpecChosen
<1>8. QED
    BY <1>5, <1>6, <1>7

(* A table that was read and can be stored has scalar keys in its maps,    *)
(* decimals no finer than they are long.                                   *)
LEMMA KeyTypes ==
    ASSUME RunInv, CheckedFirst, ~Fresh, NEW c \in DOMAIN columns, columns[c].ty.k = "MAP"
    PROVE  LET key == columns[c].ty.key IN
           /\ key \in Types /\ IsScalar(key) /\ TypeHasParameters(key)
           /\ key.k = "DECIMAL" => key.s <= key.p
<1> DEFINE ty == columns[c].ty
           table == ReadSchema(case.ddl, case.wanted)
<1>1. case \in Cases /\ Parsed /\ arrow_schema
    BY DEF CheckedFirst, RunInv, Accepted
<1>2. table \in {ReadSchema(case.ddl, case.wanted)} /\ IsOk(table) /\ columns = table[1].columns
    BY <1>1 DEF Parsed
<1> HIDE DEF table
<1>3. ty \in Types /\ \A t \in TypesIn(ty) : t.k = "DECIMAL" => t.s <= t.p
    BY <1>1, <1>2, CasesAreRuns
<1>4. ty.key \in PartsOf(ty)
    BY DEF PartsOf
<1>5. ty.key \in Types /\ TypeHasParameters(ty.key)
    BY <1>3, <1>4, TypesAreTrees
<1>6. ty \in TypesIn(ty) /\ ty.key \in TypesIn(ty)
    BY <1>3, <1>4, <1>5, TypesAreTrees
<1>7. ty.key.k # "AGG_STATE" /\ ~Nested(ty.key)
    BY <1>1, <1>6 DEF arrow_schema, ArrowOk
<1>8. IsScalar(ty.key)
    <2>1. DOMAIN IntMax = {"TINYINT", "SMALLINT", "INT", "BIGINT"}
        BY WidthsNest
    <2>2. QED
        BY <1>5, <1>7, <2>1 DEF TypeHasParameters, ScalarKinds, IsScalar
<1>9. QED
    BY <1>3, <1>5, <1>6, <1>8

LEMMA MapGenerator ==
    ASSUME GeneratorRecursion, NEW column, column.ty.k = "MAP", ~Nested(column.ty.key),
           column.ty \in Types
    PROVE  generator_for(column) =
             map_of(map_key_generator(column.ty.key), DeriveFor(column.ty.val), 0, 3)
<1>1. string_width(column.ty) = Err /\ ~is_integer(column.ty)
    BY WidthsNest DEF string_width, is_integer
<1>2. generator_by_name(column) = Err
    BY <1>1, OkFacts DEF generator_by_name
<1>3. QED
    BY <1>2, OkFacts DEF generator_for, generator_by_type, Nested

(* The keys of one entry of a derived map and of another.                  *)
LEMMA KeyDrawn ==
    ASSUME NEW key, IsScalar(key), NEW v \in Draws(map_key_generator(key)), map_key_generator(key) \in Gens
    PROVE  Drawn(map_key_generator(key), v)
<1> DEFINE g == map_key_generator(key)
<1>1. CASE IsPlain(g)
    BY <1>1, PlainDraws
<1>2. CASE g.g = "struct"
    <2>1. ~IsRange(g) /\ g.g \notin {"choice", "opaque", "sequence", "array", "map"}
        BY <1>2 DEF IsRange
    <2>2. (g.nulls /\ v = Null) \/ v.k = "struct"
        BY <1>2, <2>1 DEF Draws, StructOf
    <2>3. QED
        BY <1>2, <2>2 DEF Drawn
<1>3. IsPlain(g) \/ g.g = "struct"
    <2>1. \/ g.g \in {"int", "float", "decimal", "datetime", "text", "ip"}
          \/ g.g \in {"choice", "opaque", "struct"}
        BY KeyGeneratorByKind, GeneratorByKind DEF IsScalar, int_range, float_range, decimal_range,
            DecimalRange, datetime_around, TextRange, choice, IpRange, struct_of, lorem, fixed_width_string,
            random_hex, opaque
    <2>2. QED
        BY <2>1 DEF IsPlain, IsRange
<1>4. QED
    BY <1>1, <1>2, <1>3

LEMMA KeysApart ==
    ASSUME NEW key, IsScalar(key), TypeHasParameters(key), key.k = "DECIMAL" => key.s <= key.p,
           NEW v, Drawn(map_key_generator(key), v), ~IsNull(v),
           NEW w, Drawn(map_key_generator(key), w), ~IsNull(w), Text(v) # Text(w)
    PROVE  Meaning(key, v) # Meaning(key, w)
<1>1. CASE Derivable(key)
    <2>1. IsOk(Cell(key, v)) /\ IsOk(Cell(key, w)) /\ Cell(key, v) # Cell(key, w)
        BY <1>1, DerivedKeysStayApart
    <2>2. Cell(key, v) = Ok(Cell(key, v)[1]) /\ Cell(key, w) = Ok(Cell(key, w)[1])
        <3>1. IsResult(Cell(key, v)) /\ IsResult(Cell(key, w))
            BY EveryCellIsResult
        <3>2. QED
            BY <2>1, <3>1 DEF IsResult, IsOk
    <2>3. Meaning(key, v) = Ok(Cell(key, v)[1]) /\ Meaning(key, w) = Ok(Cell(key, w)[1])
        BY DEF Meaning, Ok, IsScalar, Nested
    <2>4. QED
        BY <2>1, <2>2, <2>3
<1>2. CASE ~Derivable(key)
    <2>1. key.k = "CHAR" /\ key.len = 0
        BY <1>2 DEF Derivable, TypeHasParameters
    <2>2. map_key_generator(key) = fixed_width_string(0)
        BY <2>1, KeyGeneratorByKind DEF longest_lorem_word
    <2>3. 0 \div 2 = 0
        OBVIOUS
    <2>4. map_key_generator(key) = choice(<<Plain(1)>>)
        BY <2>2, <2>3 DEF fixed_width_string
    <2>5. v = Plain(1) /\ w = Plain(1)
        BY <2>4, DrawnOfOne
    <2>6. QED
        BY <2>5
<1>3. QED
    BY <1>1, <1>2

LEMMA MapMeaning ==
    ASSUME Recursion, NEW ty \in Types, ty.k = "MAP", NEW es
    PROVE  Meaning(ty, MapOf(es)) =
             <<[j \in DOMAIN es |-> <<Meaning(ty.key, es[j][1]), Meaning(ty.val, es[j][2])>>]>>
<1> DEFINE v == MapOf(es)
<1>1. v.k = "map" /\ v.entries = es
    BY DEF MapOf
<1> HIDE DEF v
<1>2. ~IsNull(v) /\ EntriesOf(v) = es
    BY <1>1 DEF IsNull, EntriesOf
<1>3. shape_nested(ty, v)[1] = v
    BY <1>1, OkFacts DEF shape_nested, Provided
<1>4. Meaning(ty, v) = MeaningShaped(ty, v)
    BY <1>2, <1>3 DEF Meaning, Nested, Recursion
<1>5. QED
    BY <1>2, <1>4 DEF MeaningShaped, v

LEMMA KeysDistinctNow ==
    ASSUME Recursion, GeneratorRecursion, RunInv, RowsDrawn, CheckedFirst
    PROVE  DerivedKeysDistinct
<1> SUFFICES ASSUME NEW c \in DOMAIN batch.arrays, NEW i \in 1..batch.rows,
                    Derived, columns[c].ty.k = "MAP",
                    NEW m, m = ReadBack(columns[c].ty, batch.arrays[c], i), m # <<>>,
                    NEW a \in DOMAIN m[1], NEW b \in DOMAIN m[1], a # b
             PROVE  m[1][a][1] # m[1][b][1]
    BY DEF DerivedKeysDistinct
<1> DEFINE ty == columns[c].ty
           v == batch.from[i][c]
           g == map_of(map_key_generator(ty.key), DeriveFor(ty.val), 0, 3)
<1>1. ~Fresh /\ BuilderInv
    <2>1. batch # NoBatch
        BY DEF NoBatch
    <2>2. QED
        BY <2>1 DEF Fresh, NoRows, RunInv, TaskInv
<1>2. c \in DOMAIN columns /\ ty \in Types /\ v \in Values
    BY <1>1 DEF BuilderInv, BatchInv, FinishedFrom, Keeps, TableInv
<1>3. m = Meaning(ty, v)
    BY <1>1, RowsKeptInPlace DEF RowsReadBack
<1>4. IsScalar(ty.key) /\ TypeHasParameters(ty.key) /\ (ty.key.k = "DECIMAL" => ty.key.s <= ty.key.p)
    BY <1>1, <1>2, KeyTypes
<1>5. generator_for(columns[c]) = g
    BY <1>2, <1>4, MapGenerator DEF IsScalar, Nested
<1>6. g \in Gens /\ v \in Draws(g)
    <2>1. spec[FieldFor(spec, columns[c].name)].gen = g /\ g \in Gens
        BY <1>1, <1>2, <1>5, DerivedField
    <2>2. batch.from[i] \in Rows
        BY DEF RowsDrawn
    <2> HIDE DEF g
    <2>3. QED
        BY <1>2, <2>1, <2>2 DEF Rows, GenOf
<1>7. g.g = "map" /\ g.key = map_key_generator(ty.key)
    BY DEF map_of
<1> HIDE DEF g, v
<1>8. v # Null
    BY <1>3 DEF Meaning, IsNull, Null
<1>9. PICK es : v = MapOf(es) /\ es \in Seq(Draws(g.key) \X Draws(g.value)) /\ KeysOk(es)
    BY <1>6, <1>7, <1>8, MapDraws
<1> DEFINE entries == [j \in DOMAIN es |-> <<Meaning(ty.key, es[j][1]), Meaning(ty.val, es[j][2])>>]
<1>10. m[1] = entries
    <2>1. Meaning(ty, MapOf(es)) = <<entries>>
        BY <1>2, MapMeaning
    <2> HIDE DEF entries
    <2>2. QED
        BY <1>3, <1>9, <2>1
<1>11. /\ a \in DOMAIN es /\ b \in DOMAIN es
       /\ m[1][a][1] = Meaning(ty.key, es[a][1]) /\ m[1][b][1] = Meaning(ty.key, es[b][1])
    BY <1>10
<1>12. g.key \in Gens
    BY <1>6, <1>7, GenParameters DEF GenPartsOf
<1>13. Drawn(g.key, es[a][1]) /\ Drawn(g.key, es[b][1])
    BY <1>4, <1>7, <1>9, <1>11, <1>12, KeyDrawn
<1>14. ~IsNull(es[a][1]) /\ ~IsNull(es[b][1]) /\ Text(es[a][1]) # Text(es[b][1])
    <2>1. DOMAIN es = 1..Len(es) /\ Len(es) \in Nat
        BY <1>9
    <2>2. a \in 1..(b - 1) \/ b \in 1..(a - 1)
        BY <1>11, <2>1
    <2>3. QED
        BY <1>9, <1>11, <2>2 DEF KeysOk
<1>15. QED
    BY <1>4, <1>7, <1>11, <1>13, <1>14, KeysApart

(* The entries of a map stored for a derived spec have distinct keys after  *)
(* the conversion to the key's type, not only as text before it, which is   *)
(* all build_nested compares: in every table derive.rs serves, of keys of   *)
(* every type, whatever is drawn.                                          *)
THEOREM DerivedMapsKeepKeysApart ==
    ASSUME Recursion, GeneratorRecursion
    PROVE  Spec => []DerivedKeysDistinct
<1>1. RunInv /\ RowsDrawn /\ CheckedFirst => DerivedKeysDistinct
    BY KeysDistinctNow
<1>2. QED
    BY <1>1, RunChecked, PTL

(* The keys a map is tried with.                                           *)
Upto(f, s, n) ==
    f = [i \in 0..n |->
           LET seen == f[i - 1] IN
           IF i = 0 THEN <<>>
           ELSE IF IsNull(s[i]) \/ \E j \in DOMAIN seen : Text(seen[j]) = Text(s[i]) THEN seen
           ELSE Append(seen, s[i])]

LEMMA UptoExists ==
    ASSUME NEW s
    PROVE  \A n \in Nat : \E f : Upto(f, s, n)
<1> DEFINE step(seen, i) ==
             IF i = 0 THEN <<>>
             ELSE IF IsNull(s[i]) \/ \E j \in DOMAIN seen : Text(seen[j]) = Text(s[i]) THEN seen
             ELSE Append(seen, s[i])
           S == {n \in Nat : \E f : f = [i \in 0..n |-> step(f[i - 1], i)]}
<1>0. \A x, y : step(x, 0) = step(y, 0)
    OBVIOUS
<1> HIDE DEF step
<1>1. 0 \in S
    <2> DEFINE g == [i \in 0..0 |-> step(<<>>, 0)]
    <2>1. g = [i \in 0..0 |-> step(g[i - 1], i)]
        <3>1. g = [i \in 0..0 |-> g[i]] /\ \A i \in 0..0 : i = 0 /\ g[i] = step(<<>>, 0)
            OBVIOUS
        <3> HIDE DEF g
        <3>2. \A i \in 0..0 : g[i] = step(g[i - 1], i)
            BY <1>0, <3>1
        <3>3. QED
            BY <3>1, <3>2
    <2>2. QED
        BY <2>1
<1>2. ASSUME NEW n \in Nat, n \in S PROVE n + 1 \in S
    <2>1. PICK f : f = [i \in 0..n |-> step(f[i - 1], i)]
        BY <1>2
    <2> DEFINE g == [i \in 0..n + 1 |-> IF i = n + 1 THEN step(f[n], i) ELSE f[i]]
    <2>2. ASSUME NEW i \in 0..n + 1 PROVE g[i] = step(g[i - 1], i)
        <3>1. CASE i = n + 1
            <4>1. i - 1 = n /\ n \in 0..n + 1 /\ n # n + 1
                BY <3>1
            <4>2. g[n] = f[n] /\ g[i] = step(f[n], i)
                BY <3>1, <4>1
            <4>3. QED
                BY <4>1, <4>2
        <3>2. CASE i # n + 1
            <4>1. i \in 0..n /\ g[i] = f[i]
                BY <3>2
            <4>2. f[i] = step(f[i - 1], i)
                BY <2>1, <4>1
            <4>3. CASE i = 0
                BY <1>0, <4>1, <4>2, <4>3
            <4>4. CASE i # 0
                <5>1. i - 1 \in 0..n + 1 /\ i - 1 # n + 1
                    BY <4>1, <4>4
                <5>2. g[i - 1] = f[i - 1]
                    BY <5>1
                <5>3. QED
                    BY <4>1, <4>2, <5>2
            <4>5. QED
                BY <4>3, <4>4
        <3>3. QED
            BY <3>1, <3>2
    <2>3. g = [i \in 0..n + 1 |-> step(g[i - 1], i)]
        <3>1. g = [i \in 0..n + 1 |-> g[i]]
            OBVIOUS
        <3> HIDE DEF g
        <3>2. QED
            BY <2>2, <3>1
    <2> HIDE DEF g
    <2>4. \E h : h = [i \in 0..n + 1 |-> step(h[i - 1], i)]
        BY <2>3
    <2>5. QED
        BY <2>4
<1> HIDE DEF S
<1>3. \A n \in Nat : n \in S
    BY <1>1, <1>2, Induction
<1>4. ASSUME NEW n \in Nat PROVE \E f : Upto(f, s, n)
    <2>1. PICK f : f = [i \in 0..n |-> step(f[i - 1], i)]
        BY <1>3 DEF S
    <2>2. Upto(f, s, n)
        BY <2>1, Zenon DEF Upto, step
    <2>3. QED
        BY <2>2
<1>5. QED
    BY <1>4

(* They are values of the sequence, the first of them first, none null and *)
(* no two of one text.                                                     *)
LEMMA TriedKeys ==
    ASSUME NEW S, NEW s \in Seq(S)
    PROVE  /\ FirstOfEach(s) \in Seq(S)
           /\ \A i \in DOMAIN FirstOfEach(s) :
                /\ FirstOfEach(s)[i] \in Range(s) /\ ~IsNull(FirstOfEach(s)[i])
                /\ \A j \in 1..(i - 1) : Text(FirstOfEach(s)[j]) # Text(FirstOfEach(s)[i])
           /\ s # <<>> /\ ~IsNull(s[1]) => FirstOfEach(s) # <<>>
<1> DEFINE upto == CHOOSE f : Upto(f, s, Len(s))
           Firsts(t, n) == /\ t \in Seq(S)
                           /\ \A i \in DOMAIN t :
                                /\ t[i] \in Range(s) /\ ~IsNull(t[i])
                                /\ \A j \in 1..(i - 1) : Text(t[j]) # Text(t[i])
                           /\ n > 0 /\ ~IsNull(s[1]) => t # <<>>
<1>1. Len(s) \in Nat /\ DOMAIN s = 1..Len(s)
    OBVIOUS
<1>2. FirstOfEach(s) = upto[Len(s)]
    BY DEF FirstOfEach, Upto
<1>3. Upto(upto, s, Len(s))
    BY <1>1, UptoExists
<1> HIDE DEF upto
<1>4. \A i \in 0..Len(s) :
         upto[i] = LET seen == upto[i - 1] IN
           IF i = 0 THEN <<>>
           ELSE IF IsNull(s[i]) \/ \E j \in DOMAIN seen : Text(seen[j]) = Text(s[i]) THEN seen
           ELSE Append(seen, s[i])
    BY <1>3 DEF Upto
<1> DEFINE P == {n \in Nat : n <= Len(s) => Firsts(upto[n], n)}
<1>5. 0 \in P
    <2>1. upto[0] = <<>>
        BY <1>1, <1>4
    <2>2. <<>> \in Seq(S) /\ DOMAIN <<>> = {}
        OBVIOUS
    <2>3. Firsts(<<>>, 0)
        BY <2>2
    <2> HIDE DEF Firsts
    <2>4. QED
        BY <2>1, <2>3
<1>6. ASSUME NEW n \in Nat, n \in P PROVE n + 1 \in P
    <2> SUFFICES ASSUME n + 1 <= Len(s) PROVE Firsts(upto[n + 1], n + 1)
        OBVIOUS
    <2> DEFINE seen == upto[n]
               x == s[n + 1]
    <2>1. Firsts(seen, n) /\ n + 1 \in 0..Len(s) /\ (n + 1) - 1 = n /\ n + 1 # 0 /\ n + 1 \in DOMAIN s
        BY <1>1, <1>6
    <2>2. upto[n + 1] = IF IsNull(x) \/ \E j \in DOMAIN seen : Text(seen[j]) = Text(x) THEN seen ELSE Append(seen, x)
        BY <1>4, <2>1
    <2>3. x \in S /\ x \in Range(s)
        BY <2>1 DEF Range
    <2>4. n = 0 => x = s[1]
        OBVIOUS
    <2>5. n = 0 => seen = <<>>
        BY <1>4, <1>1
    <2> HIDE DEF seen, x
    <2>6. CASE IsNull(x) \/ \E j \in DOMAIN seen : Text(seen[j]) = Text(x)
        <3>1. upto[n + 1] = seen
            BY <2>2, <2>6
        <3>2. ~IsNull(s[1]) => seen # <<>>
            <4>1. CASE n = 0
                BY <2>4, <2>5, <2>6, <4>1
            <4>2. CASE n # 0
                BY <2>1, <4>2
            <4>3. QED
                BY <4>1, <4>2
        <3>3. QED
            BY <2>1, <3>1, <3>2
    <2>7. CASE ~(IsNull(x) \/ \E j \in DOMAIN seen : Text(seen[j]) = Text(x))
        <3> DEFINE t == Append(seen, x)
        <3>1. upto[n + 1] = t
            BY <2>2, <2>7
        <3>2. seen \in Seq(S) /\ DOMAIN seen = 1..Len(seen) /\ Len(seen) \in Nat
            BY <2>1
        <3>3. /\ t \in Seq(S) /\ Len(t) = Len(seen) + 1 /\ DOMAIN t = 1..Len(t)
              /\ \A i \in DOMAIN t : t[i] = IF i \in DOMAIN seen THEN seen[i] ELSE x
            BY <2>3, <3>2
        <3> HIDE DEF t
        <3>4. t # <<>>
            BY <3>2, <3>3
        <3>5. ASSUME NEW i \in DOMAIN t
              PROVE  /\ t[i] \in Range(s) /\ ~IsNull(t[i])
                     /\ \A j \in 1..(i - 1) : Text(t[j]) # Text(t[i])
            <4>1. \A j \in 1..(i - 1) : j \in DOMAIN seen /\ t[j] = seen[j]
                BY <3>2, <3>3
            <4>2. QED
                BY <2>1, <2>3, <2>7, <3>3, <4>1
        <3>6. QED
            BY <3>1, <3>3, <3>4, <3>5
    <2>8. QED
        BY <2>6, <2>7
<1> HIDE DEF P
<1>7. \A n \in Nat : n \in P
    BY <1>5, <1>6, Induction
<1>8. Firsts(upto[Len(s)], Len(s))
    BY <1>1, <1>7 DEF P
<1>9. s # <<>> => Len(s) > 0
    BY <1>1
<1>10. QED
    BY <1>2, <1>8, <1>9

-----------------------------------------------------------------------------
(* Values a nested column takes.                                           *)

(* What a nested column keeps of a value has parts the set holds too.      *)
PartsIn(C, ty, v) ==
    /\ ty.k = "ARRAY" => \A j \in DOMAIN v.items : <<ty.of, v.items[j]>> \in C
    /\ ty.k = "MAP" =>
          /\ KeysOk(EntriesOf(v))
          /\ \A j \in DOMAIN EntriesOf(v) :
                <<ty.key, EntriesOf(v)[j][1]>> \in C /\ <<ty.val, EntriesOf(v)[j][2]>> \in C
    /\ ty.k = "STRUCT" =>
          /\ IsOk(Slots(ty, v))
          /\ \A f \in DOMAIN ty.fields : <<ty.fields[f][2], Slots(ty, v)[1][f]>> \in C

(* A set of types and values that columns of the type can be given: nulls, *)
(* and values that are stored, with all their parts.                       *)
Closed(C) ==
    /\ \A ty \in Types : <<ty, Null>> \in C
    /\ \A ty \in Types, v \in Values : <<ty, v>> \in C =>
          /\ IsOk(Store(ty, v))
          /\ Nested(ty) /\ ~IsNull(Store(ty, v)[1]) => PartsIn(C, ty, Store(ty, v)[1])

(* Of such values an array is built, unless there are too many.            *)
BuildsAll(C, ty) ==
    \A values \in Seq(Values) :
        (\A i \in DOMAIN values : <<ty, values[i]>> \in C) /\ ~Overfull(ty, values)
            => IsOk(build_array(ty, values))

KeptOf(ty, values) ==
    [i \in DOMAIN values |->
       LET stored == Store(ty, values[i]) IN IF IsOk(stored) THEN stored[1] ELSE Null]

LEMMA BuiltOfStored ==
    ASSUME NEW ty, NEW values, \A i \in DOMAIN values : IsOk(Store(ty, values[i]))
    PROVE  build_array(ty, values) = FinishColumn(ty, KeptOf(ty, values))
<1> DEFINE rs == [i \in DOMAIN values |-> Store(ty, values[i])]
<1>1. build_array(ty, values) = Then(Collect(rs), LAMBDA kept : FinishColumn(ty, kept))
    BY DEF build_array, CollectEach
<1>2. /\ DOMAIN rs = DOMAIN values /\ \A i \in DOMAIN rs : IsOk(rs[i])
      /\ [i \in DOMAIN rs |-> rs[i][1]] = KeptOf(ty, values)
    BY DEF KeptOf
<1> HIDE DEF rs
<1>3. Collect(rs) = Ok(KeptOf(ty, values))
    BY <1>2 DEF Collect
<1>4. QED
    BY <1>1, <1>3, OkFacts DEF Then

LEMMA ClosedIsKept ==
    ASSUME Recursion, NEW C, Closed(C), NEW ty \in Types, Nested(ty),
           NEW values \in Seq(Values), \A i \in DOMAIN values : <<ty, values[i]>> \in C
    PROVE  /\ KeptOf(ty, values) \in Seq(Shaped(ty))
           /\ DOMAIN KeptOf(ty, values) = 1..Len(values) /\ Len(values) \in Nat
           /\ \A i \in 1..Len(values) :
                 ~IsNull(KeptOf(ty, values)[i]) => PartsIn(C, ty, KeptOf(ty, values)[i])
           /\ build_array(ty, values) = build_nested(ty, KeptOf(ty, values))
<1> DEFINE kept == KeptOf(ty, values)
<1>1. DOMAIN values = 1..Len(values) /\ Len(values) \in Nat
    OBVIOUS
<1>2. ASSUME NEW i \in 1..Len(values)
      PROVE  /\ IsOk(Store(ty, values[i])) /\ kept[i] = Store(ty, values[i])[1]
             /\ kept[i] \in Shaped(ty) /\ (~IsNull(kept[i]) => PartsIn(C, ty, kept[i]))
    <2>1. i \in DOMAIN values /\ values[i] \in Values /\ <<ty, values[i]>> \in C
        BY <1>1
    <2>2. IsOk(Store(ty, values[i])) /\ (~IsNull(Store(ty, values[i])[1]) => PartsIn(C, ty, Store(ty, values[i])[1]))
        BY <2>1 DEF Closed
    <2>3. kept[i] = Store(ty, values[i])[1]
        BY <2>1, <2>2 DEF KeptOf
    <2>4. QED
        BY <2>1, <2>2, <2>3, StoreShaped
<1>3. DOMAIN kept = 1..Len(values) /\ kept = [i \in 1..Len(values) |-> kept[i]]
    BY <1>1 DEF KeptOf
<1>4. build_array(ty, values) = build_nested(ty, kept)
    <2>1. build_array(ty, values) = FinishColumn(ty, kept)
        BY <1>1, <1>2, BuiltOfStored
    <2>2. QED
        BY <2>1 DEF FinishColumn, Recursion
<1> HIDE DEF kept
<1>5. kept \in Seq(Shaped(ty))
    <2>1. kept \in [1..Len(values) -> Shaped(ty)]
        BY <1>2, <1>3
    <2>2. QED
        BY <1>1, <2>1
<1>6. QED
    BY <1>1, <1>2, <1>3, <1>4, <1>5 DEF kept

LEMMA ArraysBuild ==
    ASSUME Recursion, GeneratorRecursion, NEW C, Closed(C), NEW ty \in Types, ty.k = "ARRAY",
           BuildsAll(C, ty.of)
    PROVE  BuildsAll(C, ty)
<1> SUFFICES ASSUME NEW values \in Seq(Values), \A i \in DOMAIN values : <<ty, values[i]>> \in C,
                    ~Overfull(ty, values)
             PROVE  IsOk(build_array(ty, values))
    BY DEF BuildsAll
<1> DEFINE kept == KeptOf(ty, values)
           valid == [i \in DOMAIN kept |-> ~IsNull(kept[i])]
           lists == [i \in DOMAIN kept |-> IF valid[i] THEN kept[i].items ELSE <<>>]
           flat == FlattenSeq(lists)
           S == {v \in Values : <<ty.of, v>> \in C}
<1>0. ty.of \in Types
    BY TypesAreTrees DEF PartsOf
<1>1. /\ kept \in Seq(Shaped(ty)) /\ DOMAIN kept = 1..Len(values) /\ Len(values) \in Nat
      /\ \A i \in 1..Len(values) : ~IsNull(kept[i]) => PartsIn(C, ty, kept[i])
      /\ build_array(ty, values) = build_nested(ty, kept)
    BY ClosedIsKept DEF Nested
<1>2. build_nested(ty, kept) =
         IF ~(Len(flat) <= MaxOffset) THEN Err
         ELSE Then(build_array(ty.of, flat), LAMBDA x : Ok([valid |-> valid, offsets |-> Offsets(lists), child |-> x]))
    BY DEF build_nested
<1>3. ~(Len(flat) > MaxOffset) /\ ~Overfull(ty.of, flat)
    <2> DEFINE items == [i \in DOMAIN kept |-> IF IsNull(kept[i]) THEN <<>> ELSE kept[i].items]
    <2>1. ~(Len(FlattenSeq(items)) > MaxOffset \/ OverfullNested(ty.of, FlattenSeq(items)))
        BY DEF Overfull, KeptOf
    <2>2. items = lists
        <3> HIDE DEF kept
        <3>1. ASSUME NEW i \in DOMAIN kept PROVE items[i] = lists[i]
            OBVIOUS
        <3>2. QED
            BY <3>1
    <2> HIDE DEF items, lists
    <2>3. QED
        BY <1>0, <2>1, <2>2 DEF GeneratorRecursion
<1> HIDE DEF kept
<1>4. lists \in Seq(Seq(S))
    <2>1. ASSUME NEW i \in 1..Len(values) PROVE lists[i] \in Seq(S)
        <3>1. kept[i] \in Values /\ (IsNull(kept[i]) \/ kept[i].k = "list")
            BY <1>1 DEF Shaped
        <3>2. CASE IsNull(kept[i])
            <4>1. lists[i] = <<>>
                BY <1>1, <3>2
            <4>2. <<>> \in Seq(S)
                OBVIOUS
            <4>3. QED
                BY <4>1, <4>2
        <3>3. CASE ~IsNull(kept[i])
            <4>1. lists[i] = kept[i].items /\ kept[i].items \in Seq(Values)
                BY <1>1, <3>1, <3>3, ValuesHaveParts
            <4>2. \A j \in DOMAIN kept[i].items : <<ty.of, kept[i].items[j]>> \in C
                BY <1>1, <3>3 DEF PartsIn
            <4> DEFINE held == kept[i].items
            <4>3. \A j \in 1..Len(held) : held[j] \in S
                BY <4>1, <4>2
            <4> HIDE DEF held, S
            <4>4. held \in [1..Len(held) -> S] /\ Len(held) \in Nat
                BY <4>1, <4>3 DEF held
            <4>5. held \in Seq(S)
                BY <4>4
            <4>6. QED
                BY <4>1, <4>5 DEF held
        <3>4. QED
            BY <3>2, <3>3
    <2>2. lists \in [1..Len(values) -> Seq(S)]
        BY <1>1, <2>1
    <2> HIDE DEF lists, S
    <2>3. QED
        BY <1>1, <2>2
<1> HIDE DEF lists, valid
<1>5. flat \in Seq(S)
    BY <1>4, JoinedStarts, JoinedType
<1>6. flat \in Seq(Values) /\ \A i \in DOMAIN flat : <<ty.of, flat[i]>> \in C
    <2> HIDE DEF flat
    <2>1. \A i \in DOMAIN flat : flat[i] \in S
        <3> HIDE DEF S
        <3>1. QED
            BY <1>5
    <2>2. flat \in Seq(Values)
        <3>1. S \subseteq Values
            OBVIOUS
        <3> HIDE DEF S
        <3>2. QED
            BY <1>5, <3>1
    <2>3. QED
        BY <2>1, <2>2
<1> HIDE DEF flat, S
<1>7. IsOk(build_array(ty.of, flat)) /\ Len(flat) <= MaxOffset
    BY <1>3, <1>6, OffsetsCount DEF BuildsAll
<1>8. QED
    BY <1>1, <1>2, <1>7, OkFacts DEF Then

LEMMA MapsBuild ==
    ASSUME Recursion, GeneratorRecursion, NEW C, Closed(C), NEW ty \in Types, ty.k = "MAP",
           BuildsAll(C, ty.key), BuildsAll(C, ty.val)
    PROVE  BuildsAll(C, ty)
<1> SUFFICES ASSUME NEW values \in Seq(Values), \A i \in DOMAIN values : <<ty, values[i]>> \in C,
                    ~Overfull(ty, values)
             PROVE  IsOk(build_array(ty, values))
    BY DEF BuildsAll
<1> DEFINE kept == KeptOf(ty, values)
           valid == [i \in DOMAIN kept |-> ~IsNull(kept[i])]
           entries == [i \in DOMAIN kept |-> IF valid[i] THEN EntriesOf(kept[i]) ELSE <<>>]
           flat == FlattenSeq(entries)
           side(n) == [e \in DOMAIN flat |-> flat[e][n]]
           keys == build_array(ty.key, side(1))
           vals == build_array(ty.val, side(2))
           sound == Len(flat) <= MaxOffset /\ \A i \in DOMAIN entries : KeysOk(entries[i])
           S == {e \in Values \X Values : <<ty.key, e[1]>> \in C /\ <<ty.val, e[2]>> \in C}
<1>0. ty.key \in Types /\ ty.val \in Types
    BY TypesAreTrees DEF PartsOf
<1>1. /\ kept \in Seq(Shaped(ty)) /\ DOMAIN kept = 1..Len(values) /\ Len(values) \in Nat
      /\ \A i \in 1..Len(values) : ~IsNull(kept[i]) => PartsIn(C, ty, kept[i])
      /\ build_array(ty, values) = build_nested(ty, kept)
    BY ClosedIsKept DEF Nested
<1>2. build_nested(ty, kept) =
         IF ~sound THEN Err
         ELSE Then(Collect(<<keys, vals>>), LAMBDA arrays :
                   Ok([valid |-> valid, offsets |-> Offsets(entries), keys |-> arrays[1], vals |-> arrays[2]]))
    BY DEF build_nested
<1>3. ~(Len(flat) > MaxOffset) /\ ~Overfull(ty.key, side(1)) /\ ~Overfull(ty.val, side(2))
    <2> DEFINE held == [i \in DOMAIN kept |-> IF IsNull(kept[i]) THEN <<>> ELSE EntriesOf(kept[i])]
               part(n) == [e \in DOMAIN FlattenSeq(held) |-> FlattenSeq(held)[e][n]]
    <2>1. ~(\/ Len(FlattenSeq(held)) > MaxOffset
            \/ OverfullNested(ty.key, part(1)) \/ OverfullNested(ty.val, part(2)))
        BY DEF Overfull, KeptOf
    <2>2. held = entries
        <3> HIDE DEF kept
        <3>1. ASSUME NEW i \in DOMAIN kept PROVE held[i] = entries[i]
            OBVIOUS
        <3>2. QED
            BY <3>1
    <2> HIDE DEF held, entries
    <2>3. part(1) = side(1) /\ part(2) = side(2)
        BY <2>2
    <2> HIDE DEF part, side
    <2>4. QED
        BY <1>0, <2>1, <2>2, <2>3 DEF GeneratorRecursion
<1> HIDE DEF kept
<1>4. entries \in Seq(Seq(S)) /\ \A i \in DOMAIN entries : KeysOk(entries[i])
    <2>1. ASSUME NEW i \in 1..Len(values) PROVE entries[i] \in Seq(S) /\ KeysOk(entries[i])
        <3>1. kept[i] \in Values /\ (IsNull(kept[i]) \/ kept[i].k \in {"map", "struct"})
            BY <1>1 DEF Shaped
        <3>2. CASE IsNull(kept[i])
            <4>1. entries[i] = <<>>
                BY <1>1, <3>2
            <4>2. <<>> \in Seq(S) /\ KeysOk(<<>>)
                BY DEF KeysOk
            <4>3. QED
                BY <4>1, <4>2
        <3>3. CASE ~IsNull(kept[i])
            <4> DEFINE held == EntriesOf(kept[i])
            <4>1. entries[i] = held /\ held \in Seq(Values \X Values)
                BY <1>1, <3>1, <3>3, EntriesType
            <4>2. KeysOk(held) /\ \A j \in DOMAIN held : <<ty.key, held[j][1]>> \in C /\ <<ty.val, held[j][2]>> \in C
                BY <1>1, <3>3 DEF PartsIn
            <4> HIDE DEF held, entries
            <4>3. \A j \in 1..Len(held) : held[j] \in S
                BY <4>1, <4>2
            <4> HIDE DEF S
            <4>4. held \in [1..Len(held) -> S] /\ Len(held) \in Nat
                BY <4>1, <4>3
            <4>5. held \in Seq(S)
                BY <4>4
            <4>6. QED
                BY <4>1, <4>2, <4>5
        <3>4. QED
            BY <3>2, <3>3
    <2>2. entries \in [1..Len(values) -> Seq(S)] /\ DOMAIN entries = 1..Len(values)
        BY <1>1, <2>1
    <2> HIDE DEF entries, S
    <2>3. QED
        BY <1>1, <2>1, <2>2
<1> HIDE DEF entries, valid
<1>5. flat \in Seq(S)
    BY <1>4, JoinedStarts, JoinedType
<1> HIDE DEF flat
<1>6. /\ side(1) \in Seq(Values) /\ \A i \in DOMAIN side(1) : <<ty.key, side(1)[i]>> \in C
      /\ side(2) \in Seq(Values) /\ \A i \in DOMAIN side(2) : <<ty.val, side(2)[i]>> \in C
    <2>1. DOMAIN flat = 1..Len(flat) /\ Len(flat) \in Nat /\ \A i \in DOMAIN flat : flat[i] \in S
        <3> HIDE DEF S
        <3>1. QED
            BY <1>5
    <2>2. \A i \in DOMAIN flat : /\ flat[i][1] \in Values /\ <<ty.key, flat[i][1]>> \in C
                                 /\ flat[i][2] \in Values /\ <<ty.val, flat[i][2]>> \in C
        BY <2>1
    <2>3. side(1) \in [1..Len(flat) -> Values] /\ side(2) \in [1..Len(flat) -> Values]
        BY <2>1, <2>2
    <2>4. side(1) \in Seq(Values) /\ side(2) \in Seq(Values)
        <3> HIDE DEF side
        <3>1. QED
            BY <2>1, <2>3
    <2>5. QED
        BY <2>1, <2>2, <2>4
<1> HIDE DEF side, S
<1>7. IsOk(keys) /\ IsOk(vals) /\ sound
    BY <1>3, <1>4, <1>5, <1>6, OffsetsCount DEF BuildsAll
<1> HIDE DEF keys, vals, sound
<1>8. IsOk(Collect(<<keys, vals>>))
    <2> DEFINE rs == <<keys, vals>>
    <2>1. \A i \in DOMAIN rs : IsOk(rs[i])
        BY <1>7
    <2> HIDE DEF rs
    <2>2. QED
        BY <2>1, OkFacts DEF Collect, rs
<1>9. QED
    BY <1>1, <1>2, <1>7, <1>8, OkFacts DEF Then

LEMMA StructsBuild ==
    ASSUME Recursion, GeneratorRecursion, NEW C, Closed(C), NEW ty \in Types, ty.k = "STRUCT",
           \A f \in DOMAIN ty.fields : BuildsAll(C, ty.fields[f][2])
    PROVE  BuildsAll(C, ty)
<1> SUFFICES ASSUME NEW values \in Seq(Values), \A i \in DOMAIN values : <<ty, values[i]>> \in C,
                    ~Overfull(ty, values)
             PROVE  IsOk(build_array(ty, values))
    BY DEF BuildsAll
<1> DEFINE kept == KeptOf(ty, values)
           valid == [i \in DOMAIN kept |-> ~IsNull(kept[i])]
           slots == [i \in DOMAIN kept |-> Slots(ty, kept[i])]
           rows_ == Collect(slots)[1]
           field(f) == [i \in DOMAIN rows_ |-> rows_[i][f]]
           built == [f \in DOMAIN ty.fields |-> build_array(ty.fields[f][2], field(f))]
<1>0. \A f \in DOMAIN ty.fields : ty.fields[f][2] \in Types
    BY TypesAreTrees DEF PartsOf
<1>1. /\ kept \in Seq(Shaped(ty)) /\ DOMAIN kept = 1..Len(values) /\ Len(values) \in Nat
      /\ \A i \in 1..Len(values) : ~IsNull(kept[i]) => PartsIn(C, ty, kept[i])
      /\ build_array(ty, values) = build_nested(ty, kept)
    BY ClosedIsKept DEF Nested
<1>2. build_nested(ty, kept) =
         Then(Collect(slots), LAMBDA rs :
             Then(Collect([f \in DOMAIN ty.fields |->
                              build_array(ty.fields[f][2], [i \in DOMAIN rs |-> rs[i][f]])]),
                  LAMBDA columns_ : Ok([valid |-> valid, columns |-> columns_])))
    BY DEF build_nested, CollectEach
<1>3. \A f \in DOMAIN ty.fields :
         ~Overfull(ty.fields[f][2],
                   [i \in DOMAIN kept |->
                      LET s == Slots(ty, kept[i]) IN IF IsOk(s) THEN s[1][f] ELSE Null])
    <2>1. ~\E f \in DOMAIN ty.fields :
              OverfullNested(ty.fields[f][2],
                   [i \in DOMAIN kept |->
                      LET s == Slots(ty, kept[i]) IN IF IsOk(s) THEN s[1][f] ELSE Null])
        BY DEF Overfull, KeptOf
    <2> HIDE DEF kept
    <2>2. QED
        BY <1>0, <2>1 DEF GeneratorRecursion
<1> HIDE DEF kept
<1>4. ASSUME NEW i \in 1..Len(values)
      PROVE  /\ kept[i] \in Shaped(ty) /\ IsOk(Slots(ty, kept[i]))
             /\ \A f \in DOMAIN ty.fields : <<ty.fields[f][2], Slots(ty, kept[i])[1][f]>> \in C
    <2>1. kept[i] \in Shaped(ty)
        BY <1>1
    <2>2. CASE IsNull(kept[i])
        <3> DEFINE nulls == [f \in DOMAIN ty.fields |-> Null]
        <3>1. Slots(ty, kept[i]) = Ok(nulls)
            BY <2>2 DEF Slots, IsNull
        <3>2. \A f \in DOMAIN ty.fields : <<ty.fields[f][2], Null>> \in C /\ nulls[f] = Null
            BY <1>0 DEF Closed
        <3> HIDE DEF nulls
        <3>3. IsOk(Slots(ty, kept[i])) /\ Slots(ty, kept[i])[1] = nulls
            BY <3>1, OkFacts
        <3>4. QED
            BY <2>1, <3>2, <3>3
    <2>3. CASE ~IsNull(kept[i])
        BY <1>1, <2>1, <2>3 DEF PartsIn
    <2>4. QED
        BY <2>2, <2>3
<1>5. IsOk(Collect(slots)) /\ rows_ = [i \in 1..Len(values) |-> Slots(ty, kept[i])[1]]
    <2>1. DOMAIN slots = 1..Len(values) /\ \A i \in DOMAIN slots : slots[i] = Slots(ty, kept[i]) /\ IsOk(slots[i])
        BY <1>1, <1>4
    <2> HIDE DEF slots
    <2>2. IsOk(Collect(slots))
        BY <2>1, OkFacts DEF Collect
    <2>3. rows_ = [i \in DOMAIN slots |-> slots[i][1]]
        BY <2>2, CollectedAll
    <2> HIDE DEF rows_
    <2>4. QED
        BY <2>1, <2>2, <2>3
<1> HIDE DEF slots, rows_
<1>6. ASSUME NEW f \in DOMAIN ty.fields
      PROVE  IsOk(build_array(ty.fields[f][2], field(f)))
    <2>1. field(f) = [i \in 1..Len(values) |-> Slots(ty, kept[i])[1][f]]
        BY <1>5
    <2>2. field(f) = [i \in DOMAIN kept |->
                        LET s == Slots(ty, kept[i]) IN IF IsOk(s) THEN s[1][f] ELSE Null]
        BY <1>1, <1>4, <2>1
    <2>3. \A i \in 1..Len(values) : Slots(ty, kept[i])[1][f] \in Values
        BY <1>4, SlotsType
    <2>4. field(f) \in [1..Len(values) -> Values]
        BY <2>1, <2>3
    <2>5. \A i \in DOMAIN field(f) : <<ty.fields[f][2], field(f)[i]>> \in C
        BY <1>4, <2>1
    <2>6. ~Overfull(ty.fields[f][2], field(f))
        BY <1>3, <2>2
    <2> HIDE DEF field
    <2>7. field(f) \in Seq(Values)
        BY <1>1, <2>4
    <2>8. QED
        BY <2>5, <2>6, <2>7 DEF BuildsAll
<1>7. IsOk(Collect(built))
    <2>1. \A f \in DOMAIN built : IsOk(built[f])
        BY <1>6
    <2> HIDE DEF built
    <2>2. QED
        BY <2>1, OkFacts DEF Collect
<1>8. build_nested(ty, kept) = Then(Collect(built), LAMBDA columns_ : Ok([valid |-> valid, columns |-> columns_]))
    <2>1. IsOk(Collect(slots)) /\ rows_ = Collect(slots)[1]
        BY <1>5 DEF rows_
    <2>2. QED
        BY <1>2, <2>1 DEF Then
<1> HIDE DEF built, valid
<1>9. QED
    BY <1>1, <1>7, <1>8, OkFacts DEF Then

LEMMA ScalarsBuild ==
    ASSUME NEW C, Closed(C), NEW ty \in Types, ~Nested(ty)
    PROVE  BuildsAll(C, ty)
<1> SUFFICES ASSUME NEW values \in Seq(Values), \A i \in DOMAIN values : <<ty, values[i]>> \in C
             PROVE  IsOk(build_array(ty, values))
    BY DEF BuildsAll
<1>1. ASSUME NEW i \in DOMAIN values PROVE IsOk(Store(ty, values[i]))
    <2>1. values[i] \in Values
        OBVIOUS
    <2>2. QED
        BY <2>1 DEF Closed
<1>2. build_array(ty, values) = FinishColumn(ty, KeptOf(ty, values))
    BY <1>1, BuiltOfStored
<1>3. FinishColumn(ty, KeptOf(ty, values)) = Ok([slots |-> KeptOf(ty, values)])
    BY DEF FinishColumn
<1>4. QED
    BY <1>2, <1>3, OkFacts

(* Whatever the depth of a type, values that are stored with all their     *)
(* parts make an array, unless a level has more elements than an offset    *)
(* counts.                                                                 *)
THEOREM EveryTypeBuilds ==
    ASSUME Recursion, GeneratorRecursion, NEW C, Closed(C)
    PROVE  \A ty \in Types : BuildsAll(C, ty)
<1> DEFINE size(ty) == Cardinality(TypesIn(ty))
           S == {n \in Nat : \A ty \in Types : size(ty) < n => BuildsAll(C, ty)}
<1>1. \A ty \in Types : size(ty) \in Nat
    BY TypesAreTrees, FS_CardinalityType
<1>2. 0 \in S
    BY <1>1
<1>3. ASSUME NEW n \in Nat, n \in S PROVE n + 1 \in S
    <2> SUFFICES ASSUME NEW ty \in Types, size(ty) < n + 1 PROVE BuildsAll(C, ty)
        OBVIOUS
    <2>1. ASSUME NEW part \in PartsOf(ty) PROVE BuildsAll(C, part)
        <3>1. part \in Types /\ size(part) < size(ty)
            BY PartsAreSmaller
        <3>2. size(part) < n
            BY <1>1, <3>1
        <3>3. QED
            BY <1>3, <3>1, <3>2
    <2>2. CASE ty.k = "ARRAY"
        <3>1. ty.of \in PartsOf(ty)
            BY <2>2 DEF PartsOf
        <3>2. QED
            BY <2>1, <2>2, <3>1, ArraysBuild
    <2>3. CASE ty.k = "MAP"
        <3>1. {ty.key, ty.val} \subseteq PartsOf(ty)
            BY <2>3 DEF PartsOf
        <3>2. QED
            BY <2>1, <2>3, <3>1, MapsBuild
    <2>4. CASE ty.k = "STRUCT"
        <3>1. \A f \in DOMAIN ty.fields : ty.fields[f][2] \in PartsOf(ty)
            BY <2>4 DEF PartsOf
        <3>2. QED
            BY <2>1, <2>4, <3>1, StructsBuild
    <2>5. CASE ~Nested(ty)
        BY <2>5, ScalarsBuild
    <2>6. QED
        BY <2>2, <2>3, <2>4, <2>5 DEF Nested
<1> HIDE DEF S
<1>4. \A n \in Nat : n \in S
    BY <1>2, <1>3, Induction
<1>5. ASSUME NEW ty \in Types PROVE BuildsAll(C, ty)
    <2>1. size(ty) + 1 \in Nat /\ size(ty) < size(ty) + 1
        BY <1>1
    <2>2. size(ty) + 1 \in S
        BY <1>4, <2>1
    <2>3. QED
        BY <2>1, <2>2 DEF S
<1>6. QED
    BY <1>5

(* What a generator reports, and what it draws.                            *)

WithNull(e, g) == e \o (IF g.nulls THEN <<Null>> ELSE <<>>)

LEMMA NullsLast ==
    ASSUME NEW T, NEW e \in Seq(T), NEW g
    PROVE  /\ WithNull(e, g) \in Seq(T \cup {Null})
           /\ \A i \in DOMAIN e : i \in DOMAIN WithNull(e, g) /\ WithNull(e, g)[i] = e[i]
           /\ \A i \in DOMAIN WithNull(e, g) :
                 WithNull(e, g)[i] = Null \/ \E j \in DOMAIN e : WithNull(e, g)[i] = e[j]
           /\ g.nulls => \E i \in DOMAIN WithNull(e, g) : WithNull(e, g)[i] = Null
<1> DEFINE U == T \cup {Null}
           tail == IF g.nulls THEN <<Null>> ELSE <<>>
           s == e \o tail
<1>1. e \in Seq(U) /\ tail \in Seq(U) /\ Len(tail) \in {0, 1} /\ (g.nulls => Len(tail) = 1 /\ tail[1] = Null)
      /\ \A i \in DOMAIN tail : tail[i] = Null
    <2>1. e \in Seq(U)
        OBVIOUS
    <2>2. CASE g.nulls
        BY <2>1, <2>2
    <2>3. CASE ~g.nulls
        BY <2>1, <2>3
    <2>4. QED
        BY <2>2, <2>3
<1> HIDE DEF U, tail
<1>2. /\ s \in Seq(U) /\ Len(s) = Len(e) + Len(tail) /\ DOMAIN s = 1..Len(s) /\ Len(e) \in Nat
      /\ DOMAIN e = 1..Len(e)
      /\ \A i \in 1..Len(e) : s[i] = e[i]
      /\ \A i \in 1..Len(tail) : s[Len(e) + i] = tail[i]
    BY <1>1
<1>3. ASSUME g.nulls PROVE Len(e) + 1 \in DOMAIN s /\ s[Len(e) + 1] = Null
    <2>1. Len(tail) = 1 /\ tail[1] = Null
        BY <1>1, <1>3
    <2>2. 1 \in 1..Len(tail) /\ Len(e) + 1 \in 1..Len(s)
        BY <1>2, <2>1
    <2>3. QED
        BY <1>2, <2>1, <2>2
<1>4. ASSUME NEW i \in DOMAIN s PROVE s[i] = Null \/ \E j \in DOMAIN e : s[i] = e[j]
    <2>1. CASE i \in 1..Len(e)
        BY <1>2, <2>1
    <2>2. CASE i \notin 1..Len(e)
        <3>1. i = Len(e) + 1 /\ Len(tail) = 1
            BY <1>1, <1>2, <2>2
        <3>2. QED
            BY <1>1, <1>2, <3>1
    <2>3. QED
        BY <2>1, <2>2
<1> HIDE DEF s
<1>5. \A i \in DOMAIN e : i \in DOMAIN s /\ s[i] = e[i]
    BY <1>1, <1>2
<1>6. QED
    BY <1>2, <1>3, <1>4, <1>5 DEF s, U, tail, WithNull

LEMMA LongestIsReached ==
    ASSUME NEW n \in Nat, NEW h \in [1..n -> Nat]
    PROVE  LET m == Max({1} \cup {h[f] : f \in 1..n}) IN m \in Nat /\ m >= 1 /\ \A f \in 1..n : h[f] <= m
<1> DEFINE T(k) == {1} \cup {h[f] : f \in 1..k}
           P == {k \in Nat : k <= n => \E m \in T(k) : \A y \in T(k) : m >= y}
<1>1. 0 \in P
    <2>1. T(0) = {1}
        OBVIOUS
    <2> HIDE DEF T
    <2>2. QED
        BY <2>1
<1>2. ASSUME NEW k \in Nat, k \in P PROVE k + 1 \in P
    <2> SUFFICES ASSUME k + 1 <= n PROVE \E m \in T(k + 1) : \A y \in T(k + 1) : m >= y
        OBVIOUS
    <2>1. PICK m \in T(k) : \A y \in T(k) : m >= y
        BY <1>2
    <2>2. T(k + 1) = T(k) \cup {h[k + 1]} /\ T(k + 1) \subseteq Nat /\ h[k + 1] \in Nat /\ m \in Nat
        <3>1. 1..(k + 1) = 1..k \cup {k + 1} /\ 1..(k + 1) \subseteq 1..n
            OBVIOUS
        <3>2. \A f \in 1..(k + 1) : h[f] \in Nat
            BY <3>1
        <3>3. QED
            BY <3>1, <3>2
    <2> HIDE DEF T, P
    <2>3. CASE m >= h[k + 1]
        BY <2>1, <2>2, <2>3
    <2>4. CASE ~(m >= h[k + 1])
        <3>1. h[k + 1] >= h[k + 1] /\ \A y \in T(k) : h[k + 1] >= y
            BY <2>1, <2>2, <2>4
        <3>2. QED
            BY <2>2, <3>1
    <2>5. QED
        BY <2>3, <2>4
<1> HIDE DEF P
<1>3. \A k \in Nat : k \in P
    BY <1>1, <1>2, Induction
<1>4. \E m \in T(n) : \A y \in T(n) : m >= y
    <2>1. n \in P /\ n <= n
        BY <1>3
    <2> HIDE DEF T
    <2>2. QED
        BY <2>1 DEF P
<1> DEFINE m == Max(T(n))
<1>5. m \in T(n) /\ \A y \in T(n) : m >= y
    <2> HIDE DEF T
    <2>1. QED
        BY <1>4 DEF Max
<1>6. T(n) \subseteq Nat /\ 1 \in T(n) /\ \A f \in 1..n : h[f] \in T(n)
    OBVIOUS
<1> HIDE DEF m
<1>7. m \in Nat /\ m >= 1 /\ \A f \in 1..n : h[f] <= m
    BY <1>5, <1>6
<1>8. QED
    BY <1>7 DEF m

(* A sequence whose items are values is a sequence of values.              *)
LEMMA SequenceOfValues ==
    ASSUME NEW s, IsSequence(s), \A i \in DOMAIN s : s[i] \in Values
    PROVE  s \in Seq(Values)
<1>1. PICK S : s \in Seq(S)
    BY DEF IsSequence
<1>2. Len(s) \in Nat /\ DOMAIN s = 1..Len(s) /\ s = [i \in 1..Len(s) |-> s[i]]
    BY <1>1
<1>3. s \in [1..Len(s) -> Values]
    BY <1>2
<1>4. QED
    BY <1>2, <1>3

(* The probes of each kind of generator.                                   *)
PlainProbes(g) ==
    /\ \A i \in DOMAIN plain_extremes(g) : /\ i \in DOMAIN probe_values(g)
                                           /\ probe_values(g)[i] = plain_extremes(g)[i]
    /\ \A i \in DOMAIN probe_values(g) :
          \/ probe_values(g)[i] = Null
          \/ \E j \in DOMAIN plain_extremes(g) : probe_values(g)[i] = plain_extremes(g)[j]

LEMMA PlainAreProbed ==
    ASSUME NEW g \in Gens, IsPlain(g)
    PROVE  /\ probe_values(g) \in Seq(Values) /\ PlainProbes(g)
           /\ g.nulls => \E i \in DOMAIN probe_values(g) : probe_values(g)[i] = Null
<1> DEFINE e == plain_extremes(g)
           s == WithNull(e, g)
<1>1. probe_values(g) = s
    <2>1. g.g \notin {"array", "map", "struct"}
        BY DEF IsPlain, IsRange
    <2>2. QED
        BY <2>1 DEF probe_values, WithNull
<1>2. \E T : e \in Seq(T)
    <2>1. CASE g.g = "text"
        <3>1. e = <<At(g, g.max)>>
            BY <2>1 DEF plain_extremes
        <3>2. e \in Seq({At(g, g.max)})
            BY <3>1
        <3>3. QED
            BY <3>2
    <2>2. CASE g.g = "float"
        <3> DEFINE T == {Float(g.min), Float(g.max)}
        <3>1. e = <<Float(g.min), Float(g.max)>>
            BY <2>2 DEF plain_extremes, IsRange
        <3>2. Float(g.min) \in T /\ Float(g.max) \in T
            OBVIOUS
        <3> HIDE DEF T
        <3>3. e \in Seq(T)
            BY <3>1, <3>2
        <3>4. QED
            BY <3>3
    <2>3. CASE IsRange(g) /\ g.g \notin {"text", "float"}
        <3> DEFINE T == {At(g, g.min), At(g, g.max)}
        <3>1. e = <<At(g, g.min), At(g, g.max)>>
            BY <2>3 DEF plain_extremes, IsRange
        <3>2. At(g, g.min) \in T /\ At(g, g.max) \in T
            OBVIOUS
        <3> HIDE DEF T
        <3>3. e \in Seq(T)
            BY <3>1, <3>2
        <3>4. QED
            BY <3>3
    <2>4. CASE g.g = "choice"
        <3>1. e = g.values
            BY <2>4 DEF plain_extremes, IsRange
        <3>2. QED
            BY <2>4, <3>1, GenParameters DEF GenHasParameters
    <2>5. CASE g.g = "sequence"
        <3>1. e = <<Number(g.next)>>
            BY <2>5 DEF plain_extremes, IsRange
        <3>2. e \in Seq({Number(g.next)})
            BY <3>1
        <3>3. QED
            BY <3>2
    <2>6. CASE g.g = "opaque"
        <3>1. e = g.shown
            BY <2>6 DEF plain_extremes, IsRange
        <3>2. QED
            BY <2>6, <3>1, GenParameters DEF GenHasParameters
    <2>7. QED
        BY <2>1, <2>2, <2>3, <2>4, <2>5, <2>6 DEF IsPlain
<1> HIDE DEF e
<1>3. PICK T : e \in Seq(T)
    BY <1>2
<1>4. /\ s \in Seq(T \cup {Null})
      /\ \A i \in DOMAIN e : i \in DOMAIN s /\ s[i] = e[i]
      /\ \A i \in DOMAIN s : s[i] = Null \/ \E j \in DOMAIN e : s[i] = e[j]
      /\ g.nulls => \E i \in DOMAIN s : s[i] = Null
    BY <1>3, NullsLast
<1> HIDE DEF s
<1>5. s \in Seq(Values)
    <2>1. \A i \in DOMAIN s : s[i] \in Values
        BY <1>1, GenParameters
    <2>2. QED
        BY <1>4, <2>1, SequenceOfValues DEF IsSequence
<1>6. QED
    BY <1>1, <1>4, <1>5 DEF e, PlainProbes

OneAnd(s, x, g) ==
    /\ IsSequence(s) /\ 1 \in DOMAIN s /\ s[1] = x
    /\ \A i \in DOMAIN s : s[i] \in {x, Null}
    /\ g.nulls => \E i \in DOMAIN s : s[i] = Null

LEMMA OneAndNull ==
    ASSUME NEW x, NEW g
    PROVE  OneAnd(WithNull(<<x>>, g), x, g)
<1> DEFINE e == <<x>>
           T == {x}
           w == WithNull(e, g)
<1>1. e \in Seq(T)
    OBVIOUS
<1>2. 1 \in DOMAIN e /\ \A i \in DOMAIN e : e[i] = x
    OBVIOUS
<1>3. w = WithNull(<<x>>, g)
    OBVIOUS
<1> HIDE DEF e, T, w
<1>4. /\ w \in Seq(T \cup {Null})
      /\ \A i \in DOMAIN e : i \in DOMAIN w /\ w[i] = e[i]
      /\ \A i \in DOMAIN w : w[i] = Null \/ \E j \in DOMAIN e : w[i] = e[j]
      /\ g.nulls => \E i \in DOMAIN w : w[i] = Null
    BY <1>1, NullsLast DEF w
<1>5. OneAnd(w, x, g)
    BY <1>2, <1>4 DEF IsSequence, OneAnd
<1>6. QED
    BY <1>3, <1>5

LEMMA ArrayProbes ==
    ASSUME NEW g \in Gens, g.g = "array"
    PROVE  /\ probe_values(g) \in Seq(Values) /\ 1 \in DOMAIN probe_values(g)
           /\ probe_values(g)[1] = List(IF g.max = 0 THEN <<>> ELSE ProbesOf(g.element))
           /\ \A i \in DOMAIN probe_values(g) : probe_values(g)[i] \in {probe_values(g)[1], Null}
           /\ g.nulls => \E i \in DOMAIN probe_values(g) : probe_values(g)[i] = Null
<1> DEFINE x == List(IF g.max = 0 THEN <<>> ELSE ProbesOf(g.element))
<1>1. probe_values(g) = WithNull(<<x>>, g)
    BY DEF probe_values, WithNull
<1>15. OneAnd(probe_values(g), x, g)
    BY <1>1, OneAndNull
<1>2. /\ IsSequence(probe_values(g)) /\ 1 \in DOMAIN probe_values(g) /\ probe_values(g)[1] = x
      /\ \A i \in DOMAIN probe_values(g) : probe_values(g)[i] \in {x, Null}
      /\ g.nulls => \E i \in DOMAIN probe_values(g) : probe_values(g)[i] = Null
    BY <1>15 DEF OneAnd
<1>3. probe_values(g) \in Seq(Values)
    BY <1>2, SequenceOfValues, GenParameters
<1>4. QED
    BY <1>2, <1>3 DEF x

Pick(s, i) == IF s = <<>> THEN Null ELSE s[((i - 1) % Len(s)) + 1]

LEMMA MapProbes ==
    ASSUME NEW g \in Gens, g.g = "map"
    PROVE  /\ probe_values(g) \in Seq(Values) /\ 1 \in DOMAIN probe_values(g)
           /\ LET keys == FirstOfEach(ProbesOf(g.key)) IN
              probe_values(g)[1] =
                 MapOf(IF g.max = 0 THEN <<>>
                       ELSE [i \in DOMAIN keys |-> <<keys[i], Pick(ProbesOf(g.value), i)>>])
           /\ \A i \in DOMAIN probe_values(g) : probe_values(g)[i] \in {probe_values(g)[1], Null}
           /\ g.nulls => \E i \in DOMAIN probe_values(g) : probe_values(g)[i] = Null
<1> DEFINE keys == FirstOfEach(ProbesOf(g.key))
           x == MapOf(IF g.max = 0 THEN <<>>
                      ELSE [i \in DOMAIN keys |-> <<keys[i], Pick(ProbesOf(g.value), i)>>])
<1>1. probe_values(g) = WithNull(<<x>>, g)
    BY DEF probe_values, WithNull, Pick
<1>15. OneAnd(probe_values(g), x, g)
    BY <1>1, OneAndNull
<1>2. /\ IsSequence(probe_values(g)) /\ 1 \in DOMAIN probe_values(g) /\ probe_values(g)[1] = x
      /\ \A i \in DOMAIN probe_values(g) : probe_values(g)[i] \in {x, Null}
      /\ g.nulls => \E i \in DOMAIN probe_values(g) : probe_values(g)[i] = Null
    BY <1>15 DEF OneAnd
<1>3. probe_values(g) \in Seq(Values)
    BY <1>2, SequenceOfValues, GenParameters
<1>4. QED
    BY <1>2, <1>3 DEF x

(* A struct is tried once for every probe of its longest field, at least. *)
Round(g, r) ==
    StructOf([f \in DOMAIN g.fields |-> <<g.fields[f][1], Pick(ProbesOf(g.fields[f][2]), r)>>])

LEMMA StructProbes ==
    ASSUME NEW g \in Gens, g.g = "struct",
           \A f \in DOMAIN g.fields : IsSequence(ProbesOf(g.fields[f][2]))
    PROVE  /\ probe_values(g) \in Seq(Values)
           /\ \E rounds \in Nat \ {0} :
                /\ \A f \in DOMAIN g.fields : Len(ProbesOf(g.fields[f][2])) <= rounds
                /\ \A r \in 1..rounds : r \in DOMAIN probe_values(g) /\ probe_values(g)[r] = Round(g, r)
                /\ \A i \in DOMAIN probe_values(g) :
                      probe_values(g)[i] = Null \/ \E r \in 1..rounds : probe_values(g)[i] = Round(g, r)
           /\ g.nulls => \E i \in DOMAIN probe_values(g) : probe_values(g)[i] = Null
<1> DEFINE fields == [f \in DOMAIN g.fields |-> ProbesOf(g.fields[f][2])]
           h == [f \in DOMAIN g.fields |-> Len(ProbesOf(g.fields[f][2]))]
           n == Len(g.fields)
           rounds == Max({1} \cup {Len(fields[f]) : f \in DOMAIN fields})
           e == [r \in 1..rounds |-> Round(g, r)]
<1>1. n \in Nat /\ DOMAIN g.fields = 1..n
    <2>1. g.fields \in Seq({g.fields[f] : f \in DOMAIN g.fields})
        BY GenParameters DEF GenHasParameters
    <2>2. QED
        BY <2>1
<1>2. probe_values(g) = WithNull(e, g)
    <2> DEFINE pick(s, i) == IF s = <<>> THEN Null ELSE s[((i - 1) % Len(s)) + 1]
               raw == [r \in 1..rounds |->
                         StructOf([f \in DOMAIN g.fields |-> <<g.fields[f][1], pick(fields[f], r)>>])]
    <2>1. probe_values(g) = raw \o (IF g.nulls THEN <<Null>> ELSE <<>>)
        BY DEF probe_values
    <2> HIDE DEF rounds
    <2>2. raw = e
        <3>1. ASSUME NEW r \in 1..rounds PROVE raw[r] = e[r]
            <4> DEFINE a == [f \in DOMAIN g.fields |-> <<g.fields[f][1], pick(fields[f], r)>>]
                       b == [f \in DOMAIN g.fields |-> <<g.fields[f][1], Pick(ProbesOf(g.fields[f][2]), r)>>]
            <4>1. a = b
                BY DEF Pick
            <4>2. raw[r] = StructOf(a) /\ e[r] = StructOf(b)
                BY DEF Round
            <4> HIDE DEF a, b, raw, e
            <4>3. QED
                BY <4>1, <4>2
        <3>2. QED
            BY <3>1
    <2> HIDE DEF raw, e
    <2>3. QED
        BY <2>1, <2>2 DEF WithNull
<1>3. rounds \in Nat /\ rounds >= 1 /\ \A f \in 1..n : h[f] <= rounds
    <2>1. h \in [1..n -> Nat]
        BY <1>1 DEF IsSequence
    <2>2. {Len(fields[f]) : f \in DOMAIN fields} = {h[f] : f \in 1..n}
        BY <1>1
    <2> HIDE DEF h, fields, n
    <2>3. QED
        BY <1>1, <2>1, <2>2, LongestIsReached
<1> HIDE DEF rounds, fields
<1> DEFINE T == {Round(g, r) : r \in 1..rounds}
<1>5. DOMAIN e = 1..rounds /\ e = [r \in 1..rounds |-> e[r]]
      /\ \A r \in 1..rounds : e[r] = Round(g, r) /\ e[r] \in T
    OBVIOUS
<1> HIDE DEF e, T
<1>4. e \in Seq(T) /\ DOMAIN e = 1..rounds
    <2>1. e \in [1..rounds -> T]
        BY <1>5
    <2>2. QED
        BY <1>3, <1>5, <2>1
<1> DEFINE w == WithNull(e, g)
<1> HIDE DEF w
<1>45. /\ w \in Seq(T \cup {Null})
       /\ \A i \in DOMAIN e : i \in DOMAIN w /\ w[i] = e[i]
       /\ \A i \in DOMAIN w : w[i] = Null \/ \E j \in DOMAIN e : w[i] = e[j]
       /\ g.nulls => \E i \in DOMAIN w : w[i] = Null
    BY <1>4, NullsLast DEF w
<1>46. probe_values(g) = w
    BY <1>2 DEF w
<1>6. /\ \A i \in DOMAIN e : i \in DOMAIN probe_values(g) /\ probe_values(g)[i] = e[i]
      /\ \A i \in DOMAIN probe_values(g) :
            probe_values(g)[i] = Null \/ \E j \in DOMAIN e : probe_values(g)[i] = e[j]
    BY <1>45, <1>46
<1>7. IsSequence(probe_values(g)) /\ (g.nulls => \E i \in DOMAIN probe_values(g) : probe_values(g)[i] = Null)
    BY <1>45, <1>46 DEF IsSequence
<1>8. probe_values(g) \in Seq(Values)
    BY <1>7, SequenceOfValues, GenParameters
<1>9. \A f \in DOMAIN g.fields : Len(ProbesOf(g.fields[f][2])) <= rounds
    BY <1>1, <1>3
<1>10. rounds \in Nat \ {0}
    BY <1>3
<1>11. /\ \A r \in 1..rounds : r \in DOMAIN probe_values(g) /\ probe_values(g)[r] = Round(g, r)
       /\ \A i \in DOMAIN probe_values(g) :
             probe_values(g)[i] = Null \/ \E r \in 1..rounds : probe_values(g)[i] = Round(g, r)
    BY <1>5, <1>6
<1>12. QED
    BY <1>7, <1>8, <1>9, <1>10, <1>11

(* A value some array of the type has been built with.                     *)
Built(ty, v) ==
    \E values \in Seq(Values) : IsOk(build_array(ty, values)) /\ \E i \in DOMAIN values : values[i] = v

BuiltPairs == {p \in Types \X Values : Built(p[1], p[2])}

LEMMA BuiltAmong ==
    ASSUME NEW ty \in Types, NEW values \in Seq(Values), IsOk(build_array(ty, values)), NEW i \in DOMAIN values
    PROVE  <<ty, values[i]>> \in BuiltPairs
<1>1. values[i] \in Values /\ Built(ty, values[i])
    BY DEF Built
<1>2. QED
    BY <1>1 DEF BuiltPairs

LEMMA ArrayPartsBuilt ==
    ASSUME NEW ty \in Types, ty.k = "ARRAY", NEW kept \in Seq(Shaped(ty)), IsOk(build_nested(ty, kept)),
           NEW i \in DOMAIN kept, ~IsNull(kept[i])
    PROVE  PartsIn(BuiltPairs, ty, kept[i])
<1> DEFINE valid == [n \in DOMAIN kept |-> ~IsNull(kept[n])]
           lists == [n \in DOMAIN kept |-> IF valid[n] THEN kept[n].items ELSE <<>>]
           flat == FlattenSeq(lists)
           child == build_array(ty.of, flat)
<1>0. ty.of \in Types
    BY TypesAreTrees DEF PartsOf
<1>1. DOMAIN kept = 1..Len(kept) /\ Len(kept) \in Nat
    OBVIOUS
<1>2. build_nested(ty, kept) =
         IF ~(Len(flat) <= MaxOffset) THEN Err
         ELSE Then(child, LAMBDA x : Ok([valid |-> valid, offsets |-> Offsets(lists), child |-> x]))
    BY DEF build_nested
<1>3. IsOk(child)
    <2> HIDE DEF valid, lists, flat, child
    <2>1. QED
        BY <1>2 DEF Then, IsOk
<1>4. ASSUME NEW n \in 1..Len(kept)
      PROVE  lists[n] \in Seq(Values) /\ (~IsNull(kept[n]) => lists[n] = kept[n].items)
    <2>1. kept[n] \in Values /\ (IsNull(kept[n]) \/ kept[n].k = "list")
        BY DEF Shaped
    <2>2. ~IsNull(kept[n]) => kept[n].items \in Seq(Values)
        BY <2>1, ValuesHaveParts
    <2>3. <<>> \in Seq(Values)
        OBVIOUS
    <2>4. QED
        BY <1>1, <2>2, <2>3
<1>5. lists \in Seq(Seq(Values)) /\ Len(lists) = Len(kept)
    <2>1. lists \in [1..Len(kept) -> Seq(Values)]
        BY <1>1, <1>4
    <2> HIDE DEF lists
    <2>2. QED
        BY <1>1, <2>1
<1>6. lists[i] = kept[i].items /\ i \in 1..Len(lists) /\ lists[i] \in Seq(Values)
    BY <1>1, <1>4, <1>5
<1> HIDE DEF lists, valid
<1>7. flat \in Seq(Values)
    BY <1>5, JoinedStarts, JoinedType
<1>8. ASSUME NEW j \in DOMAIN kept[i].items PROVE <<ty.of, kept[i].items[j]>> \in BuiltPairs
    <2> DEFINE at == Offsets(lists)[i] + j
    <2>1. j \in 1..Len(lists[i])
        BY <1>6
    <2>2. at \in 1..Len(flat) /\ flat[at] = lists[i][j]
        BY <1>5, <1>6, <2>1, OffsetsPlace
    <2> HIDE DEF at, flat
    <2>3. at \in DOMAIN flat /\ flat[at] = kept[i].items[j]
        BY <1>6, <1>7, <2>2
    <2>4. QED
        BY <1>0, <1>3, <1>7, <2>3, BuiltAmong
<1>9. QED
    BY <1>8 DEF PartsIn

LEMMA MapPartsBuilt ==
    ASSUME NEW ty \in Types, ty.k = "MAP", NEW kept \in Seq(Shaped(ty)), IsOk(build_nested(ty, kept)),
           NEW i \in DOMAIN kept, ~IsNull(kept[i])
    PROVE  PartsIn(BuiltPairs, ty, kept[i])
<1> DEFINE valid == [n \in DOMAIN kept |-> ~IsNull(kept[n])]
           entries == [n \in DOMAIN kept |-> IF valid[n] THEN EntriesOf(kept[n]) ELSE <<>>]
           flat == FlattenSeq(entries)
           side(n) == [e \in DOMAIN flat |-> flat[e][n]]
           keys == build_array(ty.key, side(1))
           vals == build_array(ty.val, side(2))
           sound == Len(flat) <= MaxOffset /\ \A n \in DOMAIN entries : KeysOk(entries[n])
<1>0. ty.key \in Types /\ ty.val \in Types
    BY TypesAreTrees DEF PartsOf
<1>1. DOMAIN kept = 1..Len(kept) /\ Len(kept) \in Nat
    OBVIOUS
<1>2. build_nested(ty, kept) =
         IF ~sound THEN Err
         ELSE Then(Collect(<<keys, vals>>), LAMBDA arrays :
                   Ok([valid |-> valid, offsets |-> Offsets(entries), keys |-> arrays[1], vals |-> arrays[2]]))
    BY DEF build_nested
<1>3. IsOk(keys) /\ IsOk(vals) /\ sound
    <2> HIDE DEF valid, entries, flat, keys, vals, sound
    <2>1. sound /\ IsOk(Collect(<<keys, vals>>))
        BY <1>2 DEF Then, IsOk
    <2>2. QED
        BY <2>1, BothBuilt
<1>4. ASSUME NEW n \in 1..Len(kept)
      PROVE  entries[n] \in Seq(Values \X Values) /\ (~IsNull(kept[n]) => entries[n] = EntriesOf(kept[n]))
    <2>1. kept[n] \in Values /\ (IsNull(kept[n]) \/ kept[n].k \in {"map", "struct"})
        BY DEF Shaped
    <2>2. ~IsNull(kept[n]) => EntriesOf(kept[n]) \in Seq(Values \X Values)
        BY <2>1, EntriesType
    <2>3. <<>> \in Seq(Values \X Values)
        OBVIOUS
    <2>4. QED
        BY <1>1, <2>2, <2>3
<1>5. entries \in Seq(Seq(Values \X Values)) /\ Len(entries) = Len(kept) /\ DOMAIN entries = 1..Len(kept)
    <2>1. entries \in [1..Len(kept) -> Seq(Values \X Values)]
        BY <1>1, <1>4
    <2> HIDE DEF entries
    <2>2. QED
        BY <1>1, <2>1
<1>6. entries[i] = EntriesOf(kept[i]) /\ i \in 1..Len(entries) /\ entries[i] \in Seq(Values \X Values)
    BY <1>1, <1>4, <1>5
<1>7. KeysOk(EntriesOf(kept[i]))
    BY <1>3, <1>5, <1>6
<1> HIDE DEF entries, valid
<1>8. flat \in Seq(Values \X Values)
    BY <1>5, JoinedStarts, JoinedType
<1>9. \A j \in DOMAIN EntriesOf(kept[i]) : \E e \in DOMAIN flat : flat[e] = EntriesOf(kept[i])[j]
    <2> TAKE j \in DOMAIN EntriesOf(kept[i])
    <2> DEFINE at == Offsets(entries)[i] + j
    <2>1. j \in 1..Len(entries[i])
        BY <1>6
    <2>2. at \in 1..Len(flat) /\ flat[at] = entries[i][j]
        BY <1>5, <1>6, <2>1, OffsetsPlace
    <2> HIDE DEF at, flat
    <2>3. at \in DOMAIN flat /\ flat[at] = EntriesOf(kept[i])[j]
        BY <1>6, <1>8, <2>2
    <2>4. QED
        BY <2>3
<1> HIDE DEF flat
<1>10. side(1) \in Seq(Values) /\ side(2) \in Seq(Values) /\ DOMAIN side(1) = DOMAIN flat /\ DOMAIN side(2) = DOMAIN flat
    <2>1. DOMAIN flat = 1..Len(flat) /\ Len(flat) \in Nat
        BY <1>8
    <2>2. side(1) \in [1..Len(flat) -> Values] /\ side(2) \in [1..Len(flat) -> Values]
        BY <1>8, <2>1
    <2>3. side(1) \in Seq(Values) /\ side(2) \in Seq(Values)
        <3> HIDE DEF side
        <3>1. QED
            BY <2>1, <2>2
    <2>4. QED
        BY <2>3
<1>11. ASSUME NEW j \in DOMAIN EntriesOf(kept[i])
       PROVE  <<ty.key, EntriesOf(kept[i])[j][1]>> \in BuiltPairs /\ <<ty.val, EntriesOf(kept[i])[j][2]>> \in BuiltPairs
    <2>1. PICK e \in DOMAIN flat : flat[e] = EntriesOf(kept[i])[j]
        BY <1>9
    <2>2. /\ side(1)[e] = EntriesOf(kept[i])[j][1] /\ side(2)[e] = EntriesOf(kept[i])[j][2]
          /\ e \in DOMAIN side(1) /\ e \in DOMAIN side(2)
        BY <1>10, <2>1
    <2> HIDE DEF side
    <2>3. <<ty.key, side(1)[e]>> \in BuiltPairs
        BY <1>0, <1>3, <1>10, <2>2, BuiltAmong
    <2>4. <<ty.val, side(2)[e]>> \in BuiltPairs
        BY <1>0, <1>3, <1>10, <2>2, BuiltAmong
    <2>5. QED
        BY <2>2, <2>3, <2>4
<1>12. QED
    BY <1>7, <1>11 DEF PartsIn

LEMMA StructPartsBuilt ==
    ASSUME NEW ty \in Types, ty.k = "STRUCT", NEW kept \in Seq(Shaped(ty)), IsOk(build_nested(ty, kept)),
           NEW i \in DOMAIN kept, ~IsNull(kept[i])
    PROVE  PartsIn(BuiltPairs, ty, kept[i])
<1> DEFINE valid == [n \in DOMAIN kept |-> ~IsNull(kept[n])]
           slots == [n \in DOMAIN kept |-> Slots(ty, kept[n])]
           rows_ == Collect(slots)[1]
           field(f) == [n \in DOMAIN rows_ |-> rows_[n][f]]
           built == [f \in DOMAIN ty.fields |-> build_array(ty.fields[f][2], field(f))]
<1>0. \A f \in DOMAIN ty.fields : ty.fields[f][2] \in Types
    BY TypesAreTrees DEF PartsOf
<1>1. DOMAIN kept = 1..Len(kept) /\ Len(kept) \in Nat
    OBVIOUS
<1>2. build_nested(ty, kept) =
         Then(Collect(slots), LAMBDA rs :
             Then(Collect([f \in DOMAIN ty.fields |->
                              build_array(ty.fields[f][2], [n \in DOMAIN rs |-> rs[n][f]])]),
                  LAMBDA columns_ : Ok([valid |-> valid, columns |-> columns_])))
    BY DEF build_nested, CollectEach
<1>3. IsOk(Collect(slots)) /\ IsOk(Collect(built))
    <2>1. /\ IsOk(Collect(slots))
          /\ build_nested(ty, kept) = Then(Collect(built), LAMBDA columns_ : Ok([valid |-> valid, columns |-> columns_]))
        <3> HIDE DEF valid, slots
        <3>1. QED
            BY <1>2 DEF Then, IsOk
    <2> HIDE DEF valid, slots, built
    <2>2. QED
        BY <2>1 DEF Then, IsOk
<1>4. /\ \A n \in 1..Len(kept) : IsOk(Slots(ty, kept[n]))
      /\ rows_ = [n \in 1..Len(kept) |-> Slots(ty, kept[n])[1]]
    <2>1. DOMAIN slots = 1..Len(kept) /\ \A n \in 1..Len(kept) : slots[n] = Slots(ty, kept[n])
        BY <1>1
    <2>2. (\A n \in DOMAIN slots : IsOk(slots[n])) /\ rows_ = [n \in DOMAIN slots |-> slots[n][1]]
        <3> HIDE DEF slots
        <3>1. QED
            BY <1>3, CollectedAll
    <2> HIDE DEF slots, rows_
    <2>3. QED
        BY <2>1, <2>2
<1>5. \A f \in DOMAIN ty.fields : IsOk(build_array(ty.fields[f][2], field(f)))
    <2> HIDE DEF field
    <2>1. DOMAIN built = DOMAIN ty.fields
          /\ \A f \in DOMAIN ty.fields : built[f] = build_array(ty.fields[f][2], field(f))
        OBVIOUS
    <2> HIDE DEF built
    <2>2. \A f \in DOMAIN built : IsOk(built[f])
        BY <1>3, CollectedAll
    <2>3. QED
        BY <2>1, <2>2
<1> HIDE DEF rows_, built, slots
<1>6. ASSUME NEW f \in DOMAIN ty.fields PROVE <<ty.fields[f][2], Slots(ty, kept[i])[1][f]>> \in BuiltPairs
    <2>1. field(f) = [n \in 1..Len(kept) |-> Slots(ty, kept[n])[1][f]]
        BY <1>4
    <2>2. \A n \in 1..Len(kept) : Slots(ty, kept[n])[1][f] \in Values
        BY <1>4, SlotsType
    <2>3. field(f) \in [1..Len(kept) -> Values]
        BY <2>1, <2>2
    <2>4. i \in DOMAIN field(f) /\ field(f)[i] = Slots(ty, kept[i])[1][f]
        BY <1>1, <2>1
    <2> HIDE DEF field
    <2>5. field(f) \in Seq(Values)
        BY <1>1, <2>3
    <2>6. QED
        BY <1>0, <1>5, <2>4, <2>5, BuiltAmong
<1>7. QED
    BY <1>1, <1>4, <1>6 DEF PartsIn

LEMMA BuiltParts ==
    ASSUME Recursion, NEW ty \in Types, NEW v \in Values, Built(ty, v)
    PROVE  /\ IsOk(Store(ty, v))
           /\ Nested(ty) /\ ~IsNull(Store(ty, v)[1]) => PartsIn(BuiltPairs, ty, Store(ty, v)[1])
<1>1. PICK values \in Seq(Values) : IsOk(build_array(ty, values)) /\ \E i \in DOMAIN values : values[i] = v
    BY DEF Built
<1>2. PICK i \in DOMAIN values : values[i] = v
    BY <1>1
<1> DEFINE kept == [n \in DOMAIN values |-> Store(ty, values[n])[1]]
<1>3. (\A n \in DOMAIN values : IsOk(Store(ty, values[n]))) /\ build_array(ty, values) = FinishColumn(ty, kept)
    BY <1>1, ArrayOfStored
<1>4. kept[i] = Store(ty, v)[1] /\ i \in DOMAIN kept
    BY <1>2
<1>5. ASSUME Nested(ty), ~IsNull(Store(ty, v)[1]) PROVE PartsIn(BuiltPairs, ty, Store(ty, v)[1])
    <2>1. \A n \in DOMAIN values : kept[n] \in Shaped(ty)
        <3> TAKE n \in DOMAIN values
        <3>1. values[n] \in Values /\ IsOk(Store(ty, values[n]))
            BY <1>3
        <3>2. QED
            BY <1>5, <3>1, StoreShaped
    <2>2. DOMAIN values = 1..Len(values) /\ Len(values) \in Nat
        OBVIOUS
    <2>3. kept \in [1..Len(values) -> Shaped(ty)]
        BY <2>1, <2>2
    <2> HIDE DEF kept
    <2>4. kept \in Seq(Shaped(ty))
        BY <2>2, <2>3
    <2>5. IsOk(build_nested(ty, kept))
        BY <1>1, <1>3, <1>5 DEF FinishColumn, Recursion
    <2>6. ~IsNull(kept[i])
        BY <1>4, <1>5
    <2>7. PartsIn(BuiltPairs, ty, kept[i])
        <3>1. CASE ty.k = "ARRAY"
            BY <1>4, <2>4, <2>5, <2>6, <3>1, ArrayPartsBuilt
        <3>2. CASE ty.k = "MAP"
            BY <1>4, <2>4, <2>5, <2>6, <3>2, MapPartsBuilt
        <3>3. CASE ty.k = "STRUCT"
            BY <1>4, <2>4, <2>5, <2>6, <3>3, StructPartsBuilt
        <3>4. QED
            BY <1>5, <3>1, <3>2, <3>3 DEF Nested
    <2>8. QED
        BY <1>4, <2>7
<1>6. QED
    BY <1>2, <1>3, <1>5

(* What is drawn of nested values.                                         *)
LEMMA ArrayDraws ==
    ASSUME GeneratorRecursion, NEW g \in Gens, g.g = "array", NEW v \in Draws(g), v # Null
    PROVE  \E s : v = List(s) /\ s \in Seq(Draws(g.element)) /\ (g.max = 0 => s = <<>>)
<1>1. g.min \in Nat /\ g.max \in Nat /\ g.element \in Gens
    BY GenParameters DEF GenHasParameters, GenPartsOf
<1>2. DrawsOf(g.element) = Draws(g.element)
    BY <1>1 DEF GeneratorRecursion
<1> DEFINE S == Draws(g.element)
<1>3. PICK s \in Lists(S, ListSizes(g)) : v = List(s)
    BY <1>2 DEF Draws, IsRange
<1> HIDE DEF S
<1>4. PICK n \in ListSizes(g) : s \in [1..n -> S]
    BY DEF Lists
<1>5. n \in Nat /\ n <= g.max
    BY <1>1 DEF ListSizes
<1>6. s \in Seq(S) /\ (g.max = 0 => s = <<>>)
    BY <1>1, <1>4, <1>5
<1>7. QED
    BY <1>3, <1>6 DEF S

StructDrawn(g, d) == StructOf([f \in DOMAIN g.fields |-> <<g.fields[f][1], d[f]>>])

LEMMA StructDraws ==
    ASSUME GeneratorRecursion, NEW g \in Gens, g.g = "struct", NEW v \in Draws(g), v # Null
    PROVE  \E d : v = StructDrawn(g, d) /\ \A f \in DOMAIN g.fields : d[f] \in Draws(g.fields[f][2])
<1>1. \A f \in DOMAIN g.fields : g.fields[f][2] \in Gens
    BY GenParameters DEF GenPartsOf
<1>2. \A f \in DOMAIN g.fields : DrawsOf(g.fields[f][2]) = Draws(g.fields[f][2])
    BY <1>1 DEF GeneratorRecursion
<1> DEFINE D == {e \in [DOMAIN g.fields -> UNION {DrawsOf(g.fields[f][2]) : f \in DOMAIN g.fields}] :
                   \A f \in DOMAIN g.fields : e[f] \in DrawsOf(g.fields[f][2])}
<1>3. v \in {StructDrawn(g, d) : d \in D}
    BY DEF Draws, IsRange, StructDrawn
<1>4. \A d \in D : \A f \in DOMAIN g.fields : d[f] \in DrawsOf(g.fields[f][2])
    OBVIOUS
<1> HIDE DEF D
<1>5. PICK d \in D : v = StructDrawn(g, d)
    BY <1>3
<1>6. QED
    BY <1>2, <1>4, <1>5

(* What nested columns take: texts that parse, and values of their shape.  *)
LEMMA TakenShapes ==
    ASSUME NEW ty, Nested(ty), NEW v, ~IsNull(v), IsOk(Store(ty, v))
    PROVE  \/ v.k = "str" /\ IsOk(ParseJson(v.text))
           \/ /\ Store(ty, v) = Ok(v)
              /\ \/ ty.k = "ARRAY" /\ v.k = "list"
                 \/ ty.k = "MAP" /\ v.k \in {"map", "struct"}
                 \/ ty.k = "STRUCT" /\ v.k \in {"struct", "list"}
<1>1. Store(ty, v) = shape_nested(ty, v)
    BY DEF Store
<1>2. CASE v.k = "str"
    <2>1. IsOk(ParseJson(v.text))
        BY <1>1, <1>2, OkFacts DEF shape_nested, Provided
    <2>2. QED
        BY <1>2, <2>1
<1>3. CASE v.k # "str"
    <2> DEFINE fits == \/ ty.k = "ARRAY" /\ v.k = "list"
                       \/ ty.k = "MAP" /\ v.k \in {"map", "struct"}
                       \/ ty.k = "STRUCT" /\ v.k \in {"struct", "list"}
    <2>1. shape_nested(ty, v) = IF IsOk(Ok(v)) /\ (IsNull(v) \/ fits) THEN Ok(v) ELSE Err
        BY <1>3, OkFacts DEF shape_nested, Provided
    <2> HIDE DEF fits
    <2>2. fits /\ Store(ty, v) = Ok(v)
        BY <1>1, <2>1, OkFacts
    <2>3. QED
        BY <2>2 DEF fits
<1>4. QED
    BY <1>2, <1>3

LEMMA ShapeTaken ==
    ASSUME NEW ty, NEW v,
           \/ ty.k = "ARRAY" /\ v.k = "list"
           \/ ty.k = "MAP" /\ v.k \in {"map", "struct"}
           \/ ty.k = "STRUCT" /\ v.k \in {"struct", "list"}
    PROVE  Store(ty, v) = Ok(v) /\ IsOk(Store(ty, v)) /\ Store(ty, v)[1] = v /\ ~IsNull(v)
<1>1. ~IsNull(v) /\ Nested(ty) /\ v.k # "str"
    BY DEF IsNull, Nested
<1>2. Store(ty, v) = shape_nested(ty, v)
    BY <1>1 DEF Store
<1> DEFINE fits == \/ ty.k = "ARRAY" /\ v.k = "list"
                   \/ ty.k = "MAP" /\ v.k \in {"map", "struct"}
                   \/ ty.k = "STRUCT" /\ v.k \in {"struct", "list"}
<1>3. fits
    OBVIOUS
<1>4. shape_nested(ty, v) = IF IsOk(Ok(v)) /\ (IsNull(v) \/ fits) THEN Ok(v) ELSE Err
    BY <1>1, OkFacts DEF shape_nested, Provided
<1> HIDE DEF fits
<1>5. QED
    BY <1>1, <1>2, <1>3, <1>4, OkFacts

(* No range draws a text that parses, or a value of a nested shape.        *)
LEMMA RangesNeverNested ==
    ASSUME NEW ty, Nested(ty), NEW g, IsRange(g), NEW x
    PROVE  ~IsOk(Store(ty, At(g, x))) /\ ~IsOk(Store(ty, Float(x)))
<1>1. ASSUME NEW v, v.k \in {"int", "float", "dec", "ts"} PROVE ~IsOk(Store(ty, v))
    BY <1>1, TakenShapes DEF IsNull
<1>2. ASSUME NEW m, m.t = "addr" \/ (m.t = "word" /\ m.w = "text") PROVE ~IsOk(Store(ty, Str(m)))
    <2>1. ParseJson(m) = Err
        BY <1>2 DEF ParseJson
    <2>2. Str(m).k = "str" /\ Str(m).text = m
        BY DEF Str
    <2>3. QED
        BY <2>1, <2>2, TakenShapes, OkFacts DEF IsNull
<1>3. ~IsOk(Store(ty, Float(x)))
    BY <1>1 DEF Float
<1>4. ~IsOk(Store(ty, At(g, x)))
    <2>1. CASE g.g \in {"int", "float", "decimal", "datetime"}
        <3>1. At(g, x).k \in {"int", "float", "dec", "ts"}
            BY <2>1, PointsOfRanges DEF Number, Float, Dec, Moment
        <3>2. QED
            BY <1>1, <3>1
    <2>2. CASE g.g = "text"
        <3> DEFINE t == Word("text", x)
        <3>1. At(g, x) = Str(t)
            BY <2>2, PointsOfRanges DEF Plain
        <3>2. t.t = "word" /\ t.w = "text"
            BY DEF Word
        <3> HIDE DEF t
        <3>3. ~IsOk(Store(ty, Str(t)))
            BY <1>2, <3>2
        <3>4. QED
            BY <3>1, <3>3
    <2>3. CASE g.g = "ip"
        <3> DEFINE t == Address(x, g.bits)
        <3>1. At(g, x) = Str(t)
            BY <2>3, PointsOfRanges
        <3>2. t.t = "addr"
            BY DEF Address
        <3> HIDE DEF t
        <3>3. ~IsOk(Store(ty, Str(t)))
            BY <1>2, <3>2
        <3>4. QED
            BY <3>1, <3>3
    <2>4. QED
        BY <2>1, <2>2, <2>3 DEF IsRange
<1>5. QED
    BY <1>3, <1>4

(* As text a nested value is taken by what takes any text, and by nothing  *)
(* else; how long it is matters to a CHAR alone.                           *)
LEMMA NestedAsText ==
    ASSUME NEW ty \in Types, ~Nested(ty), ty.k \notin {"CHAR", "AGG_STATE"},
           NEW v, v.k \in {"list", "map", "struct"}
    PROVE  IsOk(Store(ty, v)) <=> ty.k \in {"STRING", "HLL", "JSON", "VARIANT"}
<1>1. ~IsNull(v) /\ Store(ty, v) = IF IsOk(Cell(ty, v)) THEN Ok(<<Cell(ty, v)[1]>>) ELSE Err
    BY DEF Store, Then, IsNull
<1>2. IsOk(Store(ty, v)) <=> IsOk(Cell(ty, v))
    BY <1>1, OkFacts
<1>3. ty.k \in ScalarKinds /\ DOMAIN IntMax = {"TINYINT", "SMALLINT", "INT", "BIGINT"}
    BY TypesAreTrees, WidthsNest DEF TypeHasParameters
<1>4. /\ as_bool(v) = Err /\ WholeNumber(v) = Err /\ as_f64(v) = Err /\ DecimalText(v) = Err
      /\ as_timestamp_micros(v) = Err
    BY DEF as_bool, WholeNumber, as_f64, DecimalText, as_timestamp_micros
<1>5. CASE ty.k = "BOOLEAN"
    BY <1>2, <1>4, <1>5, CellByKind, OkFacts
<1>6. CASE ty.k \in {"TINYINT", "SMALLINT", "INT", "BIGINT", "BITMAP"}
    <2>1. \A lo, hi : ~IsOk(as_int(v, lo, hi))
        BY <1>4, OkFacts DEF as_int, Provided
    <2>2. QED
        BY <1>2, <1>6, <2>1, CellByKind
<1>7. CASE ty.k \in {"FLOAT", "DOUBLE", "QUANTILE_STATE"}
    <2>1. Cell(ty, v) = as_f64(v) \/ Cell(ty, v) = Provided(as_f64(v), FitsFloat)
        BY <1>7, CellByKind
    <2>2. Provided(as_f64(v), FitsFloat) = Err
        BY <1>4, OkFacts DEF Provided
    <2>3. QED
        BY <1>2, <1>4, <1>7, <2>1, <2>2, OkFacts
<1>8. CASE ty.k = "DECIMAL"
    <2>1. \A p, s : PaddedUnits(v, s) = Err
        BY <1>4, OkFacts DEF PaddedUnits, Then
    <2>2. \A p, s : ~IsOk(as_decimal(v, p, s)) /\ ~IsOk(as_decimal256(v, p, s))
        BY <2>1, OkFacts DEF as_decimal, as_decimal256, Provided
    <2>3. QED
        BY <1>2, <1>8, <2>2, CellByKind
<1>9. CASE ty.k = "DATE"
    <2>1. as_date(v) = Err
        BY <1>4, OkFacts DEF as_date, Then
    <2>2. QED
        BY <1>2, <1>9, <2>1, CellByKind, OkFacts DEF Provided
<1>10. CASE ty.k = "DATETIME"
    <2>1. Cell(ty, v) = LET unit == TenTo[SubSecond - ty.s]
           IN  Then(as_timestamp_micros(v), LAMBDA m :
                   IF m \in MIN_DATE_DAYS * MicrosPerDay .. (MAX_DATE_DAYS + 1) * MicrosPerDay - 1
                   THEN Ok((m \div unit) * unit) ELSE Err)
        BY <1>3, <1>10 DEF Cell
    <2>2. Cell(ty, v) = Err
        BY <1>4, <2>1, OkFacts DEF Then
    <2>3. QED
        BY <1>2, <1>10, <2>2, OkFacts
<1>11. CASE ty.k \in {"STRING", "HLL", "LARGEINT", "JSON", "VARIANT", "IPV4", "IPV6"}
    <2>1. Cell(ty, v) = checked_text(v, ty)
        BY <1>11, CellByKind
    <2>2. CASE ty.k \in {"STRING", "HLL", "JSON", "VARIANT"}
        BY <1>2, <2>1, <2>2, OkFacts DEF checked_text
    <2>3. CASE ty.k = "LARGEINT"
        <3>1. as_int(v, -I128Max, I128Max) = Err
            BY <1>4, OkFacts DEF as_int, Provided
        <3>2. QED
            BY <1>2, <2>1, <2>3, <3>1, OkFacts DEF checked_text, Then
    <2>4. CASE ty.k \in {"IPV4", "IPV6"}
        BY <1>2, <2>1, <2>4, OkFacts DEF checked_text
    <2>5. QED
        BY <1>11, <2>2, <2>3, <2>4
<1>12. QED
    BY <1>3, <1>5, <1>6, <1>7, <1>8, <1>9, <1>10, <1>11 DEF ScalarKinds, Nested

(* What the check before the run vouches for: nulls, values that have been *)
(* built, and all that is drawn by a generator whose probes have been, and *)
(* which the column is not blind to.                                       *)
TriedIn(ty, g) ==
    \A i \in DOMAIN probe_values(g) : IsNull(probe_values(g)[i]) \/ Built(ty, probe_values(g)[i])

Vouched(ty, g) == g \in Gens /\ ArrowOk(ty) /\ ~Blind(g, ty) /\ TriedIn(ty, g)

Sound(ty, v) ==
    \/ IsNull(v)
    \/ Built(ty, v)
    \/ \E g \in Gens : Vouched(ty, g) /\ v \in Draws(g)

SoundPairs == {p \in Types \X Values : Sound(p[1], p[2])}

StoredWhole(ty, v) ==
    /\ IsOk(Store(ty, v))
    /\ Nested(ty) /\ ~IsNull(Store(ty, v)[1]) => PartsIn(SoundPairs, ty, Store(ty, v)[1])

LEMMA SoundIsIn ==
    ASSUME NEW ty \in Types, NEW v \in Values
    PROVE  <<ty, v>> \in SoundPairs <=> Sound(ty, v)
BY DEF SoundPairs

LEMMA DrawnIsIn ==
    ASSUME NEW ty \in Types, NEW g \in Gens, Vouched(ty, g), NEW v \in Draws(g)
    PROVE  <<ty, v>> \in SoundPairs
<1>1. v \in Values
    BY GenParameters
<1>2. QED
    BY <1>1, SoundIsIn DEF Sound

LEMMA BuiltIsIn ==
    ASSUME NEW ty, NEW v, <<ty, v>> \in BuiltPairs
    PROVE  <<ty, v>> \in SoundPairs /\ ty \in Types /\ v \in Values /\ Built(ty, v)
<1>1. ty \in Types /\ v \in Values /\ Built(ty, v)
    BY DEF BuiltPairs
<1>2. QED
    BY <1>1, SoundIsIn DEF Sound

LEMMA BuiltIsWhole ==
    ASSUME Recursion, NEW ty \in Types, NEW v \in Values, Built(ty, v)
    PROVE  StoredWhole(ty, v)
<1>1. /\ IsOk(Store(ty, v))
      /\ Nested(ty) /\ ~IsNull(Store(ty, v)[1]) => PartsIn(BuiltPairs, ty, Store(ty, v)[1])
    BY BuiltParts
<1>2. ASSUME NEW w, PartsIn(BuiltPairs, ty, w) PROVE PartsIn(SoundPairs, ty, w)
    BY <1>2, BuiltIsIn DEF PartsIn
<1>3. QED
    BY <1>1, <1>2 DEF StoredWhole

LEMMA ArrowParts ==
    ASSUME NEW ty \in Types, ArrowOk(ty)
    PROVE  /\ ty.k # "AGG_STATE" /\ (ty.k = "MAP" => ~Nested(ty.key))
           /\ \A part \in PartsOf(ty) : part \in Types /\ ArrowOk(part)
<1>1. /\ TypesIn(ty) = {ty} \cup UNION {TypesIn(part) : part \in PartsOf(ty)}
      /\ PartsOf(ty) \subseteq Types
    BY TypesAreTrees
<1>2. ty \in TypesIn(ty) /\ \A part \in PartsOf(ty) : TypesIn(part) \subseteq TypesIn(ty)
    BY <1>1
<1>3. QED
    BY <1>1, <1>2 DEF ArrowOk

(* The plain generators.                                                   *)
LEMMA PlainIsScalar ==
    ASSUME NEW ty \in Types, ~Nested(ty), NEW g \in Gens, IsPlain(g), Vouched(ty, g), NEW v \in Draws(g)
    PROVE  IsOk(Store(ty, v))
<1> DEFINE column == [ty |-> ty, nullable |-> TRUE]
<1>1. column.ty = ty /\ column.nullable = TRUE
    OBVIOUS
<1> HIDE DEF column
<1>2. \A x : Accepts(column, x) <=> IsOk(Store(ty, x))
    BY <1>1 DEF Accepts
<1>3. ASSUME NEW i \in DOMAIN plain_extremes(g) PROVE Accepts(column, plain_extremes(g)[i])
    <2>1. i \in DOMAIN probe_values(g) /\ probe_values(g)[i] = plain_extremes(g)[i]
        BY PlainAreProbed DEF PlainProbes
    <2> DEFINE e == plain_extremes(g)[i]
    <2>2. IsNull(e) \/ Built(ty, e)
        BY <2>1 DEF Vouched, TriedIn
    <2> SUFFICES Accepts(column, e)
        OBVIOUS
    <2> HIDE DEF e
    <2>3. CASE IsNull(e)
        <3>1. Store(ty, e) = Ok(<<>>)
            BY <2>3 DEF Store
        <3>2. QED
            BY <1>2, <3>1, OkFacts
    <2>4. CASE Built(ty, e)
        <3>1. PICK values \in Seq(Values) : IsOk(build_array(ty, values)) /\ \E n \in DOMAIN values : values[n] = e
            BY <2>4 DEF Built
        <3>2. PICK n \in DOMAIN values : values[n] = e
            BY <3>1
        <3>3. IsOk(Store(ty, values[n]))
            BY <3>1, ArrayOfStored
        <3>4. QED
            BY <1>2, <3>2, <3>3
    <2>5. QED
        BY <2>2, <2>3, <2>4
<1>4. Accepts(column, Null)
    BY <1>2, OkFacts DEF Store, IsNull, Null
<1>5. Tried(column, g)
    BY <1>3, <1>4 DEF Tried
<1>6. Checkable(ty, g)
    <2>1. GenHasParameters(g) /\ TypeHasParameters(ty)
        BY GenParameters, TypesAreTrees
    <2>2. ty.k \in ScalarKinds \ {"AGG_STATE"}
        BY <2>1, ArrowParts DEF TypeHasParameters, Vouched
    <2>3. IsScalar(ty)
        <3>1. DOMAIN IntMax = {"TINYINT", "SMALLINT", "INT", "BIGINT"}
            BY WidthsNest
        <3>2. QED
            BY <2>2, <3>1 DEF ScalarKinds, IsScalar
    <2>4. g.g \notin {"array", "map", "struct"}
        BY DEF IsPlain, IsRange
    <2>5. ~PlainlyBlind(g, ty)
        BY <2>4 DEF Vouched, Blind
    <2>6. IsRange(g) => RangeHasNumbers(g)
        BY <2>1 DEF GenHasParameters, RangeHasNumbers
    <2>7. g.g = "ip" => ty.k # "CHAR"
        BY <2>5 DEF PlainlyBlind
    <2>8. g.g = "opaque" => TextsHaveLengths(g)
        BY OpaqueParameters
    <2>9. QED
        BY <2>1, <2>3, <2>4, <2>5, <2>6, <2>7, <2>8 DEF Checkable
<1>7. Accepts(column, v)
    <2>1. Drawn(g, v)
        BY PlainDraws
    <2>2. Checkable(column.ty, g)
        BY <1>1, <1>6
    <2>3. QED
        BY <1>5, <2>1, <2>2, ProbesSuffice
<1>8. QED
    BY <1>2, <1>7

LEMMA PlainIsNested ==
    ASSUME NEW ty \in Types, Nested(ty), NEW g \in Gens, IsPlain(g), Vouched(ty, g),
           NEW v \in Draws(g), ~IsNull(v)
    PROVE  Built(ty, v)
<1>1. g.g \notin {"array", "map", "struct"}
    BY DEF IsPlain, IsRange
<1>2. ~PlainlyBlind(g, ty)
    BY <1>1 DEF Vouched, Blind
<1>3. g.g \notin {"opaque", "sequence"}
    BY <1>2 DEF PlainlyBlind, Nested
<1>4. v # Null
    BY DEF IsNull, Null
<1>5. ASSUME NEW i \in DOMAIN plain_extremes(g)
      PROVE  IsNull(plain_extremes(g)[i]) \/ Built(ty, plain_extremes(g)[i])
    <2>1. i \in DOMAIN probe_values(g) /\ probe_values(g)[i] = plain_extremes(g)[i]
        BY PlainAreProbed DEF PlainProbes
    <2>2. QED
        BY <2>1 DEF Vouched, TriedIn
<1>6. CASE g.g = "choice"
    <2>1. plain_extremes(g) = g.values
        BY <1>6 DEF plain_extremes, IsRange
    <2>2. v \in ToSet(g.values)
        BY <1>4, <1>6 DEF Draws, IsRange
    <2>3. PICK i \in DOMAIN g.values : v = g.values[i]
        BY <2>2 DEF ToSet
    <2>4. QED
        BY <1>5, <2>1, <2>3
<1>7. CASE IsRange(g)
    <2>1. \E i \in DOMAIN plain_extremes(g) :
             (\E x : plain_extremes(g)[i] = At(g, x)) \/ (\E x : plain_extremes(g)[i] = Float(x))
        <3>1. CASE g.g = "text"
            <4>1. plain_extremes(g) = <<At(g, g.max)>>
                BY <3>1 DEF plain_extremes
            <4>2. 1 \in DOMAIN plain_extremes(g) /\ plain_extremes(g)[1] = At(g, g.max)
                BY <4>1
            <4>3. QED
                BY <4>2
        <3>2. CASE g.g = "float"
            <4>1. plain_extremes(g) = <<Float(g.min), Float(g.max)>>
                BY <3>2 DEF plain_extremes, IsRange
            <4>2. 1 \in DOMAIN plain_extremes(g) /\ plain_extremes(g)[1] = Float(g.min)
                BY <4>1
            <4>3. QED
                BY <4>2
        <3>3. CASE g.g \notin {"text", "float"}
            <4>1. plain_extremes(g) = <<At(g, g.min), At(g, g.max)>>
                BY <1>7, <3>3 DEF plain_extremes, IsRange
            <4>2. 1 \in DOMAIN plain_extremes(g) /\ plain_extremes(g)[1] = At(g, g.min)
                BY <4>1
            <4>3. QED
                BY <4>2
        <3>4. QED
            BY <3>1, <3>2, <3>3
    <2>2. PICK i \in DOMAIN plain_extremes(g) :
             (\E x : plain_extremes(g)[i] = At(g, x)) \/ (\E x : plain_extremes(g)[i] = Float(x))
        BY <2>1
    <2> DEFINE e == plain_extremes(g)[i]
    <2>3. ~IsNull(e)
        BY <1>7, <2>2, PointsOfRanges DEF Float, IsNull
    <2>4. Built(ty, e)
        BY <1>5, <2>3
    <2> HIDE DEF e
    <2>5. IsOk(Store(ty, e))
        <3>1. PICK values \in Seq(Values) : IsOk(build_array(ty, values)) /\ \E n \in DOMAIN values : values[n] = e
            BY <2>4 DEF Built
        <3>2. QED
            BY <3>1, ArrayOfStored
    <2>6. ~IsOk(Store(ty, e))
        BY <1>7, <2>2, RangesNeverNested DEF e
    <2>7. QED
        BY <2>5, <2>6
<1>8. QED
    BY <1>3, <1>6, <1>7 DEF IsPlain

LEMMA ProbesAreValues ==
    ASSUME GeneratorRecursion, NEW g \in Gens
    PROVE  ProbesOf(g) = probe_values(g) /\ ProbesOf(g) \in Seq(Values)
BY GenParameters DEF GeneratorRecursion

LEMMA FieldProbes ==
    ASSUME GeneratorRecursion, NEW g \in Gens, g.g = "struct"
    PROVE  /\ \A f \in DOMAIN g.fields : /\ g.fields[f][2] \in Gens
                                         /\ IsSequence(ProbesOf(g.fields[f][2]))
           /\ g.fields \in Seq({g.fields[f] : f \in DOMAIN g.fields})
<1>1. \A f \in DOMAIN g.fields : g.fields[f][2] \in Gens
    BY GenParameters DEF GenPartsOf
<1>2. \A f \in DOMAIN g.fields : ProbesOf(g.fields[f][2]) \in Seq(Values)
    BY <1>1, ProbesAreValues
<1>3. QED
    BY <1>1, <1>2, GenParameters DEF IsSequence, GenHasParameters

(* What is drawn is of the kind of the first value tried.                  *)
KindOf(g) == CASE g.g = "array" -> "list" [] g.g = "map" -> "map" [] g.g = "struct" -> "struct"

LEMMA FirstProbe ==
    ASSUME GeneratorRecursion, NEW g \in Gens, g.g \in {"array", "map", "struct"}
    PROVE  /\ 1 \in DOMAIN probe_values(g) /\ probe_values(g)[1].k = KindOf(g)
           /\ \A v \in Draws(g) : IsNull(v) \/ v.k = KindOf(g)
<1>0. IsNull(Null)
    BY DEF IsNull, Null
<1> DEFINE w == probe_values(g)[1]
<1>1. CASE g.g = "array"
    <2>1. KindOf(g) = "list"
        BY <1>1 DEF KindOf
    <2>2. 1 \in DOMAIN probe_values(g) /\ w = List(IF g.max = 0 THEN <<>> ELSE ProbesOf(g.element))
        BY <1>1, ArrayProbes
    <2> HIDE DEF w
    <2>3. \A v \in Draws(g) : v = Null \/ \E s : v = List(s)
        BY <1>1, ArrayDraws
    <2>4. QED
        BY <1>0, <2>1, <2>2, <2>3 DEF List, w
<1>2. CASE g.g = "map"
    <2>1. KindOf(g) = "map"
        BY <1>2 DEF KindOf
    <2> DEFINE keys == FirstOfEach(ProbesOf(g.key))
               es == IF g.max = 0 THEN <<>>
                     ELSE [i \in DOMAIN keys |-> <<keys[i], Pick(ProbesOf(g.value), i)>>]
    <2>2. 1 \in DOMAIN probe_values(g) /\ w = MapOf(es)
        BY <1>2, MapProbes
    <2> HIDE DEF w, es
    <2>3. \A v \in Draws(g) : v = Null \/ \E s : v = MapOf(s)
        BY <1>2, MapDraws
    <2>4. QED
        BY <1>0, <2>1, <2>2, <2>3 DEF MapOf, w
<1>3. CASE g.g = "struct"
    <2>1. KindOf(g) = "struct"
        BY <1>3 DEF KindOf
    <2>2. PICK rounds \in Nat \ {0} :
             \A r \in 1..rounds : r \in DOMAIN probe_values(g) /\ probe_values(g)[r] = Round(g, r)
        BY <1>3, FieldProbes, StructProbes
    <2>25. 1 \in 1..rounds
        OBVIOUS
    <2>3. 1 \in DOMAIN probe_values(g) /\ w = Round(g, 1)
        BY <2>2, <2>25
    <2> HIDE DEF w
    <2>35. w.k = "struct"
        BY <2>3 DEF Round, StructOf
    <2>4. \A v \in Draws(g) : v = Null \/ \E d : v = StructDrawn(g, d)
        BY <1>3, StructDraws
    <2>5. QED
        BY <1>0, <2>1, <2>3, <2>35, <2>4 DEF StructDrawn, StructOf, w
<1>4. QED
    BY <1>1, <1>2, <1>3

(* The first value tried was built, so its parts were.                     *)
LEMMA ProbeBuilt ==
    ASSUME Recursion, GeneratorRecursion, NEW ty \in Types, NEW g \in Gens, Vouched(ty, g),
           NEW i \in DOMAIN probe_values(g), ~IsNull(probe_values(g)[i])
    PROVE  /\ Built(ty, probe_values(g)[i]) /\ IsOk(Store(ty, probe_values(g)[i]))
           /\ Nested(ty) /\ ~IsNull(Store(ty, probe_values(g)[i])[1])
                 => PartsIn(BuiltPairs, ty, Store(ty, probe_values(g)[i])[1])
<1>1. Built(ty, probe_values(g)[i])
    BY DEF Vouched, TriedIn
<1>2. probe_values(g)[i] \in Values
    BY GenParameters
<1>3. QED
    BY <1>1, <1>2, BuiltParts

LEMMA NestedDrawnAsText ==
    ASSUME Recursion, GeneratorRecursion, NEW ty \in Types, ~Nested(ty), NEW g \in Gens,
           g.g \in {"array", "map", "struct"}, Vouched(ty, g), NEW v \in Draws(g), ~IsNull(v)
    PROVE  IsOk(Store(ty, v))
<1>1. /\ 1 \in DOMAIN probe_values(g) /\ probe_values(g)[1].k = KindOf(g) /\ v.k = KindOf(g)
      /\ KindOf(g) \in {"list", "map", "struct"}
    BY FirstProbe DEF KindOf
<1>2. ~IsNull(probe_values(g)[1])
    BY <1>1 DEF IsNull
<1>3. IsOk(Store(ty, probe_values(g)[1]))
    BY <1>1, <1>2, ProbeBuilt
<1>4. ty.k # "CHAR"
    BY DEF Vouched, Blind, Nested
<1>5. ty.k # "AGG_STATE"
    BY ArrowParts DEF Vouched
<1>6. QED
    BY <1>1, <1>3, <1>4, <1>5, NestedAsText

(* The shapes that go together.                                            *)
LEMMA NestedDrawnFits ==
    ASSUME Recursion, GeneratorRecursion, NEW ty \in Types, Nested(ty), NEW g \in Gens,
           g.g \in {"array", "map", "struct"}, Vouched(ty, g)
    PROVE  \/ ty.k = "ARRAY" /\ g.g = "array"
           \/ ty.k = "MAP" /\ g.g \in {"map", "struct"}
           \/ ty.k = "STRUCT" /\ g.g = "struct"
<1>1. 1 \in DOMAIN probe_values(g) /\ probe_values(g)[1].k = KindOf(g)
    BY FirstProbe
<1>2. KindOf(g) \in {"list", "map", "struct"}
    BY DEF KindOf
<1>3. ~IsNull(probe_values(g)[1]) /\ probe_values(g)[1].k # "str"
    BY <1>1, <1>2 DEF IsNull
<1>4. IsOk(Store(ty, probe_values(g)[1]))
    BY <1>1, <1>3, ProbeBuilt
<1>5. \/ ty.k = "ARRAY" /\ KindOf(g) = "list"
      \/ ty.k = "MAP" /\ KindOf(g) \in {"map", "struct"}
      \/ ty.k = "STRUCT" /\ KindOf(g) \in {"struct", "list"}
    BY <1>1, <1>3, <1>4, TakenShapes
<1>6. ~(g.g = "array" /\ ty.k = "STRUCT")
    BY DEF Vouched, Blind
<1>7. QED
    BY <1>5, <1>6 DEF KindOf

LEMMA ArrayDrawnWhole ==
    ASSUME Recursion, GeneratorRecursion, NEW ty \in Types, ty.k = "ARRAY", NEW g \in Gens, g.g = "array",
           Vouched(ty, g), NEW v \in Draws(g), ~IsNull(v)
    PROVE  StoredWhole(ty, v)
<1>1. v # Null
    BY DEF IsNull, Null
<1>2. PICK s : v = List(s) /\ s \in Seq(Draws(g.element)) /\ (g.max = 0 => s = <<>>)
    BY <1>1, ArrayDraws
<1>3. v.k = "list" /\ v.items = s
    BY <1>2 DEF List
<1>4. IsOk(Store(ty, v)) /\ Store(ty, v)[1] = v
    BY <1>3, ShapeTaken
<1>5. ASSUME NEW j \in DOMAIN s PROVE <<ty.of, s[j]>> \in SoundPairs
    <2>1. g.max # 0
        BY <1>2, <1>5
    <2>2. ty.of \in Types /\ ArrowOk(ty.of) /\ g.element \in Gens
        BY ArrowParts, GenParameters DEF PartsOf, GenPartsOf, Vouched
    <2> DEFINE w == probe_values(g)[1]
    <2>3. 1 \in DOMAIN probe_values(g) /\ w = List(probe_values(g.element))
        BY <2>1, <2>2, ArrayProbes, ProbesAreValues
    <2>4. w.k = "list" /\ w.items = probe_values(g.element)
        BY <2>3 DEF List
    <2>5. ~IsNull(w) /\ Store(ty, w)[1] = w
        BY <2>4, ShapeTaken
    <2>6. PartsIn(BuiltPairs, ty, w)
        BY <2>3, <2>5, ProbeBuilt DEF Nested
    <2> HIDE DEF w
    <2>7. TriedIn(ty.of, g.element)
        BY <2>4, <2>6, BuiltIsIn DEF PartsIn, TriedIn
    <2>8. ~Blind(g.element, ty.of)
        BY <2>2 DEF Vouched, Blind, GeneratorRecursion
    <2>9. s[j] \in Draws(g.element)
        BY <1>2
    <2>10. QED
        BY <2>2, <2>7, <2>8, <2>9, DrawnIsIn DEF Vouched
<1>6. QED
    BY <1>3, <1>4, <1>5 DEF StoredWhole, PartsIn

LEMMA PickIsItem ==
    ASSUME NEW S, NEW s \in Seq(S), NEW i \in 1..Len(s)
    PROVE  Pick(s, i) = s[i]
<1>1. Len(s) \in Nat /\ s # <<>> /\ i \in Int /\ 0 <= i - 1 /\ i - 1 < Len(s)
    OBVIOUS
<1>2. (i - 1) % Len(s) = i - 1
    BY <1>1
<1>3. QED
    BY <1>1, <1>2 DEF Pick

LEMMA MapDrawnWhole ==
    ASSUME Recursion, GeneratorRecursion, NEW ty \in Types, ty.k = "MAP", NEW g \in Gens, g.g = "map",
           Vouched(ty, g), NEW v \in Draws(g), ~IsNull(v)
    PROVE  StoredWhole(ty, v)
<1>1. v # Null
    BY DEF IsNull, Null
<1>2. PICK es : /\ v = MapOf(es) /\ es \in Seq(Draws(g.key) \X Draws(g.value)) /\ KeysOk(es)
                /\ g.max = 0 => es = <<>>
    BY <1>1, MapDraws
<1>3. v.k = "map" /\ EntriesOf(v) = es
    BY <1>2 DEF MapOf, EntriesOf
<1>4. IsOk(Store(ty, v)) /\ Store(ty, v)[1] = v
    BY <1>3, ShapeTaken
<1>5. ASSUME NEW j \in DOMAIN es
      PROVE  <<ty.key, es[j][1]>> \in SoundPairs /\ <<ty.val, es[j][2]>> \in SoundPairs
    <2> DEFINE keys == FirstOfEach(ProbesOf(g.key))
               tried == [i \in DOMAIN keys |-> <<keys[i], Pick(ProbesOf(g.value), i)>>]
               w == probe_values(g)[1]
    <2>1. g.max # 0
        BY <1>2, <1>5
    <2>2. /\ ty.key \in Types /\ ty.val \in Types /\ ArrowOk(ty.key) /\ ArrowOk(ty.val)
          /\ g.key \in Gens /\ g.value \in Gens
        BY ArrowParts, GenParameters DEF PartsOf, GenPartsOf, Vouched
    <2>3. /\ ProbesOf(g.key) = probe_values(g.key) /\ ProbesOf(g.key) \in Seq(Values)
          /\ ProbesOf(g.value) = probe_values(g.value) /\ ProbesOf(g.value) \in Seq(Values)
        BY <2>2, ProbesAreValues
    <2>4. 1 \in DOMAIN probe_values(g) /\ w = MapOf(tried)
        BY <2>1, MapProbes
    <2>5. /\ ~BlindNested(g.key, ty.key) /\ ~BlindNested(g.value, ty.val)
          /\ \A key \in Range(ProbesOf(g.key)) \ Range(keys) : IsNull(key)
          /\ ~(Len(ProbesOf(g.value)) > Len(keys))
        BY DEF Vouched, Blind
    <2>6. keys \in Seq(Values)
        BY <2>3, TriedKeys
    <2> HIDE DEF keys
    <2>7. DOMAIN tried = DOMAIN keys /\ \A i \in DOMAIN keys : /\ tried[i][1] = keys[i]
                                                               /\ tried[i][2] = Pick(ProbesOf(g.value), i)
        OBVIOUS
    <2> HIDE DEF tried, w
    <2>8. w.k = "map" /\ EntriesOf(w) = tried
        BY <2>4 DEF MapOf, EntriesOf
    <2>9. ~IsNull(w) /\ Store(ty, w)[1] = w
        BY <2>8, ShapeTaken
    <2>10. PartsIn(BuiltPairs, ty, w)
        BY <2>4, <2>9, ProbeBuilt DEF Nested, w
    <2>11. \A i \in DOMAIN keys : Built(ty.key, keys[i]) /\ Built(ty.val, Pick(ProbesOf(g.value), i))
        <3>1. \A i \in DOMAIN tried : <<ty.key, tried[i][1]>> \in BuiltPairs /\ <<ty.val, tried[i][2]>> \in BuiltPairs
            BY <2>8, <2>10 DEF PartsIn
        <3>2. QED
            BY <2>7, <3>1, BuiltIsIn
    <2>12. TriedIn(ty.key, g.key)
        <3> SUFFICES ASSUME NEW i \in DOMAIN probe_values(g.key), ~IsNull(probe_values(g.key)[i])
                     PROVE  Built(ty.key, probe_values(g.key)[i])
            BY DEF TriedIn
        <3>1. probe_values(g.key)[i] \in Range(ProbesOf(g.key))
            BY <2>3 DEF Range
        <3>2. probe_values(g.key)[i] \in Range(keys)
            BY <2>5, <3>1
        <3>3. QED
            BY <2>11, <3>2 DEF Range
    <2>13. TriedIn(ty.val, g.value)
        <3> SUFFICES ASSUME NEW i \in DOMAIN probe_values(g.value)
                     PROVE  Built(ty.val, probe_values(g.value)[i])
            BY DEF TriedIn
        <3>1. i \in 1..Len(ProbesOf(g.value)) /\ Len(ProbesOf(g.value)) \in Nat
            BY <2>3
        <3>2. i \in DOMAIN keys
            BY <2>5, <2>6, <3>1
        <3>3. Pick(ProbesOf(g.value), i) = probe_values(g.value)[i]
            BY <2>3, <3>1, PickIsItem
        <3>4. QED
            BY <2>11, <3>2, <3>3
    <2>14. ~Blind(g.key, ty.key) /\ ~Blind(g.value, ty.val)
        BY <2>2, <2>5 DEF GeneratorRecursion
    <2>15. es[j][1] \in Draws(g.key) /\ es[j][2] \in Draws(g.value)
        <3> DEFINE A == Draws(g.key)
                   B == Draws(g.value)
        <3>1. es \in Seq(A \X B)
            BY <1>2
        <3> HIDE DEF A, B
        <3>2. es[j] \in A \X B
            BY <3>1
        <3>3. QED
            BY <3>2 DEF A, B
    <2>16. QED
        BY <2>2, <2>12, <2>13, <2>14, <2>15, DrawnIsIn DEF Vouched
<1>6. QED
    BY <1>2, <1>3, <1>4, <1>5 DEF StoredWhole, PartsIn

(* Structs: what a field of the type takes goes by the names alone.        *)
NamedIn(g, name) == {i \in DOMAIN g.fields : g.fields[i][1] = name}
LastOf(S) == CHOOSE i \in S : \A j \in S : j <= i

LEMMA LastIsIn ==
    ASSUME NEW n \in Nat, NEW S \in SUBSET (1..n), S # {}
    PROVE  LastOf(S) \in S
<1>1. \E i \in S : \A j \in S : j <= i
    <2> DEFINE T == {n - j : j \in S}
    <2>1. \A j \in S : n - j \in Nat
        OBVIOUS
    <2>2. T \in SUBSET Nat /\ T # {}
        BY <2>1
    <2> HIDE DEF T
    <2>3. PICK t \in T : \A u \in T : t <= u
        BY <2>2, LeastElement
    <2>4. PICK i \in S : t = n - i
        BY DEF T
    <2>5. \A j \in S : n - j \in T
        BY DEF T
    <2>6. \A j \in S : j <= i
        BY <2>3, <2>4, <2>5
    <2>7. QED
        BY <2>6
<1>2. QED
    BY <1>1 DEF LastOf

SlotsGoByName(ty, g, d, v) ==
    /\ IsOk(Slots(ty, v)) <=> \A i \in DOMAIN g.fields : Position(ty, g.fields[i][1]) # {}
    /\ IsOk(Slots(ty, v)) =>
         \A f \in DOMAIN ty.fields :
            IF NamedIn(g, ty.fields[f][1]) = {} THEN Slots(ty, v)[1][f] = Null
            ELSE /\ LastOf(NamedIn(g, ty.fields[f][1])) \in NamedIn(g, ty.fields[f][1])
                 /\ Slots(ty, v)[1][f] = d[LastOf(NamedIn(g, ty.fields[f][1]))]

LEMMA SlotsByName ==
    ASSUME NEW ty, NEW g, g.fields \in Seq({g.fields[f] : f \in DOMAIN g.fields}), NEW d
    PROVE  SlotsGoByName(ty, g, d, StructDrawn(g, d))
<1> DEFINE v == StructDrawn(g, d)
           named(f) == {i \in DOMAIN v.fields : v.fields[i][1] = ty.fields[f][1]}
           last(f) == CHOOSE i \in named(f) : \A j \in named(f) : j <= i
           slots == [f \in DOMAIN ty.fields |-> IF named(f) = {} THEN Null ELSE v.fields[last(f)][2]]
           strange == \E i \in DOMAIN v.fields : Position(ty, v.fields[i][1]) = {}
<1>1. v.k = "struct" /\ v.fields = [i \in DOMAIN g.fields |-> <<g.fields[i][1], d[i]>>]
    BY DEF StructDrawn, StructOf
<1>2. Slots(ty, v) = IF strange THEN Err ELSE Ok(slots)
    BY <1>1 DEF Slots
<1> HIDE DEF v
<1>3. /\ DOMAIN v.fields = DOMAIN g.fields
      /\ \A i \in DOMAIN g.fields : v.fields[i][1] = g.fields[i][1] /\ v.fields[i][2] = d[i]
    BY <1>1
<1>4. strange <=> \E i \in DOMAIN g.fields : Position(ty, g.fields[i][1]) = {}
    BY <1>3
<1>5. ASSUME NEW f \in DOMAIN ty.fields
      PROVE  LET S == NamedIn(g, ty.fields[f][1]) IN
             IF S = {} THEN slots[f] = Null ELSE LastOf(S) \in S /\ slots[f] = d[LastOf(S)]
    <2> DEFINE S == NamedIn(g, ty.fields[f][1])
    <2>1. named(f) = S
        BY <1>3 DEF NamedIn
    <2>2. last(f) = LastOf(S)
        BY <2>1 DEF LastOf
    <2>3. slots[f] = IF S = {} THEN Null ELSE v.fields[LastOf(S)][2]
        <3> HIDE DEF named, last, S
        <3>1. slots[f] = IF named(f) = {} THEN Null ELSE v.fields[last(f)][2]
            OBVIOUS
        <3>2. QED
            BY <2>1, <2>2, <3>1
    <2>4. S \in SUBSET (1..Len(g.fields)) /\ Len(g.fields) \in Nat
        BY DEF NamedIn
    <2>5. S # {} => LastOf(S) \in S /\ LastOf(S) \in DOMAIN g.fields
        <3>1. S \subseteq DOMAIN g.fields
            BY DEF NamedIn
        <3> HIDE DEF S
        <3>2. QED
            BY <2>4, <3>1, LastIsIn
    <2> HIDE DEF S, slots
    <2>6. IF S = {} THEN slots[f] = Null ELSE LastOf(S) \in S /\ slots[f] = d[LastOf(S)]
        BY <1>3, <2>3, <2>5
    <2>7. QED
        BY <2>6 DEF S
<1> HIDE DEF strange, slots
<1>6. /\ IsOk(Slots(ty, v)) <=> ~strange
      /\ IsOk(Slots(ty, v)) => Slots(ty, v)[1] = slots
    BY <1>2, OkFacts
<1>7. QED
    BY <1>4, <1>5, <1>6 DEF v, SlotsGoByName

Tries(g, r) == [f \in DOMAIN g.fields |-> Pick(ProbesOf(g.fields[f][2]), r)]

LEMMA RoundsBuilt ==
    ASSUME Recursion, GeneratorRecursion, NEW ty \in Types, ty.k \in {"MAP", "STRUCT"},
           NEW g \in Gens, g.g = "struct", Vouched(ty, g)
    PROVE  \E rounds \in Nat \ {0} :
              /\ \A f \in DOMAIN g.fields : Len(ProbesOf(g.fields[f][2])) <= rounds
              /\ \A r \in 1..rounds : PartsIn(BuiltPairs, ty, StructDrawn(g, Tries(g, r)))
<1>1. PICK rounds \in Nat \ {0} :
        /\ \A f \in DOMAIN g.fields : Len(ProbesOf(g.fields[f][2])) <= rounds
        /\ \A r \in 1..rounds : r \in DOMAIN probe_values(g) /\ probe_values(g)[r] = Round(g, r)
    BY FieldProbes, StructProbes
<1>2. ASSUME NEW r \in 1..rounds PROVE PartsIn(BuiltPairs, ty, StructDrawn(g, Tries(g, r)))
    <2> DEFINE w == StructDrawn(g, Tries(g, r))
    <2>1. Round(g, r) = w
        <3> DEFINE a == [f \in DOMAIN g.fields |-> <<g.fields[f][1], Pick(ProbesOf(g.fields[f][2]), r)>>]
                   b == [f \in DOMAIN g.fields |-> <<g.fields[f][1], Tries(g, r)[f]>>]
        <3>1. a = b
            BY DEF Tries
        <3>2. Round(g, r) = StructOf(a) /\ w = StructOf(b)
            BY DEF Round, StructDrawn
        <3> HIDE DEF a, b, w
        <3>3. QED
            BY <3>1, <3>2
    <2>2. w.k = "struct"
        BY DEF StructDrawn, StructOf
    <2> HIDE DEF w
    <2>3. ~IsNull(w) /\ Store(ty, w)[1] = w
        BY <2>2, ShapeTaken
    <2>4. r \in DOMAIN probe_values(g) /\ probe_values(g)[r] = w
        BY <1>1, <2>1
    <2>5. PartsIn(BuiltPairs, ty, w)
        BY <2>3, <2>4, ProbeBuilt DEF Nested
    <2>6. QED
        BY <2>5 DEF w
<1>3. QED
    BY <1>1, <1>2

LEMMA TryIsProbe ==
    ASSUME GeneratorRecursion, NEW g \in Gens, g.g = "struct", NEW f \in DOMAIN g.fields,
           NEW i \in DOMAIN probe_values(g.fields[f][2])
    PROVE  /\ Tries(g, i)[f] = probe_values(g.fields[f][2])[i]
           /\ i \in Nat /\ i >= 1 /\ i <= Len(ProbesOf(g.fields[f][2]))
           /\ Len(ProbesOf(g.fields[f][2])) \in Nat
<1>1. g.fields[f][2] \in Gens
    BY FieldProbes
<1> DEFINE probes == ProbesOf(g.fields[f][2])
<1>2. probes = probe_values(g.fields[f][2]) /\ probes \in Seq(Values)
    BY <1>1, ProbesAreValues
<1>3. Tries(g, i)[f] = Pick(probes, i)
    BY DEF Tries
<1> HIDE DEF probes
<1>4. i \in 1..Len(probes) /\ Len(probes) \in Nat
    BY <1>2
<1>5. Pick(probes, i) = probes[i]
    BY <1>2, <1>4, PickIsItem
<1>6. QED
    BY <1>2, <1>3, <1>4, <1>5 DEF probes

LEMMA StructDrawnWhole ==
    ASSUME Recursion, GeneratorRecursion, NEW ty \in Types, ty.k = "STRUCT", NEW g \in Gens, g.g = "struct",
           Vouched(ty, g), NEW v \in Draws(g), ~IsNull(v)
    PROVE  StoredWhole(ty, v)
<1>1. v # Null
    BY DEF IsNull, Null
<1>2. PICK d : v = StructDrawn(g, d) /\ \A f \in DOMAIN g.fields : d[f] \in Draws(g.fields[f][2])
    BY <1>1, StructDraws
<1>3. v.k = "struct"
    BY <1>2 DEF StructDrawn, StructOf
<1>4. IsOk(Store(ty, v)) /\ Store(ty, v)[1] = v
    BY <1>3, ShapeTaken
<1>5. PICK rounds \in Nat \ {0} :
        /\ \A f \in DOMAIN g.fields : Len(ProbesOf(g.fields[f][2])) <= rounds
        /\ \A r \in 1..rounds : PartsIn(BuiltPairs, ty, StructDrawn(g, Tries(g, r)))
    BY RoundsBuilt
<1>6. g.fields \in Seq({g.fields[f] : f \in DOMAIN g.fields})
    BY FieldProbes
<1>7. IsOk(Slots(ty, v))
    <2>1. 1 \in 1..rounds
        OBVIOUS
    <2>2. IsOk(Slots(ty, StructDrawn(g, Tries(g, 1))))
        BY <1>5, <2>1 DEF PartsIn
    <2>3. \A i \in DOMAIN g.fields : Position(ty, g.fields[i][1]) # {}
        <3>1. SlotsGoByName(ty, g, Tries(g, 1), StructDrawn(g, Tries(g, 1)))
            BY <1>6, SlotsByName
        <3>2. QED
            BY <2>2, <3>1 DEF SlotsGoByName
    <2>4. SlotsGoByName(ty, g, d, v)
        BY <1>2, <1>6, SlotsByName
    <2>5. QED
        BY <2>3, <2>4 DEF SlotsGoByName
<1>8. ASSUME NEW f \in DOMAIN ty.fields PROVE <<ty.fields[f][2], Slots(ty, v)[1][f]>> \in SoundPairs
    <2> DEFINE named == NamedIn(g, ty.fields[f][1])
               l == LastOf(named)
               h == g.fields[l][2]
               part == ty.fields[f][2]
    <2>0. part \in Types /\ ArrowOk(part)
        BY ArrowParts DEF PartsOf, Vouched
    <2>1. IF named = {} THEN Slots(ty, v)[1][f] = Null
          ELSE l \in named /\ Slots(ty, v)[1][f] = d[l]
        <3>1. SlotsGoByName(ty, g, d, v)
            BY <1>2, <1>6, SlotsByName
        <3>2. QED
            BY <1>7, <3>1 DEF SlotsGoByName
    <2>2. CASE named = {}
        <3>1. Null \in Values /\ Sound(part, Null)
            BY ValuesHaveParts DEF Sound, IsNull, Null
        <3>2. QED
            BY <2>0, <2>1, <2>2, <3>1, SoundIsIn
    <2>3. CASE named # {}
        <3>1. l \in DOMAIN g.fields /\ g.fields[l][1] = ty.fields[f][1]
            BY <2>1, <2>3 DEF NamedIn
        <3>2. h \in Gens /\ d[l] \in Draws(h)
            BY <1>2, <3>1, FieldProbes
        <3>3. ~Blind(h, part)
            <4>1. ~\E n \in DOMAIN g.fields :
                      \E i \in Position(ty, g.fields[n][1]) : BlindNested(g.fields[n][2], ty.fields[i][2])
                BY DEF Vouched, Blind
            <4>2. f \in Position(ty, g.fields[l][1])
                BY <3>1 DEF Position
            <4>3. ~BlindNested(h, part)
                BY <3>1, <4>1, <4>2
            <4>4. QED
                BY <2>0, <3>2, <4>3 DEF GeneratorRecursion
        <3>4. TriedIn(part, h)
            <4> SUFFICES ASSUME NEW i \in DOMAIN probe_values(h) PROVE Built(part, probe_values(h)[i])
                BY DEF TriedIn
            <4>1. Tries(g, i)[l] = probe_values(h)[i] /\ i \in 1..rounds
                BY <1>5, <3>1, TryIsProbe
            <4> DEFINE w == StructDrawn(g, Tries(g, i))
            <4>2. IsOk(Slots(ty, w)) /\ <<part, Slots(ty, w)[1][f]>> \in BuiltPairs
                BY <1>5, <4>1 DEF PartsIn
            <4>3. Slots(ty, w)[1][f] = Tries(g, i)[l]
                <5>1. SlotsGoByName(ty, g, Tries(g, i), w)
                    BY <1>6, SlotsByName
                <5>2. QED
                    BY <2>3, <4>2, <5>1 DEF SlotsGoByName
            <4> HIDE DEF w, part, h, l
            <4>4. <<part, probe_values(h)[i]>> \in BuiltPairs
                BY <4>1, <4>2, <4>3
            <4>5. QED
                BY <4>4, BuiltIsIn
        <3> HIDE DEF part, h
        <3>5. <<part, d[l]>> \in SoundPairs
            BY <2>0, <3>2, <3>3, <3>4, DrawnIsIn DEF Vouched
        <3>6. QED
            BY <2>1, <2>3, <3>5 DEF part
    <2>4. QED
        BY <2>2, <2>3
<1>9. QED
    BY <1>4, <1>7, <1>8 DEF StoredWhole, PartsIn

LEMMA StructAsMapWhole ==
    ASSUME Recursion, GeneratorRecursion, NEW ty \in Types, ty.k = "MAP", NEW g \in Gens, g.g = "struct",
           Vouched(ty, g), NEW v \in Draws(g), ~IsNull(v)
    PROVE  StoredWhole(ty, v)
<1>1. v # Null
    BY DEF IsNull, Null
<1>2. PICK d : v = StructDrawn(g, d) /\ \A f \in DOMAIN g.fields : d[f] \in Draws(g.fields[f][2])
    BY <1>1, StructDraws
<1>3. ASSUME NEW x
      PROVE  /\ StructDrawn(g, x).k = "struct"
             /\ EntriesOf(StructDrawn(g, x)) = [i \in DOMAIN g.fields |-> <<Str(g.fields[i][1]), x[i]>>]
    <2> DEFINE fs == [f \in DOMAIN g.fields |-> <<g.fields[f][1], x[f]>>]
               w == StructDrawn(g, x)
    <2>1. w.k = "struct" /\ w.fields = fs
        BY DEF StructDrawn, StructOf
    <2> HIDE DEF w
    <2>2. EntriesOf(w) = [i \in DOMAIN fs |-> <<Str(fs[i][1]), fs[i][2]>>]
        BY <2>1 DEF EntriesOf
    <2>3. [i \in DOMAIN fs |-> <<Str(fs[i][1]), fs[i][2]>>] = [i \in DOMAIN g.fields |-> <<Str(g.fields[i][1]), x[i]>>]
        OBVIOUS
    <2>4. QED
        BY <2>1, <2>2, <2>3 DEF w
<1>4. v.k = "struct" /\ EntriesOf(v) = [i \in DOMAIN g.fields |-> <<Str(g.fields[i][1]), d[i]>>]
    BY <1>2, <1>3
<1>5. IsOk(Store(ty, v)) /\ Store(ty, v)[1] = v
    BY <1>4, ShapeTaken
<1>6. PICK rounds \in Nat \ {0} :
        /\ \A f \in DOMAIN g.fields : Len(ProbesOf(g.fields[f][2])) <= rounds
        /\ \A r \in 1..rounds : PartsIn(BuiltPairs, ty, StructDrawn(g, Tries(g, r)))
    BY RoundsBuilt
<1>7. ty.key \in Types /\ ty.val \in Types /\ ArrowOk(ty.val)
    BY ArrowParts DEF PartsOf, Vouched
<1>8. ASSUME NEW r \in 1..rounds
      PROVE  /\ KeysOk([i \in DOMAIN g.fields |-> <<Str(g.fields[i][1]), Tries(g, r)[i]>>])
             /\ \A i \in DOMAIN g.fields : /\ <<ty.key, Str(g.fields[i][1])>> \in BuiltPairs
                                           /\ <<ty.val, Tries(g, r)[i]>> \in BuiltPairs
    <2> DEFINE w == StructDrawn(g, Tries(g, r))
               es == [i \in DOMAIN g.fields |-> <<Str(g.fields[i][1]), Tries(g, r)[i]>>]
    <2>1. EntriesOf(w) = es
        BY <1>3
    <2>2. DOMAIN es = DOMAIN g.fields /\ \A i \in DOMAIN es : es[i][1] = Str(g.fields[i][1]) /\ es[i][2] = Tries(g, r)[i]
        OBVIOUS
    <2>3. PartsIn(BuiltPairs, ty, w)
        BY <1>6
    <2> HIDE DEF w, es
    <2>4. /\ KeysOk(es)
          /\ \A j \in DOMAIN es : <<ty.key, es[j][1]>> \in BuiltPairs /\ <<ty.val, es[j][2]>> \in BuiltPairs
        BY <2>1, <2>3 DEF PartsIn
    <2>5. QED
        BY <2>2, <2>4 DEF es
<1>9. KeysOk(EntriesOf(v))
    <2> DEFINE es == [i \in DOMAIN g.fields |-> <<Str(g.fields[i][1]), Tries(g, 1)[i]>>]
               fs == [i \in DOMAIN g.fields |-> <<Str(g.fields[i][1]), d[i]>>]
    <2>1. KeysOk(es)
        BY <1>8
    <2>2. DOMAIN es = DOMAIN fs /\ \A i \in DOMAIN es : es[i][1] = fs[i][1]
        OBVIOUS
    <2>3. DOMAIN g.fields = 1..Len(g.fields) /\ Len(g.fields) \in Nat
        BY FieldProbes
    <2>4. \A i \in DOMAIN es : \A j \in 1..(i - 1) : j \in DOMAIN es
        BY <2>3
    <2> HIDE DEF es, fs
    <2>5. KeysOk(fs)
        BY <2>1, <2>2, <2>4 DEF KeysOk
    <2>6. QED
        BY <1>4, <2>5 DEF fs
<1>10. ASSUME NEW j \in DOMAIN g.fields
       PROVE  <<ty.key, Str(g.fields[j][1])>> \in SoundPairs /\ <<ty.val, d[j]>> \in SoundPairs
    <2> DEFINE h == g.fields[j][2]
    <2>1. <<ty.key, Str(g.fields[j][1])>> \in SoundPairs
        <3>1. 1 \in 1..rounds
            OBVIOUS
        <3>2. QED
            BY <1>8, <3>1, BuiltIsIn
    <2>2. h \in Gens /\ d[j] \in Draws(h)
        BY <1>2, FieldProbes
    <2>3. ~Blind(h, ty.val)
        <3>1. ~\E f \in DOMAIN g.fields : BlindNested(g.fields[f][2], ty.val)
            BY DEF Vouched, Blind
        <3>2. ~BlindNested(h, ty.val)
            BY <3>1
        <3>3. QED
            BY <1>7, <2>2, <3>2 DEF GeneratorRecursion
    <2>4. TriedIn(ty.val, h)
        <3> SUFFICES ASSUME NEW i \in DOMAIN probe_values(h) PROVE Built(ty.val, probe_values(h)[i])
            BY DEF TriedIn
        <3>1. Tries(g, i)[j] = probe_values(h)[i] /\ i \in 1..rounds
            BY <1>6, TryIsProbe
        <3>2. <<ty.val, Tries(g, i)[j]>> \in BuiltPairs
            BY <1>8, <3>1
        <3>3. QED
            BY <3>1, <3>2, BuiltIsIn
    <2>5. QED
        BY <1>7, <2>1, <2>2, <2>3, <2>4, DrawnIsIn DEF Vouched
<1>11. QED
    <2> DEFINE fs == [i \in DOMAIN g.fields |-> <<Str(g.fields[i][1]), d[i]>>]
    <2>1. DOMAIN fs = DOMAIN g.fields /\ \A j \in DOMAIN fs : fs[j][1] = Str(g.fields[j][1]) /\ fs[j][2] = d[j]
        OBVIOUS
    <2>2. EntriesOf(v) = fs
        BY <1>4
    <2> HIDE DEF fs
    <2>3. PartsIn(SoundPairs, ty, v)
        BY <1>9, <1>10, <2>1, <2>2 DEF PartsIn
    <2>4. QED
        BY <1>5, <2>3 DEF StoredWhole

(* So the values vouched for are stored with all their parts, which are    *)
(* vouched for too.                                                        *)
LEMMA SoundIsClosed ==
    ASSUME Recursion, GeneratorRecursion
    PROVE  Closed(SoundPairs)
<1>1. ASSUME NEW ty \in Types PROVE <<ty, Null>> \in SoundPairs
    <2>1. Null \in Values /\ Sound(ty, Null)
        BY ValuesHaveParts DEF Sound, IsNull, Null
    <2>2. QED
        BY <2>1, SoundIsIn
<1>2. ASSUME NEW ty \in Types, NEW v \in Values, <<ty, v>> \in SoundPairs
      PROVE  StoredWhole(ty, v)
    <2>1. Sound(ty, v)
        BY <1>2, SoundIsIn
    <2>2. CASE IsNull(v)
        <3>1. Store(ty, v) = Ok(IF Nested(ty) THEN Null ELSE <<>>)
            BY <2>2 DEF Store
        <3>2. IsOk(Store(ty, v)) /\ (Nested(ty) => IsNull(Store(ty, v)[1]))
            BY <3>1, OkFacts DEF IsNull, Null
        <3>3. QED
            BY <3>2 DEF StoredWhole
    <2>3. CASE Built(ty, v)
        BY <2>3, BuiltIsWhole
    <2>4. ASSUME ~IsNull(v), NEW g \in Gens, Vouched(ty, g), v \in Draws(g)
          PROVE  StoredWhole(ty, v)
        <3>1. CASE IsPlain(g)
            <4>1. CASE Nested(ty)
                <5>1. Built(ty, v)
                    BY <2>4, <3>1, <4>1, PlainIsNested
                <5>2. QED
                    BY <5>1, BuiltIsWhole
            <4>2. CASE ~Nested(ty)
                <5>1. IsOk(Store(ty, v))
                    BY <2>4, <3>1, <4>2, PlainIsScalar
                <5>2. QED
                    BY <4>2, <5>1 DEF StoredWhole
            <4>3. QED
                BY <4>1, <4>2
        <3>2. CASE ~IsPlain(g)
            <4>1. g.g \in {"array", "map", "struct"}
                BY <3>2, GenParameters DEF GenHasParameters, IsPlain
            <4>2. CASE ~Nested(ty)
                <5>1. IsOk(Store(ty, v))
                    BY <2>4, <4>1, <4>2, NestedDrawnAsText
                <5>2. QED
                    BY <4>2, <5>1 DEF StoredWhole
            <4>3. CASE Nested(ty)
                <5>1. \/ ty.k = "ARRAY" /\ g.g = "array"
                      \/ ty.k = "MAP" /\ g.g \in {"map", "struct"}
                      \/ ty.k = "STRUCT" /\ g.g = "struct"
                    BY <2>4, <4>1, <4>3, NestedDrawnFits
                <5>2. CASE ty.k = "ARRAY" /\ g.g = "array"
                    BY <2>4, <5>2, ArrayDrawnWhole
                <5>3. CASE ty.k = "MAP" /\ g.g = "map"
                    BY <2>4, <5>3, MapDrawnWhole
                <5>4. CASE ty.k = "MAP" /\ g.g = "struct"
                    BY <2>4, <5>4, StructAsMapWhole
                <5>5. CASE ty.k = "STRUCT" /\ g.g = "struct"
                    BY <2>4, <5>5, StructDrawnWhole
                <5>6. QED
                    BY <5>1, <5>2, <5>3, <5>4, <5>5
            <4>4. QED
                BY <4>2, <4>3
        <3>3. QED
            BY <3>1, <3>2
    <2>5. QED
        BY <2>1, <2>2, <2>3, <2>4 DEF Sound
<1>3. QED
    BY <1>1, <1>2 DEF Closed, StoredWhole

-----------------------------------------------------------------------------
(* The check before the first row, and the rows after it.                  *)

(* A generator that can draw null, and is no sequence, reports null.       *)
LEMMA NullIsProbed ==
    ASSUME GeneratorRecursion, NEW g \in Gens, g.g # "sequence",
           NEW v \in Draws(g), IsNull(v)
    PROVE  \E i \in DOMAIN probe_values(g) : IsNull(probe_values(g)[i])
<1>0. IsNull(Null)
    BY DEF IsNull, Null
<1>1. CASE IsPlain(g)
    <2>1. PlainProbes(g) /\ (g.nulls => \E i \in DOMAIN probe_values(g) : probe_values(g)[i] = Null)
        BY <1>1, PlainAreProbed
    <2>2. Drawn(g, v)
        BY <1>1, PlainDraws
    <2>3. CASE g.nulls /\ v = Null
        BY <1>0, <2>1, <2>3
    <2>4. CASE IsRange(g) /\ \E x \in g.min..g.max : v = At(g, x)
        BY <2>4 DEF At, IsRange, Number, Float, Dec, Moment, Plain, Str, IsNull
    <2>5. CASE g.g = "choice" /\ \E i \in DOMAIN g.values : v = g.values[i]
        <3>1. plain_extremes(g) = g.values
            BY <2>5 DEF plain_extremes, IsRange
        <3>2. QED
            BY <2>1, <2>5, <3>1 DEF PlainProbes
    <2>6. CASE g.g = "opaque" /\ \E i \in DOMAIN g.values : v = g.values[i]
        BY <2>6, OpaqueParameters DEF TextsHaveLengths, IsNull
    <2>7. g.g # "struct"
        BY <1>1 DEF IsPlain, IsRange
    <2>8. QED
        BY <2>2, <2>3, <2>4, <2>5, <2>6, <2>7 DEF Drawn
<1>2. CASE ~IsPlain(g)
    <2>1. g.g \in {"array", "map", "struct"}
        BY <1>2, GenParameters DEF GenHasParameters, IsPlain
    <2>2. g.nulls
        <3>1. CASE v = Null /\ ~g.nulls
            <4>1. CASE g.g = "array"
                <5>1. Draws(g) = {List(s) : s \in Lists(DrawsOf(g.element), ListSizes(g))} \cup {}
                    BY <3>1, <4>1 DEF Draws, IsRange
                <5>2. QED
                    BY <3>1, <5>1 DEF List, Null
            <4>2. CASE g.g = "map"
                <5>1. Draws(g) = {MapOf(es) : es \in KeyedLists(DrawsOf(g.key) \X DrawsOf(g.value), MapSizes(g))} \cup {}
                    BY <3>1, <4>2 DEF Draws, IsRange
                <5>2. QED
                    BY <3>1, <5>1 DEF MapOf, Null
            <4>3. CASE g.g = "struct"
                <5>1. \A w \in Draws(g) : \E d : w = StructDrawn(g, d)
                    BY <3>1, <4>3 DEF Draws, IsRange, StructDrawn
                <5>2. QED
                    BY <3>1, <5>1 DEF StructDrawn, StructOf, Null
            <4>4. QED
                BY <2>1, <4>1, <4>2, <4>3
        <3>2. CASE v # Null
            <4>1. \A s : ~IsNull(List(s)) /\ ~IsNull(MapOf(s)) /\ ~IsNull(StructOf(s))
                BY DEF List, MapOf, StructOf, IsNull
            <4>2. CASE g.g = "array"
                BY <3>2, <4>1, <4>2, ArrayDraws
            <4>3. CASE g.g = "map"
                BY <3>2, <4>1, <4>3, MapDraws
            <4>4. CASE g.g = "struct"
                BY <3>2, <4>1, <4>4, StructDraws DEF StructDrawn
            <4>5. QED
                BY <2>1, <4>2, <4>3, <4>4
        <3>3. QED
            BY <3>1, <3>2
    <2>3. \E i \in DOMAIN probe_values(g) : probe_values(g)[i] = Null
        <3>1. CASE g.g = "array"
            BY <2>2, <3>1, ArrayProbes
        <3>2. CASE g.g = "map"
            BY <2>2, <3>2, MapProbes
        <3>3. CASE g.g = "struct"
            BY <2>2, <3>3, FieldProbes, StructProbes
        <3>4. QED
            BY <2>1, <3>1, <3>2, <3>3
    <2>4. QED
        BY <1>0, <2>3
<1>3. QED
    BY <1>1, <1>2

(* A value probed alone is one an array is built of.                       *)
LEMMA ProbedIsBuilt ==
    ASSUME Recursion, NEW column, NEW v \in Values, probe(column, v)
    PROVE  Built(column.ty, v) /\ ArrowOk(column.ty) /\ (IsNull(v) => column.nullable)
<1> DEFINE ty == column.ty
           values == <<v>>
<1>1. /\ ArrowOk(ty) /\ (IsNull(v) => column.nullable)
      /\ IsOk(Then(Store(ty, v), LAMBDA stored : FinishColumn(ty, <<stored>>)))
    BY DEF probe
<1>2. IsOk(Store(ty, v)) /\ IsOk(FinishColumn(ty, <<Store(ty, v)[1]>>))
    BY <1>1, OkFacts DEF Then
<1>3. values \in Seq(Values) /\ DOMAIN values = {1} /\ values[1] = v
    OBVIOUS
<1> HIDE DEF values
<1>4. KeptOf(ty, values) = <<Store(ty, v)[1]>>
    <2>1. KeptOf(ty, values) = [i \in {1} |-> Store(ty, v)[1]]
        BY <1>2, <1>3 DEF KeptOf
    <2> DEFINE x == Store(ty, v)[1]
    <2> HIDE DEF x
    <2>2. [i \in {1} |-> x] = <<x>>
        OBVIOUS
    <2>3. QED
        BY <2>1, <2>2 DEF x
<1>5. build_array(ty, values) = FinishColumn(ty, KeptOf(ty, values))
    BY <1>2, <1>3, BuiltOfStored
<1>6. IsOk(build_array(ty, values))
    BY <1>2, <1>4, <1>5
<1>7. QED
    BY <1>1, <1>3, <1>6 DEF Built

(* What the check before the run says of a column, once rows are made.      *)
CheckedColumn(c) ==
    /\ columns[c].ty \in Types /\ GenOf(c) \in Gens /\ ArrowOk(columns[c].ty)
    /\ TriedIn(columns[c].ty, GenOf(c))
    /\ (\E i \in DOMAIN probe_values(GenOf(c)) : IsNull(probe_values(GenOf(c))[i])) => columns[c].nullable

LEMMA ColumnTried ==
    ASSUME Recursion, RunInv, pc \in {"rows", "failed"}, NEW c \in DOMAIN columns
    PROVE  CheckedColumn(c)
<1>1. Accepted(spec) /\ BuilderInv
    BY DEF RunInv, StartInv, TaskInv
<1>2. columns[c].ty \in Types /\ ArrowOk(columns[c].ty)
    BY <1>1 DEF BuilderInv, TableInv, Accepted, arrow_schema
<1> DEFINE g == spec[FieldFor(spec, columns[c].name)].gen
<1>3. g \in Gens
    BY ColumnGen
<1>4. \A i \in DOMAIN probe_values(g) : probe(columns[c], probe_values(g)[i])
    BY <1>1 DEF Accepted, validate_against_schema
<1> HIDE DEF g
<1>5. \A i \in DOMAIN probe_values(g) : probe_values(g)[i] \in Values
    BY <1>3, GenParameters
<1>6. \A i \in DOMAIN probe_values(g) :
         /\ Built(columns[c].ty, probe_values(g)[i])
         /\ IsNull(probe_values(g)[i]) => columns[c].nullable
    BY <1>4, <1>5, ProbedIsBuilt
<1>7. GenOf(c) = g
    BY DEF GenOf, g
<1>8. TriedIn(columns[c].ty, g)
    BY <1>6 DEF TriedIn
<1>9. QED
    BY <1>2, <1>3, <1>6, <1>7, <1>8 DEF CheckedColumn

(* A value the generator of a column draws is among those vouched for,      *)
(* unless the column is blind to the generator.                            *)
LEMMA ColumnVouched ==
    ASSUME NEW c, CheckedColumn(c), ~Blind(GenOf(c), columns[c].ty)
    PROVE  /\ Vouched(columns[c].ty, GenOf(c)) /\ GenOf(c).g # "sequence"
           /\ Nested(columns[c].ty) => GenOf(c).g # "opaque"
<1>1. Vouched(columns[c].ty, GenOf(c))
    BY DEF CheckedColumn, Vouched
<1>2. GenOf(c).g # "sequence" /\ (Nested(columns[c].ty) => GenOf(c).g # "opaque")
    <2> DEFINE g == GenOf(c)
               ty == columns[c].ty
    <2> HIDE DEF g, ty
    <2>1. CASE g.g = "sequence"
        <3>1. Blind(g, ty)
            BY <2>1 DEF Blind, PlainlyBlind
        <3>2. QED
            BY <3>1 DEF g, ty
    <2>2. CASE Nested(ty) /\ g.g = "opaque"
        <3>1. ty.k \notin {"STRING", "HLL", "CHAR"}
            BY <2>2 DEF Nested
        <3>2. Blind(g, ty)
            BY <2>2, <3>1 DEF Blind, PlainlyBlind
        <3>3. QED
            BY <3>2 DEF g, ty
    <2>3. QED
        BY <2>1, <2>2 DEF g, ty
<1>3. QED
    BY <1>1, <1>2

(* A column refuses a value only where it is blind to its generator.        *)
LEMMA RefusedIsBlind ==
    ASSUME Recursion, GeneratorRecursion, NEW c, CheckedColumn(c),
           NEW v \in Draws(GenOf(c)), ~Takes(c, v)
    PROVE  Blind(GenOf(c), columns[c].ty)
<1> SUFFICES ASSUME ~Blind(GenOf(c), columns[c].ty) PROVE FALSE
    OBVIOUS
<1> DEFINE g == GenOf(c)
           ty == columns[c].ty
<1>1. Vouched(ty, g) /\ g.g # "sequence" /\ ty \in Types /\ g \in Gens
    BY ColumnVouched DEF CheckedColumn
<1>2. v \in Values /\ <<ty, v>> \in SoundPairs
    BY <1>1, DrawnIsIn, GenParameters
<1>3. IsOk(Store(ty, v))
    BY <1>1, <1>2, SoundIsClosed DEF Closed
<1>4. IsNull(v) /\ ~columns[c].nullable
    BY <1>3 DEF Takes, Accepts
<1>5. \E i \in DOMAIN probe_values(g) : IsNull(probe_values(g)[i])
    BY <1>1, <1>4, NullIsProbed
<1>6. QED
    BY <1>4, <1>5 DEF CheckedColumn

LEMMA RowDraws ==
    ASSUME NEW row \in Rows, NEW c \in DOMAIN columns
    PROVE  row[c] \in Draws(GenOf(c))
BY DEF Rows

(* Why a task may fail: FailsOnlyBlind, before it has.                     *)
Undrawn == \E f \in DOMAIN spec : CanFail(spec[f].gen)
Unseen == \E c \in DOMAIN columns : Blind(GenOf(c), columns[c].ty) \/ NullText(c)
TooLarge == \E c \in DOMAIN columns : Overfull(columns[c].ty, Taken(c))

LEMMA AppendFailsBlind ==
    ASSUME Recursion, GeneratorRecursion, RunInv, AppendRow, pc' = "failed"
    PROVE  Unseen
<1>1. pc = "rows"
    BY DEF AppendRow
<1>2. PICK row \in Rows : AppendTo(row)
    BY DEF AppendRow
<1>3. \E c \in DOMAIN columns : ~Takes(c, row[c])
    BY <1>1, <1>2 DEF AppendTo
<1>4. PICK c \in DOMAIN columns : ~Takes(c, row[c])
    BY <1>3
<1>5. CheckedColumn(c) /\ row[c] \in Draws(GenOf(c))
    BY <1>1, ColumnTried, RowDraws
<1>6. Blind(GenOf(c), columns[c].ty)
    BY <1>4, <1>5, RefusedIsBlind
<1>7. QED
    BY <1>6 DEF Unseen

(* What a column holds between two rows is what it keeps of the values taken. *)
LEMMA ColumnHolds ==
    ASSUME RunInv, RowsDrawn, pc = "rows", NEW c \in DOMAIN columns
    PROVE  /\ Taken(c) \in Seq(Values) /\ DOMAIN Taken(c) = 1..rows /\ rows \in Nat
           /\ \A i \in 1..rows : /\ Taken(c)[i] \in Draws(GenOf(c)) /\ Takes(c, Taken(c)[i])
           /\ builders[c] = KeptOf(columns[c].ty, Taken(c))
           /\ FinishColumn(columns[c].ty, builders[c]) = build_array(columns[c].ty, Taken(c))
<1> DEFINE ty == columns[c].ty
           values == [i \in 1..rows |-> taken[i][c]]
<1>1. BuilderInv
    BY DEF RunInv, TaskInv
<1>2. rows \in Nat /\ IsSequence(taken) /\ Len(taken) = rows /\ IsSequence(builders[c]) /\ Keeps(builders[c], taken, rows, c)
    BY <1>1 DEF BuilderInv, RowsInv
<1>3. DOMAIN taken = 1..rows
    BY <1>2 DEF IsSequence
<1>4. Taken(c) = values
    BY <1>3 DEF Taken
<1>5. \A i \in 1..rows : values[i] = taken[i][c]
    OBVIOUS
<1>6. DOMAIN values = 1..rows /\ values \in Seq(Values)
    <2>1. values \in [1..rows -> Values]
        BY <1>2 DEF Keeps
    <2> HIDE DEF values
    <2>2. QED
        BY <1>2, <2>1
<1> HIDE DEF values
<1>7. \A i \in 1..rows : values[i] \in Draws(GenOf(c)) /\ Takes(c, values[i])
    <2> SUFFICES ASSUME NEW i \in 1..rows PROVE values[i] \in Draws(GenOf(c)) /\ Takes(c, values[i])
        OBVIOUS
    <2>1. taken[i] \in Rows
        BY DEF RowsDrawn
    <2>2. QED
        BY <1>2, <1>5, <2>1, RowDraws DEF Keeps
<1>8. \A i \in 1..rows : IsOk(Store(ty, values[i]))
    BY <1>7 DEF Takes, Accepts
<1>9. builders[c] = KeptOf(ty, values)
    <2>1. DOMAIN builders[c] = 1..rows /\ builders[c] = [i \in 1..rows |-> builders[c][i]]
        BY <1>2 DEF IsSequence, Keeps
    <2>2. \A i \in 1..rows : builders[c][i] = Store(ty, values[i])[1]
        BY <1>2, <1>5 DEF Keeps
    <2>3. KeptOf(ty, values) = [i \in 1..rows |-> builders[c][i]]
        BY <1>6, <1>8, <2>2 DEF KeptOf
    <2>4. QED
        BY <2>1, <2>3
<1>10. build_array(ty, values) = FinishColumn(ty, KeptOf(ty, values))
    BY <1>6, <1>8, BuiltOfStored
<1>11. QED
    BY <1>2, <1>4, <1>6, <1>7, <1>9, <1>10

(* A column that cannot be finished holds a value it was blind to, or too   *)
(* many.                                                                   *)
LEMMA UnbuiltIsBlind ==
    ASSUME Recursion, GeneratorRecursion, RunInv, RowsDrawn, pc = "rows", NEW c \in DOMAIN columns,
           ~Blind(GenOf(c), columns[c].ty), ~IsOk(FinishColumn(columns[c].ty, builders[c]))
    PROVE  Overfull(columns[c].ty, Taken(c))
<1> SUFFICES ASSUME ~Overfull(columns[c].ty, Taken(c)) PROVE FALSE
    OBVIOUS
<1> DEFINE ty == columns[c].ty
           values == Taken(c)
<1>1. CheckedColumn(c)
    BY ColumnTried
<1>2. Vouched(ty, GenOf(c)) /\ ty \in Types
    BY <1>1, ColumnVouched DEF CheckedColumn
<1>3. /\ values \in Seq(Values) /\ DOMAIN values = 1..rows
      /\ \A i \in 1..rows : values[i] \in Draws(GenOf(c))
      /\ FinishColumn(ty, builders[c]) = build_array(ty, values)
    BY ColumnHolds
<1> HIDE DEF values
<1>4. \A i \in DOMAIN values : <<ty, values[i]>> \in SoundPairs
    <2> SUFFICES ASSUME NEW i \in DOMAIN values PROVE <<ty, values[i]>> \in SoundPairs
        OBVIOUS
    <2>1. values[i] \in Draws(GenOf(c))
        BY <1>3
    <2> DEFINE g == GenOf(c)
               v == values[i]
    <2>2. ty \in Types /\ Vouched(ty, g) /\ g \in Gens /\ v \in Draws(g)
        BY <1>2, <2>1 DEF Vouched
    <2> HIDE DEF g, v
    <2>3. <<ty, v>> \in SoundPairs
        BY <2>2, DrawnIsIn
    <2>4. QED
        BY <2>3 DEF v
<1>5. BuildsAll(SoundPairs, ty)
    BY <1>2, SoundIsClosed, EveryTypeBuilds
<1>6. ~Overfull(ty, values)
    BY DEF values
<1>7. IsOk(build_array(ty, values))
    BY <1>3, <1>4, <1>5, <1>6 DEF BuildsAll
<1>8. QED
    BY <1>3, <1>7

(* The validity flags of a nested array are those of what it was built of.  *)
LEMMA FlagsMarkNulls ==
    ASSUME NEW ty, Nested(ty), NEW kept, IsOk(build_nested(ty, kept))
    PROVE  build_nested(ty, kept)[1].valid = [i \in DOMAIN kept |-> ~IsNull(kept[i])]
<1> DEFINE valid == [i \in DOMAIN kept |-> ~IsNull(kept[i])]
<1>1. CASE ty.k = "ARRAY"
    <2>1. PICK ok, child, offsets, Child :
            build_nested(ty, kept) =
               IF ok THEN Err
               ELSE IF IsOk(child) THEN Ok([valid |-> valid, offsets |-> offsets, child |-> Child]) ELSE Err
        BY <1>1 DEF build_nested, Then
    <2>2. QED
        BY <2>1, OkFacts
<1>2. CASE ty.k = "MAP"
    <2>1. PICK bad, arrays, offsets, Keys, Vals :
            build_nested(ty, kept) =
               IF bad THEN Err
               ELSE IF IsOk(arrays)
                    THEN Ok([valid |-> valid, offsets |-> offsets, keys |-> Keys, vals |-> Vals]) ELSE Err
        BY <1>2 DEF build_nested, Then
    <2>2. QED
        BY <2>1, OkFacts
<1>3. CASE ty.k = "STRUCT"
    <2>1. PICK spread, built, Columns :
            build_nested(ty, kept) =
               IF IsOk(spread)
               THEN IF IsOk(built) THEN Ok([valid |-> valid, columns |-> Columns]) ELSE Err
               ELSE Err
        BY <1>3 DEF build_nested, Then
    <2>2. QED
        BY <2>1, OkFacts
<1>4. QED
    BY <1>1, <1>2, <1>3 DEF Nested

(* What a nested column keeps as null is null, or a text that reads as it.  *)
LEMMA KeptNull ==
    ASSUME NEW ty, Nested(ty), NEW v, IsOk(Store(ty, v)), IsNull(Store(ty, v)[1]), ~IsNull(v)
    PROVE  ReadsNull(v)
<1>1. CASE v.k = "str" /\ IsOk(ParseJson(v.text))
    <2>1. Store(ty, v) = shape_nested(ty, v)
        BY DEF Store
    <2>2. Store(ty, v) = ParseJson(v.text)
        BY <1>1, <2>1, OkFacts DEF shape_nested, Provided
    <2>3. QED
        BY <1>1, <2>2 DEF ReadsNull
<1>2. CASE Store(ty, v) = Ok(v)
    BY <1>2, OkFacts
<1>3. QED
    BY <1>1, <1>2, TakenShapes

(* A generator of a column that is not blind draws such a text only where    *)
(* it is a choice of it.                                                   *)
LEMMA NullTextIsChosen ==
    ASSUME GeneratorRecursion, NEW ty, Nested(ty), NEW g \in Gens, g.g \notin {"opaque", "sequence"},
           NEW v \in Draws(g), ReadsNull(v), IsOk(Store(ty, v))
    PROVE  g.g = "choice" /\ \E i \in DOMAIN g.values : ReadsNull(g.values[i])
<1>1. v.k = "str" /\ v # Null
    BY DEF ReadsNull, Null
<1>2. CASE IsPlain(g)
    <2>1. Drawn(g, v) /\ g.g # "struct"
        BY <1>2, PlainDraws DEF IsPlain, IsRange
    <2>2. CASE IsRange(g)
        <3>1. PICK x : v = At(g, x)
            BY <1>1, <2>1, <2>2 DEF Drawn, IsRange
        <3>2. QED
            BY <2>2, <3>1, RangesNeverNested
    <2>3. CASE ~IsRange(g)
        BY <1>1, <2>1, <2>3 DEF Drawn
    <2>4. QED
        BY <2>2, <2>3
<1>3. CASE ~IsPlain(g)
    <2>1. g.g \in {"array", "map", "struct"}
        BY <1>3, GenParameters DEF GenHasParameters, IsPlain
    <2>2. IsNull(v) \/ v.k = KindOf(g)
        BY <2>1, FirstProbe
    <2>3. QED
        BY <1>1, <2>1, <2>2 DEF IsNull, KindOf
<1>4. QED
    BY <1>2, <1>3

(* A column finished between two rows counts them, and holds a null only    *)
(* where the schema allows one, or a text read as one.                      *)
LEMMA FinishedFits ==
    ASSUME Recursion, GeneratorRecursion, RunInv, RowsDrawn, pc = "rows", NEW c \in DOMAIN columns,
           ~Blind(GenOf(c), columns[c].ty), IsOk(FinishColumn(columns[c].ty, builders[c])),
           NEW array, array = FinishColumn(columns[c].ty, builders[c])[1]
    PROVE  /\ ArrayLen(columns[c].ty, array) = rows
           /\ HasNull(columns[c].ty, array) => columns[c].nullable \/ NullText(c)
<1> DEFINE ty == columns[c].ty
           values == Taken(c)
           g == GenOf(c)
<1>1. CheckedColumn(c)
    BY ColumnTried
<1>2. ty \in Types /\ g \in Gens /\ (Nested(ty) => g.g \notin {"opaque", "sequence"})
    BY <1>1, ColumnVouched DEF CheckedColumn
<1>3. /\ values \in Seq(Values) /\ DOMAIN values = 1..rows /\ rows \in Nat
      /\ \A i \in 1..rows : values[i] \in Draws(g) /\ Takes(c, values[i])
      /\ builders[c] = KeptOf(ty, values)
      /\ build_array(ty, values) = FinishColumn(ty, builders[c])
    BY ColumnHolds
<1> HIDE DEF values
<1>4. Len(values) = rows
    BY <1>3
<1>5. IsOk(build_array(ty, values)) /\ build_array(ty, values)[1] = array
    BY <1>3
<1>6. ArrayLen(ty, array) = rows
    <2>1. Restores(ty)
        BY <1>2, EveryTypeRestores
    <2>2. ReadsBack(ty, array, values)
        BY <1>3, <1>5, <2>1 DEF Restores
    <2>3. QED
        BY <1>4, <2>2 DEF ReadsBack
<1>7. DOMAIN builders[c] = 1..rows /\ \A i \in 1..rows : builders[c][i] = Store(ty, values[i])[1] /\ IsOk(Store(ty, values[i]))
    BY <1>3 DEF KeptOf, Takes, Accepts
<1>8. ASSUME ~Nested(ty), HasNull(ty, array) PROVE columns[c].nullable
    <2>1. array = [slots |-> builders[c]]
        BY <1>8, OkFacts DEF FinishColumn
    <2>2. array.slots = builders[c]
        BY <2>1
    <2>3. PICK i \in 1..rows : builders[c][i] = <<>>
        BY <1>7, <1>8, <2>2 DEF HasNull
    <2>4. IsNull(values[i])
        BY <1>7, <1>8, <2>3, StoredNullness
    <2>5. QED
        BY <1>3, <2>4 DEF Takes, Accepts
<1>9. ASSUME Nested(ty), HasNull(ty, array) PROVE columns[c].nullable \/ NullText(c)
    <2>1. IsOk(build_nested(ty, builders[c])) /\ build_nested(ty, builders[c])[1] = array
        BY <1>2, <1>9 DEF FinishColumn, Recursion
    <2>2. array.valid = [i \in DOMAIN builders[c] |-> ~IsNull(builders[c][i])]
        BY <1>9, <2>1, FlagsMarkNulls
    <2>3. PICK i \in 1..rows : IsNull(builders[c][i])
        BY <1>7, <1>9, <2>2 DEF HasNull
    <2>4. CASE IsNull(values[i])
        BY <1>3, <2>4 DEF Takes, Accepts
    <2>5. CASE ~IsNull(values[i])
        <3>1. ReadsNull(values[i]) /\ values[i] \in Draws(g) /\ IsOk(Store(ty, values[i]))
            BY <1>3, <1>7, <1>9, <2>3, <2>5, KeptNull
        <3>2. g.g = "choice" /\ \E j \in DOMAIN g.values : ReadsNull(g.values[j])
            BY <1>2, <1>9, <3>1, NullTextIsChosen
        <3>3. QED
            BY <1>9, <3>2 DEF NullText
    <2>6. QED
        BY <2>4, <2>5
<1>10. QED
    BY <1>6, <1>8, <1>9

LEMMA FinishFailsBlind ==
    ASSUME Recursion, GeneratorRecursion, RunInv, RowsDrawn, Finish, pc' = "failed"
    PROVE  Unseen \/ TooLarge
<1> SUFFICES ASSUME ~Unseen, ~TooLarge PROVE FALSE
    OBVIOUS
<1>1. pc = "rows" /\ ~(IsOk(FinishedColumns) /\ RecordBatch(FinishedColumns[1]))
    BY DEF Finish, FinishBatch
<1>2. \A c \in DOMAIN columns : IsOk(FinishColumn(columns[c].ty, builders[c]))
    BY <1>1, UnbuiltIsBlind DEF Unseen, TooLarge
<1> DEFINE rs == [c \in DOMAIN columns |-> FinishColumn(columns[c].ty, builders[c])]
           arrays == [c \in DOMAIN rs |-> rs[c][1]]
<1>3. FinishedColumns = Ok(arrays)
    <2>1. \A c \in DOMAIN rs : IsOk(rs[c])
        BY <1>2
    <2> HIDE DEF rs
    <2>2. Collect(rs) = Ok(arrays)
        BY <2>1 DEF Collect
    <2>3. QED
        BY <2>2 DEF FinishedColumns, rs
<1>4. \A c \in DOMAIN columns : arrays[c] = FinishColumn(columns[c].ty, builders[c])[1]
    OBVIOUS
<1> HIDE DEF arrays
<1>5. IsOk(FinishedColumns) /\ FinishedColumns[1] = arrays
    BY <1>3, OkFacts
<1>6. \A c \in DOMAIN columns : /\ ArrayLen(columns[c].ty, arrays[c]) = rows
                                /\ HasNull(columns[c].ty, arrays[c]) => columns[c].nullable
    BY <1>1, <1>2, <1>4, FinishedFits DEF Unseen
<1>7. 1 \in DOMAIN columns
    BY <1>1 DEF RunInv, TaskInv, BuilderInv, TableInv
<1>8. RecordBatch(arrays)
    BY <1>6, <1>7 DEF RecordBatch
<1>9. QED
    BY <1>1, <1>5, <1>8

LEMMA SameReasons ==
    ASSUME UNCHANGED <<columns, spec, taken>>
    PROVE  (Undrawn' <=> Undrawn) /\ (Unseen' <=> Unseen) /\ (TooLarge' <=> TooLarge)
BY DEF Undrawn, Unseen, TooLarge, NullText, GenOf, Taken

LEMMA BlindStep ==
    ASSUME Recursion, GeneratorRecursion, RunInv, RowsDrawn, FailsOnlyBlind, [Next]_vars
    PROVE  FailsOnlyBlind'
<1> SUFFICES ASSUME pc' = "failed" PROVE (Undrawn \/ Unseen \/ TooLarge)'
    BY DEF FailsOnlyBlind, Undrawn, Unseen, TooLarge
<1>1. CASE LoadSchema \/ TakeSpec \/ CompileSpec \/ Validate
    BY <1>1 DEF LoadSchema, TakeSpec, CompileSpec, Validate
<1>2. CASE AppendRow
    <2>1. UNCHANGED <<columns, spec, taken>>
        BY <1>2 DEF AppendRow, AppendTo, orderVars
    <2>2. QED
        BY <1>2, <2>1, AppendFailsBlind, SameReasons
<1>3. CASE DrawFails
    <2>1. UNCHANGED <<columns, spec, taken>> /\ Undrawn
        BY <1>3 DEF DrawFails, GenerateFails, orderVars, progress, Undrawn
    <2>2. QED
        BY <2>1, SameReasons
<1>4. CASE Finish
    <2>1. UNCHANGED <<columns, spec, taken>>
        BY <1>4 DEF Finish, FinishBatch, orderVars, progress
    <2>2. QED
        BY <1>4, <2>1, FinishFailsBlind, SameReasons
<1>5. CASE Stop
    BY <1>5 DEF Stop, EndTask
<1>6. CASE UNCHANGED vars
    <2>1. UNCHANGED <<columns, spec, taken, pc>>
        BY <1>6 DEF vars, orderVars, builderVars, progress
    <2>2. Undrawn \/ Unseen \/ TooLarge
        BY <2>1 DEF FailsOnlyBlind, Undrawn, Unseen, TooLarge
    <2>3. QED
        BY <2>1, <2>2, SameReasons
<1>7. QED
    BY <1>1, <1>2, <1>3, <1>4, <1>5, <1>6 DEF Next, Ended

(* A run that fails on a row or on a batch failed because a generator may   *)
(* bail out, because a column is blind to its generator, a JSON null was    *)
(* chosen for a NOT NULL column, or the batch outgrew its offsets: for      *)
(* every table, spec and row, what validate_against_schema has let through  *)
(* is otherwise taken by BatchBuilder::append_row, and built by finish, at  *)
(* every depth.                                                             *)
THEOREM OnlyBlindRunsFail ==
    ASSUME Recursion, GeneratorRecursion
    PROVE  Spec => []FailsOnlyBlind
<1>1. Init => FailsOnlyBlind
    BY DEF Init, FailsOnlyBlind
<1>2. RunInv /\ RowsDrawn /\ FailsOnlyBlind /\ [Next]_vars => FailsOnlyBlind'
    BY BlindStep
<1>3. QED
    BY <1>1, <1>2, RunDraws, PTL DEF Spec
=============================================================================
