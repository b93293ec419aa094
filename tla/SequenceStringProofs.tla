------------------------ MODULE SequenceStringProofs ------------------------
(***************************************************************************)
(* sequence_string never repeats a value, and check_sequence_capacity      *)
(* allows for exactly as many wasted indices as there can be: for any      *)
(* number of tasks, any block size, start, step and width.                 *)
(***************************************************************************)
EXTENDS SequenceString, TotalsProofs, FiniteSetTheorems

(* Indices a clone owns and has not used. *)
Unused == [g \in Generators |-> block_end[g] - next_index[g]]

Owned(g) == next_index[g]..block_end[g] - 1

(* Rows a run may have drawn, counting those that came back. *)
Drawn == (Rows - left) + (Credits - credits)

(* Clones own disjoint stretches of the indices below the cursor. *)
BlockInv ==
    /\ \A g \in Generators :
        /\ next_index[g] <= block_end[g]
        /\ block_end[g] <= next_index[g] + BLOCK
        /\ block_end[g] <= cursor
    /\ \A g, h \in Generators :
        g # h => Dry(g) \/ Dry(h) \/ block_end[g] <= next_index[h]
                        \/ block_end[h] <= next_index[g]

(* Every value handed out comes from an index that nobody owns any more. *)
SpentInv ==
    /\ IsFiniteSet(emitted)
    /\ Unique
    /\ \A c \in emitted : \E i \in Nat :
        /\ c = start + i * step
        /\ i < cursor
        /\ \A g \in Generators : ~Dry(g) => i < next_index[g] \/ i >= block_end[g]

(* What was claimed is either unused or was spent on a row. *)
WasteInv ==
    /\ left <= Rows /\ credits <= Credits
    /\ cursor <= Drawn + Total(Unused)

Inv == TypeOK /\ BlockInv /\ SpentInv /\ WasteInv

(* Different indices make different counters, as long as they fit. *)
LEMMA CountersDiffer ==
    ASSUME NEW i \in Nat, NEW j \in Nat, start + i * step = start + j * step
    PROVE  i = j
<1> USE SequenceStringAssumption
<1>1. i * step \in Nat /\ j * step \in Nat
    OBVIOUS
<1>2. i * step = j * step
    BY <1>1
<1>3. ASSUME NEW a \in Nat, NEW b \in Nat, a < b PROVE a * step < b * step
    <2>1. b - a \in Nat /\ b - a > 0 /\ step > 0 /\ step \in Nat
        BY <1>3
    <2>2. (b - a) * step > 0
        BY <2>1
    <2>3. b * step = a * step + (b - a) * step
        BY <2>1
    <2>4. a * step \in Nat /\ b * step \in Nat /\ (b - a) * step \in Nat
        BY <2>1
    <2>5. QED
        BY <2>2, <2>3, <2>4
<1>4. ~(i < j) /\ ~(j < i)
    BY <1>1, <1>2, <1>3
<1>5. QED
    BY <1>4

(* A counter that fits the column has not saturated. *)
LEMMA FittingCounter ==
    ASSUME NEW i \in Nat, Counter(i) <= max_counter
    PROVE  Counter(i) = start + i * step /\ start + i * step \in Nat
<1>1. i * step \in Nat
    BY SequenceStringAssumption
<1>2. start + i * step \in Nat
    BY <1>1, SequenceStringAssumption
<1>3. QED
    BY <1>2, SequenceStringAssumption DEF Counter, Saturated

(* A smaller index has a smaller counter. *)
LEMMA CounterMonotone ==
    ASSUME NEW i \in Nat, NEW j \in Nat, i <= j
    PROVE  Counter(i) <= Counter(j)
<1> USE SequenceStringAssumption
<1>1. i * step \in Nat /\ j * step \in Nat /\ (j - i) * step \in Nat
    OBVIOUS
<1>2. j * step = i * step + (j - i) * step
    OBVIOUS
<1>3. start + i * step <= start + j * step
    BY <1>1, <1>2
<1>4. start + i * step \in Nat /\ start + j * step \in Nat
    BY <1>1
<1>5. QED
    BY <1>3, <1>4 DEF Counter, Saturated

(* The unused indices are a per-task count. *)
LEMMA UnusedType ==
    ASSUME TypeOK, BlockInv
    PROVE  /\ GenThreads \in Nat
           /\ Unused \in [Generators -> Nat]
           /\ \A g \in Generators : Unused[g] <= BLOCK
           /\ Total(Unused) \in Nat
<1> USE SequenceStringAssumption
<1>1. Unused \in [Generators -> Nat]
    <2>1. \A g \in Generators : block_end[g] - next_index[g] \in Nat
        BY DEF TypeOK, BlockInv
    <2>2. QED
        BY <2>1 DEF Unused
<1>2. \A g \in Generators : Unused[g] <= BLOCK
    BY DEF Unused, TypeOK, BlockInv
<1>3. Unused \in Seq(Nat)
    BY <1>1, FunctionIsSequence DEF Generators
<1>4. QED
    BY <1>1, <1>2, <1>3, TotalType

(* Changing one task's count changes the total by the difference. *)
LEMMA UnusedUpdate ==
    ASSUME NEW f \in [Generators -> Nat], NEW g \in Generators, NEW v \in Nat
    PROVE  /\ f[g] \in Nat /\ f[g] <= Total(f) /\ Total(f) \in Nat
           /\ Total([f EXCEPT ![g] = v]) = (Total(f) - f[g]) + v
<1>1. GenThreads \in Nat
    BY SequenceStringAssumption
<1>2. f \in Seq(Nat) /\ Len(f) = GenThreads
    BY <1>1, FunctionIsSequence DEF Generators
<1>3. Total(f) \in Nat
    BY <1>2, TotalType
<1>4. /\ f[g] \in Nat /\ f[g] <= Total(f) /\ Total([f EXCEPT ![g] = v]) \in Nat
      /\ Total([f EXCEPT ![g] = v]) + f[g] = Total(f) + v
    BY <1>1, TotalUpdateFunction DEF Generators
<1>5. QED
    BY <1>3, <1>4

LEMMA InitInv == Init => Inv
<1> SUFFICES ASSUME Init PROVE Inv
    OBVIOUS
<1> USE SequenceStringAssumption
<1>1. TypeOK
    BY DEF Init, TypeOK
<1>2. BlockInv
    BY DEF Init, BlockInv, Dry
<1>3. SpentInv
    BY FS_EmptySet DEF Init, SpentInv, Unique
<1>4. WasteInv
    <2>1. Total(Unused) \in Nat
        BY <1>1, <1>2, UnusedType
    <2>2. QED
        BY <2>1 DEF Init, WasteInv, Drawn
<1>5. QED
    BY <1>1, <1>2, <1>3, <1>4 DEF Inv

LEMMA TypeStep ==
    ASSUME TypeOK, [Next]_vars
    PROVE  TypeOK'
<1> USE SequenceStringAssumption
<1>1. ASSUME NEW g \in Generators, DrawNull(g)
      PROVE  TypeOK'
    <2>1. left' = left - 1 /\ left > 0 /\ left \in Nat
        BY <1>1 DEF DrawNull, Draws, TypeOK
    <2>2. left' \in Nat
        BY <2>1
    <2>3. QED
        BY <1>1, <2>2 DEF DrawNull, clones, TypeOK
<1>2. ASSUME NEW g \in Generators, ClaimBlock(g)
      PROVE  TypeOK'
    <2>1. cursor \in Nat /\ cursor' = cursor + BLOCK
        BY <1>2 DEF ClaimBlock, TypeOK
    <2>2. cursor' \in Nat
        BY <2>1
    <2>3. /\ next_index' \in [Generators -> Nat]
          /\ block_end' \in [Generators -> Nat]
        BY <1>2, <2>1, <2>2 DEF ClaimBlock, TypeOK
    <2>4. QED
        BY <1>2, <2>2, <2>3 DEF ClaimBlock, TypeOK
<1>3. ASSUME NEW g \in Generators, Draw(g)
      PROVE  TypeOK'
    <2>1. /\ left' = left - 1 /\ left > 0 /\ left \in Nat
          /\ next_index[g] \in Nat
        BY <1>3 DEF Draw, Draws, TypeOK
    <2>2. Counter(next_index[g]) \in Nat
        BY <1>3, <2>1, FittingCounter DEF Draw
    <2>3. left' \in Nat /\ next_index' \in [Generators -> Nat]
        BY <1>3, <2>1 DEF Draw, TypeOK
    <2>4. emitted' \in SUBSET Nat /\ count' \in Nat
        <3>1. emitted' = emitted \cup {Counter(next_index[g])} /\ emitted \in SUBSET Nat
            BY <1>3 DEF Draw, TypeOK
        <3>2. count' = count + 1 /\ count \in Nat
            BY <1>3 DEF Draw, TypeOK
        <3>3. emitted' \in SUBSET Nat
            BY <2>2, <3>1
        <3>4. QED
            BY <3>2, <3>3
    <2>5. QED
        BY <1>3, <2>3, <2>4 DEF Draw, TypeOK
<1>4. ASSUME NEW g \in Generators, DrawFails(g)
      PROVE  TypeOK'
    <2>1. left' = left - 1 /\ left > 0 /\ left \in Nat
        BY <1>4 DEF DrawFails, Draws, TypeOK
    <2>2. left' \in Nat /\ next_index' \in [Generators -> Nat]
        BY <1>4, <2>1 DEF DrawFails, TypeOK
    <2>3. failed' \in SUBSET Generators
        BY <1>4 DEF DrawFails, TypeOK
    <2>4. QED
        BY <1>4, <2>2, <2>3 DEF DrawFails, TypeOK
<1>5. CASE Credit
    <2>1. /\ credits \in Nat /\ credits <= Credits /\ left \in Nat
          /\ credits > 0 /\ credits' = credits - 1 /\ left' = left + 1
        BY <1>5 DEF Credit, TypeOK
    <2>2. credits' \in 0..Credits /\ left' \in Nat
        BY <2>1
    <2>3. QED
        BY <1>5, <2>2 DEF Credit, clones, TypeOK
<1>6. CASE UNCHANGED vars
    BY <1>6 DEF vars, clones, TypeOK
<1>7. QED
    BY <1>1, <1>2, <1>3, <1>4, <1>5, <1>6 DEF Next, Stutter

LEMMA BlockStep ==
    ASSUME TypeOK, BlockInv, [Next]_vars
    PROVE  BlockInv'
<1> USE SequenceStringAssumption DEF TypeOK, BlockInv, Dry, clones
<1>1. CASE \E g \in Generators : ClaimBlock(g)
    BY <1>1 DEF ClaimBlock
<1>2. CASE \E g \in Generators : Draw(g) \/ DrawFails(g)
    BY <1>2 DEF Draw, DrawFails
<1>3. CASE (\E g \in Generators : DrawNull(g)) \/ Credit \/ Stutter \/ UNCHANGED vars
    BY <1>3 DEF DrawNull, Credit, Stutter, vars
<1>4. QED
    BY <1>1, <1>2, <1>3 DEF Next

LEMMA SpentStep ==
    ASSUME TypeOK, BlockInv, SpentInv, [Next]_vars
    PROVE  SpentInv'
<1>1. CASE \E g \in Generators : ClaimBlock(g)
    <2>1. PICK g \in Generators : ClaimBlock(g)
        BY <1>1
    <2>2. emitted' = emitted /\ count' = count
        BY <2>1 DEF ClaimBlock
    <2>3. ASSUME NEW i \in Nat, i < cursor,
                 \A h \in Generators : ~Dry(h) => i < next_index[h] \/ i >= block_end[h]
          PROVE  /\ i < cursor'
                 /\ \A h \in Generators :
                      ~Dry(h)' => i < next_index'[h] \/ i >= block_end'[h]
        BY <2>1, <2>3, SequenceStringAssumption DEF ClaimBlock, Dry, TypeOK
    <2>4. QED
        BY <2>2, <2>3 DEF SpentInv, Unique
<1>2. CASE \E g \in Generators : Draw(g)
    <2>1. PICK g \in Generators : Draw(g)
        BY <1>2
    <2> DEFINE j == next_index[g]
               c == Counter(j)
    <2>2. /\ j \in Nat /\ j < block_end[g] /\ block_end[g] <= cursor
          /\ c <= max_counter
          /\ emitted' = emitted \cup {c} /\ count' = count + 1
          /\ cursor' = cursor /\ block_end' = block_end
          /\ next_index' = [next_index EXCEPT ![g] = j + 1]
        BY <2>1 DEF Draw, Dry, TypeOK, BlockInv
    <2>3. c = start + j * step
        BY <2>2, FittingCounter
    <2>4. c \notin emitted
        <3> SUFFICES ASSUME c \in emitted PROVE FALSE
            OBVIOUS
        <3>1. PICK i \in Nat :
                /\ c = start + i * step
                /\ \A h \in Generators : ~Dry(h) => i < next_index[h] \/ i >= block_end[h]
            BY DEF SpentInv
        <3>2. i = j
            BY <2>2, <2>3, <3>1, CountersDiffer
        <3>3. ~Dry(g)
            BY <2>1 DEF Draw
        <3>4. j < next_index[g] \/ j >= block_end[g]
            BY <3>1, <3>2, <3>3
        <3>5. block_end[g] \in Nat
            BY DEF TypeOK
        <3>6. QED
            BY <2>2, <3>4, <3>5
    <2>5. IsFiniteSet(emitted') /\ Cardinality(emitted') = count'
        BY <2>2, <2>4, FS_AddElement DEF SpentInv, Unique
    <2>6. ASSUME NEW i \in Nat, i < cursor,
                 \A h \in Generators : ~Dry(h) => i < next_index[h] \/ i >= block_end[h]
          PROVE  \A h \in Generators :
                   ~Dry(h)' => i < next_index'[h] \/ i >= block_end'[h]
        BY <2>2, <2>6 DEF Dry, TypeOK
    <2>7. \A h \in Generators : ~Dry(h)' => j < next_index'[h] \/ j >= block_end'[h]
        BY <2>1, <2>2 DEF Dry, TypeOK, BlockInv, Draw
    <2>8. j < cursor
        BY <2>2 DEF TypeOK
    <2>9. \A d \in emitted' : \E i \in Nat :
            /\ d = start + i * step
            /\ i < cursor'
            /\ \A h \in Generators : ~Dry(h)' => i < next_index'[h] \/ i >= block_end'[h]
        <3> SUFFICES ASSUME NEW d \in emitted'
                     PROVE  \E i \in Nat :
                        /\ d = start + i * step
                        /\ i < cursor'
                        /\ \A h \in Generators :
                             ~Dry(h)' => i < next_index'[h] \/ i >= block_end'[h]
            OBVIOUS
        <3>1. CASE d = c
            BY <2>2, <2>3, <2>7, <2>8, <3>1
        <3>2. CASE d \in emitted
            <4>1. PICK i \in Nat :
                    /\ d = start + i * step
                    /\ i < cursor
                    /\ \A h \in Generators :
                         ~Dry(h) => i < next_index[h] \/ i >= block_end[h]
                BY <3>2 DEF SpentInv
            <4>2. QED
                BY <2>2, <2>6, <4>1
        <3>3. QED
            BY <2>2, <3>1, <3>2
    <2>10. QED
        BY <2>5, <2>9 DEF SpentInv, Unique
<1>3. CASE \E g \in Generators : DrawFails(g)
    <2>1. PICK g \in Generators : DrawFails(g)
        BY <1>3
    <2>2. emitted' = emitted /\ count' = count /\ cursor' = cursor
        BY <2>1 DEF DrawFails
    <2>3. ASSUME NEW i \in Nat,
                 \A h \in Generators : ~Dry(h) => i < next_index[h] \/ i >= block_end[h]
          PROVE  \A h \in Generators :
                   ~Dry(h)' => i < next_index'[h] \/ i >= block_end'[h]
        BY <2>1, <2>3 DEF DrawFails, Dry, TypeOK
    <2>4. QED
        BY <2>2, <2>3 DEF SpentInv, Unique
<1>4. CASE (\E g \in Generators : DrawNull(g)) \/ Credit \/ Stutter \/ UNCHANGED vars
    BY <1>4 DEF DrawNull, Credit, Stutter, vars, clones, SpentInv, Unique, Dry
<1>5. QED
    BY <1>1, <1>2, <1>3, <1>4 DEF Next

LEMMA WasteStep ==
    ASSUME TypeOK, BlockInv, WasteInv, [Next]_vars
    PROVE  WasteInv'
<1> USE SequenceStringAssumption
<1> DEFINE t == Total(Unused)
<1>1. /\ Unused \in [Generators -> Nat] /\ t \in Nat
      /\ left \in Nat /\ credits \in Nat /\ cursor \in Nat
      /\ left <= Rows /\ credits <= Credits /\ cursor <= Drawn + t
    BY UnusedType DEF TypeOK, WasteInv
<1>2. CASE \E g \in Generators : ClaimBlock(g)
    <2>1. PICK g \in Generators : ClaimBlock(g)
        BY <1>2
    <2>2. /\ cursor' = cursor + BLOCK /\ left' = left /\ credits' = credits
          /\ Unused[g] = 0 /\ Unused' = [Unused EXCEPT ![g] = BLOCK]
        <3>1. /\ cursor' = cursor + BLOCK /\ left' = left /\ credits' = credits
              /\ next_index' = [next_index EXCEPT ![g] = cursor]
              /\ block_end' = [block_end EXCEPT ![g] = cursor + BLOCK]
              /\ next_index[g] >= block_end[g]
            BY <2>1 DEF ClaimBlock, Dry
        <3>2. Unused[g] = 0
            BY <3>1 DEF Unused, TypeOK, BlockInv
        <3>3. (cursor + BLOCK) - cursor = BLOCK
            BY <1>1
        <3>4. Unused' = [h \in Generators |-> block_end'[h] - next_index'[h]]
            BY DEF Unused
        <3>5. ASSUME NEW h \in Generators
              PROVE  block_end'[h] - next_index'[h]
                       = IF h = g THEN BLOCK ELSE block_end[h] - next_index[h]
            BY <3>1, <3>3 DEF TypeOK
        <3>6. Unused' = [Unused EXCEPT ![g] = BLOCK]
            BY <3>4, <3>5 DEF Unused
        <3>7. QED
            BY <3>1, <3>2, <3>6
    <2>3. Total(Unused') = t + BLOCK
        <3>1. Total([Unused EXCEPT ![g] = BLOCK]) = (t - Unused[g]) + BLOCK
            BY <1>1, UnusedUpdate
        <3>2. QED
            BY <1>1, <2>2, <3>1
    <2> HIDE DEF t
    <2>4. QED
        BY <1>1, <2>2, <2>3 DEF WasteInv, Drawn
<1>3. CASE \E g \in Generators : Draw(g) \/ DrawFails(g)
    <2>1. PICK g \in Generators : Draw(g) \/ DrawFails(g)
        BY <1>3
    <2>2. /\ cursor' = cursor /\ left' = left - 1 /\ left > 0 /\ credits' = credits
          /\ Unused[g] \in Nat \ {0}
          /\ Unused' = [Unused EXCEPT ![g] = Unused[g] - 1]
        BY <1>1, <2>1 DEF Draw, DrawFails, Draws, Unused, Dry, TypeOK
    <2>3. Total(Unused') = t - 1
        <3>1. Unused[g] - 1 \in Nat
            BY <2>2
        <3>2. Total([Unused EXCEPT ![g] = Unused[g] - 1]) = (t - Unused[g]) + (Unused[g] - 1)
            BY <1>1, <3>1, UnusedUpdate
        <3>3. QED
            BY <1>1, <2>2, <3>2
    <2> HIDE DEF t
    <2>4. QED
        BY <1>1, <2>2, <2>3 DEF WasteInv, Drawn
<1>4. CASE (\E g \in Generators : DrawNull(g)) \/ Credit \/ Stutter \/ UNCHANGED vars
    <2>1. /\ cursor' = cursor /\ Unused' = Unused
          /\ \/ left' = left /\ credits' = credits
             \/ left' = left - 1 /\ left > 0 /\ credits' = credits
             \/ left' = left + 1 /\ left < Rows /\ credits' = credits - 1
        BY <1>4 DEF DrawNull, Draws, Credit, Stutter, vars, clones, Unused
    <2>2. Total(Unused') = t
        BY <2>1
    <2> HIDE DEF t
    <2>3. QED
        BY <1>1, <2>1, <2>2 DEF WasteInv, Drawn
<1>5. QED
    BY <1>2, <1>3, <1>4 DEF Next

LEMMA StepInv == Inv /\ [Admitted /\ Next]_vars => Inv'
BY TypeStep, BlockStep, SpentStep, WasteStep DEF Inv

(* No value is handed out twice, whichever clones draw. *)
THEOREM ValuesAreUnique == Spec => []Unique
<1>1. Inv => Unique
    BY DEF Inv, SpentInv
<1>2. QED
    BY <1>1, InitInv, StepInv, PTL DEF Spec

(* How far ahead of the rows drawn a clone can be. *)
LEMMA Waste == Inv => WasteBounded
<1> SUFFICES ASSUME Inv, NEW g \in Generators
             PROVE  next_index[g] <= Drawn + (GenThreads - 1) * BLOCK
    BY DEF WasteBounded, Drawn
<1> USE SequenceStringAssumption
<1>1. /\ Unused \in [Generators -> Nat] /\ Total(Unused) \in Nat
      /\ \A h \in Generators : Unused[h] <= BLOCK
    BY UnusedType DEF Inv
<1>2. Total(Unused) <= Unused[g] + (GenThreads - 1) * BLOCK
    BY <1>1, TotalBound DEF Generators
<1>3. /\ next_index[g] \in Nat /\ block_end[g] \in Nat /\ cursor \in Nat
      /\ Unused[g] = block_end[g] - next_index[g] /\ block_end[g] <= cursor
    BY DEF Inv, TypeOK, BlockInv, Unused
<1>4. /\ Drawn \in Int /\ cursor <= Drawn + Total(Unused)
      /\ (GenThreads - 1) * BLOCK \in Int
    BY DEF Inv, TypeOK, WasteInv, Drawn
<1>5. QED
    BY <1>1, <1>2, <1>3, <1>4

THEOREM WasteIsBounded == Spec => []WasteBounded
BY Waste, InitInv, StepInv, PTL DEF Spec

(* The check before the run is enough: as long as no row came back, an      *)
(* admitted run never finds that a counter does not fit.                   *)
THEOREM AdmittedIsEnough == Spec => []AdmittedRunsThrough
<1> USE SequenceStringAssumption
<1>1. Init => AdmittedRunsThrough
    BY DEF Init, AdmittedRunsThrough
<1>2. Inv /\ AdmittedRunsThrough /\ [Admitted /\ Next]_vars => AdmittedRunsThrough'
    <2> SUFFICES ASSUME Inv, AdmittedRunsThrough, [Admitted /\ Next]_vars,
                        ~AdmittedRunsThrough'
                 PROVE  FALSE
        OBVIOUS
    <2>a. credits \in Nat /\ credits <= Credits
        BY DEF Inv, TypeOK
    <2>b. ~Credit
        BY <2>a DEF Credit, AdmittedRunsThrough
    <2>c. credits' = credits
        BY <2>b DEF Next, DrawNull, ClaimBlock, Draw, DrawFails, Stutter, vars
    <2>d. credits = Credits /\ failed = {} /\ failed' # {}
        BY <2>c DEF AdmittedRunsThrough
    <2>e. PICK g \in Generators : DrawFails(g)
        BY <2>b, <2>d DEF Next, DrawNull, ClaimBlock, Draw, Stutter, vars
    <2>f. Admitted
        BY <2>d DEF vars
    <2> DEFINE i == next_index[g]
               slack == (GenThreads - 1) * BLOCK
    <2>1. /\ i \in Nat /\ left \in Nat /\ left > 0 /\ left <= Rows /\ credits = Credits
          /\ Counter(i) > max_counter /\ ~Dry(g)
        BY <2>d, <2>e DEF Inv, TypeOK, WasteInv, DrawFails, Draws
    <2>2. i <= (Rows - left) + (Credits - credits) + slack
        BY <2>1, Waste DEF WasteBounded
    <2>3. slack \in Nat
        OBVIOUS
    <2>4. HighestIndex = (Rows - 1) + slack /\ HighestIndex \in Nat
        BY <2>1, <2>3 DEF HighestIndex
    <2> HIDE DEF slack
    <2>5. i <= HighestIndex
        BY <2>1, <2>2, <2>3, <2>4
    <2>6. Counter(i) <= Counter(HighestIndex)
        BY <2>1, <2>4, <2>5, CounterMonotone
    <2>7. Counter(i) \in Int /\ Counter(HighestIndex) \in Int
        <3>1. i * step \in Nat /\ HighestIndex * step \in Nat
            BY <2>1, <2>4
        <3>2. QED
            BY <3>1 DEF Counter, Saturated
    <2>8. QED
        BY <2>f, <2>1, <2>6, <2>7 DEF Admitted
<1>3. QED
    BY <1>1, <1>2, InitInv, StepInv, PTL DEF Spec
=============================================================================
