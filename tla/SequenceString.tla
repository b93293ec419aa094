--------------------------- MODULE SequenceString ---------------------------
(***************************************************************************)
(* The sequence_string generator (vendor/datagen/src/generators.rs): every *)
(* generator task has a clone of it, and all clones claim blocks of one    *)
(* shared counter, so that a key column has no value twice.  A `--rows`    *)
(* run is refused up front when its counters could outgrow the column's    *)
(* width (check_sequence_capacity, vendor/datagen/src/compile.rs).         *)
(*                                                                         *)
(* A row draws one value, or null.  The text around the counter is left    *)
(* out: two values are equal exactly when their counters are.  Indices are *)
(* natural numbers: a run of 2^64 draws is out of scope; the counters made *)
(* from them saturate, as they do in the code.                             *)
(***************************************************************************)
EXTENDS Integers, FiniteSets, Totals

CONSTANTS
    GenThreads,
    BLOCK,          (* SEQUENCE_STRING_BLOCK                               *)
    start, step,
    max_counter,    (* the largest counter that fits the column's digits   *)
    MaxU64,         (* where counters saturate                             *)
    Rows,           (* rows the run was asked for                          *)
    Credits,        (* rows of abandoned files that come back to the quota *)
    Nulls           (* is there a null_rate?                               *)

ASSUME SequenceStringAssumption ==
    /\ GenThreads \in Nat \ {0}
    /\ BLOCK \in Nat \ {0}
    /\ start \in Nat
    /\ step \in Nat \ {0}
    /\ MaxU64 \in Nat
    /\ max_counter \in Nat /\ max_counter < MaxU64
    /\ Rows \in Nat
    /\ Credits \in Nat
    /\ Nulls \in BOOLEAN

Generators == 1..GenThreads

VARIABLES
    left,               (* rows not yet drawn                              *)
    credits,            (* rows that may still come back                   *)
    cursor,             (* the shared counter                              *)
    next_index, block_end,
    failed,             (* tasks whose generate returned an error          *)
    count, emitted      (* history: values handed out, and which           *)

clones == <<next_index, block_end>>
vars == <<left, credits, cursor, clones, failed, count, emitted>>

TypeOK ==
    /\ left \in Nat
    /\ credits \in 0..Credits
    /\ cursor \in Nat
    /\ next_index \in [Generators -> Nat]
    /\ block_end \in [Generators -> Nat]
    /\ failed \in SUBSET Generators
    /\ count \in Nat
    /\ emitted \in SUBSET Nat

(* The highest index a run without credits can reach.                      *)
HighestIndex == (IF Rows = 0 THEN 0 ELSE Rows - 1) + (GenThreads - 1) * BLOCK

Saturated(n) == IF n > MaxU64 THEN MaxU64 ELSE n

Counter(index) == Saturated(start + index * step)

(* check_capacity: would this run be started at all? *)
Admitted == Counter(HighestIndex) <= max_counter

Init ==
    /\ left = Rows
    /\ credits = Credits
    /\ cursor = 0
    /\ next_index = [g \in Generators |-> 0]
    /\ block_end = [g \in Generators |-> 0]
    /\ failed = {}
    /\ count = 0 /\ emitted = {}

(* A clone has used up its block, or never had one. *)
Dry(g) == next_index[g] >= block_end[g]

Draws(g) == g \notin failed /\ left > 0

(* null_rate: the row gets no value and no counter is spent.               *)
DrawNull(g) ==
    /\ Nulls
    /\ Draws(g)
    /\ left' = left - 1
    /\ UNCHANGED <<credits, cursor, clones, failed, count, emitted>>

(* Seeded fault: the cursor only advances by what one row needs. *)
ClaimBlockShort(g) ==
    /\ Draws(g)
    /\ Dry(g)
    /\ cursor' = cursor + 1
    /\ next_index' = [next_index EXCEPT ![g] = cursor]
    /\ block_end' = [block_end EXCEPT ![g] = cursor + BLOCK]
    /\ UNCHANGED <<left, credits, failed, count, emitted>>

(* Seeded fault: a task that still has a block drops it for a new one. *)
ClaimBlockEager(g) ==
    /\ Draws(g)
    /\ cursor' = cursor + BLOCK
    /\ next_index' = [next_index EXCEPT ![g] = cursor]
    /\ block_end' = [block_end EXCEPT ![g] = cursor + BLOCK]
    /\ UNCHANGED <<left, credits, failed, count, emitted>>

(* claim_block, from generate when the clone's block is used up.           *)
ClaimBlock(g) ==
    /\ Draws(g)
    /\ Dry(g)
    /\ cursor' = cursor + BLOCK
    /\ next_index' = [next_index EXCEPT ![g] = cursor]
    /\ block_end' = [block_end EXCEPT ![g] = cursor + BLOCK]
    /\ UNCHANGED <<left, credits, failed, count, emitted>>

(* generate hands out the next index of the clone's block, *)
Draw(g) ==
    /\ Draws(g)
    /\ ~Dry(g)
    /\ Counter(next_index[g]) <= max_counter
    /\ left' = left - 1
    /\ next_index' = [next_index EXCEPT ![g] = @ + 1]
    /\ count' = count + 1
    /\ emitted' = emitted \cup {Counter(next_index[g])}
    /\ UNCHANGED <<credits, cursor, block_end, failed>>

(* unless its counter no longer fits, which ends the task with an error.   *)
DrawFails(g) ==
    /\ Draws(g)
    /\ ~Dry(g)
    /\ Counter(next_index[g]) > max_counter
    /\ left' = left - 1
    /\ next_index' = [next_index EXCEPT ![g] = @ + 1]
    /\ failed' = failed \cup {g}
    /\ UNCHANGED <<credits, cursor, block_end, count, emitted>>

(* A row of an abandoned file is put back into the quota.                  *)
Credit ==
    /\ credits > 0
    /\ left < Rows
    /\ credits' = credits - 1
    /\ left' = left + 1
    /\ UNCHANGED <<cursor, clones, failed, count, emitted>>

Stopped == left = 0 \/ failed = Generators

Stutter == Stopped /\ UNCHANGED vars

Next ==
    \/ \E g \in Generators : DrawNull(g) \/ ClaimBlock(g) \/ Draw(g) \/ DrawFails(g)
    \/ Credit
    \/ Stutter

(* A run that is not admitted never takes a step.                          *)
Spec == Init /\ [][Admitted /\ Next]_vars
-----------------------------------------------------------------------------
(* "values stay unique across generator threads": no value is handed out    *)
(* twice, whichever clones draw and however their claims interleave.       *)
Unique == Cardinality(emitted) = count

(* "the waste is bounded by the blocks those threads - 1 others hold": a     *)
(* clone with a block is never further ahead of the rows drawn so far than  *)
(* the blocks the other clones may hold.                                    *)
WasteBounded ==
    \A g \in Generators : ~Dry(g) =>
        next_index[g] <= (Rows - left) + (Credits - credits) + (GenThreads - 1) * BLOCK

(* A run that passed the check never runs out of digits partway through, as *)
(* long as no row of an abandoned file came back to be drawn again: the     *)
(* check does not know about those.                                        *)
AdmittedRunsThrough == credits = Credits => failed = {}
=============================================================================
