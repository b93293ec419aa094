----------------------------- MODULE RowLedger -----------------------------
(***************************************************************************)
(* What a `--rows` run promises about its quota, without threads, queue or *)
(* files.  A row is in the pool until it is reserved, in motion until its  *)
(* fate is known, and then stored in a finished object, gone for good, or  *)
(* back in the pool.  No row is invented and none is counted twice.        *)
(***************************************************************************)
EXTENDS Naturals

CONSTANTS
    Quota,      (* rows the run was asked for                              *)
    BatchRows   (* the most rows one reservation takes                     *)

VARIABLES pool, moving, stored, gone

ledger == <<pool, moving, stored, gone>>

Init ==
    /\ pool = Quota
    /\ moving = 0
    /\ stored = 0
    /\ gone = 0

(* A generator takes rows from the pool: a full batch, or all that is left. *)
Reserve ==
    /\ pool > 0
    /\ \/ pool >= BatchRows /\ pool' = pool - BatchRows
       \/ pool < BatchRows /\ pool' = 0
    /\ moving' = moving + (pool - pool')
    /\ UNCHANGED <<stored, gone>>

(* A file completes and its rows are in storage. *)
Store ==
    /\ moving' < moving
    /\ moving' \in Nat
    /\ stored' = stored + (moving - moving')
    /\ UNCHANGED <<pool, gone>>

(* Rows are lost with no way back into the pool. *)
Lose ==
    /\ moving' < moving
    /\ moving' \in Nat
    /\ gone' = gone + (moving - moving')
    /\ UNCHANGED <<pool, stored>>

(* Rows of an abandoned file return to the pool, to be generated again. *)
Refund ==
    /\ moving' < moving
    /\ moving' \in Nat
    /\ pool' = pool + (moving - moving')
    /\ UNCHANGED <<stored, gone>>

Next == Reserve \/ Store \/ Lose \/ Refund

Spec == Init /\ [][Next]_ledger
=============================================================================
