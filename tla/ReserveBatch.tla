---------------------------- MODULE ReserveBatch ----------------------------
(***************************************************************************)
(* reserve_batch (vendor/datagen/src/stream.rs), instruction by            *)
(* instruction: generators take rows from one shared counter with a load   *)
(* and a compare-and-exchange while upload workers add the rows of         *)
(* abandoned files back with fetch_add.  Pipeline takes a whole            *)
(* reservation in one step; this module is why it may.                     *)
(***************************************************************************)
EXTENDS Naturals, Totals

CONSTANTS
    GenThreads, BatchRows,
    Quota,      (* rows the run was asked for                              *)
    Credits     (* model bound: times abandoned rows come back             *)

ASSUME ReserveBatchAssumption ==
    /\ GenThreads \in Nat \ {0}
    /\ BatchRows \in Nat \ {0}
    /\ Quota \in Nat
    /\ Credits \in Nat

Generators == 1..GenThreads

VARIABLES
    remaining,  (* the shared counter                                      *)
    pc, current,
    taken,      (* rows each generator holds or has passed on, and that    *)
                (* have not come back                                      *)
    credits     (* credits left                                            *)

vars == <<remaining, pc, current, taken, credits>>

TypeOK ==
    /\ remaining \in 0..Quota
    /\ pc \in [Generators -> {"load", "exchange", "done"}]
    /\ current \in [Generators -> 0..Quota]
    /\ taken \in [Generators -> 0..Quota]
    /\ credits \in 0..Credits

Init ==
    /\ remaining = Quota
    /\ pc = [g \in Generators |-> "load"]
    /\ current = [g \in Generators |-> 0]
    /\ taken = [g \in Generators |-> 0]
    /\ credits = Credits

(* Load the counter; on 0 the call returns 0 and the generator's loop ends. *)
Load(g) ==
    /\ pc[g] = "load"
    /\ current' = [current EXCEPT ![g] = remaining]
    /\ pc' = [pc EXCEPT ![g] = IF remaining = 0 THEN "done" ELSE "exchange"]
    /\ UNCHANGED <<remaining, taken, credits>>

Take(g) == IF current[g] >= BatchRows THEN BatchRows ELSE current[g]

(* Seeded fault: a plain store, whatever happened since the load. *)
ExchangeBlindly(g) ==
    /\ pc[g] = "exchange"
    /\ remaining' = current[g] - Take(g)
    /\ taken' = [taken EXCEPT ![g] = @ + Take(g)]
    /\ pc' = [pc EXCEPT ![g] = "load"]
    /\ UNCHANGED <<current, credits>>

(* The counter still has the loaded value: the rows are ours.              *)
Exchange(g) ==
    /\ pc[g] = "exchange"
    /\ remaining = current[g]
    /\ remaining' = current[g] - Take(g)
    /\ taken' = [taken EXCEPT ![g] = @ + Take(g)]
    /\ pc' = [pc EXCEPT ![g] = "load"]
    /\ UNCHANGED <<current, credits>>

(* Seeded fault: a lost race is taken for an empty quota. *)
GiveUpOnRace(g) ==
    /\ pc[g] = "exchange"
    /\ remaining # current[g]
    /\ pc' = [pc EXCEPT ![g] = "done"]
    /\ UNCHANGED <<remaining, current, taken, credits>>

(* Seeded fault: the retry tries the stale value again. *)
RetryStale(g) ==
    /\ pc[g] = "exchange"
    /\ remaining # current[g]
    /\ UNCHANGED vars

(* Somebody was faster: load again.                                        *)
Retry(g) ==
    /\ pc[g] = "exchange"
    /\ remaining # current[g]
    /\ pc' = [pc EXCEPT ![g] = "load"]
    /\ UNCHANGED <<remaining, current, taken, credits>>

(* upload_worker returns some of the rows taken through g. *)
Credit(g) ==
    /\ credits > 0
    /\ credits' = credits - 1
    /\ \E n \in 1..taken[g] :
        /\ remaining' = remaining + n
        /\ taken' = [taken EXCEPT ![g] = @ - n]
    /\ UNCHANGED <<pc, current>>

Generator(g) == Load(g) \/ Exchange(g) \/ Retry(g)

Done == \A g \in Generators : pc[g] = "done"

Stutter == Done /\ UNCHANGED vars

Next ==
    \/ \E g \in Generators : Generator(g) \/ Credit(g)
    \/ Stutter

Spec == Init /\ [][Next]_vars

(* Only the generators must run: credits may never come. *)
FairSpec == Spec /\ \A g \in Generators : WF_vars(Generator(g))
-----------------------------------------------------------------------------
(* Rows are neither minted nor dropped by racing reservations and credits. *)
QuotaConserved == remaining + Total(taken) = Quota

(* A generator is told that the quota is spent only when it is: it leaves   *)
(* in a step that finds the counter at 0.                                  *)
LeavesOnEmpty ==
    [][ \A g \in Generators :
          pc[g] # "done" /\ pc'[g] = "done" => remaining = 0 ]_vars

(* Losing races does not starve a run: with finitely many credits every     *)
(* generator returns.                                                      *)
AllReturn == <>Done

(* Each call takes effect in one step: reservations and credits implement   *)
(* those of the abstract ledger.                                           *)
Ledger == INSTANCE RowLedger WITH
    pool <- remaining,
    moving <- Total(taken),
    stored <- 0,
    gone <- 0

LedgerSpec == Ledger!Spec
=============================================================================
