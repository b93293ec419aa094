------------------------- MODULE ReserveBatchProofs -------------------------
(***************************************************************************)
(* The compare-and-exchange loop of reserve_batch takes effect atomically, *)
(* for any number of generators, any quota and any number of credits.      *)
(***************************************************************************)
EXTENDS ReserveBatch, TotalsProofs

(* An exchange is only tried with a value that left something to take. *)
Inv ==
    /\ TypeOK
    /\ QuotaConserved
    /\ \A g \in Generators : pc[g] = "exchange" => current[g] > 0

(* Updating one generator's share changes the total by the difference. *)
LEMMA TakenUpdate ==
    ASSUME NEW f \in [Generators -> Nat], NEW g \in Generators, NEW v \in Nat
    PROVE  /\ f[g] \in Nat /\ f[g] <= Total(f) /\ Total(f) \in Nat
           /\ Total([f EXCEPT ![g] = v]) = (Total(f) - f[g]) + v
<1>1. GenThreads \in Nat
    BY ReserveBatchAssumption
<1>2. f \in Seq(Nat) /\ Len(f) = GenThreads
    BY <1>1, FunctionIsSequence DEF Generators
<1>3. Total(f) \in Nat
    BY <1>2, TotalType
<1>4. /\ f[g] \in Nat /\ f[g] <= Total(f) /\ Total([f EXCEPT ![g] = v]) \in Nat
      /\ Total([f EXCEPT ![g] = v]) + f[g] = Total(f) + v
    BY <1>1, TotalUpdateFunction DEF Generators
<1>5. QED
    BY <1>3, <1>4

(* Before the first call nothing is taken. *)
LEMMA InitTaken == Init => Inv /\ Ledger!Init
<1> SUFFICES ASSUME Init PROVE Inv /\ Ledger!Init
    OBVIOUS
<1> USE ReserveBatchAssumption
<1>1. taken \in [Generators -> Nat] /\ \A g \in Generators : taken[g] = 0
    BY DEF Init
<1>2. Total(taken) = 0
    <2>1. taken \in Seq(Nat) /\ Len(taken) = GenThreads
        BY <1>1, FunctionIsSequence DEF Generators
    <2>2. QED
        BY <1>1, <2>1, TotalZeros DEF Generators
<1>3. TypeOK
    BY DEF Init, TypeOK
<1>4. remaining = Quota
    BY DEF Init
<1>5. \A g \in Generators : pc[g] # "exchange"
    BY DEF Init
<1>6. QED
    BY <1>2, <1>3, <1>4, <1>5 DEF Inv, QuotaConserved, Ledger!Init

(* A successful exchange is the ledger's reservation. *)
LEMMA ExchangeStep ==
    ASSUME Inv, NEW g \in Generators, Exchange(g)
    PROVE  Inv' /\ Ledger!Reserve
<1> USE ReserveBatchAssumption
<1> DEFINE n == Take(g)
           t == Total(taken)
<1>1. /\ taken \in [Generators -> Nat] /\ taken[g] \in Nat
      /\ remaining \in Nat /\ remaining + t = Quota
    BY DEF Inv, TypeOK, QuotaConserved
<1>2. /\ current[g] = remaining /\ remaining > 0
      /\ remaining' = current[g] - n
      /\ taken' = [taken EXCEPT ![g] = taken[g] + n]
    BY DEF Exchange, Inv
<1>3. n \in 1..remaining /\ n = IF remaining >= BatchRows THEN BatchRows ELSE remaining
    BY <1>1, <1>2 DEF Take
<1> HIDE DEF n
<1>4. t \in Nat /\ taken[g] <= t /\ Total(taken') = t + n
    <2>1. n \in Nat /\ taken[g] + n \in Nat
        BY <1>1, <1>3
    <2>2. /\ t \in Nat /\ taken[g] <= t
          /\ Total([taken EXCEPT ![g] = taken[g] + n]) = (t - taken[g]) + (taken[g] + n)
        BY <1>1, <2>1, TakenUpdate
    <2>3. QED
        BY <1>1, <1>2, <2>1, <2>2
<1>5. t = Total(taken)
    OBVIOUS
<1> HIDE DEF t
<1>6. taken[g] + n \in 0..Quota /\ remaining' \in 0..Quota
    BY <1>1, <1>2, <1>3, <1>4
<1>7. TypeOK'
    BY <1>2, <1>6 DEF Inv, TypeOK, Exchange
<1>8. QuotaConserved'
    BY <1>1, <1>2, <1>3, <1>4 DEF QuotaConserved
<1>9. \A h \in Generators : pc'[h] = "exchange" => current'[h] > 0
    BY DEF Exchange, Inv, TypeOK
<1>10. Ledger!Reserve
    BY <1>1, <1>2, <1>3, <1>4, <1>5 DEF Ledger!Reserve
<1>11. QED
    BY <1>7, <1>8, <1>9, <1>10 DEF Inv

(* A credit is the ledger's refund. *)
LEMMA CreditStep ==
    ASSUME Inv, NEW g \in Generators, Credit(g)
    PROVE  Inv' /\ Ledger!Refund
<1> USE ReserveBatchAssumption
<1> DEFINE t == Total(taken)
<1>1. PICK n \in 1..taken[g] :
        remaining' = remaining + n /\ taken' = [taken EXCEPT ![g] = taken[g] - n]
    BY DEF Credit
<1>2. /\ taken \in [Generators -> Nat] /\ taken[g] \in Nat /\ n \in Nat
      /\ taken[g] - n \in Nat /\ n > 0
      /\ remaining \in Nat /\ remaining + t = Quota
    BY <1>1 DEF Inv, TypeOK, QuotaConserved
<1>3. t \in Nat /\ taken[g] <= t /\ Total(taken') = t - n
    <2>1. /\ t \in Nat /\ taken[g] <= t
          /\ Total([taken EXCEPT ![g] = taken[g] - n]) = (t - taken[g]) + (taken[g] - n)
        BY <1>2, TakenUpdate
    <2>2. QED
        BY <1>1, <1>2, <2>1
<1> HIDE DEF t
<1>4. remaining' \in 0..Quota /\ taken[g] - n \in 0..Quota
    BY <1>1, <1>2, <1>3
<1>5. TypeOK'
    BY <1>1, <1>2, <1>4 DEF Inv, TypeOK, Credit
<1>6. QuotaConserved'
    BY <1>1, <1>2, <1>3 DEF QuotaConserved
<1>7. Ledger!Refund
    <2>1. Total(taken') < Total(taken) /\ Total(taken') \in Nat
        BY <1>1, <1>2, <1>3 DEF t
    <2>2. remaining' = remaining + (Total(taken) - Total(taken'))
        BY <1>1, <1>2, <1>3 DEF t
    <2>3. QED
        BY <2>1, <2>2 DEF Ledger!Refund
<1>8. QED
    BY <1>5, <1>6, <1>7 DEF Inv, Credit

(* Every step keeps the invariant and is a step of the ledger. *)
LEMMA StepInv ==
    ASSUME Inv, [Next]_vars
    PROVE  Inv' /\ [Ledger!Next]_(Ledger!ledger)
<1>1. CASE \E g \in Generators : Exchange(g)
    BY <1>1, ExchangeStep DEF Ledger!Next
<1>2. CASE \E g \in Generators : Credit(g)
    BY <1>2, CreditStep DEF Ledger!Next
<1>3. CASE (\E g \in Generators : Load(g) \/ Retry(g)) \/ Stutter \/ UNCHANGED vars
    <2>1. remaining' = remaining /\ taken' = taken
        BY <1>3 DEF Load, Retry, Stutter, vars
    <2>2. TypeOK'
        BY <1>3, ReserveBatchAssumption DEF Inv, TypeOK, Load, Retry, Stutter, vars
    <2>3. \A g \in Generators : pc'[g] = "exchange" => current'[g] > 0
        BY <1>3 DEF Inv, TypeOK, Load, Retry, Stutter, vars
    <2>4. QED
        BY <2>1, <2>2, <2>3 DEF Inv, QuotaConserved, Ledger!ledger
<1>4. QED
    BY <1>1, <1>2, <1>3 DEF Next, Generator

(* Rows are neither minted nor dropped by racing reservations and credits. *)
THEOREM QuotaIsConserved == Spec => []QuotaConserved
<1>1. Inv => QuotaConserved
    BY DEF Inv
<1>2. QED
    BY <1>1, InitTaken, StepInv, PTL DEF Spec

(* The loop implements the abstract ledger: every reservation and every     *)
(* credit happens at one instant.                                          *)
THEOREM ReservationsAreAtomic == Spec => LedgerSpec
BY InitTaken, StepInv, PTL DEF Spec, LedgerSpec, Ledger!Spec

(* A generator leaves only on an empty quota. *)
THEOREM LeavesOnlyOnEmpty == Spec => LeavesOnEmpty
<1>1. ASSUME TypeOK, [Next]_vars, NEW g \in Generators, pc[g] # "done", pc'[g] = "done"
      PROVE  remaining = 0
    <2>1. CASE \E h \in Generators : Load(h)
        BY <1>1, <2>1 DEF TypeOK, Load
    <2>2. CASE \E h \in Generators : Exchange(h) \/ Retry(h) \/ Credit(h)
        BY <1>1, <2>2 DEF TypeOK, Exchange, Retry, Credit
    <2>3. CASE Stutter \/ UNCHANGED vars
        BY <1>1, <2>3 DEF Stutter, vars
    <2>4. QED
        BY <1>1, <2>1, <2>2, <2>3 DEF Next, Generator
<1>2. Inv /\ [Next]_vars =>
        [ \A g \in Generators :
            pc[g] # "done" /\ pc'[g] = "done" => remaining = 0 ]_vars
    BY <1>1 DEF Inv
<1>3. QED
    BY <1>2, InitTaken, StepInv, PTL DEF Spec, LeavesOnEmpty
=============================================================================
