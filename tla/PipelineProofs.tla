--------------------------- MODULE PipelineProofs ---------------------------
(***************************************************************************)
(* Safety of Pipeline for any number of tasks, any queue depth, batch      *)
(* size, quota and retry budget.                                           *)
(***************************************************************************)
EXTENDS Pipeline, TotalsProofs, FiniteSetTheorems

(* Type correctness.                                                       *)

LEMMA GeneratorType ==
    ASSUME TypeOK, NEW g \in Generators, Generator(g)
    PROVE  TypeOK'
<1> USE PipelineAssumption DEF TypeOK, genVars, sinkVars, workerVars, stats,
        history, control, GenGoto, GenPcs
<1>1. CASE CheckDeadline(g)
    BY <1>1 DEF CheckDeadline
<1>2. CASE Reserve(g)
    BY <1>2 DEF Reserve, BatchTarget
<1>3. CASE QuotaSpent(g)
    BY <1>3 DEF QuotaSpent
<1>4. CASE GenerateFails(g)
    BY <1>4 DEF GenerateFails
<1>5. CASE Send(g)
    BY <1>5 DEF Send
<1>6. CASE SendFails(g)
    BY <1>6 DEF SendFails
<1>7. CASE CountRows(g)
    BY <1>7 DEF CountRows
<1>8. QED
    BY <1>1, <1>2, <1>3, <1>4, <1>5, <1>6, <1>7 DEF Generator

LEMMA WorkerType ==
    ASSUME TypeOK, NEW w \in Workers, Worker(w)
    PROVE  TypeOK'
<1> USE PipelineAssumption DEF TypeOK, genVars, sinkVars, workerVars, stats,
        history, control, WorkerGoto, WorkerPcs, CloseSucceeds, CloseFails
<1>1. CASE Receive(w)
    <2>1. Head(queue) \in Nat /\ Tail(queue) \in Seq(Nat)
        BY <1>1 DEF Receive
    <2>2. QED
        BY <1>1, <2>1 DEF Receive
<1>2. CASE QueueClosed(w)
    BY <1>2 DEF QueueClosed
<1>3. CASE Open(w)
    BY <1>3 DEF Open
<1>4. CASE OpenFails(w)
    BY <1>4 DEF OpenFails
<1>5. CASE Write(w)
    <2>1. workerPc' \in [Workers -> WorkerPcs]
        BY <1>5 DEF Write
    <2>2. batch[w] \in Nat /\ rowsInActive[w] \in Nat /\ rowsInActive[w] + batch[w] \in Nat
        OBVIOUS
    <2>3. /\ rowsInActive' \in [Workers -> Nat] /\ batch' \in [Workers -> Nat]
          /\ rows' \in Nat
        BY <1>5, <2>2 DEF Write
    <2>4. UNCHANGED <<remaining, queue, genVars, file, refund, abandoned,
                      rows_generated, rows_lost, files_abandoned, files_completed,
                      file_counter, history, control>>
        BY <1>5 DEF Write
    <2>5. QED
        BY <2>1, <2>3, <2>4
<1>6. CASE WriteFails(w)
    BY <1>6 DEF WriteFails
<1>7. CASE Roll(w)
    <2>1. CASE CloseSucceeds(w) /\ WorkerGoto(w, "recv")
        BY <1>7, <2>1 DEF Roll
    <2>2. CASE CloseFails(w) /\ WorkerGoto(w, "error")
        BY <1>7, <2>2 DEF Roll
    <2>3. QED
        BY <1>7, <2>1, <2>2 DEF Roll
<1>8. CASE GiveUp(w)
    BY <1>8 DEF GiveUp
<1>9. CASE Abandon(w)
    BY <1>9, SMTT(20) DEF Abandon
<1>10. CASE Credit(w)
    BY <1>10, SMTT(20) DEF Credit
<1>11. CASE Finish(w)
    <2>1. CASE ~file[w] /\ UNCHANGED <<file, files_completed, stored, rowsInActive>>
        BY <1>11, <2>1 DEF Finish
    <2>2. CASE CloseSucceeds(w)
        BY <1>11, <2>2 DEF Finish
    <2>3. QED
        BY <1>11, <2>1, <2>2 DEF Finish
<1>12. CASE FinishFails(w)
    BY <1>12 DEF FinishFails
<1>13. QED
    BY <1>1, <1>2, <1>3, <1>4, <1>5, <1>6, <1>7, <1>8, <1>9, <1>10, <1>11, <1>12
       DEF Worker

(* Every step of every task keeps every variable in its type; in particular *)
(* the quota never goes below zero.                                         *)
THEOREM TypeCorrect == Spec => []TypeOK
<1>1. Init => TypeOK
    <2> SUFFICES ASSUME Init PROVE TypeOK
        OBVIOUS
    <2>1. queue \in Seq(Nat)
        BY DEF Init
    <2>2. genPc \in [Generators -> GenPcs] /\ hand \in [Generators -> Nat]
        BY DEF Init, GenPcs
    <2>3. /\ workerPc \in [Workers -> WorkerPcs] /\ batch \in [Workers -> Nat]
          /\ file \in [Workers -> BOOLEAN] /\ rowsInActive \in [Workers -> Nat]
          /\ refund \in [Workers -> Nat] /\ abandoned \in [Workers -> Nat]
        BY DEF Init, WorkerPcs
    <2>4. remaining \in Nat /\ statusOn \in BOOLEAN /\ mainPc \in MainPcs
        BY PipelineAssumption DEF Init, MainPcs
    <2>5. QED
        BY <2>1, <2>2, <2>3, <2>4 DEF Init, TypeOK
<1>2. TypeOK /\ [Next]_vars => TypeOK'
    <2> SUFFICES ASSUME TypeOK, [Next]_vars PROVE TypeOK'
        OBVIOUS
    <2> USE DEF TypeOK, vars, genVars, sinkVars, workerVars, stats, history,
            control, tasks, MainPcs
    <2>1. CASE \E g \in Generators : Generator(g)
        BY <2>1, GeneratorType
    <2>2. CASE \E w \in Workers : Worker(w)
        BY <2>2, WorkerType
    <2>3. CASE Main
        BY <2>3 DEF Main, JoinGenerators, JoinWorkers, Report
    <2>4. CASE StatusExits
        BY <2>4 DEF StatusExits
    <2>5. CASE DeadlinePasses
        BY <2>5 DEF DeadlinePasses
    <2>6. CASE Stutter
        BY <2>6 DEF Stutter
    <2>7. CASE UNCHANGED vars
        BY <2>7
    <2>8. QED
        BY <2>1, <2>2, <2>3, <2>4, <2>5, <2>6, <2>7 DEF Next
<1>3. QED
    BY <1>1, <1>2, PTL DEF Spec
-----------------------------------------------------------------------------
(* The totals, and how each action moves rows between them.                *)

Accounts == RowConservation /\ WrittenRowsAccounted /\ SentRowsAccounted

(* A step of the abstract ledger, or a stutter; the ledger describes runs   *)
(* with a quota only.                                                       *)
LedgerStep == RowsLimited => [Ledger!Next]_(Ledger!ledger)

(* The per-task row counts are functions into the naturals. *)
LEMMA TotalsType ==
    ASSUME TypeOK
    PROVE  /\ GenThreads \in Nat /\ UploadThreads \in Nat
           /\ Building \in [Generators -> Nat] /\ Uncounted \in [Generators -> Nat]
           /\ batch \in [Workers -> Nat] /\ refund \in [Workers -> Nat]
           /\ rowsInActive \in [Workers -> Nat]
           /\ Total(Building) \in Nat /\ Total(Uncounted) \in Nat /\ Total(queue) \in Nat
           /\ Total(batch) \in Nat /\ Total(rowsInActive) \in Nat /\ Total(refund) \in Nat
<1>1. GenThreads \in Nat /\ UploadThreads \in Nat
    BY PipelineAssumption
<1>2. /\ Building \in [Generators -> Nat] /\ Uncounted \in [Generators -> Nat]
      /\ batch \in [Workers -> Nat] /\ refund \in [Workers -> Nat]
      /\ rowsInActive \in [Workers -> Nat]
    BY DEF TypeOK, Building, Uncounted
<1>3. /\ Building \in Seq(Nat) /\ Uncounted \in Seq(Nat) /\ batch \in Seq(Nat)
      /\ refund \in Seq(Nat) /\ rowsInActive \in Seq(Nat) /\ queue \in Seq(Nat)
    BY <1>1, <1>2, FunctionIsSequence DEF TypeOK, Generators, Workers
<1>4. QED
    BY <1>1, <1>2, <1>3, TotalType

(* The shared counters are naturals. *)
LEMMA CountersType ==
    ASSUME TypeOK
    PROVE  /\ remaining \in Nat /\ stored \in Nat /\ unsent \in Nat /\ unwritten \in Nat
           /\ rows_generated \in Nat /\ rows \in Nat /\ rows_lost \in Nat /\ Rows \in Nat
BY PipelineAssumption DEF TypeOK

(* Updating one task's count changes the total by the difference. *)
LEMMA GeneratorUpdate ==
    ASSUME NEW f \in [Generators -> Nat], NEW g \in Generators, NEW v \in Nat
    PROVE  /\ f[g] \in Nat /\ f[g] <= Total(f) /\ Total(f) \in Nat
           /\ Total([f EXCEPT ![g] = v]) = (Total(f) - f[g]) + v
<1>1. GenThreads \in Nat
    BY PipelineAssumption
<1>2. f \in Seq(Nat) /\ Len(f) = GenThreads
    BY <1>1, FunctionIsSequence DEF Generators
<1>3. Total(f) \in Nat
    BY <1>2, TotalType
<1>4. /\ f[g] \in Nat /\ f[g] <= Total(f) /\ Total([f EXCEPT ![g] = v]) \in Nat
      /\ Total([f EXCEPT ![g] = v]) + f[g] = Total(f) + v
    BY <1>1, TotalUpdateFunction DEF Generators
<1>5. QED
    BY <1>3, <1>4

LEMMA WorkerUpdate ==
    ASSUME NEW f \in [Workers -> Nat], NEW w \in Workers, NEW v \in Nat
    PROVE  /\ f[w] \in Nat /\ f[w] <= Total(f) /\ Total(f) \in Nat
           /\ Total([f EXCEPT ![w] = v]) = (Total(f) - f[w]) + v
<1>1. UploadThreads \in Nat
    BY PipelineAssumption
<1>2. f \in Seq(Nat) /\ Len(f) = UploadThreads
    BY <1>1, FunctionIsSequence DEF Workers
<1>3. Total(f) \in Nat
    BY <1>2, TotalType
<1>4. /\ f[w] \in Nat /\ f[w] <= Total(f) /\ Total([f EXCEPT ![w] = v]) \in Nat
      /\ Total([f EXCEPT ![w] = v]) + f[w] = Total(f) + v
    BY <1>1, TotalUpdateFunction DEF Workers
<1>5. QED
    BY <1>3, <1>4

LEMMA WorkerClear ==
    ASSUME NEW f \in [Workers -> Nat], NEW w \in Workers
    PROVE  f[w] <= Total(f) /\ Total([f EXCEPT ![w] = 0]) = Total(f) - f[w]
<1>1. /\ f[w] \in Nat /\ f[w] <= Total(f) /\ Total(f) \in Nat
      /\ Total([f EXCEPT ![w] = 0]) = (Total(f) - f[w]) + 0
    BY WorkerUpdate
<1>2. QED
    BY <1>1

(* A step that moves no rows keeps the accounts and stutters in the ledger. *)
LEMMA AccountsFrame ==
    ASSUME Accounts,
           UNCHANGED <<remaining, queue, Building, Uncounted, batch, rowsInActive,
                       refund, rows_generated, rows, rows_lost, stored, unsent, unwritten>>
    PROVE  Accounts' /\ LedgerStep
<1>1. Total(Building)' = Total(Building) /\ Total(Uncounted)' = Total(Uncounted)
    OBVIOUS
<1>2. UNCHANGED Ledger!ledger
    BY <1>1 DEF Ledger!ledger, InFlight
<1>3. InFlight' = InFlight
    BY <1>1 DEF InFlight
<1>4. QED
    BY <1>1, <1>2, <1>3 DEF Accounts, RowConservation, WrittenRowsAccounted,
        SentRowsAccounted, LedgerStep

(* Generators.  Reserving moves rows from the quota into the task's hands. *)
LEMMA ReserveAccounts ==
    ASSUME TypeOK, HandInv, Accounts, NEW g \in Generators, Reserve(g)
    PROVE  Accounts' /\ LedgerStep
<1>1. /\ BatchTarget \in Nat \ {0} /\ remaining \in Nat
      /\ RowsLimited => BatchTarget <= remaining
    BY PipelineAssumption DEF TypeOK, BatchTarget, Reserve
<1>2. Building' = [Building EXCEPT ![g] = BatchTarget] /\ Building[g] = 0
    BY DEF Building, Reserve, GenGoto, TypeOK
<1>3. Uncounted' = Uncounted
    BY DEF Uncounted, Reserve, GenGoto, TypeOK
<1>4. Total(Building') = Total(Building) + BatchTarget
    <2>1. Total([Building EXCEPT ![g] = BatchTarget])
            = (Total(Building) - Building[g]) + BatchTarget
        BY <1>1, TotalsType, GeneratorUpdate
    <2>2. QED
        BY <1>1, <1>2, <2>1, TotalsType
<1>5. /\ UNCHANGED <<queue, batch, rowsInActive, refund, rows_generated, rows,
                     rows_lost, stored, unsent, unwritten>>
      /\ remaining' = IF RowsLimited THEN remaining - BatchTarget ELSE remaining
    BY DEF Reserve, workerVars, sinkVars, stats, history
<1>6. InFlight' = InFlight + BatchTarget
    BY <1>1, <1>4, <1>5, TotalsType DEF InFlight
<1>7. InFlight \in Nat
    BY TotalsType DEF InFlight
<1>8. Accounts'
    <2>1. RowConservation'
        BY <1>1, <1>5, <1>6, <1>7 DEF Accounts, RowConservation, TypeOK
    <2>2. WrittenRowsAccounted'
        BY <1>5 DEF Accounts, WrittenRowsAccounted
    <2>3. SentRowsAccounted'
        BY <1>3, <1>5 DEF Accounts, SentRowsAccounted
    <2>4. QED
        BY <2>1, <2>2, <2>3 DEF Accounts
<1>9. LedgerStep
    <2> SUFFICES ASSUME RowsLimited PROVE Ledger!Reserve
        BY DEF LedgerStep, Ledger!Next
    <2>1. remaining' = remaining - BatchTarget
        BY <1>5
    <2>2. remaining > 0
        BY <1>1
    <2>3. CASE remaining >= BatchRows
        BY <1>1, <1>5, <1>6, <1>7, <2>1, <2>2, <2>3, PipelineAssumption
           DEF Ledger!Reserve, BatchTarget
    <2>4. CASE ~(remaining >= BatchRows)
        <3>1. BatchTarget = remaining /\ remaining < BatchRows /\ remaining' = 0
            BY <1>1, <2>1, <2>4, PipelineAssumption DEF BatchTarget
        <3>2. QED
            BY <1>1, <1>5, <1>6, <1>7, <2>2, <3>1 DEF Ledger!Reserve
    <2>5. QED
        BY <2>3, <2>4
<1>10. QED
    BY <1>8, <1>9

(* A batch that is never sent leaves the generator's hands for good. *)
LEMMA UnsentAccounts ==
    ASSUME TypeOK, HandInv, Accounts, NEW g \in Generators,
           GenerateFails(g) \/ SendFails(g)
    PROVE  Accounts' /\ LedgerStep
<1>1. /\ hand[g] \in Nat /\ hand[g] > 0 /\ genPc[g] = "build"
      /\ unsent' = unsent + hand[g]
      /\ UNCHANGED <<remaining, queue, batch, rowsInActive, refund, rows_generated,
                     rows, rows_lost, stored, unwritten>>
    BY DEF TypeOK, HandInv, GenerateFails, SendFails, workerVars, sinkVars, stats
<1>2. Building' = [Building EXCEPT ![g] = 0] /\ Building[g] = hand[g]
    BY DEF Building, GenerateFails, SendFails, GenGoto, TypeOK
<1>3. Uncounted' = Uncounted
    BY DEF Uncounted, GenerateFails, SendFails, GenGoto, TypeOK
<1>4. Total(Building') = Total(Building) - hand[g] /\ hand[g] <= Total(Building)
    <2>1. /\ Building[g] <= Total(Building)
          /\ Total([Building EXCEPT ![g] = 0]) = (Total(Building) - Building[g]) + 0
        BY TotalsType, GeneratorUpdate
    <2>2. QED
        BY <1>1, <1>2, <2>1, TotalsType
<1>5. InFlight' = InFlight - hand[g] /\ InFlight \in Nat /\ hand[g] <= InFlight
    BY <1>1, <1>4, TotalsType DEF InFlight
<1>6. Accounts'
    <2>1. RowConservation'
        BY <1>1, <1>5, TotalsType, CountersType DEF Accounts, RowConservation
    <2>2. WrittenRowsAccounted'
        BY <1>1 DEF Accounts, WrittenRowsAccounted
    <2>3. SentRowsAccounted'
        BY <1>1, <1>3 DEF Accounts, SentRowsAccounted
    <2>4. QED
        BY <2>1, <2>2, <2>3 DEF Accounts
<1>7. Ledger!Lose
    BY <1>1, <1>5, SMTT(20) DEF Ledger!Lose, TypeOK
<1>8. QED
    BY <1>6, <1>7 DEF LedgerStep, Ledger!Next

(* A sent batch moves from the generator's hands into the queue. *)
LEMMA SendAccounts ==
    ASSUME TypeOK, Accounts, NEW g \in Generators, Send(g)
    PROVE  Accounts' /\ LedgerStep
<1>1. /\ hand[g] \in Nat /\ genPc[g] = "build" /\ queue' = Append(queue, hand[g])
      /\ UNCHANGED <<remaining, batch, rowsInActive, refund, rows_generated,
                     rows, rows_lost, stored, unsent, unwritten>>
    BY DEF TypeOK, Send, workerVars, sinkVars, stats, history
<1>2. /\ Building' = [Building EXCEPT ![g] = 0] /\ Building[g] = hand[g]
      /\ Uncounted' = [Uncounted EXCEPT ![g] = hand[g]] /\ Uncounted[g] = 0
    BY DEF Building, Uncounted, Send, GenGoto, TypeOK
<1>3. Total(Building') = Total(Building) - hand[g] /\ hand[g] <= Total(Building)
    <2>1. /\ Building[g] <= Total(Building)
          /\ Total([Building EXCEPT ![g] = 0]) = (Total(Building) - Building[g]) + 0
        BY TotalsType, GeneratorUpdate
    <2>2. QED
        BY <1>1, <1>2, <2>1, TotalsType
<1>4. Total(Uncounted') = Total(Uncounted) + hand[g]
    <2>1. Total([Uncounted EXCEPT ![g] = hand[g]])
            = (Total(Uncounted) - Uncounted[g]) + hand[g]
        BY <1>1, TotalsType, GeneratorUpdate
    <2>2. QED
        BY <1>1, <1>2, <2>1, TotalsType
<1>5. Total(queue') = Total(queue) + hand[g]
    BY <1>1, TotalAppend DEF TypeOK
<1>6. InFlight' = InFlight
    BY <1>1, <1>3, <1>5, TotalsType, SMTT(20) DEF InFlight
<1>7. Accounts'
    <2>1. RowConservation'
        BY <1>1, <1>6 DEF Accounts, RowConservation
    <2>2. WrittenRowsAccounted'
        BY <1>1 DEF Accounts, WrittenRowsAccounted
    <2>3. SentRowsAccounted'
        <3>1. hand[g] \in Nat /\ UNCHANGED <<rows_generated, batch, rows, unwritten>>
            BY <1>1
        <3>2. QED
            BY <1>4, <1>5, <3>1, TotalsType, CountersType DEF Accounts, SentRowsAccounted
    <2>4. QED
        BY <2>1, <2>2, <2>3 DEF Accounts
<1>8. UNCHANGED Ledger!ledger
    BY <1>1, <1>6 DEF Ledger!ledger
<1>9. QED
    BY <1>7, <1>8 DEF LedgerStep

(* Counting a sent batch. *)
LEMMA CountAccounts ==
    ASSUME TypeOK, Accounts, NEW g \in Generators, CountRows(g)
    PROVE  Accounts' /\ LedgerStep
<1>1. /\ hand[g] \in Nat /\ genPc[g] = "count"
      /\ rows_generated' = rows_generated + hand[g]
      /\ UNCHANGED <<remaining, queue, batch, rowsInActive, refund,
                     rows, rows_lost, stored, unsent, unwritten>>
    BY DEF TypeOK, CountRows, workerVars, sinkVars, stats, history
<1>2. /\ Building' = Building
      /\ Uncounted' = [Uncounted EXCEPT ![g] = 0] /\ Uncounted[g] = hand[g]
    BY DEF Building, Uncounted, CountRows, GenGoto, TypeOK
<1>3. Total(Uncounted') = Total(Uncounted) - hand[g] /\ hand[g] <= Total(Uncounted)
    <2>1. /\ Uncounted[g] <= Total(Uncounted)
          /\ Total([Uncounted EXCEPT ![g] = 0]) = (Total(Uncounted) - Uncounted[g]) + 0
        BY TotalsType, GeneratorUpdate
    <2>2. QED
        BY <1>1, <1>2, <2>1, TotalsType
<1>4. InFlight' = InFlight
    BY <1>1, <1>2 DEF InFlight
<1>5. Accounts'
    <2>1. RowConservation'
        BY <1>1, <1>4 DEF Accounts, RowConservation
    <2>2. WrittenRowsAccounted'
        BY <1>1 DEF Accounts, WrittenRowsAccounted
    <2>3. SentRowsAccounted'
        BY <1>1, <1>3, TotalsType, CountersType DEF Accounts, SentRowsAccounted
    <2>4. QED
        BY <2>1, <2>2, <2>3 DEF Accounts
<1>6. UNCHANGED Ledger!ledger
    BY <1>1, <1>4 DEF Ledger!ledger
<1>7. QED
    BY <1>5, <1>6 DEF LedgerStep

(* Any step of a generator. *)
LEMMA GeneratorAccounts ==
    ASSUME TypeOK, HandInv, Accounts, NEW g \in Generators, Generator(g)
    PROVE  Accounts' /\ LedgerStep
<1>1. CASE CheckDeadline(g) \/ QuotaSpent(g)
    <2>1. /\ UNCHANGED <<remaining, queue, hand, workerVars, rows_generated, stats, history>>
          /\ genPc[g] \in {"check", "reserve"}
          /\ \E pc \in {"done", "reserve"} : genPc' = [genPc EXCEPT ![g] = pc]
        BY <1>1 DEF CheckDeadline, QuotaSpent, GenGoto
    <2>2. Building' = Building /\ Uncounted' = Uncounted
        BY <2>1 DEF Building, Uncounted, TypeOK
    <2>3. QED
        BY <2>1, <2>2, AccountsFrame DEF workerVars, sinkVars, stats, history
<1>2. CASE GenerateFails(g) \/ SendFails(g)
    BY <1>2, UnsentAccounts
<1>3. QED
    BY <1>1, <1>2, ReserveAccounts, SendAccounts, CountAccounts DEF Generator

(* Workers.  A received batch moves from the queue into the worker's hands. *)
LEMMA ReceiveAccounts ==
    ASSUME TypeOK, SinkInv, Accounts, NEW w \in Workers, Receive(w)
    PROVE  Accounts' /\ LedgerStep
<1>1. /\ queue # <<>> /\ queue \in Seq(Nat) /\ batch \in [Workers -> Nat]
      /\ batch' = [batch EXCEPT ![w] = Head(queue)] /\ queue' = Tail(queue)
      /\ UNCHANGED <<remaining, genPc, hand, rowsInActive, refund, rows_generated,
                     rows, rows_lost, stored, unsent, unwritten>>
    BY DEF TypeOK, Receive, genVars, sinkVars, stats, history
<1>2. batch[w] = 0
    BY DEF TypeOK, SinkInv, Receive
<1>3. Building' = Building /\ Uncounted' = Uncounted
    BY <1>1 DEF Building, Uncounted
<1> DEFINE h == Head(queue)
<1>4. h \in Nat /\ Total(queue) = h + Total(queue') /\ Total(queue') \in Nat
    <2>1. h \in Nat /\ Tail(queue) \in Seq(Nat)
        BY <1>1
    <2>2. QED
        BY <1>1, <2>1, TotalTail, TotalType
<1> HIDE DEF h
<1>5. Total(batch') = Total(batch) + h
    <2>1. Total([batch EXCEPT ![w] = h]) = (Total(batch) - batch[w]) + h
        BY <1>1, <1>4, WorkerUpdate
    <2>2. QED
        BY <1>1, <1>2, <1>4, <2>1, TotalsType DEF h
<1>6. InFlight' = InFlight
    BY <1>1, <1>3, <1>4, <1>5, TotalsType, SMTT(20) DEF InFlight
<1>7. Accounts'
    <2>1. RowConservation'
        BY <1>1, <1>6 DEF Accounts, RowConservation
    <2>2. WrittenRowsAccounted'
        BY <1>1 DEF Accounts, WrittenRowsAccounted
    <2>3. SentRowsAccounted'
        BY <1>1, <1>3, <1>4, <1>5, TotalsType, CountersType DEF Accounts, SentRowsAccounted
    <2>4. QED
        BY <2>1, <2>2, <2>3 DEF Accounts
<1>8. UNCHANGED Ledger!ledger
    BY <1>1, <1>6 DEF Ledger!ledger
<1>9. QED
    BY <1>7, <1>8 DEF LedgerStep

(* A batch whose file cannot be opened or written is in no file at all. *)
LEMMA UnwrittenAccounts ==
    ASSUME TypeOK, SinkInv, Accounts, NEW w \in Workers, OpenFails(w) \/ WriteFails(w)
    PROVE  Accounts' /\ LedgerStep
<1>1. /\ batch[w] \in Nat /\ batch[w] > 0 /\ batch \in [Workers -> Nat]
      /\ batch' = [batch EXCEPT ![w] = 0] /\ unwritten' = unwritten + batch[w]
      /\ UNCHANGED <<remaining, queue, genPc, hand, rowsInActive, refund,
                     rows_generated, rows, rows_lost, stored, unsent>>
    BY DEF TypeOK, SinkInv, OpenFails, WriteFails, genVars, sinkVars, stats
<1>2. Building' = Building /\ Uncounted' = Uncounted
    BY <1>1 DEF Building, Uncounted
<1>3. Total(batch') = Total(batch) - batch[w] /\ batch[w] <= Total(batch)
    <2>1. /\ Total([batch EXCEPT ![w] = 0]) = Total(batch) - batch[w]
          /\ batch[w] <= Total(batch)
        BY <1>1, WorkerClear
    <2>2. QED
        BY <1>1, <2>1
<1>4. InFlight' = InFlight - batch[w] /\ InFlight \in Nat /\ batch[w] <= InFlight
    BY <1>1, <1>2, <1>3, TotalsType DEF InFlight
<1>5. Accounts'
    <2>1. RowConservation'
        BY <1>1, <1>4, CountersType DEF Accounts, RowConservation
    <2>2. WrittenRowsAccounted'
        BY <1>1 DEF Accounts, WrittenRowsAccounted
    <2>3. SentRowsAccounted'
        BY <1>1, <1>2, <1>3, TotalsType, CountersType DEF Accounts, SentRowsAccounted
    <2>4. QED
        BY <2>1, <2>2, <2>3 DEF Accounts
<1>6. Ledger!Lose
    BY <1>1, <1>4, CountersType DEF Ledger!Lose
<1>7. QED
    BY <1>5, <1>6 DEF LedgerStep, Ledger!Next

(* A written batch moves from the worker's hands into the open file. *)
LEMMA WriteAccounts ==
    ASSUME TypeOK, Accounts, NEW w \in Workers, Write(w)
    PROVE  Accounts' /\ LedgerStep
<1> DEFINE b == batch[w]
<1>1. /\ b \in Nat /\ batch \in [Workers -> Nat] /\ rowsInActive \in [Workers -> Nat]
      /\ rowsInActive[w] \in Nat
      /\ batch' = [batch EXCEPT ![w] = 0] /\ rows' = rows + b
      /\ rowsInActive' = [rowsInActive EXCEPT ![w] = rowsInActive[w] + b]
      /\ UNCHANGED <<remaining, queue, genPc, hand, refund, rows_generated,
                     rows_lost, stored, unsent, unwritten>>
    BY DEF TypeOK, Write, genVars, history
<1>2. Building' = Building /\ Uncounted' = Uncounted
    BY <1>1 DEF Building, Uncounted
<1>3. Total(batch') = Total(batch) - b /\ b <= Total(batch)
    <2>1. /\ Total([batch EXCEPT ![w] = 0]) = Total(batch) - batch[w]
          /\ batch[w] <= Total(batch)
        BY <1>1, WorkerClear
    <2>2. QED
        BY <1>1, <2>1
<1>4. Total(rowsInActive') = Total(rowsInActive) + b
    <2>1. rowsInActive[w] + b \in Nat
        BY <1>1
    <2>2. /\ Total([rowsInActive EXCEPT ![w] = rowsInActive[w] + b])
               = (Total(rowsInActive) - rowsInActive[w]) + (rowsInActive[w] + b)
        BY <1>1, <2>1, WorkerUpdate
    <2> HIDE DEF b
    <2>3. QED
        BY <1>1, <2>2, TotalsType
<1>5. b \in Nat /\ rows' = rows + b
    BY <1>1
<1>6. UNCHANGED <<remaining, queue, refund, rows_generated, rows_lost, stored, unsent, unwritten>>
    BY <1>1
<1> HIDE DEF b
<1>7. InFlight' = InFlight
    BY <1>2, <1>3, <1>4, <1>5, <1>6, TotalsType DEF InFlight
<1>8. Accounts'
    <2>1. RowConservation'
        BY <1>6, <1>7 DEF Accounts, RowConservation
    <2>2. WrittenRowsAccounted'
        BY <1>4, <1>5, <1>6, TotalsType, CountersType DEF Accounts, WrittenRowsAccounted
    <2>3. SentRowsAccounted'
        BY <1>2, <1>3, <1>5, <1>6, TotalsType, CountersType DEF Accounts, SentRowsAccounted
    <2>4. QED
        BY <2>1, <2>2, <2>3 DEF Accounts
<1>9. UNCHANGED Ledger!ledger
    BY <1>6, <1>7 DEF Ledger!ledger
<1>10. QED
    BY <1>8, <1>9 DEF LedgerStep

(* A completed file stores its rows. *)
LEMMA CloseAccounts ==
    ASSUME TypeOK, SinkInv, Accounts, NEW w \in Workers, CloseSucceeds(w),
           Roll(w) \/ Finish(w)
    PROVE  Accounts' /\ LedgerStep
<1> DEFINE a == rowsInActive[w]
<1>1. /\ a \in Nat /\ a > 0 /\ rowsInActive \in [Workers -> Nat]
      /\ rowsInActive' = [rowsInActive EXCEPT ![w] = 0] /\ stored' = stored + a
      /\ UNCHANGED <<remaining, queue, genPc, hand, batch, refund, rows_generated,
                     rows, rows_lost, unsent, unwritten>>
    BY DEF TypeOK, SinkInv, Roll, Finish, CloseSucceeds, genVars
<1>2. Building' = Building /\ Uncounted' = Uncounted
    BY <1>1 DEF Building, Uncounted
<1>3. Total(rowsInActive') = Total(rowsInActive) - a /\ a <= Total(rowsInActive)
    <2>1. /\ Total([rowsInActive EXCEPT ![w] = 0]) = Total(rowsInActive) - rowsInActive[w]
          /\ rowsInActive[w] <= Total(rowsInActive)
        BY <1>1, WorkerClear
    <2>2. QED
        BY <1>1, <2>1
<1>4. a \in Nat /\ a > 0 /\ stored' = stored + a
    BY <1>1
<1>5. UNCHANGED <<remaining, queue, batch, refund, rows_generated, rows, rows_lost,
                  unsent, unwritten>>
    BY <1>1
<1> HIDE DEF a
<1>6. InFlight' = InFlight - a /\ InFlight \in Nat /\ a <= InFlight
    BY <1>2, <1>3, <1>4, <1>5, TotalsType DEF InFlight
<1>7. Accounts'
    <2>1. RowConservation'
        BY <1>4, <1>5, <1>6, CountersType DEF Accounts, RowConservation
    <2>2. WrittenRowsAccounted'
        BY <1>3, <1>4, <1>5, TotalsType, CountersType DEF Accounts, WrittenRowsAccounted
    <2>3. SentRowsAccounted'
        BY <1>2, <1>5 DEF Accounts, SentRowsAccounted
    <2>4. QED
        BY <2>1, <2>2, <2>3 DEF Accounts
<1>8. Ledger!Store
    BY <1>4, <1>5, <1>6, CountersType DEF Ledger!Store
<1>9. QED
    BY <1>7, <1>8 DEF LedgerStep, Ledger!Next

(* An abandoned file's rows are reported lost and set aside for a refund. *)
LEMMA AbandonAccounts ==
    ASSUME TypeOK, SinkInv, Accounts, NEW w \in Workers, Abandon(w)
    PROVE  Accounts' /\ LedgerStep
<1> DEFINE a == rowsInActive[w]
<1>1. /\ a \in Nat /\ rowsInActive \in [Workers -> Nat] /\ refund \in [Workers -> Nat]
      /\ rowsInActive' = [rowsInActive EXCEPT ![w] = 0] /\ rows_lost' = rows_lost + a
      /\ refund' = [refund EXCEPT ![w] = a]
      /\ UNCHANGED <<remaining, queue, genPc, hand, batch, rows_generated,
                     rows, stored, unsent, unwritten>>
    BY DEF TypeOK, Abandon, genVars, history
<1>2. Building' = Building /\ Uncounted' = Uncounted
    BY <1>1 DEF Building, Uncounted
<1>3. refund[w] = 0
    <2>1. workerPc[w] = "error" /\ refund[w] \in Nat
        BY DEF Abandon, TypeOK
    <2>2. QED
        BY <2>1 DEF SinkInv
<1>4. Total(rowsInActive') = Total(rowsInActive) - a /\ a <= Total(rowsInActive)
    <2>1. /\ Total([rowsInActive EXCEPT ![w] = 0]) = Total(rowsInActive) - rowsInActive[w]
          /\ rowsInActive[w] <= Total(rowsInActive)
        BY <1>1, WorkerClear
    <2>2. QED
        BY <1>1, <2>1
<1>5. Total(refund') = Total(refund) + a
    <2>1. Total([refund EXCEPT ![w] = a]) = (Total(refund) - refund[w]) + a
        BY <1>1, WorkerUpdate
    <2> HIDE DEF a
    <2>2. QED
        BY <1>1, <1>3, <2>1, TotalsType
<1>6. a \in Nat /\ rows_lost' = rows_lost + a
    BY <1>1
<1>7. UNCHANGED <<remaining, queue, batch, rows_generated, rows, stored, unsent, unwritten>>
    BY <1>1
<1> HIDE DEF a
<1>8. InFlight' = InFlight
    BY <1>2, <1>4, <1>5, <1>6, <1>7, TotalsType DEF InFlight
<1>9. Accounts'
    <2>1. RowConservation'
        BY <1>7, <1>8 DEF Accounts, RowConservation
    <2>2. WrittenRowsAccounted'
        BY <1>4, <1>6, <1>7, TotalsType, CountersType DEF Accounts, WrittenRowsAccounted
    <2>3. SentRowsAccounted'
        BY <1>2, <1>7 DEF Accounts, SentRowsAccounted
    <2>4. QED
        BY <2>1, <2>2, <2>3 DEF Accounts
<1>10. UNCHANGED Ledger!ledger
    BY <1>7, <1>8 DEF Ledger!ledger
<1>11. QED
    BY <1>9, <1>10 DEF LedgerStep

(* The refund reaches the quota. *)
LEMMA CreditAccounts ==
    ASSUME TypeOK, Accounts, NEW w \in Workers, Credit(w)
    PROVE  Accounts' /\ LedgerStep
<1> DEFINE a == refund[w]
<1>1. /\ a \in Nat /\ refund \in [Workers -> Nat]
      /\ refund' = [refund EXCEPT ![w] = 0]
      /\ remaining' = IF RowsLimited THEN remaining + a ELSE remaining
      /\ UNCHANGED <<queue, genPc, hand, batch, rowsInActive, rows_generated,
                     rows, rows_lost, stored, unsent, unwritten>>
    BY DEF TypeOK, Credit, genVars, sinkVars, stats, history
<1>2. Building' = Building /\ Uncounted' = Uncounted
    BY <1>1 DEF Building, Uncounted
<1>3. Total(refund') = Total(refund) - a /\ a <= Total(refund)
    <2>1. /\ Total([refund EXCEPT ![w] = 0]) = Total(refund) - refund[w]
          /\ refund[w] <= Total(refund)
        BY <1>1, WorkerClear
    <2>2. QED
        BY <1>1, <2>1
<1>4. a \in Nat /\ (RowsLimited => remaining' = remaining + a)
    BY <1>1
<1>5. UNCHANGED <<queue, batch, rowsInActive, rows_generated, rows, rows_lost, stored,
                  unsent, unwritten>>
    BY <1>1
<1> HIDE DEF a
<1>6. InFlight' = InFlight - a /\ InFlight \in Nat /\ a <= InFlight
    BY <1>2, <1>3, <1>4, <1>5, TotalsType DEF InFlight
<1>7. Accounts'
    <2>1. RowConservation'
        BY <1>4, <1>5, <1>6, CountersType DEF Accounts, RowConservation
    <2>2. WrittenRowsAccounted'
        BY <1>5 DEF Accounts, WrittenRowsAccounted
    <2>3. SentRowsAccounted'
        BY <1>2, <1>5 DEF Accounts, SentRowsAccounted
    <2>4. QED
        BY <2>1, <2>2, <2>3 DEF Accounts
<1>8. ASSUME RowsLimited PROVE [Ledger!Next]_(Ledger!ledger)
    <2>1. CASE a = 0
        BY <1>4, <1>5, <1>6, <1>8, <2>1, CountersType DEF Ledger!ledger
    <2>2. CASE a # 0
        <3>1. Ledger!Refund
            BY <1>4, <1>5, <1>6, <1>8, <2>2, CountersType DEF Ledger!Refund
        <3>2. QED
            BY <3>1 DEF Ledger!Next
    <2>3. QED
        BY <2>1, <2>2
<1>9. QED
    BY <1>7, <1>8 DEF LedgerStep

(* Any step of a worker. *)
LEMMA WorkerAccounts ==
    ASSUME TypeOK, SinkInv, Accounts, NEW w \in Workers, Worker(w)
    PROVE  Accounts' /\ LedgerStep
<1>1. ASSUME UNCHANGED <<remaining, queue, genVars, batch, rowsInActive, refund,
                         rows_generated, rows, rows_lost, stored, unsent, unwritten>>
      PROVE  Accounts' /\ LedgerStep
    <2>1. Building' = Building /\ Uncounted' = Uncounted
        BY <1>1 DEF Building, Uncounted, genVars
    <2>2. QED
        BY <1>1, <2>1, AccountsFrame
<1>2. CASE Open(w)
    <2>1. rowsInActive' = rowsInActive
        BY <1>2 DEF Open, SinkInv, TypeOK
    <2>2. QED
        BY <1>1, <1>2, <2>1 DEF Open, stats, history
<1>3. CASE QueueClosed(w) \/ GiveUp(w)
    BY <1>1, <1>3 DEF QueueClosed, GiveUp, sinkVars, stats, history
<1>4. CASE FinishFails(w)
    BY <1>1, <1>4 DEF FinishFails, CloseFails
<1>5. CASE Roll(w) \/ Finish(w)
    <2>1. CASE CloseSucceeds(w)
        BY <1>5, <2>1, CloseAccounts
    <2>2. CASE Roll(w) /\ CloseFails(w)
        BY <1>1, <2>2 DEF Roll, CloseFails
    <2>3. CASE Finish(w) /\ ~file[w]
        BY <1>1, <2>3 DEF Finish, CloseSucceeds
    <2>4. QED
        BY <1>5, <2>1, <2>2, <2>3 DEF Roll, Finish
<1>6. CASE OpenFails(w) \/ WriteFails(w)
    BY <1>6, UnwrittenAccounts
<1>7. QED
    BY <1>2, <1>3, <1>4, <1>5, <1>6, ReceiveAccounts, WriteAccounts, AbandonAccounts,
       CreditAccounts DEF Worker
-----------------------------------------------------------------------------
(* The inductive invariant, part by part.                                  *)

(* Tasks hold rows exactly where their loop says so. *)
LEMMA HandStep ==
    ASSUME TypeOK, HandInv, SinkInv, [Next]_vars
    PROVE  HandInv'
<1> USE DEF TypeOK, HandInv
<1>1. CASE \E g \in Generators : Generator(g)
    <2>1. PICK g \in Generators : Generator(g)
        BY <1>1
    <2>2. CASE CheckDeadline(g)
        BY <2>2 DEF CheckDeadline, GenGoto
    <2>3. CASE Reserve(g)
        <3>1. BatchTarget \in Nat /\ BatchTarget > 0
            BY <2>3, PipelineAssumption DEF Reserve, BatchTarget
        <3>2. QED
            BY <2>3, <3>1 DEF Reserve, GenGoto
    <2>4. CASE QuotaSpent(g)
        BY <2>4 DEF QuotaSpent, GenGoto
    <2>5. CASE GenerateFails(g)
        BY <2>5 DEF GenerateFails, GenGoto
    <2>6. CASE Send(g)
        <3>1. hand[g] \in Nat /\ hand[g] > 0 /\ queue' = Append(queue, hand[g])
            BY <2>6 DEF Send
        <3>2. \A i \in 1..Len(queue') : queue'[i] > 0
            BY <3>1
        <3>3. \A h \in Generators : hand'[h] > 0 <=> genPc'[h] \in {"build", "count"}
            BY <2>6 DEF Send, GenGoto
        <3>4. QED
            BY <3>2, <3>3
    <2>7. CASE SendFails(g)
        BY <2>7 DEF SendFails, GenGoto
    <2>8. CASE CountRows(g)
        BY <2>8 DEF CountRows, GenGoto
    <2>9. QED
        BY <2>1, <2>2, <2>3, <2>4, <2>5, <2>6, <2>7, <2>8 DEF Generator
<1>2. CASE \E w \in Workers : Worker(w)
    <2>1. PICK w \in Workers : Worker(w)
        BY <1>2
    <2>2. UNCHANGED <<genPc, hand>>
        BY <2>1 DEF Worker, Receive, QueueClosed, Open, OpenFails, Write, WriteFails,
            Roll, GiveUp, Abandon, Credit, Finish, FinishFails, genVars
    <2>3. CASE Receive(w)
        <3>1. queue # <<>> /\ queue' = Tail(queue)
            BY <2>3 DEF Receive
        <3>2. \A i \in 1..Len(queue') : queue'[i] > 0
            BY <3>1
        <3>3. QED
            BY <2>2, <3>2
    <2>4. CASE ~Receive(w)
        <3>1. queue' = queue
            BY <2>1, <2>4 DEF Worker, QueueClosed, Open, OpenFails, Write, WriteFails,
                Roll, GiveUp, Abandon, Credit, Finish, FinishFails
        <3>2. QED
            BY <2>2, <3>1
    <2>5. QED
        BY <2>3, <2>4
<1>3. CASE Main \/ StatusExits \/ DeadlinePasses \/ Stutter \/ UNCHANGED vars
    <2>1. UNCHANGED <<genPc, hand, queue>>
        BY <1>3 DEF Main, JoinGenerators, JoinWorkers, Report, StatusExits,
            DeadlinePasses, Stutter, tasks, vars, genVars
    <2>2. QED
        BY <2>1
<1>4. QED
    BY <1>1, <1>2, <1>3 DEF Next

(* A step that is not a worker's leaves workers and sinks alone. *)
LEMMA OthersLeaveWorkers ==
    ASSUME [Next]_vars, ~ \E w \in Workers : Worker(w)
    PROVE  UNCHANGED <<workerVars, rows_lost, files_abandoned, files_completed,
                       file_counter, stored, unwritten>>
<1>1. CASE \E g \in Generators : Generator(g)
    BY <1>1 DEF Generator, CheckDeadline, Reserve, QuotaSpent, GenerateFails, Send,
        SendFails, CountRows, stats, history
<1>2. CASE Main \/ StatusExits \/ DeadlinePasses \/ Stutter \/ UNCHANGED vars
    BY <1>2 DEF Main, JoinGenerators, JoinWorkers, Report, StatusExits,
        DeadlinePasses, Stutter, tasks, vars, stats, history
<1>3. QED
    BY <1>1, <1>2 DEF Next

(* What the sink's file and counters say at each point of the worker's loop. *)
LEMMA SinkStep ==
    ASSUME TypeOK, HandInv, SinkInv, RetryInv, [Next]_vars
    PROVE  SinkInv' /\ RetryInv'
<1>1. CASE \E w \in Workers : Worker(w)
    <2>1. PICK w \in Workers : Worker(w)
        BY <1>1
    <2> USE PipelineAssumption DEF TypeOK, SinkInv, RetryInv, WorkerGoto, sinkVars
    <2>2. CASE Receive(w)
        <3>1. Head(queue) \in Nat /\ Head(queue) > 0
            BY <2>2 DEF Receive, HandInv
        <3>2. QED
            BY <2>2, <3>1 DEF Receive
    <2>3. CASE QueueClosed(w)
        BY <2>3 DEF QueueClosed
    <2>4. CASE Open(w)
        BY <2>4 DEF Open
    <2>5. CASE OpenFails(w)
        BY <2>5 DEF OpenFails
    <2>6. CASE Write(w)
        <3>1. PICK pc \in {"recv", "roll"} : workerPc' = [workerPc EXCEPT ![w] = pc]
            BY <2>6 DEF Write
        <3>2. QED
            BY <2>6, <3>1 DEF Write
    <2>7. CASE WriteFails(w)
        BY <2>7 DEF WriteFails
    <2>8. CASE Roll(w) /\ CloseSucceeds(w)
        BY <2>8 DEF Roll, CloseSucceeds, CloseFails
    <2>9. CASE Roll(w) /\ CloseFails(w)
        BY <2>9 DEF Roll, CloseSucceeds, CloseFails
    <2>10. CASE GiveUp(w)
        BY <2>10 DEF GiveUp
    <2>11. CASE Abandon(w)
        BY <2>11 DEF Abandon
    <2>12. CASE Credit(w)
        BY <2>12 DEF Credit
    <2>13. CASE Finish(w) /\ CloseSucceeds(w)
        BY <2>13 DEF Finish, CloseSucceeds
    <2>14. CASE Finish(w) /\ ~file[w]
        BY <2>14 DEF Finish, CloseSucceeds
    <2>15. CASE FinishFails(w)
        BY <2>15 DEF FinishFails, CloseFails
    <2>16. QED
        BY <2>1, <2>2, <2>3, <2>4, <2>5, <2>6, <2>7, <2>8, <2>9, <2>10, <2>11, <2>12,
           <2>13, <2>14, <2>15 DEF Worker, Roll, Finish
<1>2. CASE ~ \E w \in Workers : Worker(w)
    BY <1>2, OthersLeaveWorkers DEF SinkInv, RetryInv, workerVars, sinkVars
<1>3. QED
    BY <1>1, <1>2

(* One worker's file changes state: Pending gains or loses that worker. *)
LEMMA PendingStep ==
    ASSUME NEW w \in Workers,
           \A v \in Workers : v # w => (Unresolved(v)' <=> Unresolved(v))
    PROVE  /\ Cardinality(Pending) \in Nat /\ Cardinality(Pending') \in Nat
           /\ (Unresolved(w)' <=> Unresolved(w)) => Pending' = Pending
           /\ Unresolved(w)' /\ ~Unresolved(w)
                => Cardinality(Pending') = Cardinality(Pending) + 1
           /\ ~Unresolved(w)' /\ Unresolved(w)
                => Cardinality(Pending) = Cardinality(Pending') + 1
<1> DEFINE A == {v \in Workers : Unresolved(v)}
           B == {v \in Workers : Unresolved(v)'}
<1>1. Pending = A /\ Pending' = B
    BY DEF Pending
<1>2. IsFiniteSet(Workers)
    BY PipelineAssumption, FS_Interval DEF Workers
<1>3. A \subseteq Workers /\ B \subseteq Workers
    OBVIOUS
<1>4. /\ w \in A <=> Unresolved(w)
      /\ w \in B <=> Unresolved(w)'
      /\ \A v \in Workers : v # w => (v \in A <=> v \in B)
    OBVIOUS
<1> HIDE DEF A, B
<1>5. IsFiniteSet(A) /\ IsFiniteSet(B)
    BY <1>2, <1>3, FS_Subset
<1>6. Cardinality(A) \in Nat /\ Cardinality(B) \in Nat
    BY <1>5, FS_CardinalityType
<1>7. ASSUME w \in A <=> w \in B PROVE B = A
    BY <1>3, <1>4, <1>7
<1>8. ASSUME w \in B, w \notin A PROVE Cardinality(B) = Cardinality(A) + 1
    <2>1. B = A \cup {w}
        BY <1>3, <1>4, <1>8
    <2>2. QED
        BY <1>5, <1>8, <2>1, FS_AddElement
<1>9. ASSUME w \in A, w \notin B PROVE Cardinality(A) = Cardinality(B) + 1
    <2>1. A = B \cup {w}
        BY <1>3, <1>4, <1>9
    <2>2. QED
        BY <1>5, <1>9, <2>1, FS_AddElement
<1>10. QED
    BY <1>1, <1>4, <1>6, <1>7, <1>8, <1>9

(* File numbers and file counters stay in step with the files pending. *)
LEMMA FilesStep ==
    ASSUME TypeOK, SinkInv, FilesAccounted, [Next]_vars
    PROVE  FilesAccounted'
<1>1. CASE ~ \E w \in Workers : Worker(w)
    <2>1. UNCHANGED <<workerPc, file, rowsInActive, files_abandoned,
                      files_completed, file_counter>>
        BY <1>1, OthersLeaveWorkers DEF workerVars, sinkVars
    <2>2. Pending' = Pending
        BY <2>1 DEF Pending, Unresolved
    <2>3. QED
        BY <2>1, <2>2 DEF FilesAccounted
<1>2. CASE \E w \in Workers : Worker(w)
    <2>1. PICK w \in Workers : Worker(w)
        BY <1>2
    <2>2. \A v \in Workers : v # w => (Unresolved(v)' <=> Unresolved(v))
        <3> SUFFICES ASSUME NEW v \in Workers, v # w
                     PROVE  /\ workerPc'[v] = workerPc[v] /\ file'[v] = file[v]
                            /\ rowsInActive'[v] = rowsInActive[v]
            BY DEF Unresolved
        <3> USE DEF TypeOK, WorkerGoto, sinkVars
        <3>1. CASE Receive(w) \/ QueueClosed(w) \/ Open(w) \/ OpenFails(w) \/ WriteFails(w)
            BY <3>1 DEF Receive, QueueClosed, Open, OpenFails, WriteFails
        <3>2. CASE Write(w)
            BY <3>2 DEF Write
        <3>3. CASE Roll(w)
            BY <3>3 DEF Roll, CloseSucceeds, CloseFails
        <3>4. CASE GiveUp(w) \/ Abandon(w) \/ Credit(w)
            BY <3>4 DEF GiveUp, Abandon, Credit
        <3>5. CASE Finish(w)
            BY <3>5 DEF Finish, CloseSucceeds
        <3>6. CASE FinishFails(w)
            BY <3>6 DEF FinishFails, CloseFails
        <3>7. QED
            BY <2>1, <3>1, <3>2, <3>3, <3>4, <3>5, <3>6 DEF Worker
    <2>3. /\ Cardinality(Pending) \in Nat /\ Cardinality(Pending') \in Nat
          /\ (Unresolved(w)' <=> Unresolved(w)) => Pending' = Pending
          /\ Unresolved(w)' /\ ~Unresolved(w)
               => Cardinality(Pending') = Cardinality(Pending) + 1
          /\ ~Unresolved(w)' /\ Unresolved(w)
               => Cardinality(Pending) = Cardinality(Pending') + 1
        BY <2>2, PendingStep
    <2>4. file_counter \in Nat /\ files_completed \in Nat /\ files_abandoned \in Nat
        BY DEF TypeOK
    <2>5. ASSUME Unresolved(w)' <=> Unresolved(w),
                 UNCHANGED <<file_counter, files_completed, files_abandoned>>
          PROVE  FilesAccounted'
        BY <2>3, <2>5 DEF FilesAccounted
    <2>6. ASSUME Unresolved(w)', ~Unresolved(w), file_counter' = file_counter + 1,
                 UNCHANGED <<files_completed, files_abandoned>>
          PROVE  FilesAccounted'
        BY <2>3, <2>4, <2>6 DEF FilesAccounted
    <2>7. ASSUME ~Unresolved(w)', Unresolved(w), files_completed' = files_completed + 1,
                 UNCHANGED <<file_counter, files_abandoned>>
          PROVE  FilesAccounted'
        BY <2>3, <2>4, <2>7 DEF FilesAccounted
    <2>8. ASSUME ~Unresolved(w)', Unresolved(w), files_abandoned' = files_abandoned + 1,
                 UNCHANGED <<file_counter, files_completed>>
          PROVE  FilesAccounted'
        BY <2>3, <2>4, <2>8 DEF FilesAccounted
    <2> USE DEF TypeOK, SinkInv, Unresolved, WorkerGoto, sinkVars, stats
    <2>9. CASE Receive(w)
        BY <2>5, <2>9 DEF Receive
    <2>10. CASE QueueClosed(w)
        BY <2>5, <2>10 DEF QueueClosed
    <2>11. CASE Open(w)
        BY <2>6, <2>11 DEF Open
    <2>12. CASE OpenFails(w)
        BY <2>6, <2>12 DEF OpenFails
    <2>13. CASE Write(w)
        BY <2>5, <2>13 DEF Write
    <2>14. CASE WriteFails(w)
        BY <2>5, <2>14 DEF WriteFails
    <2>15. CASE Roll(w) /\ CloseSucceeds(w)
        BY <2>7, <2>15 DEF Roll, CloseSucceeds, CloseFails
    <2>16. CASE Roll(w) /\ CloseFails(w)
        BY <2>5, <2>16 DEF Roll, CloseSucceeds, CloseFails
    <2>17. CASE GiveUp(w)
        BY <2>5, <2>17 DEF GiveUp
    <2>18. CASE Abandon(w)
        BY <2>8, <2>18 DEF Abandon
    <2>19. CASE Credit(w)
        BY <2>5, <2>19 DEF Credit
    <2>20. CASE Finish(w) /\ ~file[w]
        BY <2>5, <2>20 DEF Finish, CloseSucceeds
    <2>21. CASE Finish(w) /\ CloseSucceeds(w)
        BY <2>7, <2>21 DEF Finish, CloseSucceeds
    <2>22. CASE FinishFails(w)
        BY <2>5, <2>22 DEF FinishFails, CloseFails
    <2>23. QED
        BY <2>1, <2>9, <2>10, <2>11, <2>12, <2>13, <2>14, <2>15, <2>16, <2>17, <2>18,
           <2>19, <2>20, <2>21, <2>22 DEF Worker, Roll, Finish
<1>3. QED
    BY <1>1, <1>2

(* A task that has stopped stays stopped, and where it stopped.            *)
LEMMA StoppedStay ==
    ASSUME TypeOK, [Next]_vars
    PROVE  /\ \A g \in Generators : GenStopped(g) => genPc'[g] = genPc[g]
           /\ \A w \in Workers : WorkerStopped(w) => workerPc'[w] = workerPc[w]
<1> USE DEF TypeOK, GenStopped, WorkerStopped
<1>1. CASE \E g \in Generators : Generator(g)
    <2>1. PICK g \in Generators : Generator(g)
        BY <1>1
    <2>2. workerPc' = workerPc
        BY <2>1 DEF Generator, CheckDeadline, Reserve, QuotaSpent, GenerateFails, Send,
            SendFails, CountRows, workerVars
    <2>3. ~GenStopped(g) /\ \A h \in Generators : h # g => genPc'[h] = genPc[h]
        BY <2>1 DEF Generator, CheckDeadline, Reserve, QuotaSpent, GenerateFails, Send,
            SendFails, CountRows, GenGoto
    <2>4. QED
        BY <2>2, <2>3
<1>2. CASE \E w \in Workers : Worker(w)
    <2>1. PICK w \in Workers : Worker(w)
        BY <1>2
    <2>2. genPc' = genPc
        BY <2>1 DEF Worker, Receive, QueueClosed, Open, OpenFails, Write, WriteFails,
            Roll, GiveUp, Abandon, Credit, Finish, FinishFails, genVars
    <2>3. ~WorkerStopped(w)
        BY <2>1 DEF Worker, Receive, QueueClosed, Open, OpenFails, Write, WriteFails,
            Roll, GiveUp, Abandon, Credit, Finish, FinishFails
    <2>4. \A v \in Workers : v # w => workerPc'[v] = workerPc[v]
        <3>1. workerPc' = workerPc \/ \E pc \in WorkerPcs : WorkerGoto(w, pc)
            BY <2>1 DEF Worker, Receive, QueueClosed, Open, OpenFails, Write, WriteFails,
                Roll, GiveUp, Abandon, Credit, Finish, FinishFails, WorkerPcs
        <3>2. QED
            BY <3>1 DEF WorkerGoto
    <2>5. QED
        BY <2>2, <2>3, <2>4
<1>3. CASE Main \/ StatusExits \/ DeadlinePasses \/ Stutter \/ UNCHANGED vars
    BY <1>3 DEF Main, JoinGenerators, JoinWorkers, Report, StatusExits,
        DeadlinePasses, Stutter, tasks, vars, genVars, workerVars
<1>4. QED
    BY <1>1, <1>2, <1>3 DEF Next

(* Nothing enters the queue once every generator has stopped. *)
LEMMA QueueStaysEmpty ==
    ASSUME [Next]_vars, NoSenders, queue = <<>>
    PROVE  queue' = <<>>
<1>1. CASE \E g \in Generators : Generator(g)
    <2>1. PICK g \in Generators : Generator(g)
        BY <1>1
    <2>2. genPc[g] \notin {"done", "failed"}
        BY <2>1 DEF Generator, CheckDeadline, Reserve, QuotaSpent, GenerateFails, Send,
            SendFails, CountRows
    <2>3. QED
        BY <2>2 DEF NoSenders, AllGenStopped, GenStopped
<1>2. CASE \E w \in Workers : Worker(w)
    BY <1>2 DEF Worker, Receive, QueueClosed, Open, OpenFails, Write, WriteFails,
        Roll, GiveUp, Abandon, Credit, Finish, FinishFails
<1>3. CASE Main \/ StatusExits \/ DeadlinePasses \/ Stutter \/ UNCHANGED vars
    BY <1>3 DEF Main, JoinGenerators, JoinWorkers, Report, StatusExits,
        DeadlinePasses, Stutter, tasks, vars
<1>4. QED
    BY <1>1, <1>2, <1>3 DEF Next

(* The order in which the parts of a run shut down. *)
LEMMA ShutdownStep ==
    ASSUME TypeOK, ShutdownInv, [Next]_vars
    PROVE  ShutdownInv'
<1>1. AllGenStopped => AllGenStopped'
    BY StoppedStay DEF AllGenStopped, GenStopped
<1>2. AllWorkersStopped => AllWorkersStopped'
    BY StoppedStay DEF AllWorkersStopped, WorkerStopped
<1>3. ASSUME NEW w \in Workers, workerPc'[w] \in {"finish", "done"}
      PROVE  NoSenders' /\ queue' = <<>>
    <2>1. CASE workerPc[w] \in {"finish", "done"}
        BY <1>1, <2>1, QueueStaysEmpty DEF ShutdownInv, NoSenders
    <2>2. CASE QueueClosed(w)
        BY <1>1, <2>2 DEF QueueClosed, NoSenders
    <2>3. CASE workerPc[w] \notin {"finish", "done"} /\ ~QueueClosed(w)
        <3>1. CASE ~ \E v \in Workers : Worker(v)
            BY <1>3, <2>3, <3>1, OthersLeaveWorkers DEF workerVars
        <3>2. CASE \E v \in Workers : Worker(v)
            <4>1. PICK v \in Workers : Worker(v)
                BY <3>2
            <4>2. CASE v = w
                BY <1>3, <2>3, <4>1, <4>2 DEF Worker, Receive, Open, OpenFails, Write,
                   WriteFails, Roll, GiveUp, Abandon, Credit, Finish, FinishFails,
                   WorkerGoto, TypeOK
            <4>3. CASE v # w
                <5>1. workerPc' = workerPc \/ \E pc \in WorkerPcs : WorkerGoto(v, pc)
                    BY <4>1 DEF Worker, Receive, QueueClosed, Open, OpenFails, Write,
                        WriteFails, Roll, GiveUp, Abandon, Credit, Finish, FinishFails,
                        WorkerPcs
                <5>2. workerPc'[w] = workerPc[w]
                    BY <4>3, <5>1 DEF WorkerGoto, TypeOK
                <5>3. QED
                    BY <1>3, <2>3, <5>2
            <4>4. QED
                BY <4>2, <4>3
        <3>3. QED
            BY <3>1, <3>2
    <2>4. QED
        BY <2>1, <2>2, <2>3
<1>4. CASE mainPc' = mainPc
    <2>1. mainPc' # "generating" => AllGenStopped'
        BY <1>1, <1>4 DEF ShutdownInv
    <2>2. mainPc' \in {"reporting", "ok", "failed"} => AllWorkersStopped'
        BY <1>2, <1>4 DEF ShutdownInv
    <2>3. mainPc' = "ok" => ~SomeTaskFailed'
        <3> SUFFICES ASSUME mainPc = "ok" PROVE ~SomeTaskFailed'
            BY <1>4
        <3>1. AllGenStopped /\ AllWorkersStopped /\ ~SomeTaskFailed
            BY DEF ShutdownInv
        <3>2. QED
            BY <3>1, StoppedStay DEF AllGenStopped, AllWorkersStopped, SomeTaskFailed
    <2>4. QED
        BY <1>3, <2>1, <2>2, <2>3 DEF ShutdownInv
<1>5. CASE Main
    BY <1>1, <1>2, <1>3, <1>5, StoppedStay DEF Main, JoinGenerators, JoinWorkers, Report,
       ShutdownInv, tasks, genVars, workerVars, SomeTaskFailed, AllGenStopped, GenStopped,
       AllWorkersStopped, WorkerStopped
<1>6. mainPc' = mainPc \/ Main
    BY DEF Next, Generator, CheckDeadline, Reserve, QuotaSpent, GenerateFails, Send,
       SendFails, CountRows, Worker, Receive, QueueClosed, Open, OpenFails, Write,
       WriteFails, Roll, GiveUp, Abandon, Credit, Finish, FinishFails, StatusExits,
       DeadlinePasses, Stutter, vars, control
<1>7. QED
    BY <1>4, <1>5, <1>6

(* While no upload has failed, no sender is refused. *)
LEMMA NoRefusal ==
    ASSUME TypeOK, RetryInv, ShutdownInv, NoUploadFailure, NEW g \in Generators,
           ~GenStopped(g)
    PROVE  ~NoReceivers
<1> SUFFICES ASSUME AllWorkersStopped PROVE FALSE
    BY DEF NoReceivers
<1>1. 1 \in Workers
    BY PipelineAssumption DEF Workers
<1>2. workerPc[1] # "done"
    BY <1>1 DEF ShutdownInv, NoSenders, AllGenStopped
<1>3. workerPc[1] # "failed"
    BY <1>1, PipelineAssumption DEF RetryInv, NoUploadFailure
<1>4. QED
    BY <1>1, <1>2, <1>3 DEF AllWorkersStopped, WorkerStopped

(* A step that leaves no upload failure behind comes from a state without one. *)
LEMMA FailuresStay ==
    ASSUME TypeOK, NoUploadFailure', [Next]_vars
    PROVE  NoUploadFailure
<1>1. CASE ~ \E w \in Workers : Worker(w)
    BY <1>1, OthersLeaveWorkers DEF workerVars, NoUploadFailure
<1>2. CASE \E w \in Workers : Worker(w)
    <2>1. PICK w \in Workers : Worker(w)
        BY <1>2
    <2>2. \A v \in Workers : v # w => abandoned'[v] = abandoned[v] /\ workerPc'[v] = workerPc[v]
        <3>1. workerPc' = workerPc \/ \E pc \in WorkerPcs : WorkerGoto(w, pc)
            BY <2>1 DEF Worker, Receive, QueueClosed, Open, OpenFails, Write,
                WriteFails, Roll, GiveUp, Abandon, Credit, Finish, FinishFails,
                WorkerPcs
        <3>2. abandoned' = abandoned \/ abandoned' = [abandoned EXCEPT ![w] = @ + 1]
            BY <2>1 DEF Worker, Receive, QueueClosed, Open, OpenFails, Write,
                WriteFails, Roll, GiveUp, Abandon, Credit, Finish, FinishFails
        <3>3. QED
            BY <3>1, <3>2 DEF WorkerGoto, TypeOK
    <2>3. abandoned[w] = 0 /\ workerPc[w] # "error"
        <3>1. abandoned'[w] = 0 /\ abandoned[w] \in Nat
            BY DEF NoUploadFailure, TypeOK
        <3>2. CASE abandoned' = abandoned
            <4>1. workerPc[w] # "error"
                BY <2>1, <3>2, <3>1 DEF Worker, Receive, QueueClosed, Open, OpenFails,
                   Write, WriteFails, Roll, GiveUp, Abandon, Credit, Finish, FinishFails,
                   TypeOK
            <4>2. QED
                BY <3>1, <3>2, <4>1
        <3>3. CASE abandoned' = [abandoned EXCEPT ![w] = @ + 1]
            BY <3>1, <3>3 DEF TypeOK
        <3>4. QED
            BY <2>1, <3>2, <3>3 DEF Worker, Receive, QueueClosed, Open, OpenFails, Write,
                WriteFails, Roll, GiveUp, Abandon, Credit, Finish, FinishFails
    <2>4. QED
        BY <2>2, <2>3 DEF NoUploadFailure
<1>3. QED
    BY <1>1, <1>2

(* While no upload has failed nothing is lost. *)
LEMMA CleanStep ==
    ASSUME TypeOK, HandInv, SinkInv, RetryInv, ShutdownInv, CleanInv, [Next]_vars
    PROVE  CleanInv'
<1> SUFFICES ASSUME NoUploadFailure'
             PROVE  /\ unwritten' = 0 /\ rows_lost' = 0 /\ files_abandoned' = 0
                    /\ \A w \in Workers : workerPc'[w] = "done" => rowsInActive'[w] = 0
                    /\ unsent' > 0 => \E g \in Generators : genPc'[g] = "failed"
                    /\ RowsLimited /\ ~expired' /\ (\E g \in Generators : genPc'[g] = "done")
                          => remaining' = 0
    BY DEF CleanInv
<1>1. NoUploadFailure
    BY FailuresStay
<1>2. /\ unwritten = 0 /\ rows_lost = 0 /\ files_abandoned = 0
      /\ \A w \in Workers : workerPc[w] = "done" => rowsInActive[w] = 0
      /\ unsent > 0 => \E g \in Generators : genPc[g] = "failed"
      /\ RowsLimited /\ ~expired /\ (\E g \in Generators : genPc[g] = "done")
            => remaining = 0
    BY <1>1 DEF CleanInv
<1>3. CASE \E g \in Generators : Generator(g)
    <2>1. PICK g \in Generators : Generator(g)
        BY <1>3
    <2>2. /\ UNCHANGED <<unwritten, rows_lost, files_abandoned, workerPc, rowsInActive>>
          /\ expired' = expired
        BY <2>1 DEF Generator, CheckDeadline, Reserve, QuotaSpent, GenerateFails, Send,
            SendFails, CountRows, stats, workerVars, sinkVars, history, control
    <2>3. /\ unsent' > 0 => \E h \in Generators : genPc'[h] = "failed"
          /\ RowsLimited /\ ~expired' /\ (\E h \in Generators : genPc'[h] = "done")
                => remaining' = 0
        <3> USE DEF TypeOK, GenGoto, history, control
        <3>1. CASE CheckDeadline(g)
            BY <1>2, <3>1 DEF CheckDeadline
        <3>2. CASE Reserve(g)
            BY <1>2, <3>2, PipelineAssumption DEF Reserve, BatchTarget
        <3>3. CASE QuotaSpent(g)
            BY <1>2, <3>3, PipelineAssumption DEF QuotaSpent, BatchTarget
        <3>4. CASE GenerateFails(g)
            BY <1>2, <3>4 DEF GenerateFails
        <3>5. CASE Send(g)
            BY <1>2, <3>5 DEF Send
        <3>6. CASE SendFails(g)
            BY <1>1, <3>6, NoRefusal DEF SendFails, GenStopped
        <3>7. CASE CountRows(g)
            BY <1>2, <3>7 DEF CountRows
        <3>8. QED
            BY <2>1, <3>1, <3>2, <3>3, <3>4, <3>5, <3>6, <3>7 DEF Generator
    <2>4. QED
        BY <1>2, <2>2, <2>3
<1>4. CASE \E w \in Workers : Worker(w)
    <2>1. PICK w \in Workers : Worker(w)
        BY <1>4
    <2>2. UNCHANGED <<genPc, unsent, expired>>
        BY <2>1 DEF Worker, Receive, QueueClosed, Open, OpenFails, Write, WriteFails,
            Roll, GiveUp, Abandon, Credit, Finish, FinishFails, genVars, control, history
    <2>3. /\ UNCHANGED <<remaining, unwritten, rows_lost, files_abandoned>>
          /\ \A v \in Workers : workerPc'[v] = "done" => rowsInActive'[v] = 0
        <3> USE <1>2 DEF TypeOK, WorkerGoto, sinkVars, stats, history
        <3>1. CASE Receive(w) \/ QueueClosed(w) \/ Open(w)
            BY <3>1 DEF Receive, QueueClosed, Open
        <3>2. CASE OpenFails(w) \/ WriteFails(w)
            BY <3>2 DEF OpenFails, WriteFails, NoUploadFailure
        <3>3. CASE Write(w)
            <4>1. PICK pc \in {"recv", "roll"} : workerPc' = [workerPc EXCEPT ![w] = pc]
                BY <3>3 DEF Write
            <4>2. QED
                BY <3>3, <4>1 DEF Write
        <3>4. CASE Roll(w) /\ CloseSucceeds(w)
            BY <3>4 DEF Roll, CloseSucceeds
        <3>5. CASE Roll(w) /\ ~CloseSucceeds(w)
            BY <3>5 DEF Roll, NoUploadFailure
        <3>6. CASE GiveUp(w) \/ Abandon(w)
            BY <1>1, <3>6 DEF GiveUp, Abandon, NoUploadFailure
        <3>7. CASE Finish(w)
            BY <3>7 DEF Finish, CloseSucceeds, SinkInv
        <3>8. CASE FinishFails(w)
            BY <3>8 DEF FinishFails, NoUploadFailure
        <3>9. CASE Credit(w)
            BY <1>1, <3>9 DEF Credit, RetryInv, NoUploadFailure
        <3>10. QED
            BY <2>1, <3>1, <3>2, <3>3, <3>4, <3>5, <3>6, <3>7, <3>8, <3>9 DEF Worker
    <2>4. QED
        BY <1>2, <2>2, <2>3
<1>5. CASE Main \/ StatusExits \/ DeadlinePasses \/ Stutter \/ UNCHANGED vars
    BY <1>2, <1>5 DEF Main, JoinGenerators, JoinWorkers, Report, StatusExits,
        DeadlinePasses, Stutter, tasks, vars, stats, history, genVars, workerVars,
        sinkVars, control
<1>6. QED
    BY <1>3, <1>4, <1>5 DEF Next
-----------------------------------------------------------------------------
(* The invariant as a whole, and what follows from it.                     *)

(* Any step of any task keeps the accounts and is a step of the ledger. *)
LEMMA AccountsStep ==
    ASSUME TypeOK, HandInv, SinkInv, Accounts, [Next]_vars
    PROVE  Accounts' /\ LedgerStep
<1>1. CASE \E g \in Generators : Generator(g)
    BY <1>1, GeneratorAccounts
<1>2. CASE \E w \in Workers : Worker(w)
    BY <1>2, WorkerAccounts
<1>3. CASE Main \/ StatusExits \/ DeadlinePasses \/ Stutter \/ UNCHANGED vars
    <2>1. UNCHANGED <<remaining, queue, genPc, hand, batch, rowsInActive, refund,
                      rows_generated, rows, rows_lost, stored, unsent, unwritten>>
        BY <1>3 DEF Main, JoinGenerators, JoinWorkers, Report, StatusExits,
            DeadlinePasses, Stutter, tasks, vars, genVars, workerVars, sinkVars,
            stats, history
    <2>2. Building' = Building /\ Uncounted' = Uncounted
        BY <2>1 DEF Building, Uncounted
    <2>3. QED
        BY <2>1, <2>2, AccountsFrame
<1>4. QED
    BY <1>1, <1>2, <1>3 DEF Next

(* A function that is 0 everywhere has total 0. *)
LEMMA GeneratorZeros ==
    ASSUME NEW f \in [Generators -> Nat], \A g \in Generators : f[g] = 0
    PROVE  Total(f) = 0
<1>1. f \in Seq(Nat) /\ Len(f) = GenThreads
    BY PipelineAssumption, FunctionIsSequence DEF Generators
<1>2. QED
    BY <1>1, TotalZeros DEF Generators

LEMMA WorkerZeros ==
    ASSUME NEW f \in [Workers -> Nat], \A w \in Workers : f[w] = 0
    PROVE  Total(f) = 0
<1>1. f \in Seq(Nat) /\ Len(f) = UploadThreads
    BY PipelineAssumption, FunctionIsSequence DEF Workers
<1>2. QED
    BY <1>1, TotalZeros DEF Workers

(* Nothing is anywhere but in the quota before the first step. *)
LEMMA InitTotals ==
    ASSUME Init, TypeOK
    PROVE  /\ InFlight = 0 /\ Total(Uncounted) = 0 /\ Total(queue) = 0
           /\ Total(batch) = 0 /\ Total(rowsInActive) = 0
           /\ remaining = Rows /\ Rows \in Nat
           /\ rows_generated = 0 /\ rows = 0 /\ rows_lost = 0
           /\ stored = 0 /\ unsent = 0 /\ unwritten = 0
<1>1. /\ \A g \in Generators : Building[g] = 0 /\ Uncounted[g] = 0
      /\ \A w \in Workers : batch[w] = 0 /\ rowsInActive[w] = 0 /\ refund[w] = 0
    BY DEF Init, Building, Uncounted
<1>2. Total(Building) = 0 /\ Total(Uncounted) = 0
    BY <1>1, TotalsType, GeneratorZeros
<1>3. Total(batch) = 0 /\ Total(rowsInActive) = 0 /\ Total(refund) = 0
    BY <1>1, TotalsType, WorkerZeros
<1>4. Total(queue) = 0
    BY TotalEmpty DEF Init
<1>5. /\ remaining = Rows /\ Rows \in Nat
      /\ rows_generated = 0 /\ rows = 0 /\ rows_lost = 0
      /\ stored = 0 /\ unsent = 0 /\ unwritten = 0
    BY PipelineAssumption DEF Init
<1>6. InFlight = 0
    BY <1>2, <1>3, <1>4 DEF InFlight
<1>7. QED
    BY <1>2, <1>3, <1>4, <1>5, <1>6

(* The inductive invariant holds in every reachable state, whatever the     *)
(* number of tasks, the queue depth, the quota and the retry budget.        *)
THEOREM Invariance == Spec => []IInv
<1>1. Init /\ TypeOK => IInv
    <2> SUFFICES ASSUME Init, TypeOK PROVE IInv
        OBVIOUS
    <2>1. RowConservation /\ WrittenRowsAccounted /\ SentRowsAccounted
        BY InitTotals DEF RowConservation, WrittenRowsAccounted, SentRowsAccounted
    <2>2. FilesAccounted
        <3>1. Pending = {}
            BY DEF Init, Pending, Unresolved
        <3>2. QED
            BY <3>1, FS_EmptySet DEF Init, FilesAccounted
    <2>3. HandInv
        BY DEF Init, HandInv
    <2>4. SinkInv /\ RetryInv
        BY PipelineAssumption DEF Init, SinkInv, RetryInv
    <2>5. ShutdownInv
        BY DEF Init, ShutdownInv
    <2>6. CleanInv
        BY DEF Init, CleanInv
    <2>7. QED
        BY <2>1, <2>2, <2>3, <2>4, <2>5, <2>6 DEF IInv
<1>2. TypeOK' /\ IInv /\ [Next]_vars => IInv'
    <2> SUFFICES ASSUME TypeOK', IInv, [Next]_vars PROVE IInv'
        OBVIOUS
    <2>1. /\ TypeOK /\ Accounts /\ FilesAccounted /\ HandInv /\ SinkInv /\ RetryInv
          /\ ShutdownInv /\ CleanInv
        BY DEF IInv, Accounts
    <2>2. Accounts'
        BY <2>1, AccountsStep
    <2>3. FilesAccounted'
        BY <2>1, FilesStep
    <2>4. HandInv'
        BY <2>1, HandStep
    <2>5. SinkInv' /\ RetryInv'
        BY <2>1, SinkStep
    <2>6. ShutdownInv'
        BY <2>1, ShutdownStep
    <2>7. CleanInv'
        BY <2>1, CleanStep
    <2>8. QED
        BY <2>2, <2>3, <2>4, <2>5, <2>6, <2>7 DEF IInv, Accounts
<1>3. QED
    BY <1>1, <1>2, TypeCorrect, PTL DEF Spec

(* No row of the quota is lost track of or handed out twice. *)
THEOREM RowsConserved == Spec => []RowConservation
<1>1. IInv => RowConservation
    BY DEF IInv
<1>2. QED
    BY <1>1, Invariance, PTL

(* Every row counted as written is in a file or reported as lost.           *)
THEOREM WrittenRowsAgree == Spec => []WrittenRowsAccounted
<1>1. IInv => WrittenRowsAccounted
    BY DEF IInv
<1>2. QED
    BY <1>1, Invariance, PTL

(* rows_generated, which is raised only after a send, agrees with what the  *)
(* workers received once the sends not yet counted are added.              *)
THEOREM SentRowsAgree == Spec => []SentRowsAccounted
<1>1. IInv => SentRowsAccounted
    BY DEF IInv
<1>2. QED
    BY <1>1, Invariance, PTL

(* Every file number ends in a completed or an abandoned file, or is still  *)
(* the business of one worker.                                              *)
THEOREM FilesConserved == Spec => []FilesAccounted
<1>1. IInv => FilesAccounted
    BY DEF IInv
<1>2. QED
    BY <1>1, Invariance, PTL

(* A run that returns Ok has left nothing behind in any task. *)
LEMMA OkDrained == IInv => OkMeansDrained
<1> SUFFICES ASSUME IInv, mainPc = "ok"
             PROVE  /\ \A g \in Generators : genPc[g] = "done" /\ hand[g] = 0
                    /\ queue = <<>>
                    /\ \A w \in Workers :
                        /\ workerPc[w] = "done"
                        /\ batch[w] = 0 /\ refund[w] = 0 /\ ~file[w]
                        /\ abandoned[w] <= FileRetries
    BY DEF OkMeansDrained
<1>1. AllGenStopped /\ AllWorkersStopped /\ ~SomeTaskFailed
    BY DEF IInv, ShutdownInv
<1>2. \A g \in Generators : genPc[g] = "done" /\ hand[g] = 0
    <2> SUFFICES ASSUME NEW g \in Generators PROVE genPc[g] = "done" /\ hand[g] = 0
        OBVIOUS
    <2>1. genPc[g] = "done"
        BY <1>1 DEF AllGenStopped, GenStopped, SomeTaskFailed
    <2>2. hand[g] \in Nat /\ ~(hand[g] > 0)
        BY <2>1 DEF IInv, HandInv, TypeOK
    <2>3. QED
        BY <2>1, <2>2
<1>3. \A w \in Workers : workerPc[w] = "done"
    BY <1>1 DEF AllWorkersStopped, WorkerStopped, SomeTaskFailed
<1>4. queue = <<>>
    <2>1. 1 \in Workers
        BY PipelineAssumption DEF Workers
    <2>2. QED
        BY <1>3, <2>1 DEF IInv, ShutdownInv
<1>5. \A w \in Workers : batch[w] = 0 /\ refund[w] = 0 /\ ~file[w]
    BY <1>3, SMTT(20) DEF IInv, SinkInv, TypeOK
<1>6. \A w \in Workers : abandoned[w] <= FileRetries
    BY <1>3, PipelineAssumption DEF IInv, RetryInv, TypeOK
<1>7. QED
    BY <1>2, <1>3, <1>4, <1>5, <1>6

THEOREM OkIsDrained == Spec => []OkMeansDrained
BY OkDrained, Invariance, PTL

(* A run that saw no upload failure delivers exactly what was asked for. *)
THEOREM CleanIsExact == Spec => []CleanRunIsExact
<1>1. IInv => CleanRunIsExact
    <2> SUFFICES ASSUME IInv, mainPc = "ok", \A w \in Workers : abandoned[w] = 0
                 PROVE  /\ rows = rows_generated
                        /\ stored = rows
                        /\ rows_lost = 0 /\ files_abandoned = 0
                        /\ RowsLimited /\ ~expired => stored = Rows
        BY DEF CleanRunIsExact
    <2>1. TypeOK /\ Accounts
        BY DEF IInv, Accounts
    <2>2. /\ \A g \in Generators : genPc[g] = "done" /\ hand[g] = 0
          /\ queue = <<>>
          /\ \A w \in Workers : workerPc[w] = "done" /\ batch[w] = 0 /\ refund[w] = 0
        BY OkDrained DEF OkMeansDrained
    <2>3. NoUploadFailure
        BY <2>2 DEF NoUploadFailure
    <2>4. /\ unwritten = 0 /\ rows_lost = 0 /\ files_abandoned = 0
          /\ \A w \in Workers : rowsInActive[w] = 0
          /\ unsent > 0 => \E g \in Generators : genPc[g] = "failed"
          /\ RowsLimited /\ ~expired /\ (\E g \in Generators : genPc[g] = "done")
                => remaining = 0
        BY <2>2, <2>3 DEF IInv, CleanInv
    <2>5. unsent = 0
        BY <2>1, <2>2, <2>4, CountersType
    <2>6. /\ Total(Building) = 0 /\ Total(Uncounted) = 0
        BY <2>1, <2>2, TotalsType, GeneratorZeros DEF Building, Uncounted
    <2>7. Total(batch) = 0 /\ Total(rowsInActive) = 0 /\ Total(refund) = 0
        BY <2>1, <2>2, <2>4, TotalsType, WorkerZeros
    <2>8. Total(queue) = 0
        BY <2>2, TotalEmpty
    <2>9. rows = rows_generated
        BY <2>1, <2>4, <2>6, <2>7, <2>8, CountersType DEF Accounts, SentRowsAccounted
    <2>10. stored = rows
        BY <2>1, <2>4, <2>7, CountersType DEF Accounts, WrittenRowsAccounted
    <2>11. ASSUME RowsLimited, ~expired PROVE stored = Rows
        <3>1. 1 \in Generators
            BY PipelineAssumption DEF Generators
        <3>2. remaining = 0
            BY <2>2, <2>4, <2>11, <3>1
        <3>3. InFlight = 0
            BY <2>6, <2>7, <2>8 DEF InFlight
        <3>4. QED
            BY <2>1, <2>4, <2>5, <2>11, <3>2, <3>3, CountersType
               DEF Accounts, RowConservation
    <2>12. QED
        BY <2>4, <2>9, <2>10, <2>11
<1>2. QED
    BY <1>1, Invariance, PTL

(* The generator that leaves last, of its own accord, leaves an empty quota. *)
THEOREM QuotaDrained == Spec => QuotaDrainedByLastGenerator
<1>1. ASSUME TypeOK, [Next]_vars, ~AllGenStopped, AllGenStopped', RowsLimited, ~expired,
             \A g \in Generators : genPc'[g] = "done", ~NoReceivers
      PROVE  remaining' = 0
    <2>1. PICK g \in Generators : Generator(g)
        <3>1. CASE \E w \in Workers : Worker(w)
            BY <1>1, <3>1 DEF Worker, Receive, QueueClosed, Open, OpenFails, Write,
                WriteFails, Roll, GiveUp, Abandon, Credit, Finish, FinishFails, genVars,
                AllGenStopped, GenStopped
        <3>2. CASE Main \/ StatusExits \/ DeadlinePasses \/ Stutter \/ UNCHANGED vars
            BY <1>1, <3>2 DEF Main, JoinGenerators, JoinWorkers, Report, StatusExits,
                DeadlinePasses, Stutter, tasks, vars, genVars, AllGenStopped, GenStopped
        <3>3. QED
            BY <1>1, <3>1, <3>2 DEF Next
    <2>2. genPc'[g] = "done"
        BY <1>1
    <2>3. CASE QuotaSpent(g)
        BY <1>1, <2>3, PipelineAssumption DEF QuotaSpent, BatchTarget, TypeOK
    <2>4. CASE ~QuotaSpent(g)
        BY <1>1, <2>1, <2>2, <2>4 DEF Generator, CheckDeadline, Reserve, GenerateFails,
            Send, SendFails, CountRows, GenGoto, TypeOK
    <2>5. QED
        BY <2>3, <2>4
<1>2. TypeOK /\ [Next]_vars =>
        [ ~AllGenStopped /\ AllGenStopped' /\ RowsLimited /\ ~expired
            /\ (\A g \in Generators : genPc'[g] = "done") /\ ~NoReceivers
          => remaining' = 0 ]_vars
    BY <1>1
<1>3. QED
    BY <1>2, TypeCorrect, PTL DEF Spec, QuotaDrainedByLastGenerator

(* A run with a quota implements the abstract ledger of its rows. *)
THEOREM ImplementsLedger == RowsLimited => (Spec => LedgerSpec)
<1> SUFFICES ASSUME RowsLimited PROVE Spec => LedgerSpec
    OBVIOUS
<1>1. Init /\ TypeOK => Ledger!Init
    BY InitTotals DEF Ledger!Init
<1>2. IInv /\ [Next]_vars => [Ledger!Next]_(Ledger!ledger)
    BY AccountsStep DEF IInv, Accounts, LedgerStep
<1>3. QED
    BY <1>1, <1>2, TypeCorrect, Invariance, PTL DEF Spec, LedgerSpec, Ledger!Spec
=============================================================================
