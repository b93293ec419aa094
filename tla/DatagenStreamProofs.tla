------------------------ MODULE DatagenStreamProofs ------------------------
(***************************************************************************)
(* Safety of DatagenStream for any number of producers and sinks, any      *)
(* queue depth, batch size, row limit and kind of sink.                    *)
(***************************************************************************)
EXTENDS DatagenStream, TotalsProofs

(* What RowsConserved needs of the variables' types. *)
RowTypes ==
    /\ remaining \in Nat
    /\ queue \in Seq(Nat)
    /\ producerPc \in [Producers -> {"reserve", "build", "report", "done"}]
    /\ hand \in [Producers -> Nat]
    /\ pc \in [Sinks -> ThreadPcs]
    /\ batch \in [Sinks -> Nat]
    /\ summary \in [Sinks -> Nat]
    /\ finishing \in [Sinks -> BOOLEAN]
    /\ dropped \in Nat
    /\ next \in Sinks

(* A producer holds rows only while it builds them. *)
HandInv == \A p \in Producers : producerPc[p] # "build" => hand[p] = 0

(* At this place a thread that does or does not finish is busy with a row. *)
RowPlace(place, finishes) ==
    \/ place \in {"row", "settle"}
    \/ place \in {"decode", "append"} /\ ~finishes

AtRow(s) == RowPlace(pc[s], finishing[s])

(* Places before finish. *)
LoopPlaces == {"new", "check", "recv", "row", "settle", "flush"}

(* A thread has rows left exactly while it is at one, and a thread that     *)
(* finishes never returns to the loop.                                     *)
BatchInv ==
    \A s \in Sinks :
        /\ AtRow(s) => batch[s] > 0
        /\ ~AtRow(s) => batch[s] = 0
        /\ pc[s] \in LoopPlaces => ~finishing[s]

RowsInv == RowTypes /\ HandInv /\ BatchInv /\ RowsConserved

-----------------------------------------------------------------------------
(* Changing one task's count changes the total by the difference. *)
LEMMA ProducerUpdate ==
    ASSUME NEW f \in [Producers -> Nat], NEW p \in Producers, NEW v \in Nat
    PROVE  /\ f[p] \in Nat /\ Total(f) \in Nat /\ Total([f EXCEPT ![p] = v]) \in Nat
           /\ Total([f EXCEPT ![p] = v]) + f[p] = Total(f) + v
<1>1. Threads \in Nat
    BY DatagenStreamAssumption
<1>2. f \in Seq(Nat) /\ Len(f) = Threads
    BY <1>1, FunctionIsSequence DEF Producers
<1>3. Total(f) \in Nat
    BY <1>2, TotalType
<1>4. /\ f[p] \in Nat /\ f[p] <= Total(f) /\ Total([f EXCEPT ![p] = v]) \in Nat
      /\ Total([f EXCEPT ![p] = v]) + f[p] = Total(f) + v
    BY <1>1, TotalUpdateFunction DEF Producers
<1>5. QED
    BY <1>3, <1>4

LEMMA SinkUpdate ==
    ASSUME NEW f \in [Sinks -> Nat], NEW s \in Sinks, NEW v \in Nat
    PROVE  /\ f[s] \in Nat /\ Total(f) \in Nat /\ Total([f EXCEPT ![s] = v]) \in Nat
           /\ Total([f EXCEPT ![s] = v]) + f[s] = Total(f) + v
<1>1. SinkThreads \in Nat
    BY DatagenStreamAssumption
<1>2. f \in Seq(Nat) /\ Len(f) = SinkThreads
    BY <1>1, FunctionIsSequence DEF Sinks
<1>3. Total(f) \in Nat
    BY <1>2, TotalType
<1>4. /\ f[s] \in Nat /\ f[s] <= Total(f) /\ Total([f EXCEPT ![s] = v]) \in Nat
      /\ Total([f EXCEPT ![s] = v]) + f[s] = Total(f) + v
    BY <1>1, TotalUpdateFunction DEF Sinks
<1>5. QED
    BY <1>3, <1>4

LEMMA TotalsAreNumbers ==
    ASSUME RowTypes
    PROVE  /\ remaining \in Nat /\ dropped \in Nat /\ Total(hand) \in Nat
           /\ Total(queue) \in Nat /\ Total(batch) \in Nat /\ Total(summary) \in Nat
<1>1. hand \in Seq(Nat) /\ batch \in Seq(Nat) /\ summary \in Seq(Nat)
    BY DatagenStreamAssumption, FunctionIsSequence DEF RowTypes, Producers, Sinks
<1>2. QED
    BY <1>1, TotalType DEF RowTypes

-----------------------------------------------------------------------------
(* A producer's steps. *)
LEMMA ProducerStep ==
    ASSUME RowsInv, NEW p \in Producers, Producer(p)
    PROVE  RowsInv'
<1> USE DatagenStreamAssumption DEF RowsInv, RowTypes
<1>1. /\ Total(hand) \in Nat /\ Total(queue) \in Nat /\ Total(batch) \in Nat
      /\ Total(summary) \in Nat
    BY TotalsAreNumbers
<1>2. ASSUME NEW v \in Nat, hand' = [hand EXCEPT ![p] = v]
      PROVE  Total(hand') \in Nat /\ Total(hand') + hand[p] = Total(hand) + v
    <2>1. Total([hand EXCEPT ![p] = v]) \in Nat
          /\ Total([hand EXCEPT ![p] = v]) + hand[p] = Total(hand) + v
        BY ProducerUpdate
    <2>2. QED
        BY ONLY <1>2, <2>1
<1>h. hand[p] \in Nat /\ remaining \in Nat /\ dropped \in Nat
    OBVIOUS
<1>3. UNCHANGED <<threads, control>>
    BY DEF Producer, Reserve, GenerateFails, Send, Report, SendFails
<1>t. batch' = batch /\ summary' = summary
    BY <1>3 DEF threads
<1>4. BatchInv'
    BY <1>3 DEF BatchInv, AtRow, RowPlace, threads
<1>5. CASE Reserve(p)
    <2> DEFINE take == IF remaining >= BatchRows THEN BatchRows ELSE remaining
    <2>1. take \in Nat /\ take <= remaining /\ (take = 0 => remaining = 0)
        OBVIOUS
    <2>2. /\ remaining' = remaining - take
          /\ hand' = [hand EXCEPT ![p] = take]
          /\ producerPc' = [producerPc EXCEPT ![p] = IF take = 0 THEN "done" ELSE "build"]
          /\ UNCHANGED <<queue, dropped>>
        BY <1>5 DEF Reserve, ProducerGoto
    <2>3. hand[p] = 0
        BY <1>5 DEF Reserve, HandInv
    <2> HIDE DEF take
    <2>4. RowTypes'
        BY <1>3, <2>1, <2>2 DEF threads, control
    <2>5. HandInv'
        BY <2>1, <2>2 DEF HandInv
    <2>6. RowsConserved'
        <3>1. Total(hand') \in Nat /\ Total(hand') + hand[p] = Total(hand) + take
            BY ONLY <1>2, <2>1, <2>2
        <3>2. QED
            BY ONLY <1>1, <1>h, <1>t, <2>1, <2>2, <2>3, <3>1, RowsInv
               DEF RowsConserved, RowsInv
    <2>7. QED
        BY <1>4, <2>4, <2>5, <2>6
<1>6. CASE GenerateFails(p) \/ SendFails(p)
    <2>1. PICK place \in {"report", "done"} : producerPc' = [producerPc EXCEPT ![p] = place]
        BY <1>6 DEF GenerateFails, SendFails, ProducerGoto
    <2>2. /\ hand' = [hand EXCEPT ![p] = 0]
          /\ dropped' = dropped + hand[p]
          /\ remaining' = remaining /\ queue' = queue
        BY <1>6 DEF GenerateFails, SendFails
    <2>3. hand[p] \in Nat
        OBVIOUS
    <2>4. RowTypes'
        BY <1>3, <2>1, <2>2, <2>3 DEF threads, control
    <2>5. HandInv'
        BY <2>1, <2>2 DEF HandInv
    <2>6. RowsConserved'
        <3>1. Total(hand') \in Nat /\ Total(hand') + hand[p] = Total(hand) + 0
            BY ONLY <1>2, <2>2
        <3>2. QED
            BY ONLY <1>1, <1>h, <1>t, <2>2, <3>1, RowsConserved DEF RowsConserved
    <2>7. QED
        BY <1>4, <2>4, <2>5, <2>6
<1>7. CASE Send(p)
    <2>1. /\ queue' = Append(queue, hand[p])
          /\ hand' = [hand EXCEPT ![p] = 0]
          /\ producerPc' = [producerPc EXCEPT ![p] = "reserve"]
          /\ UNCHANGED <<remaining, dropped>>
        BY <1>7 DEF Send, ProducerGoto
    <2>2. hand[p] \in Nat /\ queue' \in Seq(Nat)
        BY <2>1
    <2>3. Total(queue') = Total(queue) + hand[p]
        BY <2>1, <2>2, TotalAppend
    <2>4. RowTypes'
        BY <1>3, <2>1, <2>2 DEF threads, control
    <2>5. HandInv'
        BY <2>1 DEF HandInv
    <2>6. RowsConserved'
        <3>1. Total(hand') \in Nat /\ Total(hand') + hand[p] = Total(hand) + 0
            BY ONLY <1>2, <2>1
        <3>2. QED
            BY ONLY <1>1, <1>h, <1>t, <2>1, <2>3, <3>1, RowsInv, SMTT(20) DEF RowsConserved, RowsInv
    <2>7. QED
        BY <1>4, <2>4, <2>5, <2>6
<1>8. CASE Report(p)
    <2>1. /\ queue' = Append(queue, 0)
          /\ producerPc' = [producerPc EXCEPT ![p] = "done"]
          /\ producerPc[p] = "report"
          /\ UNCHANGED <<remaining, hand, dropped>>
        BY <1>8 DEF Report, ProducerGoto, Failure
    <2>2. queue' \in Seq(Nat) /\ Total(queue') = Total(queue) + 0
        BY <2>1, TotalAppend
    <2>3. RowTypes'
        BY <1>3, <2>1, <2>2 DEF threads, control
    <2>4. HandInv'
        BY <2>1 DEF HandInv
    <2>5. RowsConserved'
        BY <1>1, <1>t, <2>1, <2>2 DEF RowsConserved
    <2>6. QED
        BY <1>4, <2>3, <2>4, <2>5
<1>9. QED
    BY <1>5, <1>6, <1>7, <1>8 DEF Producer
-----------------------------------------------------------------------------
(* The ways in which a sink thread moves, whatever else it does to its sink. *)

(* A step of a sink thread leaves these alone, or takes an error from the   *)
(* queue.                                                                  *)
Aside ==
    /\ UNCHANGED <<remaining, producers, next>>
    /\ queue' \in Seq(Nat) /\ Total(queue') = Total(queue)

OthersKept ==
    /\ remaining' = remaining /\ hand' = hand /\ producerPc' = producerPc
    /\ next' = next /\ HandInv'
    /\ Total(queue') = Total(queue) /\ queue' \in Seq(Nat)

LEMMA AsideKeeps ==
    ASSUME RowsInv, Aside
    PROVE  OthersKept
BY DEF RowsInv, RowTypes, Aside, producers, HandInv, OthersKept

(* Rows move between what a thread holds, has counted and gives up. *)
LEMMA RowsMove ==
    ASSUME RowsInv, Aside, Total(batch') \in Nat, Total(summary') \in Nat, dropped' \in Nat,
           Total(batch') + Total(summary') + dropped' = Total(batch) + Total(summary) + dropped
    PROVE  RowsConserved'
<1>1. /\ remaining \in Nat /\ dropped \in Nat /\ Total(hand) \in Nat
      /\ Total(queue) \in Nat /\ Total(batch) \in Nat /\ Total(summary) \in Nat
    BY TotalsAreNumbers DEF RowsInv
<1>2. remaining' = remaining /\ hand' = hand /\ Total(queue') = Total(queue)
    BY DEF Aside, producers
<1>3. remaining + Total(hand) + Total(queue) + Total(batch) + Total(summary) + dropped = Rows
    BY DEF RowsInv, RowsConserved
<1>4. /\ Total(batch') \in Nat /\ Total(summary') \in Nat /\ dropped' \in Nat
      /\ Total(batch') + Total(summary') + dropped' = Total(batch) + Total(summary) + dropped
    OBVIOUS
<1>5. remaining + Total(hand) + Total(queue) + Total(batch') + Total(summary') + dropped' = Rows
    <2> DEFINE others == remaining + Total(hand) + Total(queue)
    <2>1. others \in Nat
        BY ONLY <1>1
    <2> HIDE DEF others
    <2>2. others + Total(batch) + Total(summary) + dropped = Rows
        BY ONLY <1>3 DEF others
    <2>3. others + (Total(batch) + Total(summary) + dropped) = Rows
        BY ONLY <1>1, <2>1, <2>2
    <2>4. others + (Total(batch') + Total(summary') + dropped') = Rows
        BY ONLY <1>4, <2>3
    <2>5. others + Total(batch') + Total(summary') + dropped' = Rows
        BY ONLY <1>4, <2>1, <2>4
    <2>6. QED
        BY ONLY <2>5 DEF others
<1>6. QED
    BY ONLY <1>2, <1>5 DEF RowsConserved

LEMMA ContinueStep ==
    ASSUME RowsInv, Aside, NEW s \in Sinks, NEW place \in ThreadPcs,
           Continue(s, place),
           RowPlace(place, finishing[s]) <=> AtRow(s),
           place \in LoopPlaces => ~finishing[s]
    PROVE  RowsInv'
<1>1. /\ pc' = [pc EXCEPT ![s] = place] /\ batch' = batch /\ summary' = summary
      /\ finishing' = finishing /\ dropped' = dropped
    BY DEF Continue, Goto
<1>2. RowTypes'
    BY <1>1, AsideKeeps DEF RowsInv, RowTypes, OthersKept
<1>3. BatchInv'
    <2> SUFFICES ASSUME NEW t \in Sinks
                 PROVE  /\ AtRow(t)' => batch'[t] > 0
                        /\ ~AtRow(t)' => batch'[t] = 0
                        /\ pc'[t] \in LoopPlaces => ~finishing'[t]
        BY DEF BatchInv
    <2>1. CASE t = s
        <3>1. pc'[t] = place /\ batch'[t] = batch[s] /\ finishing'[t] = finishing[s]
            BY <1>1, <2>1 DEF RowsInv, RowTypes
        <3>2. QED
            BY <2>1, <3>1 DEF RowsInv, BatchInv, AtRow
    <2>2. CASE t # s
        <3>1. pc'[t] = pc[t] /\ batch'[t] = batch[t] /\ finishing'[t] = finishing[t]
            BY <1>1, <2>2 DEF RowsInv, RowTypes
        <3>2. QED
            BY <3>1 DEF RowsInv, BatchInv, AtRow
    <2>3. QED
        BY <2>1, <2>2
<1>4. RowsConserved'
    BY <1>1, RowsMove, TotalsAreNumbers DEF RowsInv, RowTypes
<1>5. QED
    BY <1>2, <1>3, <1>4, AsideKeeps DEF RowsInv, OthersKept

LEMMA RowDoneStep ==
    ASSUME RowsInv, Aside, NEW s \in Sinks, AtRow(s), ~finishing[s], RowDone(s)
    PROVE  RowsInv'
<1>1. /\ summary' = [summary EXCEPT ![s] = summary[s] + 1]
      /\ batch' = [batch EXCEPT ![s] = batch[s] - 1]
      /\ pc' = [pc EXCEPT ![s] = IF batch[s] = 1 THEN "flush" ELSE "row"]
      /\ finishing' = finishing /\ dropped' = dropped
    BY DEF RowDone, Goto
<1>2. batch[s] \in Nat /\ batch[s] > 0 /\ summary[s] \in Nat
    BY DEF RowsInv, RowTypes, BatchInv
<1>3. RowTypes'
    <2>1. pc' \in [Sinks -> ThreadPcs]
        BY <1>1 DEF RowsInv, RowTypes, ThreadPcs
    <2>2. batch[s] - 1 \in Nat /\ summary[s] + 1 \in Nat
        BY <1>2
    <2>3. batch' \in [Sinks -> Nat] /\ summary' \in [Sinks -> Nat]
        BY <1>1, <2>2 DEF RowsInv, RowTypes
    <2>4. OthersKept /\ RowTypes
        BY AsideKeeps DEF RowsInv
    <2>5. QED
        BY <1>1, <2>1, <2>3, <2>4 DEF RowTypes, OthersKept
<1>4. BatchInv'
    <2> SUFFICES ASSUME NEW t \in Sinks
                 PROVE  /\ AtRow(t)' => batch'[t] > 0
                        /\ ~AtRow(t)' => batch'[t] = 0
                        /\ pc'[t] \in LoopPlaces => ~finishing'[t]
        BY DEF BatchInv
    <2>1. CASE t = s
        <3>1. /\ pc'[t] = IF batch[s] = 1 THEN "flush" ELSE "row"
              /\ batch'[t] = batch[s] - 1 /\ finishing'[t] = finishing[s]
            BY <1>1, <2>1 DEF RowsInv, RowTypes
        <3>2. QED
            BY <1>2, <3>1 DEF AtRow, RowPlace
    <2>2. CASE t # s
        <3>1. pc'[t] = pc[t] /\ batch'[t] = batch[t] /\ finishing'[t] = finishing[t]
            BY <1>1, <2>2 DEF RowsInv, RowTypes
        <3>2. QED
            BY <3>1 DEF RowsInv, BatchInv, AtRow
    <2>3. QED
        BY <2>1, <2>2
<1>5. RowsConserved'
    <2>1. batch \in [Sinks -> Nat] /\ summary \in [Sinks -> Nat]
        BY DEF RowsInv, RowTypes
    <2>2. batch[s] - 1 \in Nat /\ summary[s] + 1 \in Nat
        BY <1>2
    <2>3. Total(batch') \in Nat /\ Total(batch') + batch[s] = Total(batch) + (batch[s] - 1)
        <3>1. LET b == [batch EXCEPT ![s] = batch[s] - 1]
              IN  Total(b) \in Nat /\ Total(b) + batch[s] = Total(batch) + (batch[s] - 1)
            BY <2>1, <2>2, SinkUpdate
        <3>2. QED
            BY ONLY <1>1, <3>1
    <2>4. /\ Total(summary') \in Nat
          /\ Total(summary') + summary[s] = Total(summary) + (summary[s] + 1)
        <3>1. LET c == [summary EXCEPT ![s] = summary[s] + 1]
              IN  Total(c) \in Nat /\ Total(c) + summary[s] = Total(summary) + (summary[s] + 1)
            BY <2>1, <2>2, SinkUpdate
        <3>2. QED
            BY ONLY <1>1, <3>1
    <2>5. Total(batch) \in Nat /\ Total(summary) \in Nat /\ dropped \in Nat /\ dropped' = dropped
        BY <1>1, TotalsAreNumbers DEF RowsInv
    <2>6. Total(batch') + Total(summary') + dropped' = Total(batch) + Total(summary) + dropped
        BY ONLY <1>2, <2>3, <2>4, <2>5
    <2>7. QED
        BY <2>3, <2>4, <2>5, <2>6, RowsMove
<1>6. QED
    BY <1>3, <1>4, <1>5, AsideKeeps DEF RowsInv, OthersKept

LEMMA LeaveLoopStep ==
    ASSUME RowsInv, Aside, NEW s \in Sinks, LeaveLoop(s), UNCHANGED <<summary, finishing>>
    PROVE  RowsInv'
<1>1. /\ batch' = [batch EXCEPT ![s] = 0]
      /\ dropped' = dropped + batch[s]
      /\ pc' = [pc EXCEPT ![s] = "finish"]
      /\ finishing' = finishing /\ summary' = summary
    BY DEF LeaveLoop, Goto
<1>2. batch[s] \in Nat
    BY DEF RowsInv, RowTypes
<1>3. RowTypes'
    <2>1. pc' \in [Sinks -> ThreadPcs]
        BY <1>1 DEF RowsInv, RowTypes, ThreadPcs
    <2>2. batch' \in [Sinks -> Nat] /\ dropped' \in Nat
        BY <1>1, <1>2 DEF RowsInv, RowTypes
    <2>3. OthersKept /\ RowTypes
        BY AsideKeeps DEF RowsInv
    <2>4. QED
        BY <1>1, <2>1, <2>2, <2>3 DEF RowTypes, OthersKept
<1>4. BatchInv'
    <2> SUFFICES ASSUME NEW t \in Sinks
                 PROVE  /\ AtRow(t)' => batch'[t] > 0
                        /\ ~AtRow(t)' => batch'[t] = 0
                        /\ pc'[t] \in LoopPlaces => ~finishing'[t]
        BY DEF BatchInv
    <2>1. CASE t = s
        <3>1. pc'[t] = "finish" /\ batch'[t] = 0
            BY <1>1, <2>1 DEF RowsInv, RowTypes
        <3>2. QED
            BY <3>1 DEF AtRow, RowPlace, LoopPlaces
    <2>2. CASE t # s
        <3>1. pc'[t] = pc[t] /\ batch'[t] = batch[t] /\ finishing'[t] = finishing[t]
            BY <1>1, <2>2 DEF RowsInv, RowTypes
        <3>2. QED
            BY <3>1 DEF RowsInv, BatchInv, AtRow
    <2>3. QED
        BY <2>1, <2>2
<1>5. RowsConserved'
    <2>1. batch \in [Sinks -> Nat]
        BY DEF RowsInv, RowTypes
    <2>2. Total(batch') \in Nat /\ Total(batch') + batch[s] = Total(batch) + 0
        <3>1. LET b == [batch EXCEPT ![s] = 0]
              IN  Total(b) \in Nat /\ Total(b) + batch[s] = Total(batch) + 0
            BY <2>1, SinkUpdate
        <3>2. QED
            BY ONLY <1>1, <3>1
    <2>3. Total(batch) \in Nat /\ Total(summary) \in Nat /\ dropped \in Nat
        BY TotalsAreNumbers DEF RowsInv
    <2>4. /\ Total(summary') \in Nat /\ dropped' \in Nat
          /\ Total(batch') + Total(summary') + dropped' = Total(batch) + Total(summary) + dropped
        BY ONLY <1>1, <1>2, <2>2, <2>3
    <2>5. QED
        BY <2>2, <2>4, RowsMove
<1>6. QED
    BY <1>3, <1>4, <1>5, AsideKeeps DEF RowsInv, OthersKept

LEMMA FailStep ==
    ASSUME RowsInv, Aside, NEW s \in Sinks, Fail(s)
    PROVE  RowsInv'
<1>1. CASE finishing[s]
    <2>1. /\ pc' = [pc EXCEPT ![s] = "err"] /\ batch' = batch /\ summary' = summary
          /\ finishing' = finishing /\ dropped' = dropped
        BY <1>1 DEF Fail, Goto
    <2>2. ~AtRow(s)
        BY <1>1 DEF RowsInv, BatchInv, AtRow, RowPlace, LoopPlaces
    <2>3. RowTypes'
        BY <2>1, AsideKeeps DEF RowsInv, RowTypes, OthersKept, ThreadPcs
    <2>4. BatchInv'
        <3> SUFFICES ASSUME NEW t \in Sinks
                     PROVE  /\ AtRow(t)' => batch'[t] > 0
                            /\ ~AtRow(t)' => batch'[t] = 0
                            /\ pc'[t] \in LoopPlaces => ~finishing'[t]
            BY DEF BatchInv
        <3>1. CASE t = s
            <4>1. pc'[t] = "err" /\ batch'[t] = batch[s]
                BY <2>1, <3>1 DEF RowsInv, RowTypes
            <4>2. QED
                BY <2>2, <4>1 DEF RowsInv, BatchInv, AtRow, RowPlace, LoopPlaces
        <3>2. CASE t # s
            <4>1. pc'[t] = pc[t] /\ batch'[t] = batch[t] /\ finishing'[t] = finishing[t]
                BY <2>1, <3>2 DEF RowsInv, RowTypes
            <4>2. QED
                BY <4>1 DEF RowsInv, BatchInv, AtRow
        <3>3. QED
            BY <3>1, <3>2
    <2>5. RowsConserved'
        BY <2>1, RowsMove, TotalsAreNumbers DEF RowsInv, RowTypes
    <2>6. QED
        BY <2>3, <2>4, <2>5, AsideKeeps DEF RowsInv, OthersKept
<1>2. CASE ~finishing[s]
    BY <1>2, LeaveLoopStep DEF Fail
<1>3. QED
    BY <1>1, <1>2
-----------------------------------------------------------------------------
(* Steps of the consumer loop. *)
LEMMA OutsideIsAside ==
    ASSUME RowsInv, UNCHANGED outside
    PROVE  Aside
BY DEF RowsInv, RowTypes, outside, control, producers, Aside

LEMMA LoopStep ==
    ASSUME RowsInv, NEW s \in Sinks,
           Check(s) \/ Disconnected(s) \/ OutOfTime(s) \/ Flush(s)
    PROVE  RowsInv'
<1>1. Aside
    BY OutsideIsAside DEF Check, Disconnected, OutOfTime, Flush
<1>2. CASE Check(s)
    <2>1. PICK place \in {"finish", "recv"} : Continue(s, place) /\ pc[s] = "check"
        BY <1>2 DEF Check
    <2>2. QED
        BY <1>1, <2>1, ContinueStep
           DEF RowsInv, BatchInv, AtRow, RowPlace, LoopPlaces, ThreadPcs
<1>3. CASE Disconnected(s)
    BY <1>1, <1>3, ContinueStep DEF Disconnected, AtRow, RowPlace, LoopPlaces, ThreadPcs
<1>4. CASE OutOfTime(s)
    BY <1>1, <1>4, LeaveLoopStep DEF OutOfTime
<1>5. CASE Flush(s)
    <2>1. CASE Continue(s, "check")
        BY <1>1, <1>5, <2>1, ContinueStep
           DEF Flush, RowsInv, BatchInv, AtRow, RowPlace, LoopPlaces, ThreadPcs
    <2>2. CASE Fail(s)
        BY <1>1, <2>2, FailStep
    <2>3. QED
        BY <1>5, <2>1, <2>2 DEF Flush
<1>6. QED
    BY <1>2, <1>3, <1>4, <1>5

LEMMA ReceiveStep ==
    ASSUME RowsInv, NEW s \in Sinks, Receive(s)
    PROVE  RowsInv'
<1>1. /\ pc[s] = "recv" /\ queue # <<>> /\ queue' = Tail(queue)
      /\ UNCHANGED <<remaining, producers, control>>
    BY DEF Receive
<1>2. queue \in Seq(Nat)
    BY DEF RowsInv, RowTypes
<1>3. Head(queue) \in Nat /\ queue' \in Seq(Nat)
    BY <1>1, <1>2
<1>4. Total(queue) = Head(queue) + Total(queue') /\ Total(queue') \in Nat
    BY <1>1, <1>2, <1>3, TotalTail, TotalType
<1>5. CASE Head(queue) = 0
    <2>1. Aside
        BY <1>1, <1>3, <1>4, <1>5 DEF Aside, control
    <2>2. QED
        BY <1>5, <2>1, FailStep DEF Receive, Failure
<1>6. CASE Head(queue) # 0
    <2>1. /\ batch' = [batch EXCEPT ![s] = Head(queue)]
          /\ pc' = [pc EXCEPT ![s] = "row"]
          /\ summary' = summary /\ finishing' = finishing /\ dropped' = dropped
        BY <1>6 DEF Receive, Failure, Goto
    <2>2. /\ remaining' = remaining /\ hand' = hand /\ producerPc' = producerPc
          /\ next' = next
        BY <1>1 DEF producers, control
    <2>3. batch \in [Sinks -> Nat] /\ batch[s] = 0 /\ ~finishing[s]
        BY <1>1 DEF RowsInv, RowTypes, BatchInv, AtRow, RowPlace, LoopPlaces
    <2>4. RowTypes'
        BY <1>3, <2>1, <2>2 DEF RowsInv, RowTypes, ThreadPcs
    <2>5. HandInv'
        BY <2>2 DEF RowsInv, HandInv
    <2>6. BatchInv'
        <3> SUFFICES ASSUME NEW t \in Sinks
                     PROVE  /\ AtRow(t)' => batch'[t] > 0
                            /\ ~AtRow(t)' => batch'[t] = 0
                            /\ pc'[t] \in LoopPlaces => ~finishing'[t]
            BY DEF BatchInv
        <3>1. CASE t = s
            <4>1. pc'[t] = "row" /\ batch'[t] = Head(queue) /\ ~finishing'[t]
                BY <2>1, <2>3, <3>1 DEF RowsInv, RowTypes
            <4>2. QED
                BY <1>3, <1>6, <4>1 DEF AtRow, RowPlace
        <3>2. CASE t # s
            <4>1. pc'[t] = pc[t] /\ batch'[t] = batch[t] /\ finishing'[t] = finishing[t]
                BY <2>1, <3>2 DEF RowsInv, RowTypes
            <4>2. QED
                BY <4>1 DEF RowsInv, BatchInv, AtRow
        <3>3. QED
            BY <3>1, <3>2
    <2>7. RowsConserved'
        <3>1. Total(batch') \in Nat /\ Total(batch') + 0 = Total(batch) + Head(queue)
            <4>1. LET b == [batch EXCEPT ![s] = Head(queue)]
                  IN  Total(b) \in Nat /\ Total(b) + 0 = Total(batch) + Head(queue)
                BY <1>3, <2>3, SinkUpdate
            <4>2. QED
                BY ONLY <2>1, <4>1
        <3>2. /\ remaining \in Nat /\ dropped \in Nat /\ Total(hand) \in Nat
              /\ Total(batch) \in Nat /\ Total(summary) \in Nat
            BY TotalsAreNumbers DEF RowsInv
        <3>3. remaining + Total(hand) + Total(queue) + Total(batch) + Total(summary) + dropped = Rows
            BY DEF RowsInv, RowsConserved
        <3>4. remaining + Total(hand) + Total(queue') + Total(batch') + Total(summary) + dropped = Rows
            <4> DEFINE before == remaining + Total(hand)
                       after == Total(summary) + dropped
            <4>1. before \in Nat /\ after \in Nat
                BY ONLY <3>2
            <4>2. before + Total(queue) + Total(batch) + after = Rows
                BY ONLY <1>3, <1>4, <3>2, <3>3
            <4> HIDE DEF before, after
            <4>3. before + Total(queue') + Total(batch') + after = Rows
                BY ONLY <1>3, <1>4, <3>1, <3>2, <4>1, <4>2, SMTT(20)
            <4>4. QED
                BY ONLY <1>3, <1>4, <3>1, <3>2, <4>3 DEF before, after
        <3>5. QED
            BY ONLY <2>1, <2>2, <3>4 DEF RowsConserved
    <2>8. QED
        BY <2>4, <2>5, <2>6, <2>7 DEF RowsInv
<1>7. QED
    BY <1>5, <1>6

-----------------------------------------------------------------------------
(* Steps inside a sink. *)
LEMMA WriteRowStep ==
    ASSUME RowsInv, NEW s \in Sinks, WriteRow(s)
    PROVE  RowsInv'
<1>1. Aside
    BY OutsideIsAside DEF WriteRow
<1>2. pc[s] = "row" /\ AtRow(s) /\ ~finishing[s]
    BY DEF WriteRow, RowsInv, BatchInv, AtRow, RowPlace, LoopPlaces
<1>3. ASSUME NEW place \in {"append", "decode", "settle"}, Continue(s, place)
      PROVE  RowsInv'
    BY <1>1, <1>2, <1>3, ContinueStep DEF RowPlace, LoopPlaces, ThreadPcs
<1>4. CASE StreamRow(s)
    BY <1>3, <1>4 DEF StreamRow
<1>5. CASE BufferRow(s)
    BY <1>1, <1>2, <1>3, <1>5, RowDoneStep DEF BufferRow
<1>6. CASE EnqueueRow(s)
    BY <1>1, <1>2, <1>3, <1>6, RowDoneStep, FailStep DEF EnqueueRow
<1>7. QED
    BY <1>4, <1>5, <1>6 DEF WriteRow

LEMMA DecodeStep ==
    ASSUME RowsInv, NEW s \in Sinks, Decode(s)
    PROVE  RowsInv'
<1>1. Aside
    BY OutsideIsAside DEF Decode
<1>2. CASE Continue(s, "append")
    BY <1>1, <1>2, ContinueStep DEF Decode, AtRow, RowPlace, LoopPlaces, ThreadPcs
<1>3. CASE Fail(s)
    BY <1>1, <1>3, FailStep
<1>4. QED
    BY <1>2, <1>3 DEF Decode

LEMMA OpenStep ==
    ASSUME RowsInv, NEW s \in Sinks, Open(s)
    PROVE  RowsInv'
<1>1. Aside
    BY OutsideIsAside DEF Open
<1>2. CASE pc[s] = "create" /\ Continue(s, "close")
    BY <1>1, <1>2, ContinueStep DEF AtRow, RowPlace, LoopPlaces, ThreadPcs
<1>3. CASE pc[s] = "append" /\ Continue(s, "append")
    BY <1>1, <1>3, ContinueStep DEF AtRow, RowPlace, LoopPlaces, ThreadPcs
<1>4. CASE Fail(s)
    BY <1>1, <1>4, FailStep
<1>5. QED
    BY <1>2, <1>3, <1>4 DEF Open

LEMMA AppendStep ==
    ASSUME RowsInv, NEW s \in Sinks, AppendRows(s) \/ AppendFails(s)
    PROVE  RowsInv'
<1>1. Aside /\ pc[s] = "append"
    BY OutsideIsAside DEF AppendRows, AppendFails
<1>2. CASE Fail(s)
    BY <1>1, <1>2, FailStep
<1>3. CASE finishing[s] /\ Continue(s, "close")
    BY <1>1, <1>3, ContinueStep DEF AtRow, RowPlace, LoopPlaces, ThreadPcs
<1>4. CASE ~finishing[s] /\ RowDone(s)
    BY <1>1, <1>4, RowDoneStep DEF AtRow, RowPlace
<1>5. QED
    BY <1>2, <1>3, <1>4 DEF AppendRows, AppendFails, AfterAppend

LEMMA SettleStep ==
    ASSUME RowsInv, NEW s \in Sinks, Settle(s)
    PROVE  RowsInv'
<1>1. Aside
    BY OutsideIsAside DEF Settle
<1>2. CASE Fail(s)
    BY <1>1, <1>2, FailStep
<1>3. CASE pc[s] = "settle" /\ RowDone(s)
    BY <1>1, <1>3, RowDoneStep DEF RowsInv, BatchInv, AtRow, RowPlace, LoopPlaces
<1>4. CASE pc[s] \in {"row", "drain"} /\ Continue(s, pc[s])
    BY <1>1, <1>4, ContinueStep
       DEF RowsInv, BatchInv, AtRow, RowPlace, LoopPlaces, ThreadPcs
<1>5. QED
    BY <1>2, <1>3, <1>4 DEF Settle

LEMMA FinishStep ==
    ASSUME RowsInv, NEW s \in Sinks, Finish(s)
    PROVE  RowsInv'
<1>1. Aside
    BY OutsideIsAside DEF Finish
<1>2. PICK place \in {"drain", "decode", "create", "close"} :
          pc' = [pc EXCEPT ![s] = place]
    BY DEF Finish, Goto, CreateOrClose
<1>3. /\ finishing' = [finishing EXCEPT ![s] = TRUE]
      /\ batch' = batch /\ summary' = summary /\ dropped' = dropped
      /\ pc[s] = "finish"
    BY DEF Finish
<1>4. RowTypes'
    BY <1>1, <1>2, <1>3, AsideKeeps DEF RowsInv, RowTypes, OthersKept, ThreadPcs
<1>5. BatchInv'
    <2> SUFFICES ASSUME NEW t \in Sinks
                 PROVE  /\ AtRow(t)' => batch'[t] > 0
                        /\ ~AtRow(t)' => batch'[t] = 0
                        /\ pc'[t] \in LoopPlaces => ~finishing'[t]
        BY DEF BatchInv
    <2>1. CASE t = s
        <3>1. pc'[t] = place /\ finishing'[t] = TRUE /\ batch'[t] = 0
            BY <1>2, <1>3, <2>1 DEF RowsInv, RowTypes, BatchInv, AtRow, RowPlace
        <3>2. QED
            BY <3>1 DEF AtRow, RowPlace, LoopPlaces
    <2>2. CASE t # s
        <3>1. pc'[t] = pc[t] /\ batch'[t] = batch[t] /\ finishing'[t] = finishing[t]
            BY <1>2, <1>3, <2>2 DEF RowsInv, RowTypes
        <3>2. QED
            BY <3>1 DEF RowsInv, BatchInv, AtRow
    <2>3. QED
        BY <2>1, <2>2
<1>6. RowsConserved'
    BY <1>1, <1>3, RowsMove, TotalsAreNumbers DEF RowsInv, RowTypes
<1>7. QED
    BY <1>1, <1>4, <1>5, <1>6, AsideKeeps DEF RowsInv, OthersKept

LEMMA CloseStep ==
    ASSUME RowsInv, NEW s \in Sinks, Close(s) \/ Drained(s)
    PROVE  RowsInv'
<1>1. Aside /\ pc[s] \in {"close", "drain"}
    BY OutsideIsAside DEF Close, Drained
<1>2. CASE Fail(s)
    BY <1>1, <1>2, FailStep
<1>3. ASSUME NEW place \in {"ok", "err"}, Continue(s, place)
      PROVE  RowsInv'
    BY <1>1, <1>3, ContinueStep DEF AtRow, RowPlace, LoopPlaces, ThreadPcs
<1>4. QED
    BY <1>2, <1>3 DEF Close, Drained, Return

LEMMA SinkThreadStep ==
    ASSUME RowsInv, NEW s \in Sinks, SinkThread(s)
    PROVE  RowsInv'
BY LoopStep, ReceiveStep, WriteRowStep, DecodeStep, OpenStep, AppendStep, SettleStep,
   FinishStep, CloseStep DEF SinkThread

-----------------------------------------------------------------------------
(* Steps of run. *)

(* Threads are spawned in order: those still to come are new. *)
SpawnInv ==
    mainPc = "spawn" => \A s \in Sinks : s >= next => pc[s] = "new"

LEMMA SpawnStep ==
    ASSUME RowsInv, SpawnInv, Spawn
    PROVE  RowsInv' /\ SpawnInv'
<1>1. next \in Sinks /\ next \in Nat /\ SinkThreads \in Nat
    BY DatagenStreamAssumption DEF RowsInv, RowTypes, Sinks
<1>2. /\ pc' = [pc EXCEPT ![next] = "check"]
      /\ next' = IF next = SinkThreads THEN 1 ELSE next + 1
      /\ mainPc' = IF next = SinkThreads THEN "join" ELSE mainPc
      /\ UNCHANGED rest
    BY DEF Spawn
<1>3. pc[next] = "new"
    BY <1>1 DEF Spawn, SpawnInv
<1>4. RowTypes'
    <2>1. next' \in Sinks
        BY <1>1, <1>2 DEF Sinks
    <2>2. QED
        BY <1>2, <2>1 DEF RowsInv, RowTypes, rest, producers, ThreadPcs
<1>5. HandInv' /\ RowsConserved'
    BY <1>2 DEF RowsInv, HandInv, RowsConserved, rest, producers
<1>6. BatchInv'
    <2> SUFFICES ASSUME NEW t \in Sinks
                 PROVE  /\ AtRow(t)' => batch'[t] > 0
                        /\ ~AtRow(t)' => batch'[t] = 0
                        /\ pc'[t] \in LoopPlaces => ~finishing'[t]
        BY DEF BatchInv
    <2>1. batch'[t] = batch[t] /\ finishing'[t] = finishing[t]
        BY <1>2 DEF rest
    <2>2. CASE t = next
        <3>1. pc'[t] = "check" /\ pc[t] = "new"
            BY <1>2, <1>3, <2>2 DEF RowsInv, RowTypes
        <3>2. QED
            BY <2>1, <3>1 DEF RowsInv, BatchInv, AtRow, RowPlace, LoopPlaces
    <2>3. CASE t # next
        <3>1. pc'[t] = pc[t]
            BY <1>2, <2>3 DEF RowsInv, RowTypes
        <3>2. QED
            BY <2>1, <3>1 DEF RowsInv, BatchInv, AtRow
    <2>4. QED
        BY <2>2, <2>3
<1>7. SpawnInv'
    <2> SUFFICES ASSUME mainPc' = "spawn", NEW t \in Sinks, t >= next'
                 PROVE  pc'[t] = "new"
        BY DEF SpawnInv
    <2>1. next' = next + 1 /\ mainPc = "spawn" /\ t \in Nat
        BY <1>2 DEF Spawn, Sinks
    <2>2. t # next /\ t >= next
        BY <1>1, <2>1
    <2>3. QED
        BY <1>2, <2>1, <2>2 DEF SpawnInv, RowsInv, RowTypes
<1>8. QED
    BY <1>4, <1>5, <1>6, <1>7 DEF RowsInv

LEMMA JoinStep ==
    ASSUME RowsInv, SpawnInv, Join \/ BuildFails
    PROVE  RowsInv' /\ SpawnInv'
<1>1. /\ UNCHANGED <<rest, pc>>
      /\ mainPc' # "spawn"
    BY DEF Join, BuildFails
<1>2. next' \in Sinks
    BY DatagenStreamAssumption DEF Join, BuildFails, RowsInv, RowTypes, Sinks
<1>3. RowTypes' /\ HandInv' /\ RowsConserved'
    BY <1>1, <1>2 DEF RowsInv, RowTypes, HandInv, RowsConserved, rest, producers
<1>4. BatchInv'
    BY <1>1 DEF RowsInv, BatchInv, AtRow, rest
<1>5. QED
    BY <1>1, <1>3, <1>4 DEF RowsInv, SpawnInv

LEMMA SpawnKept ==
    ASSUME RowsInv, SpawnInv, NEW s \in Sinks, SinkThread(s)
    PROVE  SpawnInv'
<1> USE DEF SinkThread, Check, Receive, Disconnected, OutOfTime, Flush, WriteRow, Decode,
            Open, AppendRows, AppendFails, Settle, Finish, Close, Drained
<1>1. UNCHANGED control
    BY DEF outside
<1>2. pc[s] # "new"
    OBVIOUS
<1>3. \E place : pc' = [pc EXCEPT ![s] = place]
    BY DEF Continue, Fail, LeaveLoop, RowDone, Return, AfterAppend, StreamRow, BufferRow,
           EnqueueRow, Goto
<1>4. mainPc' = mainPc /\ next' = next
    BY <1>1 DEF control
<1>5. QED
    BY <1>2, <1>3, <1>4 DEF SpawnInv, RowsInv, RowTypes

-----------------------------------------------------------------------------
LEMMA RowsInvariance == Spec => [](RowsInv /\ SpawnInv)
<1>1. Init => RowsInv /\ SpawnInv
    <2> SUFFICES ASSUME Init PROVE RowsInv /\ SpawnInv
        OBVIOUS
    <2>1. RowTypes
        BY DatagenStreamAssumption DEF Init, RowTypes, ThreadPcs, Sinks
    <2>2. HandInv /\ BatchInv /\ SpawnInv
        BY DEF Init, HandInv, BatchInv, AtRow, RowPlace, SpawnInv
    <2>3. Total(hand) = 0 /\ Total(batch) = 0 /\ Total(summary) = 0 /\ Total(queue) = 0
        <3>1. hand \in Seq(Nat) /\ batch \in Seq(Nat) /\ summary \in Seq(Nat)
            BY <2>1, DatagenStreamAssumption, FunctionIsSequence
               DEF RowTypes, Producers, Sinks
        <3>2. /\ \A i \in 1..Len(hand) : hand[i] = 0
              /\ \A i \in 1..Len(batch) : batch[i] = 0
              /\ \A i \in 1..Len(summary) : summary[i] = 0
            BY <2>1, DatagenStreamAssumption, FunctionIsSequence
               DEF Init, RowTypes, Producers, Sinks
        <3>3. QED
            BY <3>1, <3>2, TotalZeros, TotalEmpty DEF Init
    <2>4. RowsConserved
        BY <2>3, DatagenStreamAssumption DEF Init, RowsConserved
    <2>5. QED
        BY <2>1, <2>2, <2>4 DEF RowsInv
<1>2. RowsInv /\ SpawnInv /\ [Next]_vars => (RowsInv /\ SpawnInv)'
    <2> SUFFICES ASSUME RowsInv, SpawnInv, [Next]_vars PROVE RowsInv' /\ SpawnInv'
        OBVIOUS
    <2>1. CASE \E p \in Producers : Producer(p)
        <3>1. UNCHANGED <<threads, control>>
            BY <2>1 DEF Producer, Reserve, GenerateFails, Send, Report, SendFails
        <3>2. QED
            BY <2>1, <3>1, ProducerStep DEF SpawnInv, threads, control
    <2>2. CASE \E s \in Sinks : SinkThread(s)
        BY <2>2, SinkThreadStep, SpawnKept
    <2>3. CASE Main
        BY <2>3, SpawnStep, JoinStep DEF Main
    <2>4. CASE TimePasses \/ UNCHANGED vars
        <3>1. UNCHANGED <<remaining, queue, producers, threads, mainPc, next, dropped>>
            BY <2>4 DEF TimePasses, vars, control
        <3>2. RowTypes' /\ HandInv' /\ RowsConserved'
            BY <3>1 DEF RowsInv, RowTypes, HandInv, RowsConserved, producers, threads
        <3>3. BatchInv' /\ SpawnInv'
            BY <3>1 DEF RowsInv, BatchInv, AtRow, SpawnInv, threads
        <3>4. QED
            BY <3>2, <3>3 DEF RowsInv
    <2>5. QED
        BY <2>1, <2>2, <2>3, <2>4 DEF Next, Stutter
<1>3. QED
    BY <1>1, <1>2, PTL DEF Spec

(* Each row of the limit is in one place at every instant, whatever fails    *)
(* and whenever time runs out, for any number of producers and sinks.        *)
THEOREM RowsAreConserved == Spec => []RowsConserved
<1>1. RowsInv => RowsConserved
    BY DEF RowsInv
<1>2. QED
    BY <1>1, RowsInvariance, PTL

-----------------------------------------------------------------------------
(* What a sink holds, at each place of its thread.                         *)

SinkTypes ==
    /\ sink \in [Sinks -> SinkState]
    /\ failed \in [Sinks -> BOOLEAN]
    /\ kind \in {"file", "parquet", "kafka"}

(* Wherever the thread is: only Parquet buffers, only Kafka waits, and rows *)
(* are in a file only while it is open.                                    *)
StateOk(k, x) ==
    /\ k = "kafka" => x.buffered = 0 /\ ~x.open
    /\ k # "kafka" => x.flying = 0
    /\ k = "file" => x.buffered = 0
    /\ ~x.open => x.rows = 0
    /\ x.open => x.files > 0

(* What the place says of the sink's state. *)
PlaceOk(k, place, finishes, x) ==
    /\ place # "append" => x.moving = 0
    /\ place \in {"append", "create", "close"} => x.buffered = 0 /\ k # "kafka"
    /\ place = "decode" => k = "parquet"
    /\ place \in {"settle", "drain"} => k = "kafka"
    /\ place = "append" /\ k = "file" => ~finishes
    /\ place = "close" => x.files > 0
    /\ place \in {"ok", "err"} /\ k = "file" => ~x.open
    /\ place = "ok" => /\ ~x.open /\ x.buffered = 0 /\ x.flying = 0
                       /\ k # "kafka" => x.files > 0

(* One row is in the sink and not yet counted. *)
Uncounted(place, finishes) ==
    IF place # "row" /\ RowPlace(place, finishes) THEN 1 ELSE 0

Holds(x) == x.safe + x.rows + x.moving + x.buffered + x.flying

ThreadOk(k, place, finishes, bad, count, x) ==
    /\ StateOk(k, x)
    /\ PlaceOk(k, place, finishes, x)
    /\ ~bad => count + Uncounted(place, finishes) = Holds(x)
    /\ place = "ok" => ~bad
    /\ place = "err" => bad

ThreadInv(s) == ThreadOk(kind, pc[s], finishing[s], failed[s], summary[s], sink[s])

SinkInv == SinkTypes /\ \A s \in Sinks : ThreadInv(s)

(* The other threads and their sinks are left alone. *)
Only(s) ==
    \A t \in Sinks \ {s} :
        /\ pc'[t] = pc[t] /\ finishing'[t] = finishing[t] /\ failed'[t] = failed[t]
        /\ summary'[t] = summary[t] /\ sink'[t] = sink[t]

LEMMA OneThread ==
    ASSUME RowsInv, SinkInv, NEW s \in Sinks, Only(s), kind' = kind, SinkTypes', ThreadInv(s)'
    PROVE  SinkInv'
<1>1. ASSUME NEW t \in Sinks PROVE ThreadInv(t)'
    <2>1. CASE t = s
        BY <2>1
    <2>2. CASE t # s
        BY <2>2 DEF Only, ThreadInv, SinkInv
    <2>3. QED
        BY <2>1, <2>2
<1>2. QED
    BY <1>1 DEF SinkInv

(* The four ways in which a step of a thread ends, at the thread itself. *)
LEMMA AtContinue ==
    ASSUME RowsInv, SinkInv, NEW s \in Sinks, NEW place, Continue(s, place)
    PROVE  /\ pc'[s] = place /\ finishing'[s] = finishing[s]
           /\ failed' = failed /\ summary'[s] = summary[s]
           /\ (\A t \in Sinks \ {s} : sink'[t] = sink[t]) => Only(s)
BY DEF Continue, Goto, RowsInv, RowTypes, Only

LEMMA AtRowDone ==
    ASSUME RowsInv, SinkInv, NEW s \in Sinks, RowDone(s)
    PROVE  /\ pc'[s] \in {"flush", "row"} /\ finishing'[s] = finishing[s]
           /\ failed' = failed /\ summary'[s] = summary[s] + 1
           /\ (\A t \in Sinks \ {s} : sink'[t] = sink[t]) => Only(s)
BY DEF RowDone, Goto, RowsInv, RowTypes, Only

LEMMA AtFail ==
    ASSUME RowsInv, SinkInv, NEW s \in Sinks, Fail(s)
    PROVE  /\ pc'[s] = (IF finishing[s] THEN "err" ELSE "finish")
           /\ finishing'[s] = finishing[s]
           /\ failed' \in [Sinks -> BOOLEAN] /\ failed'[s] /\ summary'[s] = summary[s]
           /\ (\A t \in Sinks \ {s} : sink'[t] = sink[t]) => Only(s)
<1>1. /\ failed' = [failed EXCEPT ![s] = TRUE] /\ summary' = summary /\ finishing' = finishing
      /\ pc' = [pc EXCEPT ![s] = IF finishing[s] THEN "err" ELSE "finish"]
    BY DEF Fail, LeaveLoop, Goto
<1>2. QED
    BY <1>1 DEF RowsInv, RowTypes, SinkInv, SinkTypes, Only

(* It is enough to look at where the thread comes out and with which sink.  *)
LEMMA PutTypes ==
    ASSUME RowsInv, SinkInv, NEW s \in Sinks, NEW x \in SinkState, Put(s, x)
    PROVE  /\ sink' \in [Sinks -> SinkState] /\ sink'[s] = x
           /\ \A t \in Sinks \ {s} : sink'[t] = sink[t]
BY DEF Put, SinkInv, SinkTypes

LEMMA ContinueKeeps ==
    ASSUME RowsInv, SinkInv, kind' = kind, NEW s \in Sinks, NEW x \in SinkState, Put(s, x),
           NEW place, Continue(s, place),
           ThreadOk(kind, place, finishing[s], failed[s], summary[s], x)
    PROVE  SinkInv'
<1>1. Only(s) /\ SinkTypes'
    BY PutTypes, AtContinue DEF SinkInv, SinkTypes
<1>2. ThreadInv(s)'
    BY PutTypes, AtContinue DEF ThreadInv
<1>3. QED
    BY <1>1, <1>2, OneThread

LEMMA RowDoneKeeps ==
    ASSUME RowsInv, SinkInv, kind' = kind, NEW s \in Sinks, NEW x \in SinkState, Put(s, x),
           RowDone(s),
           \A place \in {"flush", "row"} :
               ThreadOk(kind, place, finishing[s], failed[s], summary[s] + 1, x)
    PROVE  SinkInv'
<1>1. Only(s) /\ SinkTypes'
    BY PutTypes, AtRowDone DEF SinkInv, SinkTypes
<1>2. ThreadInv(s)'
    BY PutTypes, AtRowDone DEF ThreadInv
<1>3. QED
    BY <1>1, <1>2, OneThread

LEMMA FailKeeps ==
    ASSUME RowsInv, SinkInv, kind' = kind, NEW s \in Sinks, NEW x \in SinkState, Put(s, x),
           Fail(s),
           StateOk(kind, x), x.moving = 0, finishing[s] /\ kind = "file" => ~x.open
    PROVE  SinkInv'
<1>1. Only(s) /\ SinkTypes'
    BY PutTypes, AtFail DEF SinkInv, SinkTypes
<1>2. ThreadInv(s)'
    BY PutTypes, AtFail DEF ThreadInv, ThreadOk, PlaceOk
<1>3. QED
    BY <1>1, <1>2, OneThread

(* A step that leaves the sink alone. *)
LEMMA SameSink ==
    ASSUME SinkInv, NEW s \in Sinks, UNCHANGED sink
    PROVE  sink[s] \in SinkState /\ Put(s, sink[s])
BY DEF SinkInv, SinkTypes, Put

(* A thread in the loop does not finish. *)
LEMMA LoopGoesOn ==
    ASSUME RowsInv, NEW s \in Sinks, pc[s] \in LoopPlaces
    PROVE  ~finishing[s]
BY DEF RowsInv, BatchInv

LEMMA LoopSinks ==
    ASSUME RowsInv, SinkInv, NEW s \in Sinks,
           Check(s) \/ Receive(s) \/ Disconnected(s) \/ OutOfTime(s) \/ Flush(s)
    PROVE  SinkInv'
<1>1. /\ pc[s] \in {"check", "recv", "row", "flush"} /\ kind' = kind /\ UNCHANGED sink
    BY DEF Check, Receive, Disconnected, OutOfTime, Flush, outside, control
<1>2. ~finishing[s] /\ sink[s] \in SinkState /\ Put(s, sink[s])
    BY <1>1, LoopGoesOn, SameSink DEF LoopPlaces
<1>3. ThreadOk(kind, pc[s], finishing[s], failed[s], summary[s], sink[s])
    BY DEF SinkInv, ThreadInv
<1>4. StateOk(kind, sink[s]) /\ sink[s].moving = 0
    BY <1>1, <1>3 DEF ThreadOk, PlaceOk
<1>5. \A place \in {"check", "recv", "finish", "row"} :
          ThreadOk(kind, place, finishing[s], failed[s], summary[s], sink[s])
    BY <1>1, <1>2, <1>3, <1>4 DEF ThreadOk, PlaceOk, Uncounted, RowPlace
<1>6. CASE Fail(s)
    BY <1>1, <1>2, <1>4, <1>6, FailKeeps
<1>7. CASE \E place \in {"check", "recv", "finish"} : Continue(s, place)
    BY <1>1, <1>2, <1>5, <1>7, ContinueKeeps
<1>8. ASSUME NEW place \in {"row", "finish"}, pc' = [pc EXCEPT ![s] = place],
             UNCHANGED <<summary, failed, finishing>>
      PROVE  SinkInv'
    <2>1. Only(s) /\ SinkTypes' /\ ThreadInv(s)'
        BY <1>1, <1>5, <1>8 DEF Only, SinkInv, SinkTypes, ThreadInv, RowsInv, RowTypes
    <2>2. QED
        BY <1>1, <2>1, OneThread
<1>9. QED
    BY <1>6, <1>7, <1>8 DEF Check, Receive, Disconnected, OutOfTime, Flush, LeaveLoop, Goto

LEMMA WriteRowSinks ==
    ASSUME RowsInv, SinkInv, NEW s \in Sinks, WriteRow(s)
    PROVE  SinkInv'
<1> DEFINE x == sink[s]
<1>1. /\ pc[s] = "row" /\ kind' = kind /\ ~finishing[s] /\ x \in SinkState
    BY LoopGoesOn DEF WriteRow, outside, control, LoopPlaces, SinkInv, SinkTypes
<1>2. ThreadOk(kind, "row", finishing[s], failed[s], summary[s], x)
    BY <1>1 DEF SinkInv, ThreadInv
<1>3. summary[s] \in Nat
    BY DEF RowsInv, RowTypes
<1> USE DEF ThreadOk, StateOk, PlaceOk, Uncounted, RowPlace, Holds, SinkState
<1>4. CASE StreamRow(s)
    <2> DEFINE y == [x EXCEPT !.moving = 1]
    <2>1. y \in SinkState
        BY <1>1
    <2>2. ThreadOk(kind, "append", finishing[s], failed[s], summary[s], y)
        BY <1>1, <1>2, <1>3, <1>4 DEF StreamRow
    <2>3. Put(s, y) /\ Continue(s, "append")
        BY <1>4 DEF StreamRow
    <2>4. QED
        BY ONLY RowsInv, SinkInv, <1>1, <2>1, <2>2, <2>3, ContinueKeeps
<1>5. CASE BufferRow(s)
    <2> DEFINE y == [x EXCEPT !.buffered = @ + 1]
    <2>1. y \in SinkState /\ Put(s, y)
        BY <1>1, <1>5 DEF BufferRow
    <2>2. ThreadOk(kind, "decode", finishing[s], failed[s], summary[s], y)
        BY <1>1, <1>2, <1>3, <1>5 DEF BufferRow
    <2>3. \A place \in {"flush", "row"} :
              ThreadOk(kind, place, finishing[s], failed[s], summary[s] + 1, y)
        BY <1>1, <1>2, <1>3, <1>5 DEF BufferRow
    <2>4. Continue(s, "decode") \/ RowDone(s)
        BY <1>5 DEF BufferRow
    <2>5. QED
        BY ONLY RowsInv, SinkInv, <1>1, <2>1, <2>2, <2>3, <2>4, ContinueKeeps, RowDoneKeeps
<1>6. CASE EnqueueRow(s)
    <2> DEFINE y == [x EXCEPT !.flying = @ + 1]
    <2>1. CASE Put(s, y) /\ (Continue(s, "settle") \/ RowDone(s))
        <3>1. y \in SinkState /\ kind = "kafka"
            BY <1>1, <1>6 DEF EnqueueRow
        <3>2. ThreadOk(kind, "settle", finishing[s], failed[s], summary[s], y)
            BY <1>1, <1>2, <1>3, <3>1
        <3>3. \A place \in {"flush", "row"} :
                  ThreadOk(kind, place, finishing[s], failed[s], summary[s] + 1, y)
            BY <1>1, <1>2, <1>3, <3>1
        <3>4. QED
            BY ONLY RowsInv, SinkInv, <1>1, <2>1, <3>1, <3>2, <3>3, ContinueKeeps, RowDoneKeeps
    <2>2. CASE Fail(s) /\ UNCHANGED sink
        <3>1. Put(s, x) /\ StateOk(kind, x) /\ x.moving = 0
            BY <1>2, <2>2, SameSink
        <3>2. QED
            BY ONLY RowsInv, SinkInv, <1>1, <2>2, <3>1, FailKeeps
    <2>3. QED
        BY <1>6, <2>1, <2>2 DEF EnqueueRow
<1>7. QED
    BY <1>4, <1>5, <1>6 DEF WriteRow

LEMMA DecodeSinks ==
    ASSUME RowsInv, SinkInv, NEW s \in Sinks, Decode(s)
    PROVE  SinkInv'
<1> DEFINE x == sink[s]
           y == [x EXCEPT !.moving = x.buffered, !.buffered = 0]
<1>1. /\ pc[s] = "decode" /\ kind' = kind /\ x \in SinkState /\ summary[s] \in Nat
    BY DEF Decode, outside, control, SinkInv, SinkTypes, RowsInv, RowTypes
<1>2. ThreadOk(kind, "decode", finishing[s], failed[s], summary[s], x)
    BY <1>1 DEF SinkInv, ThreadInv
<1> USE DEF ThreadOk, StateOk, PlaceOk, Uncounted, RowPlace, Holds, SinkState
<1>3. CASE Put(s, y) /\ Continue(s, "append")
    <2>1. y \in SinkState
        BY <1>1
    <2>2. ThreadOk(kind, "append", finishing[s], failed[s], summary[s], y)
        BY <1>1, <1>2
    <2>3. QED
        BY ONLY RowsInv, SinkInv, <1>1, <1>3, <2>1, <2>2, ContinueKeeps
<1>4. CASE Fail(s) /\ UNCHANGED sink
    <2>1. Put(s, x) /\ StateOk(kind, x) /\ x.moving = 0 /\ kind # "file"
        BY <1>2, <1>4, SameSink
    <2>2. QED
        BY ONLY RowsInv, SinkInv, <1>1, <1>4, <2>1, FailKeeps
<1>5. QED
    BY <1>3, <1>4 DEF Decode

LEMMA OpenSinks ==
    ASSUME RowsInv, SinkInv, NEW s \in Sinks, Open(s)
    PROVE  SinkInv'
<1> DEFINE x == sink[s]
           y == [x EXCEPT !.open = TRUE, !.files = @ + 1]
           z == [x EXCEPT !.moving = 0]
<1>1. /\ pc[s] \in {"append", "create"} /\ ~x.open /\ kind' = kind /\ x \in SinkState
      /\ summary[s] \in Nat
    BY DEF Open, outside, control, SinkInv, SinkTypes, RowsInv, RowTypes
<1>2. ThreadOk(kind, pc[s], finishing[s], failed[s], summary[s], x)
    BY DEF SinkInv, ThreadInv
<1> USE DEF ThreadOk, StateOk, PlaceOk, Uncounted, RowPlace, Holds, SinkState
<1>3. y \in SinkState /\ z \in SinkState
    <2>1. x.files + 1 \in Nat
        BY <1>1
    <2>2. y \in SinkState
        BY <1>1, <2>1, Zenon
    <2>3. z \in SinkState
        BY <1>1
    <2>4. QED
        BY <2>2, <2>3
<1>4. CASE Put(s, y) /\ Continue(s, IF pc[s] = "create" THEN "close" ELSE "append")
    <2>1. CASE pc[s] = "create"
        <3>1. ThreadOk(kind, "close", finishing[s], failed[s], summary[s], y)
            BY <1>1, <1>2, <2>1
        <3>2. QED
            BY ONLY RowsInv, SinkInv, <1>1, <1>3, <1>4, <2>1, <3>1, ContinueKeeps
    <2>2. CASE pc[s] = "append"
        <3>1. ThreadOk(kind, "append", finishing[s], failed[s], summary[s], y)
            BY <1>1, <1>2, <2>2
        <3>2. QED
            BY ONLY RowsInv, SinkInv, <1>1, <1>3, <1>4, <2>2, <3>1, ContinueKeeps
    <2>3. QED
        BY <1>1, <2>1, <2>2
<1>5. CASE Put(s, z) /\ Fail(s)
    <2>1. StateOk(kind, z) /\ z.moving = 0 /\ ~z.open
        BY <1>1, <1>2
    <2>2. QED
        BY ONLY RowsInv, SinkInv, <1>1, <1>3, <1>5, <2>1, FailKeeps
<1>6. QED
    BY <1>4, <1>5 DEF Open

LEMMA ClosedState ==
    ASSUME NEW x \in SinkState
    PROVE  /\ Closing(x) \in SinkState /\ ~Closing(x).open /\ Closing(x).rows = 0
           /\ Closing(x).safe = x.safe /\ Closing(x).moving = x.moving
           /\ Closing(x).buffered = x.buffered /\ Closing(x).flying = x.flying
           /\ Closing(x).files = x.files
<1>1. Closing(x) \in SinkState
    BY Zenon DEF Closing, SinkState
<1>2. ~Closing(x).open /\ Closing(x).rows = 0
    BY DEF Closing, SinkState
<1>3. /\ Closing(x).safe = x.safe /\ Closing(x).moving = x.moving
      /\ Closing(x).buffered = x.buffered /\ Closing(x).flying = x.flying
      /\ Closing(x).files = x.files
    BY DEF Closing, SinkState
<1>4. QED
    BY <1>1, <1>2, <1>3

(* The rows are in the file: it stays open, is closed, or fails to close.   *)
LEMMA AppendedStates ==
    ASSUME NEW x \in SinkState
    PROVE  LET a == [x EXCEPT !.rows = @ + x.moving, !.moving = 0]
               b == Closing([a EXCEPT !.safe = @ + a.rows])
               c == Closing(a)
           IN  /\ a \in SinkState /\ b \in SinkState /\ c \in SinkState
               /\ a.open = x.open /\ ~b.open /\ ~c.open
               /\ a.rows = x.rows + x.moving /\ b.rows = 0 /\ c.rows = 0
               /\ a.safe = x.safe /\ b.safe = x.safe + (x.rows + x.moving)
               /\ a.moving = 0 /\ b.moving = 0 /\ c.moving = 0
               /\ a.buffered = x.buffered /\ b.buffered = x.buffered /\ c.buffered = x.buffered
               /\ a.flying = x.flying /\ b.flying = x.flying /\ c.flying = x.flying
               /\ a.files = x.files /\ b.files = x.files /\ c.files = x.files
<1> DEFINE a == [x EXCEPT !.rows = @ + x.moving, !.moving = 0]
           d == [a EXCEPT !.safe = @ + a.rows]
<1> USE DEF SinkState
<1>1. /\ a \in SinkState /\ a.open = x.open /\ a.rows = x.rows + x.moving
      /\ a.safe = x.safe /\ a.moving = 0
      /\ a.buffered = x.buffered /\ a.flying = x.flying /\ a.files = x.files
    <2>1. x.rows + x.moving \in Nat
        OBVIOUS
    <2>2. a \in SinkState
        BY <2>1, Zenon
    <2>3. QED
        BY <2>2
<1> HIDE DEF a
<1>2. /\ d \in SinkState /\ d.safe = a.safe + a.rows /\ d.moving = a.moving
      /\ d.buffered = a.buffered /\ d.flying = a.flying /\ d.files = a.files
    BY <1>1
<1> HIDE DEF d
<1>3. QED
    BY <1>1, <1>2, ClosedState DEF a, d

LEMMA AppendSinks ==
    ASSUME RowsInv, SinkInv, NEW s \in Sinks, AppendRows(s) \/ AppendFails(s)
    PROVE  SinkInv'
<1> DEFINE x == sink[s]
           a == [x EXCEPT !.rows = @ + x.moving, !.moving = 0]
           b == Closing([a EXCEPT !.safe = @ + a.rows])
           c == Closing(a)
           z == [x EXCEPT !.moving = 0]
<1>1. /\ pc[s] = "append" /\ x.open /\ kind' = kind /\ x \in SinkState
      /\ summary[s] \in Nat
    BY DEF AppendRows, AppendFails, outside, control, SinkInv, SinkTypes, RowsInv, RowTypes
<1>2. ThreadOk(kind, "append", finishing[s], failed[s], summary[s], x)
    BY <1>1 DEF SinkInv, ThreadInv
<1>3. /\ a \in SinkState /\ b \in SinkState /\ c \in SinkState
      /\ a.open = x.open /\ ~b.open /\ ~c.open
      /\ a.rows = x.rows + x.moving /\ b.rows = 0 /\ c.rows = 0
      /\ a.safe = x.safe /\ b.safe = x.safe + (x.rows + x.moving)
      /\ a.moving = 0 /\ b.moving = 0 /\ c.moving = 0
      /\ a.buffered = x.buffered /\ b.buffered = x.buffered /\ c.buffered = x.buffered
      /\ a.flying = x.flying /\ b.flying = x.flying /\ c.flying = x.flying
      /\ a.files = x.files /\ b.files = x.files /\ c.files = x.files
    BY <1>1, AppendedStates
<1>4. z \in SinkState /\ z.moving = 0 /\ z.open = x.open /\ StateOk(kind, z)
    BY <1>1, <1>2 DEF SinkState, ThreadOk, StateOk
<1>5. /\ x.rows \in Nat /\ x.moving \in Nat /\ x.safe \in Nat /\ x.buffered \in Nat
      /\ x.flying \in Nat /\ x.files \in Nat
    BY <1>1 DEF SinkState
<1>6. ASSUME NEW y \in {a, b}, AfterAppend(s), Put(s, y)
      PROVE  SinkInv'
    <2> HIDE DEF a, b, c, x, z
    <2>f. y \in SinkState /\ y.moving = 0 /\ y.buffered = x.buffered /\ y.flying = x.flying
          /\ y.files = x.files /\ (y.open => x.open) /\ (~y.open => y.rows = 0)
          /\ y.rows \in Nat /\ y.safe \in Nat
          /\ y.safe + y.rows = x.safe + x.rows + x.moving
        <3>1. y \in SinkState => y.rows \in Nat /\ y.safe \in Nat
            BY DEF SinkState
        <3>2. CASE y = a
            <4>1. y \in SinkState /\ y.rows = x.rows + x.moving /\ y.moving = 0
                BY <1>3, <3>2
            <4>2. y.buffered = x.buffered /\ y.flying = x.flying /\ y.files = x.files
                BY <1>3, <3>2
            <4>3. y.safe = x.safe /\ y.open = x.open
                BY <1>3, <3>2
            <4>4. y.safe + y.rows = x.safe + x.rows + x.moving
                BY ONLY <1>5, <4>1, <4>3
            <4>5. y.open
                BY <1>1, <4>3
            <4>6. QED
                BY <1>1, <3>1, <4>1, <4>2, <4>4, <4>5
        <3>3. CASE y = b
            <4>1. y \in SinkState /\ ~y.open /\ y.rows = 0 /\ y.moving = 0
                BY <1>3, <3>3
            <4>2. y.buffered = x.buffered /\ y.flying = x.flying /\ y.files = x.files
                BY <1>3, <3>3
            <4>3. y.safe = x.safe + (x.rows + x.moving)
                BY <1>3, <3>3
            <4>4. y.safe + y.rows = x.safe + x.rows + x.moving
                BY ONLY <1>5, <4>1, <4>3
            <4>5. QED
                BY <3>1, <4>1, <4>2, <4>4
        <3>4. QED
            BY <3>2, <3>3
    <2>1. CASE finishing[s] /\ Continue(s, "close")
        <3>1. ThreadOk(kind, "close", finishing[s], failed[s], summary[s], y)
            BY <1>1, <1>2, <1>5, <2>f, <2>1
               DEF ThreadOk, StateOk, PlaceOk, Uncounted, RowPlace, Holds
        <3>2. QED
            BY ONLY RowsInv, SinkInv, <1>1, <1>3, <1>6, <2>1, <3>1, ContinueKeeps
    <2>2. CASE ~finishing[s] /\ RowDone(s)
        <3>1. \A place \in {"flush", "row"} :
                  ThreadOk(kind, place, finishing[s], failed[s], summary[s] + 1, y)
            BY <1>1, <1>2, <1>5, <2>f, <2>2
               DEF ThreadOk, StateOk, PlaceOk, Uncounted, RowPlace, Holds
        <3>2. QED
            BY ONLY RowsInv, SinkInv, <1>1, <1>3, <1>6, <2>2, <3>1, RowDoneKeeps
    <2>3. QED
        BY <1>6, <2>1, <2>2 DEF AfterAppend
<1>7. CASE Put(s, c) /\ Fail(s)
    <2> HIDE DEF a, b, c, x, z
    <2>1. StateOk(kind, c)
        BY <1>2, <1>3 DEF ThreadOk, StateOk
    <2>2. QED
        BY ONLY RowsInv, SinkInv, <1>1, <1>3, <1>7, <2>1, FailKeeps
<1>8. CASE Put(s, z) /\ Fail(s)
    <2>1. kind = "file" => ~finishing[s]
        BY <1>2 DEF ThreadOk, PlaceOk
    <2> HIDE DEF a, b, c, x, z
    <2>2. QED
        BY ONLY RowsInv, SinkInv, <1>1, <1>4, <1>8, <2>1, FailKeeps
<1>9. QED
    BY <1>6, <1>7, <1>8 DEF AppendRows, AppendFails, Appended

LEMMA SettleSinks ==
    ASSUME RowsInv, SinkInv, NEW s \in Sinks, Settle(s)
    PROVE  SinkInv'
<1> DEFINE x == sink[s]
           y == [x EXCEPT !.flying = @ - 1, !.safe = @ + 1]
           z == [x EXCEPT !.flying = @ - 1]
<1>1. /\ pc[s] \in {"settle", "drain", "row"} /\ x.flying > 0 /\ kind' = kind
      /\ x \in SinkState /\ summary[s] \in Nat
    BY DEF Settle, outside, control, SinkInv, SinkTypes, RowsInv, RowTypes
<1>2. ThreadOk(kind, pc[s], finishing[s], failed[s], summary[s], x)
    BY DEF SinkInv, ThreadInv
<1>3. x.flying - 1 \in Nat
    BY <1>1 DEF SinkState
<1>4. y \in SinkState /\ z \in SinkState
    <2>1. x.safe + 1 \in Nat
        BY <1>1 DEF SinkState
    <2>2. QED
        BY <1>1, <1>3, <2>1, Zenon DEF SinkState
<1> USE DEF ThreadOk, StateOk, PlaceOk, Uncounted, RowPlace, Holds, SinkState
<1>5. CASE Put(s, y) /\ pc[s] = "settle" /\ RowDone(s)
    <2>1. \A place \in {"flush", "row"} :
              ThreadOk(kind, place, finishing[s], failed[s], summary[s] + 1, y)
        BY <1>1, <1>2, <1>3, <1>5
    <2>2. QED
        BY ONLY RowsInv, SinkInv, <1>1, <1>4, <1>5, <2>1, RowDoneKeeps
<1>6. CASE Put(s, y) /\ pc[s] # "settle" /\ Continue(s, pc[s])
    <2>1. ThreadOk(kind, pc[s], finishing[s], failed[s], summary[s], y)
        BY <1>1, <1>2, <1>3, <1>6
    <2>2. QED
        BY ONLY RowsInv, SinkInv, <1>1, <1>4, <1>6, <2>1, ContinueKeeps
<1>7. CASE Put(s, z) /\ Fail(s)
    <2>1. StateOk(kind, z) /\ z.moving = 0 /\ kind = "kafka"
        <3>1. kind = "kafka"
            BY <1>1, <1>2
        <3>2. QED
            BY <1>1, <1>2, <1>3, <3>1
    <2>2. QED
        BY ONLY RowsInv, SinkInv, <1>1, <1>4, <1>7, <2>1, FailKeeps
<1>8. QED
    BY <1>5, <1>6, <1>7 DEF Settle

LEMMA FinishSinks ==
    ASSUME RowsInv, SinkInv, NEW s \in Sinks, Finish(s)
    PROVE  SinkInv'
<1> DEFINE x == sink[s]
           place == IF kind = "kafka" THEN "drain"
                    ELSE IF x.buffered > 0 THEN "decode" ELSE CreateOrClose(s)
<1>1. /\ pc[s] = "finish" /\ kind' = kind /\ x \in SinkState
      /\ pc' = [pc EXCEPT ![s] = place] /\ finishing' = [finishing EXCEPT ![s] = TRUE]
      /\ UNCHANGED <<sink, failed, summary>>
    BY DEF Finish, Goto, outside, control, SinkInv, SinkTypes
<1>2. ThreadOk(kind, "finish", finishing[s], failed[s], summary[s], x)
    BY <1>1 DEF SinkInv, ThreadInv
<1>3. kind \in {"file", "parquet", "kafka"} /\ x.buffered \in Nat /\ x.files \in Nat
    BY <1>1 DEF SinkInv, SinkTypes, SinkState
<1>4. ThreadOk(kind, place, TRUE, failed[s], summary[s], x)
    BY <1>2, <1>3 DEF ThreadOk, StateOk, PlaceOk, Uncounted, RowPlace, CreateOrClose
<1>5. Only(s) /\ SinkTypes' /\ ThreadInv(s)'
    BY <1>1, <1>4 DEF Only, SinkInv, SinkTypes, ThreadInv, RowsInv, RowTypes
<1>6. QED
    BY <1>1, <1>5, OneThread

LEMMA CloseSinks ==
    ASSUME RowsInv, SinkInv, NEW s \in Sinks, Close(s) \/ Drained(s)
    PROVE  SinkInv'
<1> DEFINE x == sink[s]
           y == Closing([x EXCEPT !.safe = @ + x.rows])
           z == Closing(x)
<1>1. /\ kind' = kind /\ x \in SinkState /\ summary[s] \in Nat
      /\ Close(s) => pc[s] = "close"
      /\ Drained(s) => pc[s] = "drain" /\ x.flying = 0
    BY DEF Close, Drained, outside, control, SinkInv, SinkTypes, RowsInv, RowTypes
<1>2. ThreadOk(kind, pc[s], finishing[s], failed[s], summary[s], x)
    BY DEF SinkInv, ThreadInv
<1>3. failed[s] \in BOOLEAN
    BY DEF SinkInv, SinkTypes
<1>4. y \in SinkState /\ z \in SinkState
    <2>1. x.safe + x.rows \in Nat
        BY <1>1 DEF SinkState
    <2>2. [x EXCEPT !.safe = @ + x.rows] \in SinkState
        BY <1>1, <2>1, Zenon DEF SinkState
    <2>3. QED
        BY <1>1, <2>2, ClosedState
<1> DEFINE place == IF failed[s] THEN "err" ELSE "ok"
<1> USE DEF ThreadOk, StateOk, PlaceOk, Uncounted, RowPlace, Holds, SinkState, Closing
<1>5. CASE UNCHANGED sink /\ Return(s) /\ (Close(s) => ~x.open)
    <2>1. ThreadOk(kind, place, finishing[s], failed[s], summary[s], x)
        BY <1>1, <1>2, <1>3, <1>5
    <2>2. Put(s, x) /\ Continue(s, place)
        BY <1>5, SameSink DEF Return
    <2>3. QED
        BY ONLY RowsInv, SinkInv, <1>1, <2>1, <2>2, ContinueKeeps
<1>6. CASE Close(s) /\ Put(s, y) /\ Return(s)
    <2>1. ThreadOk(kind, place, finishing[s], failed[s], summary[s], y)
        BY <1>1, <1>2, <1>3, <1>6
    <2>2. Continue(s, place)
        BY <1>6 DEF Return
    <2>3. QED
        BY ONLY RowsInv, SinkInv, <1>1, <1>4, <1>6, <2>1, <2>2, ContinueKeeps
<1>7. CASE Close(s) /\ Put(s, z) /\ Fail(s)
    <2>1. StateOk(kind, z) /\ z.moving = 0 /\ ~z.open
        BY <1>1, <1>2, <1>7
    <2>2. QED
        BY ONLY RowsInv, SinkInv, <1>1, <1>4, <1>7, <2>1, FailKeeps
<1>8. CASE Drained(s) /\ Fail(s)
    <2>1. UNCHANGED sink
        BY <1>8 DEF Drained
    <2>2. Put(s, x) /\ StateOk(kind, x) /\ x.moving = 0 /\ ~x.open
        BY <1>1, <1>2, <1>8, <2>1, SameSink
    <2>3. QED
        BY ONLY RowsInv, SinkInv, <1>1, <1>8, <2>2, FailKeeps
<1>9. QED
    BY <1>5, <1>6, <1>7, <1>8 DEF Close, Drained

LEMMA ThreadSinks ==
    ASSUME RowsInv, SinkInv, NEW s \in Sinks, SinkThread(s)
    PROVE  SinkInv'
BY LoopSinks, WriteRowSinks, DecodeSinks, OpenSinks, AppendSinks, SettleSinks, FinishSinks,
   CloseSinks DEF SinkThread

LEMMA SpawnSinks ==
    ASSUME RowsInv, SpawnInv, SinkInv, Spawn
    PROVE  SinkInv'
<1>1. PICK s \in Sinks : s = next
    BY DEF RowsInv, RowTypes
<1>2. /\ pc' = [pc EXCEPT ![s] = "check"] /\ sink' = sink /\ failed' = failed
      /\ finishing' = finishing /\ summary' = summary /\ kind' = kind
    BY <1>1 DEF Spawn, rest
<1>3. pc[s] = "new"
    <2>1. s \in Nat
        BY DatagenStreamAssumption DEF Sinks
    <2>2. QED
        BY <1>1, <2>1 DEF Spawn, SpawnInv
<1>4. ThreadOk(kind, "new", finishing[s], failed[s], summary[s], sink[s])
    BY <1>1, <1>3 DEF SinkInv, ThreadInv
<1>5. ThreadOk(kind, "check", finishing[s], failed[s], summary[s], sink[s])
    BY <1>4 DEF ThreadOk, PlaceOk, Uncounted, RowPlace
<1>6. Only(s) /\ SinkTypes' /\ ThreadInv(s)'
    BY <1>1, <1>2, <1>5 DEF Only, SinkInv, SinkTypes, ThreadInv, RowsInv, RowTypes
<1>7. QED
    BY <1>1, <1>2, <1>6, OneThread

LEMMA SinkInvariance == Spec => []SinkInv
<1>1. Init => SinkInv
    <2> SUFFICES ASSUME Init PROVE SinkInv
        OBVIOUS
    <2> DEFINE empty == [open |-> FALSE, rows |-> 0, moving |-> 0, buffered |-> 0,
                         flying |-> 0, files |-> 0, safe |-> 0]
    <2>e. empty \in SinkState
        BY Zenon, 0 \in Nat DEF SinkState
    <2>f. /\ ~empty.open /\ empty.rows = 0 /\ empty.moving = 0 /\ empty.buffered = 0
          /\ empty.flying = 0 /\ empty.files = 0 /\ empty.safe = 0
        OBVIOUS
    <2>s. sink = [s \in Sinks |-> empty]
        BY DEF Init
    <2> HIDE DEF empty
    <2>1. SinkTypes
        BY DatagenStreamAssumption, <2>e, <2>s DEF Init, SinkTypes
    <2>2. ASSUME NEW s \in Sinks PROVE ThreadInv(s)
        <3>1. /\ sink[s] = empty /\ pc[s] = "new" /\ finishing[s] = FALSE
              /\ failed[s] = FALSE /\ summary[s] = 0
            BY <2>s DEF Init
        <3>2. ThreadOk(kind, "new", FALSE, FALSE, 0, empty)
            BY <2>f DEF ThreadOk, StateOk, PlaceOk, Uncounted, RowPlace, Holds
        <3>3. QED
            BY <3>1, <3>2 DEF ThreadInv
    <2>3. QED
        BY <2>1, <2>2 DEF SinkInv
<1>2. RowsInv /\ SpawnInv /\ SinkInv /\ [Next]_vars => SinkInv'
    <2> SUFFICES ASSUME RowsInv, SpawnInv, SinkInv, [Next]_vars PROVE SinkInv'
        OBVIOUS
    <2>1. CASE UNCHANGED <<threads, sink, kind>>
        BY <2>1 DEF threads, SinkInv, SinkTypes, ThreadInv
    <2>2. CASE \E s \in Sinks : SinkThread(s)
        BY <2>2, ThreadSinks
    <2>3. CASE Spawn
        BY <2>3, SpawnSinks
    <2>4. CASE BuildFails \/ Join
        BY <2>1, <2>4 DEF BuildFails, Join, rest, threads
    <2>5. CASE \E p \in Producers : Producer(p)
        BY <2>1, <2>5
           DEF Producer, Reserve, GenerateFails, Send, Report, SendFails, control
    <2>6. CASE TimePasses \/ UNCHANGED vars
        BY <2>1, <2>6 DEF TimePasses, vars, control
    <2>7. QED
        BY <2>2, <2>3, <2>4, <2>5, <2>6 DEF Next, Main, Stutter
<1>3. QED
    BY <1>1, <1>2, RowsInvariance, PTL DEF Spec

(* A thread that has met no error counts exactly the rows in its closed     *)
(* files, its open file, its buffer and in flight: for every batch size,    *)
(* row group and number of records in flight.                              *)
THEOREM SinksAreAccounted == Spec => []SinkAccounted
<1>1. SinkInv /\ RowsInv => SinkAccounted
    <2> SUFFICES ASSUME SinkInv, RowsInv, NEW s \in Sinks, ~failed[s],
                        pc[s] \in {"check", "recv", "row", "flush", "finish", "ok"}
                 PROVE  summary[s] = sink[s].safe + sink[s].rows + sink[s].buffered
                                       + sink[s].flying
        BY DEF SinkAccounted
    <2>1. ThreadOk(kind, pc[s], finishing[s], failed[s], summary[s], sink[s])
        BY DEF SinkInv, ThreadInv
    <2>2. sink[s] \in SinkState /\ summary[s] \in Nat
        BY DEF SinkInv, SinkTypes, RowsInv, RowTypes
    <2>3. sink[s].moving = 0 /\ summary[s] + 0 = Holds(sink[s])
        BY <2>1 DEF ThreadOk, PlaceOk, Uncounted, RowPlace
    <2>4. QED
        BY <2>2, <2>3 DEF Holds, SinkState
<1>2. QED
    BY <1>1, SinkInvariance, RowsInvariance, PTL

(* No thread leaves a text file or object open, however it ended, and one   *)
(* that returned Ok left nothing unfinished and at least one file.          *)
THEOREM SinksAreClosed == Spec => []SinksClosed
<1>1. SinkInv => SinksClosed
    BY DEF SinkInv, ThreadInv, ThreadOk, PlaceOk, SinksClosed, Ended
<1>2. QED
    BY <1>1, SinkInvariance, PTL

-----------------------------------------------------------------------------
(* What Ok means.                                                          *)

(* The thread has left its loop. *)
Past(s) == pc[s] \notin LoopPlaces /\ ~AtRow(s)

(* Without an error, a stop or the time limit, a thread leaves its loop only *)
(* because nothing will come any more.                                     *)
PastInv ==
    \A s \in Sinks : Past(s) /\ ~failed[s] /\ ~expired /\ ~stop =>
        AllProducersDone /\ queue = <<>>

(* Something keeps run from returning Ok, or will once it is received, or   *)
(* time ran out.                                                           *)
Trouble ==
    \/ expired \/ stop \/ mainPc = "err"
    \/ \E p \in Producers : producerPc[p] = "report"
    \/ \E i \in 1..Len(queue) : queue[i] = Failure
    \/ \E s \in Sinks : failed[s]

(* Rows are missing only where there is trouble. *)
TroubleInv ==
    Trouble \/ /\ dropped = 0
               /\ \A p \in Producers : producerPc[p] = "done" => remaining = 0

(* run has seen Ok from every thread it joined, or has stopped the others. *)
JoinInv ==
    /\ mainPc = "join" => stop \/ \A s \in Sinks : s < next => pc[s] = "ok"
    /\ mainPc = "ok" => ~stop /\ \A s \in Sinks : pc[s] = "ok"

DeliveryInv == PastInv /\ TroubleInv /\ JoinInv

(* While run can still return Ok, no producer finds the queue closed. *)
LEMMA ClosedMeansTrouble ==
    ASSUME SinkInv, DeliveryInv, NEW p \in Producers, producerPc[p] # "done", Closed
    PROVE  mainPc = "err" \/ expired
<1> SUFFICES ASSUME mainPc = "ok", ~expired PROVE FALSE
    BY DEF Closed, Returned
<1>1. 1 \in Sinks
    BY DatagenStreamAssumption DEF Sinks
<1>2. pc[1] = "ok" /\ ~stop
    BY <1>1 DEF DeliveryInv, JoinInv
<1>3. ~failed[1]
    BY <1>1, <1>2 DEF SinkInv, ThreadInv, ThreadOk
<1>4. Past(1)
    BY <1>2 DEF Past, LoopPlaces, AtRow, RowPlace
<1>5. AllProducersDone
    BY <1>1, <1>2, <1>3, <1>4 DEF DeliveryInv, PastInv
<1>6. QED
    BY <1>5 DEF AllProducersDone

LEMMA ProducerDelivers ==
    ASSUME RowsInv, SinkInv, DeliveryInv, NEW p \in Producers, Producer(p)
    PROVE  DeliveryInv'
<1>1. UNCHANGED <<threads, control>> /\ producerPc[p] # "done"
    BY DEF Producer, Reserve, GenerateFails, Send, Report, SendFails
<1>2. /\ pc' = pc /\ failed' = failed /\ finishing' = finishing /\ expired' = expired
      /\ stop' = stop /\ mainPc' = mainPc /\ next' = next
    BY <1>1 DEF threads, control
<1>3. PastInv'
    <2> SUFFICES ASSUME NEW s \in Sinks, Past(s)', ~failed'[s], ~expired', ~stop'
                 PROVE  FALSE
        BY DEF PastInv
    <2>1. Past(s) /\ ~failed[s] /\ ~expired /\ ~stop
        BY <1>2 DEF Past, AtRow
    <2>2. AllProducersDone
        BY <2>1 DEF DeliveryInv, PastInv
    <2>3. QED
        BY <1>1, <2>2 DEF AllProducersDone
<1>4. JoinInv'
    BY <1>2 DEF DeliveryInv, JoinInv
<1>5. TroubleInv'
    <2>0. /\ producerPc \in [Producers -> {"reserve", "build", "report", "done"}]
          /\ hand \in [Producers -> Nat] /\ remaining \in Nat /\ queue \in Seq(Nat)
        BY DEF RowsInv, RowTypes
    <2>1. CASE Reserve(p)
        <3> DEFINE take == IF remaining >= BatchRows THEN BatchRows ELSE remaining
        <3>1. /\ producerPc' = [producerPc EXCEPT ![p] = IF take = 0 THEN "done" ELSE "build"]
              /\ producerPc[p] = "reserve" /\ remaining' = remaining - take
              /\ queue' = queue /\ dropped' = dropped
            BY <2>1 DEF Reserve, ProducerGoto
        <3>2. (take = 0 => remaining = 0) /\ (remaining = 0 => take = 0)
            BY <2>0, DatagenStreamAssumption
        <3> HIDE DEF take
        <3>3. CASE Trouble
            <4>1. Trouble'
                BY <1>2, <2>0, <3>1, <3>3 DEF Trouble
            <4>2. QED
                BY <4>1 DEF TroubleInv
        <3>4. CASE ~Trouble
            <4>1. dropped = 0 /\ \A q \in Producers : producerPc[q] = "done" => remaining = 0
                BY <3>4 DEF DeliveryInv, TroubleInv
            <4>2. ASSUME NEW q \in Producers, producerPc'[q] = "done" PROVE remaining' = 0
                <5>1. take = 0 /\ remaining = 0
                    BY <2>0, <3>1, <3>2, <4>1, <4>2
                <5>2. QED
                    BY <3>1, <5>1
            <4>3. QED
                BY <3>1, <4>1, <4>2 DEF TroubleInv
        <3>5. QED
            BY <3>3, <3>4
    <2>2. CASE GenerateFails(p)
        <3>1. producerPc'[p] = "report"
            BY <2>0, <2>2 DEF GenerateFails, ProducerGoto
        <3>2. QED
            BY <3>1 DEF TroubleInv, Trouble
    <2>3. CASE Report(p)
        <3>1. queue' = Append(queue, Failure)
            BY <2>3 DEF Report
        <3>2. Len(queue') \in 1..Len(queue') /\ queue'[Len(queue')] = Failure
            BY <2>0, <3>1
        <3>3. QED
            BY <3>2 DEF TroubleInv, Trouble
    <2>4. CASE SendFails(p)
        <3>1. mainPc = "err" \/ expired
            BY <1>1, <2>4, ClosedMeansTrouble DEF SendFails
        <3>2. QED
            BY <1>2, <3>1 DEF TroubleInv, Trouble
    <2>5. CASE Send(p)
        <3>1. /\ producerPc' = [producerPc EXCEPT ![p] = "reserve"]
              /\ producerPc[p] = "build" /\ queue' = Append(queue, hand[p])
              /\ remaining' = remaining /\ dropped' = dropped
            BY <2>5 DEF Send, ProducerGoto
        <3>2. CASE Trouble
            <4>1. \A i \in 1..Len(queue) : i \in 1..Len(queue') /\ queue'[i] = queue[i]
                BY <2>0, <3>1
            <4>2. Trouble'
                BY <1>2, <2>0, <3>1, <3>2, <4>1 DEF Trouble
            <4>3. QED
                BY <4>2 DEF TroubleInv
        <3>3. CASE ~Trouble
            BY <2>0, <3>1, <3>3 DEF DeliveryInv, TroubleInv
        <3>4. QED
            BY <3>2, <3>3
    <2>6. QED
        BY <2>1, <2>2, <2>3, <2>4, <2>5 DEF Producer
<1>6. QED
    BY <1>3, <1>4, <1>5 DEF DeliveryInv

(* What a step of a sink thread does to the facts above. *)
Effects(s) ==
    /\ failed[s] => failed'[s]
    /\ dropped' = dropped \/ failed'[s] \/ expired
    /\ Past(s)' => \/ failed'[s] \/ expired \/ stop \/ Past(s)
                   \/ AllProducersDone /\ queue = <<>>

LEMMA FailEffects ==
    ASSUME RowsInv, SinkInv, NEW s \in Sinks, Fail(s)
    PROVE  Effects(s)
BY AtFail DEF Effects

LEMMA RowDoneEffects ==
    ASSUME RowsInv, SinkInv, NEW s \in Sinks, RowDone(s)
    PROVE  Effects(s)
<1>1. ~Past(s)'
    BY AtRowDone DEF Past, LoopPlaces
<1>2. failed' = failed /\ dropped' = dropped
    BY DEF RowDone
<1>3. QED
    BY <1>1, <1>2 DEF Effects

LEMMA ContinueEffects ==
    ASSUME RowsInv, SinkInv, NEW s \in Sinks, NEW place, Continue(s, place),
           \/ place \in LoopPlaces \/ RowPlace(place, finishing[s])
           \/ Past(s) \/ expired \/ stop
           \/ AllProducersDone /\ queue = <<>>
    PROVE  Effects(s)
<1>1. pc'[s] = place /\ finishing'[s] = finishing[s]
    BY AtContinue
<1>2. failed' = failed /\ dropped' = dropped
    BY DEF Continue
<1>3. QED
    BY <1>1, <1>2 DEF Effects, Past, AtRow

LEMMA ThreadEffects ==
    ASSUME RowsInv, SinkInv, NEW s \in Sinks, SinkThread(s)
    PROVE  Effects(s)
<1> USE FailEffects, RowDoneEffects, ContinueEffects
<1>1. CASE Check(s) \/ Disconnected(s) \/ Flush(s)
    BY <1>1 DEF Check, Disconnected, Flush, LoopPlaces
<1>2. CASE OutOfTime(s)
    BY <1>2 DEF OutOfTime, Effects
<1>3. CASE Receive(s)
    <2>1. CASE Fail(s)
        BY <2>1
    <2>2. CASE pc' = [pc EXCEPT ![s] = "row"] /\ UNCHANGED <<failed, dropped>>
        BY <2>2 DEF Effects, Past, LoopPlaces, RowsInv, RowTypes
    <2>3. QED
        BY <1>3, <2>1, <2>2 DEF Receive, Goto
<1>4. CASE WriteRow(s)
    <2>1. ~finishing[s]
        BY <1>4, LoopGoesOn DEF WriteRow, LoopPlaces
    <2>2. QED
        BY <1>4, <2>1
           DEF WriteRow, StreamRow, BufferRow, EnqueueRow, LoopPlaces, RowPlace
<1>5. CASE Decode(s)
    BY <1>5 DEF Decode, Past, LoopPlaces, AtRow, RowPlace
<1>6. CASE Open(s)
    <2>1. CASE pc[s] = "create"
        BY <1>6, <2>1 DEF Open, Past, LoopPlaces, AtRow, RowPlace
    <2>2. CASE pc[s] = "append"
        BY <1>6, <2>2 DEF Open, Past, LoopPlaces, AtRow, RowPlace
    <2>3. QED
        BY <1>6, <2>1, <2>2 DEF Open
<1>7. CASE AppendRows(s) \/ AppendFails(s)
    BY <1>7 DEF AppendRows, AppendFails, AfterAppend, Past, LoopPlaces, AtRow, RowPlace
<1>8. CASE Settle(s)
    BY <1>8 DEF Settle, Past, LoopPlaces, AtRow, RowPlace
<1>9. CASE Finish(s)
    BY <1>9 DEF Finish, Effects, Past, LoopPlaces, AtRow, RowPlace
<1>10. CASE Close(s) \/ Drained(s)
    BY <1>10 DEF Close, Drained, Return, Past, LoopPlaces, AtRow, RowPlace
<1>11. QED
    BY <1>1, <1>2, <1>3, <1>4, <1>5, <1>6, <1>7, <1>8, <1>9, <1>10 DEF SinkThread

(* What it leaves alone. *)
LEMMA ThreadFrame ==
    ASSUME RowsInv, SinkInv, NEW s \in Sinks, SinkThread(s)
    PROVE  /\ UNCHANGED <<remaining, producers, control>>
           /\ pc[s] \notin {"ok", "err"}
           /\ \A t \in Sinks \ {s} : pc'[t] = pc[t] /\ finishing'[t] = finishing[t]
                                       /\ failed'[t] = failed[t]
           /\ \/ queue' = queue
              \/ queue # <<>> /\ queue' = Tail(queue) /\ (Head(queue) = Failure => failed'[s])
<1> USE DEF SinkThread, Check, Receive, Disconnected, OutOfTime, Flush, WriteRow, Decode,
            Open, AppendRows, AppendFails, Settle, Finish, Close, Drained
<1>1. UNCHANGED <<remaining, producers, control>>
    BY DEF outside
<1>2. pc[s] \notin {"ok", "err"}
    OBVIOUS
<1>3. /\ \E place : pc' = [pc EXCEPT ![s] = place]
      /\ finishing' = finishing \/ finishing' = [finishing EXCEPT ![s] = TRUE]
      /\ failed' = failed \/ failed' = [failed EXCEPT ![s] = TRUE]
    BY DEF Continue, Fail, LeaveLoop, RowDone, Return, AfterAppend, StreamRow, BufferRow,
           EnqueueRow, Goto
<1>4. \A t \in Sinks \ {s} : pc'[t] = pc[t] /\ finishing'[t] = finishing[t]
                              /\ failed'[t] = failed[t]
    BY <1>3 DEF RowsInv, RowTypes, SinkInv, SinkTypes
<1>5. \/ queue' = queue
      \/ queue # <<>> /\ queue' = Tail(queue) /\ (Head(queue) = Failure => failed'[s])
    BY AtFail DEF outside
<1>6. QED
    BY <1>1, <1>2, <1>4, <1>5

LEMMA ThreadDelivers ==
    ASSUME RowsInv, SinkInv, DeliveryInv, NEW s \in Sinks, SinkThread(s)
    PROVE  DeliveryInv'
<1>1. /\ remaining' = remaining /\ producerPc' = producerPc /\ expired' = expired
      /\ stop' = stop /\ mainPc' = mainPc /\ next' = next
    BY ThreadFrame DEF producers, control
<1>2. Effects(s)
    BY ThreadEffects
<1>3. \A t \in Sinks \ {s} : pc'[t] = pc[t] /\ finishing'[t] = finishing[t]
                              /\ failed'[t] = failed[t]
    BY ThreadFrame
<1>4. PastInv'
    <2> SUFFICES ASSUME NEW t \in Sinks, Past(t)', ~failed'[t], ~expired, ~stop
                 PROVE  AllProducersDone /\ queue' = <<>>
        BY <1>1 DEF PastInv, AllProducersDone
    <2>1. AllProducersDone /\ queue = <<>>
        <3>1. CASE t = s
            <4>1. Past(s) \/ (AllProducersDone /\ queue = <<>>)
                BY <1>2, <3>1 DEF Effects
            <4>2. ~failed[s]
                BY <1>2, <3>1 DEF Effects
            <4>3. QED
                BY <4>1, <4>2 DEF DeliveryInv, PastInv
        <3>2. CASE t # s
            <4>1. Past(t) /\ ~failed[t]
                BY <1>3, <3>2 DEF Past, AtRow
            <4>2. QED
                BY <4>1 DEF DeliveryInv, PastInv
        <3>3. QED
            BY <3>1, <3>2
    <2>2. queue' = queue
        BY <2>1, ThreadFrame
    <2>3. QED
        BY <2>1, <2>2
<1>5. JoinInv'
    <2>1. ASSUME NEW t \in Sinks, pc[t] = "ok" PROVE pc'[t] = "ok"
        BY <1>3, <2>1, ThreadFrame
    <2>2. QED
        BY <1>1, <2>1 DEF DeliveryInv, JoinInv
<1>6. TroubleInv'
    <2>1. CASE \E t \in Sinks : failed[t]
        <3>1. \E t \in Sinks : failed'[t]
            BY <1>2, <1>3, <2>1 DEF Effects
        <3>2. QED
            BY <3>1 DEF TroubleInv, Trouble
    <2>2. CASE \E i \in 1..Len(queue) : queue[i] = Failure
        <3>1. PICK i \in 1..Len(queue) : queue[i] = Failure
            BY <2>2
        <3>2. queue \in Seq(Nat)
            BY DEF RowsInv, RowTypes
        <3>3. \/ queue' = queue
              \/ queue # <<>> /\ queue' = Tail(queue) /\ (Head(queue) = Failure => failed'[s])
            BY ThreadFrame
        <3>4. CASE queue' = queue
            BY <3>1, <3>4 DEF TroubleInv, Trouble
        <3>5. CASE queue' = Tail(queue) /\ i # 1
            <4>1. i - 1 \in 1..Len(queue') /\ queue'[i - 1] = Failure
                BY <3>1, <3>2, <3>5
            <4>2. QED
                BY <4>1 DEF TroubleInv, Trouble
        <3>6. CASE failed'[s]
            BY <3>6 DEF TroubleInv, Trouble
        <3>7. i = 1 => Head(queue) = Failure
            BY <3>1, <3>2
        <3>8. QED
            BY <3>3, <3>4, <3>5, <3>6, <3>7
    <2>3. CASE \/ expired \/ stop \/ mainPc = "err"
               \/ \E p \in Producers : producerPc[p] = "report"
        BY <1>1, <2>3 DEF TroubleInv, Trouble
    <2>4. CASE ~Trouble
        <3>1. dropped' = dropped \/ failed'[s]
            BY <1>2, <2>4 DEF Effects, Trouble
        <3>2. QED
            BY <1>1, <2>4, <3>1 DEF DeliveryInv, TroubleInv, Trouble
    <2>5. QED
        BY <2>1, <2>2, <2>3, <2>4 DEF Trouble
<1>7. QED
    BY <1>4, <1>5, <1>6 DEF DeliveryInv

LEMMA MainDelivers ==
    ASSUME RowsInv, SinkInv, DeliveryInv, Main
    PROVE  DeliveryInv'
<1>0. pc \in [Sinks -> ThreadPcs] /\ next \in Sinks /\ Sinks \subseteq Nat
    BY DatagenStreamAssumption DEF RowsInv, RowTypes, Sinks
<1>1. /\ remaining' = remaining /\ producerPc' = producerPc /\ expired' = expired
      /\ queue' = queue /\ failed' = failed /\ finishing' = finishing /\ dropped' = dropped
    BY DEF Main, Spawn, BuildFails, Join, rest, producers
<1>2. CASE Spawn
    <2>1. /\ pc' = [pc EXCEPT ![next] = "check"] /\ stop' = stop /\ mainPc = "spawn"
          /\ mainPc' \in {"spawn", "join"} /\ (mainPc' = "join" => next' = 1)
        BY <1>2 DEF Spawn
    <2>2. PastInv'
        <3> SUFFICES ASSUME NEW t \in Sinks, Past(t)', ~failed[t], ~expired, ~stop
                     PROVE  AllProducersDone /\ queue = <<>>
            BY <1>1, <2>1 DEF PastInv, AllProducersDone
        <3>1. t # next
            BY <1>0, <2>1 DEF Past, LoopPlaces
        <3>2. Past(t)
            BY <1>0, <1>1, <2>1, <3>1 DEF Past, AtRow
        <3>3. QED
            BY <3>2 DEF DeliveryInv, PastInv
    <2>3. JoinInv'
        BY <2>1 DEF JoinInv, Sinks
    <2>4. TroubleInv'
        BY <1>1, <2>1 DEF DeliveryInv, TroubleInv, Trouble
    <2>5. QED
        BY <2>2, <2>3, <2>4 DEF DeliveryInv
<1>3. CASE BuildFails
    <2>1. pc' = pc /\ stop' = stop /\ mainPc' = "err"
        BY <1>3 DEF BuildFails
    <2>2. PastInv' /\ JoinInv' /\ TroubleInv'
        BY <1>1, <2>1
           DEF DeliveryInv, PastInv, Past, AtRow, AllProducersDone, JoinInv, TroubleInv, Trouble
    <2>3. QED
        BY <2>2 DEF DeliveryInv
<1>4. CASE Join
    <2>1. /\ pc' = pc /\ mainPc = "join" /\ pc[next] \in {"ok", "err"}
          /\ stop' <=> (stop \/ pc[next] = "err")
        BY <1>4 DEF Join, Ended
    <2>2. PastInv'
        BY <1>1, <2>1 DEF DeliveryInv, PastInv, Past, AtRow, AllProducersDone
    <2>3. TroubleInv'
        BY <1>1, <2>1 DEF DeliveryInv, TroubleInv, Trouble
    <2>4. stop' \/ \A s \in Sinks : s <= next => pc[s] = "ok"
        <3>1. ASSUME ~stop', NEW s \in Sinks, s <= next PROVE pc[s] = "ok"
            <4>1. s < next \/ s = next
                BY <1>0, <3>1
            <4>2. QED
                BY <2>1, <3>1, <4>1 DEF DeliveryInv, JoinInv
        <3>2. QED
            BY <3>1
    <2>5. JoinInv'
        <3>1. CASE next = SinkThreads
            <4>1. mainPc' = (IF stop' THEN "err" ELSE "ok")
                BY <1>4, <3>1 DEF Join
            <4>2. \A s \in Sinks : s <= next
                BY <3>1, DatagenStreamAssumption DEF Sinks
            <4>3. QED
                BY <2>1, <2>4, <4>1, <4>2 DEF JoinInv
        <3>2. CASE next # SinkThreads
            <4>1. mainPc' = "join" /\ next' = next + 1
                BY <1>4, <2>1, <3>2 DEF Join
            <4>2. \A s \in Sinks : s < next + 1 => s <= next
                BY <1>0
            <4>3. QED
                BY <2>1, <2>4, <4>1, <4>2 DEF JoinInv
        <3>3. QED
            BY <3>1, <3>2
    <2>6. QED
        BY <2>2, <2>3, <2>5 DEF DeliveryInv
<1>5. QED
    BY <1>2, <1>3, <1>4 DEF Main

LEMMA DeliveryInvariance == Spec => []DeliveryInv
<1>1. Init => DeliveryInv
    <2> SUFFICES ASSUME Init PROVE DeliveryInv
        OBVIOUS
    <2>1. PastInv
        BY DEF Init, PastInv, Past, LoopPlaces
    <2>2. TroubleInv /\ JoinInv
        BY DEF Init, TroubleInv, JoinInv
    <2>3. QED
        BY <2>1, <2>2 DEF DeliveryInv
<1>2. RowsInv /\ SinkInv /\ DeliveryInv /\ [Next]_vars => DeliveryInv'
    <2> SUFFICES ASSUME RowsInv, SinkInv, DeliveryInv, [Next]_vars PROVE DeliveryInv'
        OBVIOUS
    <2>1. CASE TimePasses
        <3>1. /\ expired' /\ pc' = pc /\ stop' = stop /\ mainPc' = mainPc /\ next' = next
            BY <2>1 DEF TimePasses, threads
        <3>2. QED
            BY <3>1 DEF DeliveryInv, PastInv, TroubleInv, Trouble, JoinInv
    <2>2. CASE UNCHANGED vars
        BY <2>2 DEF vars, producers, threads, control, DeliveryInv, PastInv, Past, AtRow,
                    AllProducersDone, TroubleInv, Trouble, JoinInv
    <2>3. QED
        BY <2>1, <2>2, ProducerDelivers, ThreadDelivers, MainDelivers DEF Next, Stutter
<1>3. QED
    BY <1>1, <1>2, RowsInvariance, SinkInvariance, PTL DEF Spec

(* When run returns Ok, every thread did, every row it reports is in a      *)
(* closed file or acknowledged, and unless time ran out all rows of the     *)
(* limit are reported: no error of a producer or of a sink is lost, however *)
(* many of either there are and in whatever order they are joined.         *)
THEOREM OkIsDelivered == Spec => []OkMeansDelivered
<1>1. RowsInv /\ SinkInv /\ DeliveryInv => OkMeansDelivered
    <2> SUFFICES ASSUME RowsInv, SinkInv, DeliveryInv, mainPc = "ok"
                 PROVE  /\ \A s \in Sinks : pc[s] = "ok" /\ sink[s].safe = summary[s]
                        /\ ~expired => Total(summary) = Rows
        BY DEF OkMeansDelivered
    <2>1. ~stop /\ \A s \in Sinks : pc[s] = "ok"
        BY DEF DeliveryInv, JoinInv
    <2>2. ASSUME NEW s \in Sinks
          PROVE  ~failed[s] /\ sink[s].safe = summary[s] /\ batch[s] = 0 /\ Past(s)
        <3>1. ThreadOk(kind, "ok", finishing[s], failed[s], summary[s], sink[s])
            BY <2>1 DEF SinkInv, ThreadInv
        <3>2. ~failed[s] /\ summary[s] + 0 = Holds(sink[s])
            BY <3>1 DEF ThreadOk, Uncounted, RowPlace
        <3>3. /\ sink[s].rows = 0 /\ sink[s].moving = 0 /\ sink[s].buffered = 0
              /\ sink[s].flying = 0
            BY <3>1 DEF ThreadOk, StateOk, PlaceOk
        <3>4. summary[s] \in Nat /\ sink[s].safe \in Nat
            BY DEF RowsInv, RowTypes, SinkInv, SinkTypes, SinkState
        <3>5. sink[s].safe = summary[s]
            BY <3>2, <3>3, <3>4 DEF Holds
        <3>6. ~AtRow(s) /\ Past(s)
            BY <2>1 DEF Past, AtRow, RowPlace, LoopPlaces
        <3>7. QED
            BY <3>2, <3>5, <3>6 DEF RowsInv, BatchInv
    <2>3. ASSUME ~expired PROVE Total(summary) = Rows
        <3>1. 1 \in Sinks /\ 1 \in Producers
            BY DatagenStreamAssumption DEF Sinks, Producers
        <3>2. AllProducersDone /\ queue = <<>>
            BY <2>1, <2>2, <2>3, <3>1 DEF DeliveryInv, PastInv
        <3>3. ~Trouble
            BY <2>1, <2>2, <2>3, <3>2 DEF Trouble, AllProducersDone
        <3>4. dropped = 0 /\ remaining = 0
            BY <3>1, <3>2, <3>3 DEF DeliveryInv, TroubleInv, AllProducersDone
        <3>5. Total(hand) = 0 /\ Total(batch) = 0 /\ Total(queue) = 0
            <4>1. hand \in Seq(Nat) /\ Len(hand) = Threads
                BY DatagenStreamAssumption, FunctionIsSequence DEF RowsInv, RowTypes, Producers
            <4>2. batch \in Seq(Nat) /\ Len(batch) = SinkThreads
                BY DatagenStreamAssumption, FunctionIsSequence DEF RowsInv, RowTypes, Sinks
            <4>3. \A p \in 1..Len(hand) : hand[p] = 0
                BY <3>2, <4>1 DEF RowsInv, HandInv, AllProducersDone, Producers
            <4>4. \A s \in 1..Len(batch) : batch[s] = 0
                BY <2>2, <4>2 DEF Sinks
            <4>5. QED
                BY <3>2, <4>1, <4>2, <4>3, <4>4, TotalZeros, TotalEmpty
        <3>6. Total(summary) \in Nat
            BY TotalsAreNumbers DEF RowsInv
        <3>7. QED
            BY <3>4, <3>5, <3>6 DEF RowsInv, RowsConserved
    <2>4. QED
        BY <2>1, <2>2, <2>3
<1>2. QED
    BY <1>1, RowsInvariance, SinkInvariance, DeliveryInvariance, PTL
=============================================================================
