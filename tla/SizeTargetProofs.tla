-------------------------- MODULE SizeTargetProofs --------------------------
(***************************************************************************)
(* The gauges a size-bounded run decides by describe the sinks' files, the *)
(* run stores what it was asked for, and its overshoot is bounded: for     *)
(* every number of generators and workers, queue depth, batch and row      *)
(* group size, file cap and target.                                        *)
(*                                                                         *)
(* The invariants are layered.  SinkInv ties each sink's counts to what it *)
(* has reported, and the gauges to the sums of the reports.  FlowInv       *)
(* follows the rows from the generators to the sinks.  ReadInv says what a *)
(* generator's locals hold between two loads, as long as no read was torn, *)
(* and StopInv and StartInv what it takes to stop and to start a batch.    *)
(***************************************************************************)
EXTENDS SizeTarget, TotalsProofs

(* Between batches, or stopped: both reports are up to date. *)
UpToDate == {"recv", "write", "close", "final", "error", "done", "failed"}

(* What a sink at place pl knows of its own counts: f is file, s rowsSeen,  *)
(* a rowsInActive, p pending, ra reportedActive and rf reportedFlushed.    *)
CellOk(pl, f, s, a, p, ra, rf) ==
    /\ p <= a /\ a <= s
    /\ f => a > 0
    /\ pl \in {"recv", "write"} /\ ~ f => a = 0
    /\ pl \in {"publishActive", "publishFlushed", "close", "final"} => f
    /\ pl \in UpToDate => ra = a - p /\ rf = s - p
    /\ pl = "publishActive" => /\ ra <= a /\ rf = (s - a) + ra
                               /\ s <= rf + (RowGroupRows - 1) + BatchRows
    /\ pl = "publishFlushed" => ra = a - p
    /\ pl \in {"resetActive", "resetFlushed", "abandonFlushed"} => a = 0 /\ p = 0
    /\ pl \in {"resetFlushed", "abandonFlushed"} => ra = 0

(* What the sink of worker w knows, of its own variables. *)
SinkOk(w) ==
    CellOk(workerPc[w], file[w], rowsSeen[w], rowsInActive[w], pending[w],
           reportedActive[w], reportedFlushed[w])

(* Rows of closed files. *)
Stored == [w \in Workers |-> rowsSeen[w] - rowsInActive[w]]

(* The gauges are the sums of what the sinks have stored and reported. *)
GaugesAdd ==
    /\ bytes_written = Total(Stored)
    /\ active_bytes = Total(reportedActive)
    /\ rows_flushed = Total(reportedFlushed)

(* The first layer: it holds whatever fails and however reads are torn. *)
SinkInv == TypeOK /\ (\A w \in Workers : SinkOk(w)) /\ GaugesAdd

-----------------------------------------------------------------------------
(* TypeOK, for the workers. *)
SinkTypes ==
    /\ workerPc \in [Workers -> WorkerPcs]
    /\ abandoned \in [Workers -> Nat]
    /\ file \in [Workers -> BOOLEAN]
    /\ rowsSeen \in [Workers -> Nat]
    /\ rowsInActive \in [Workers -> Nat]
    /\ pending \in [Workers -> 0..RowGroupRows - 1]
    /\ reportedActive \in [Workers -> Nat]
    /\ reportedFlushed \in [Workers -> Nat]

(* A step gives worker w these values and no other worker any.             *)
Becomes(w, pl, f, s, a, p, ra, rf) ==
    /\ workerPc' = [workerPc EXCEPT ![w] = pl]
    /\ file' = [file EXCEPT ![w] = f]
    /\ rowsSeen' = [rowsSeen EXCEPT ![w] = s]
    /\ rowsInActive' = [rowsInActive EXCEPT ![w] = a]
    /\ pending' = [pending EXCEPT ![w] = p]
    /\ reportedActive' = [reportedActive EXCEPT ![w] = ra]
    /\ reportedFlushed' = [reportedFlushed EXCEPT ![w] = rf]

(* A step of worker w leaves the other sinks alone. *)
Others(w) ==
    \A v \in Workers \ {w} :
        /\ workerPc'[v] = workerPc[v] /\ file'[v] = file[v]
        /\ rowsSeen'[v] = rowsSeen[v] /\ rowsInActive'[v] = rowsInActive[v]
        /\ pending'[v] = pending[v]
        /\ reportedActive'[v] = reportedActive[v]
        /\ reportedFlushed'[v] = reportedFlushed[v]

(* Each gauge moves by what worker w moves.                                *)
Deltas(w) ==
    /\ bytes_written' + (rowsSeen[w] - rowsInActive[w])
            = bytes_written + (rowsSeen'[w] - rowsInActive'[w])
    /\ active_bytes' + reportedActive[w] = active_bytes + reportedActive'[w]
    /\ rows_flushed' + reportedFlushed[w] = rows_flushed + reportedFlushed'[w]

Moved(w) ==
    /\ SinkTypes' /\ Others(w) /\ SinkOk(w)' /\ Deltas(w)
    /\ queue' \in 0..QueueDepth /\ lost' \in Nat /\ lost' >= lost
    /\ UNCHANGED <<genVars, rows_generated>>

(* The values a worker takes, and that they are of their types. *)
LEMMA BecomesValues ==
    ASSUME SinkTypes, NEW w \in Workers, NEW pl \in WorkerPcs, NEW f \in BOOLEAN,
           NEW s \in Nat, NEW a \in Nat, NEW p \in 0..RowGroupRows - 1,
           NEW ra \in Nat, NEW rf \in Nat,
           Becomes(w, pl, f, s, a, p, ra, rf), abandoned' \in [Workers -> Nat]
    PROVE  /\ SinkTypes' /\ Others(w)
           /\ workerPc'[w] = pl /\ file'[w] = f /\ rowsSeen'[w] = s
           /\ rowsInActive'[w] = a /\ pending'[w] = p
           /\ reportedActive'[w] = ra /\ reportedFlushed'[w] = rf
<1>1. SinkTypes'
    BY DEF SinkTypes, Becomes
<1>2. Others(w)
    BY DEF SinkTypes, Becomes, Others
<1>3. /\ workerPc'[w] = pl /\ file'[w] = f /\ rowsSeen'[w] = s
      /\ rowsInActive'[w] = a /\ pending'[w] = p
      /\ reportedActive'[w] = ra /\ reportedFlushed'[w] = rf
    BY Zenon DEF SinkTypes, Becomes
<1>4. QED
    BY <1>1, <1>2, <1>3

(* A worker's step, from the values it gives the worker.                   *)
LEMMA BecomesMoved ==
    ASSUME SinkTypes, NEW w \in Workers, NEW pl \in WorkerPcs, NEW f \in BOOLEAN,
           NEW s \in Nat, NEW a \in Nat, NEW p \in 0..RowGroupRows - 1,
           NEW ra \in Nat, NEW rf \in Nat,
           Becomes(w, pl, f, s, a, p, ra, rf), abandoned' \in [Workers -> Nat],
           CellOk(pl, f, s, a, p, ra, rf),
           bytes_written' + (rowsSeen[w] - rowsInActive[w]) = bytes_written + (s - a),
           active_bytes' + reportedActive[w] = active_bytes + ra,
           rows_flushed' + reportedFlushed[w] = rows_flushed + rf,
           queue' \in 0..QueueDepth, lost' \in Nat, lost' >= lost,
           UNCHANGED <<genVars, rows_generated>>
    PROVE  Moved(w)
<1>1. /\ SinkTypes' /\ Others(w)
      /\ workerPc'[w] = pl /\ file'[w] = f /\ rowsSeen'[w] = s
      /\ rowsInActive'[w] = a /\ pending'[w] = p
      /\ reportedActive'[w] = ra /\ reportedFlushed'[w] = rf
    BY BecomesValues
<1>2. SinkOk(w)'
    BY <1>1, Zenon DEF SinkOk
<1>3. Deltas(w)
    BY <1>1, Zenon DEF Deltas
<1>4. QED
    BY <1>1, <1>2, <1>3, Zenon DEF Moved

-----------------------------------------------------------------------------
(* One lemma per operation of a worker: it keeps the sink's cell in order   *)
(* and moves the gauges by what it reports.                                *)

(* The current values of worker w, typed and in order. *)
Values(w) ==
    /\ SinkTypes /\ file[w] \in BOOLEAN
    /\ rowsSeen[w] \in Nat /\ rowsInActive[w] \in Nat
    /\ pending[w] \in 0..RowGroupRows - 1 /\ pending[w] \in Nat
    /\ 0 \in 0..RowGroupRows - 1
    /\ reportedActive[w] \in Nat /\ reportedFlushed[w] \in Nat
    /\ abandoned[w] \in Nat /\ queue \in 0..QueueDepth /\ lost \in Nat
    /\ bytes_written \in Nat /\ active_bytes \in Nat /\ rows_flushed \in Nat
    /\ CellOk(workerPc[w], file[w], rowsSeen[w], rowsInActive[w],
              pending[w], reportedActive[w], reportedFlushed[w])

LEMMA WorkerValues ==
    ASSUME SinkInv, NEW w \in Workers
    PROVE  Values(w)
<1>1. SinkTypes
    BY DEF SinkInv, TypeOK, SinkTypes
<1>2. /\ file[w] \in BOOLEAN
      /\ rowsSeen[w] \in Nat /\ rowsInActive[w] \in Nat
      /\ pending[w] \in 0..RowGroupRows - 1 /\ abandoned[w] \in Nat
      /\ reportedActive[w] \in Nat /\ reportedFlushed[w] \in Nat
    BY <1>1, Zenon DEF SinkTypes
<1>3. pending[w] \in Nat /\ 0 \in 0..RowGroupRows - 1
    BY <1>2, SizeTargetAssumption
<1>4. /\ queue \in 0..QueueDepth /\ lost \in Nat
      /\ bytes_written \in Nat /\ active_bytes \in Nat /\ rows_flushed \in Nat
    BY DEF SinkInv, TypeOK
<1>5. CellOk(workerPc[w], file[w], rowsSeen[w], rowsInActive[w],
             pending[w], reportedActive[w], reportedFlushed[w])
    BY DEF SinkInv, SinkOk
<1>6. QED
    BY <1>1, <1>2, <1>3, <1>4, <1>5 DEF Values

(* A worker that only changes place. *)
LEMMA GotoBecomes ==
    ASSUME SinkTypes, NEW w \in Workers, NEW pl, WorkerGoto(w, pl), UNCHANGED sinkVars
    PROVE  Becomes(w, pl, file[w], rowsSeen[w], rowsInActive[w], pending[w],
                   reportedActive[w], reportedFlushed[w])
BY DEF SinkTypes, WorkerGoto, sinkVars, Becomes

LEMMA PassMoved ==
    ASSUME SinkInv, NEW w \in Workers,
           Receive(w) \/ QueueClosed(w) \/ WriteFails(w) \/ GiveUp(w)
    PROVE  Moved(w)
<1> USE DEF Values
<1>1. Values(w)
    BY WorkerValues
<1>2. PICK pl \in {"write", "final", "done", "error", "failed"} :
        /\ WorkerGoto(w, pl) /\ UNCHANGED sinkVars
        /\ \/ workerPc[w] = "recv" /\ pl = "write"
           \/ workerPc[w] = "recv" /\ pl = (IF file[w] THEN "final" ELSE "done")
           \/ workerPc[w] = "write" /\ pl = "error"
           \/ workerPc[w] = "error" /\ pl = "failed"
    BY DEF Receive, QueueClosed, WriteFails, GiveUp
<1>3. Becomes(w, pl, file[w], rowsSeen[w], rowsInActive[w], pending[w],
              reportedActive[w], reportedFlushed[w])
    BY <1>1, <1>2, GotoBecomes
<1>4. pl \in WorkerPcs
    BY <1>2 DEF WorkerPcs
<1>5. CellOk(pl, file[w], rowsSeen[w], rowsInActive[w], pending[w],
             reportedActive[w], reportedFlushed[w])
    BY <1>1, <1>2 DEF CellOk, UpToDate
<1>6. abandoned' \in [Workers -> Nat]
    BY <1>1 DEF SinkTypes, Receive, QueueClosed, WriteFails, GiveUp
<1>7. queue' \in 0..QueueDepth
    BY <1>1, SizeTargetAssumption DEF Receive, QueueClosed, WriteFails, GiveUp
<1>8. lost' \in Nat /\ lost' >= lost
    <2>1. BatchRows \in Nat
        BY SizeTargetAssumption
    <2>2. PICK n \in Nat : lost' = lost + n
        <3>1. lost' \in {lost, lost + BatchRows, lost + rowsInActive[w]}
            BY DEF Receive, QueueClosed, WriteFails, GiveUp
        <3>2. lost = lost + 0
            BY <1>1
        <3>3. QED
            BY ONLY <1>1, <2>1, <3>1, <3>2
    <2>3. QED
        BY <1>1, <2>2
<1>9. UNCHANGED <<genVars, rows_generated, bytes_written, active_bytes, rows_flushed>>
    BY DEF Receive, QueueClosed, WriteFails, GiveUp, gauges
<1>10. QED
    BY <1>1, <1>3, <1>4, <1>5, <1>6, <1>7, <1>8, <1>9, BecomesMoved

(* What is left of a row group is less than a row group. *)
LEMMA Remainder ==
    ASSUME NEW p \in Nat, NEW r \in Nat \ {0}
    PROVE  p % r \in 0..r - 1 /\ p % r <= p
<1>1. p % r \in 0..r - 1
    OBVIOUS
<1>2. p = r * (p \div r) + (p % r) /\ p \div r \in Nat
    OBVIOUS
<1>3. r * (p \div r) \in Nat
    BY <1>2
<1>4. QED
    BY <1>1, <1>2, <1>3

LEMMA WriteMoved ==
    ASSUME SinkInv, NEW w \in Workers, Write(w)
    PROVE  Moved(w)
<1> USE DEF Values
<1>1. Values(w)
    BY WorkerValues
<1> DEFINE s == rowsSeen[w] + BatchRows
           a == rowsInActive[w] + BatchRows
           p == (pending[w] + BatchRows) % RowGroupRows
<1>2. Becomes(w, "publishActive", TRUE, s, a, p, reportedActive[w], reportedFlushed[w])
    BY <1>1 DEF Write, WorkerGoto, SinkTypes, Becomes
<1>3. BatchRows \in Nat /\ BatchRows > 0 /\ RowGroupRows \in Nat \ {0}
    BY SizeTargetAssumption
<1>4. p \in 0..RowGroupRows - 1 /\ p \in Nat /\ p <= pending[w] + BatchRows
    <2>1. pending[w] + BatchRows \in Nat
        BY <1>1, <1>3
    <2>2. p \in 0..RowGroupRows - 1 /\ p <= pending[w] + BatchRows
        BY <1>3, <2>1, Remainder
    <2> HIDE DEF p
    <2>3. QED
        BY <1>3, <2>2
<1>5. /\ pending[w] <= rowsInActive[w] /\ rowsInActive[w] <= rowsSeen[w]
      /\ reportedActive[w] = rowsInActive[w] - pending[w]
      /\ reportedFlushed[w] = rowsSeen[w] - pending[w]
    BY <1>1 DEF Write, CellOk, UpToDate
<1>6. s \in Nat /\ a \in Nat /\ s - a = rowsSeen[w] - rowsInActive[w]
    BY <1>1, <1>3
<1>7. CellOk("publishActive", TRUE, s, a, p, reportedActive[w], reportedFlushed[w])
    <2>1. p <= a /\ a <= s /\ a > 0
        BY <1>1, <1>3, <1>4, <1>5
    <2>2. /\ reportedActive[w] <= a /\ reportedFlushed[w] = (s - a) + reportedActive[w]
          /\ s <= reportedFlushed[w] + (RowGroupRows - 1) + BatchRows
        BY <1>1, <1>3, <1>5
    <2> HIDE DEF s, a, p
    <2>3. QED
        BY <2>1, <2>2 DEF CellOk, UpToDate
<1>8. /\ UNCHANGED <<genVars, rows_generated, bytes_written, active_bytes, rows_flushed>>
      /\ queue' = queue /\ lost' = lost /\ abandoned' = abandoned
    BY DEF Write, gauges
<1>9. abandoned' \in [Workers -> Nat] /\ "publishActive" \in WorkerPcs
    BY <1>1, <1>8 DEF SinkTypes, WorkerPcs
<1>10. /\ bytes_written' + (rowsSeen[w] - rowsInActive[w]) = bytes_written + (s - a)
       /\ active_bytes' + reportedActive[w] = active_bytes + reportedActive[w]
       /\ rows_flushed' + reportedFlushed[w] = rows_flushed + reportedFlushed[w]
       /\ lost' >= lost
    BY <1>1, <1>6, <1>8
<1> HIDE DEF s, a, p
<1>11. QED
    BY <1>1, <1>2, <1>4, <1>6, <1>7, <1>8, <1>9, <1>10, BecomesMoved

LEMMA PublishActiveMoved ==
    ASSUME SinkInv, NEW w \in Workers, PublishActive(w)
    PROVE  Moved(w)
<1> USE DEF Values
<1>1. Values(w)
    BY WorkerValues
<1>2. Becomes(w, "publishFlushed", file[w], rowsSeen[w], rowsInActive[w], pending[w],
              Encoded(w), reportedFlushed[w])
    BY <1>1 DEF PublishActive, PublishActiveBytes, WorkerGoto, SinkTypes, Becomes
<1>3. Encoded(w) \in Nat
    BY <1>1 DEF CellOk, Encoded
<1>4. CellOk("publishFlushed", file[w], rowsSeen[w], rowsInActive[w], pending[w],
             Encoded(w), reportedFlushed[w])
    BY <1>1 DEF PublishActive, CellOk, UpToDate, Encoded
<1>5. active_bytes' + reportedActive[w] = active_bytes + Encoded(w)
    BY <1>1, <1>3 DEF PublishActive, PublishActiveBytes
<1>6. /\ UNCHANGED <<genVars, rows_generated, bytes_written, rows_flushed>>
      /\ queue' = queue /\ lost' = lost /\ abandoned' = abandoned
    BY DEF PublishActive
<1>7. abandoned' \in [Workers -> Nat] /\ "publishFlushed" \in WorkerPcs
    BY <1>1, <1>6 DEF SinkTypes, WorkerPcs
<1>8. /\ bytes_written' + (rowsSeen[w] - rowsInActive[w])
            = bytes_written + (rowsSeen[w] - rowsInActive[w])
      /\ rows_flushed' + reportedFlushed[w] = rows_flushed + reportedFlushed[w]
      /\ queue' \in 0..QueueDepth /\ lost' \in Nat /\ lost' >= lost
    BY <1>1, <1>6
<1>9. QED
    BY <1>1, <1>2, <1>3, <1>4, <1>5, <1>6, <1>7, <1>8, BecomesMoved

LEMMA PublishFlushedMoved ==
    ASSUME SinkInv, NEW w \in Workers, PublishFlushed(w)
    PROVE  Moved(w)
<1> USE DEF Values
<1>1. Values(w)
    BY WorkerValues
<1> DEFINE rf == rowsSeen[w] - pending[w]
<1>2. PICK pl \in {"close", "recv"} :
        Becomes(w, pl, file[w], rowsSeen[w], rowsInActive[w], pending[w],
                reportedActive[w], rf)
    BY <1>1 DEF PublishFlushed, PublishFlushedRows, WorkerGoto, SinkTypes, Becomes
<1>3. rf \in Nat
    BY <1>1 DEF CellOk
<1>4. CellOk(pl, file[w], rowsSeen[w], rowsInActive[w], pending[w],
             reportedActive[w], rf)
    BY <1>1, <1>2 DEF PublishFlushed, CellOk, UpToDate
<1>5. rows_flushed' + reportedFlushed[w] = rows_flushed + rf
    BY <1>1, <1>3 DEF PublishFlushed, PublishFlushedRows
<1>6. /\ UNCHANGED <<genVars, rows_generated, bytes_written, active_bytes>>
      /\ queue' = queue /\ lost' = lost /\ abandoned' = abandoned
    BY DEF PublishFlushed
<1>7. abandoned' \in [Workers -> Nat] /\ pl \in WorkerPcs
    BY <1>1, <1>2, <1>6 DEF SinkTypes, WorkerPcs
<1>8. /\ bytes_written' + (rowsSeen[w] - rowsInActive[w])
            = bytes_written + (rowsSeen[w] - rowsInActive[w])
      /\ active_bytes' + reportedActive[w] = active_bytes + reportedActive[w]
      /\ queue' \in 0..QueueDepth /\ lost' \in Nat /\ lost' >= lost
    BY <1>1, <1>6
<1> HIDE DEF rf
<1>9. QED
    BY <1>1, <1>2, <1>3, <1>4, <1>5, <1>6, <1>7, <1>8, BecomesMoved

LEMMA CloseMoved ==
    ASSUME SinkInv, NEW w \in Workers, Close(w)
    PROVE  Moved(w)
<1> USE DEF Values
<1>1. Values(w)
    BY WorkerValues
<1>2. Becomes(w, "resetActive", FALSE, rowsSeen[w], 0, 0,
              reportedActive[w], reportedFlushed[w])
    BY <1>1 DEF Close, WorkerGoto, SinkTypes, Becomes
<1>3. CellOk("resetActive", FALSE, rowsSeen[w], 0, 0,
             reportedActive[w], reportedFlushed[w])
    BY <1>1 DEF Close, CellOk, UpToDate
<1>4. /\ bytes_written' + (rowsSeen[w] - rowsInActive[w])
            = bytes_written + (rowsSeen[w] - 0)
      /\ active_bytes' + reportedActive[w] = active_bytes + reportedActive[w]
      /\ rows_flushed' + reportedFlushed[w] = rows_flushed + reportedFlushed[w]
    BY <1>1 DEF Close, gauges, CellOk
<1>5. lost' \in Nat /\ lost' >= lost /\ queue' = queue
    BY <1>1 DEF Close
<1>6. abandoned' \in [Workers -> Nat]
    BY <1>1 DEF Close, SinkTypes
<1>7. UNCHANGED <<genVars, rows_generated>>
    BY DEF Close, gauges
<1>8. "resetActive" \in WorkerPcs
    BY DEF WorkerPcs
<1>9. QED
    BY <1>1, <1>2, <1>3, <1>4, <1>5, <1>6, <1>7, <1>8, BecomesMoved

LEMMA ResetActiveMoved ==
    ASSUME SinkInv, NEW w \in Workers, ResetActive(w)
    PROVE  Moved(w)
<1> USE DEF Values
<1>1. Values(w)
    BY WorkerValues
<1>2. Becomes(w, "resetFlushed", file[w], rowsSeen[w], rowsInActive[w], pending[w],
              0, reportedFlushed[w])
    BY <1>1 DEF ResetActive, PublishActiveBytes, WorkerGoto, SinkTypes, Becomes
<1>3. CellOk("resetFlushed", file[w], rowsSeen[w], rowsInActive[w], pending[w],
             0, reportedFlushed[w])
    BY <1>1 DEF ResetActive, CellOk, UpToDate
<1>4. /\ bytes_written' + (rowsSeen[w] - rowsInActive[w])
            = bytes_written + (rowsSeen[w] - rowsInActive[w])
      /\ active_bytes' + reportedActive[w] = active_bytes + 0
      /\ rows_flushed' + reportedFlushed[w] = rows_flushed + reportedFlushed[w]
    BY <1>1 DEF ResetActive, PublishActiveBytes, gauges, CellOk
<1>5. lost' \in Nat /\ lost' >= lost /\ queue' = queue
    BY <1>1 DEF ResetActive
<1>6. abandoned' \in [Workers -> Nat]
    BY <1>1 DEF ResetActive, SinkTypes
<1>7. UNCHANGED <<genVars, rows_generated>>
    BY DEF ResetActive, gauges
<1>8. "resetFlushed" \in WorkerPcs
    BY DEF WorkerPcs
<1>9. QED
    BY <1>1, <1>2, <1>3, <1>4, <1>5, <1>6, <1>7, <1>8, BecomesMoved

LEMMA ResetFlushedMoved ==
    ASSUME SinkInv, NEW w \in Workers, ResetFlushed(w)
    PROVE  Moved(w)
<1> USE DEF Values
<1>1. Values(w)
    BY WorkerValues
<1>2. Becomes(w, "recv", file[w], rowsSeen[w], rowsInActive[w], pending[w],
              reportedActive[w], rowsSeen[w])
    BY <1>1 DEF ResetFlushed, PublishFlushedRows, WorkerGoto, SinkTypes, Becomes
<1>3. CellOk("recv", file[w], rowsSeen[w], rowsInActive[w], pending[w],
             reportedActive[w], rowsSeen[w])
    BY <1>1 DEF ResetFlushed, CellOk, UpToDate
<1>4. /\ bytes_written' + (rowsSeen[w] - rowsInActive[w])
            = bytes_written + (rowsSeen[w] - rowsInActive[w])
      /\ active_bytes' + reportedActive[w] = active_bytes + reportedActive[w]
      /\ rows_flushed' + reportedFlushed[w] = rows_flushed + rowsSeen[w]
      /\ rowsSeen[w] \in Nat
    BY <1>1 DEF ResetFlushed, PublishFlushedRows, gauges, CellOk
<1>5. lost' \in Nat /\ lost' >= lost /\ queue' = queue
    BY <1>1 DEF ResetFlushed
<1>6. abandoned' \in [Workers -> Nat]
    BY <1>1 DEF ResetFlushed, SinkTypes
<1>7. UNCHANGED <<genVars, rows_generated>>
    BY DEF ResetFlushed, gauges
<1>8. "recv" \in WorkerPcs
    BY DEF WorkerPcs
<1>9. QED
    BY <1>1, <1>2, <1>3, <1>4, <1>5, <1>6, <1>7, <1>8, BecomesMoved

LEMMA CloseFailsMoved ==
    ASSUME SinkInv, NEW w \in Workers, CloseFails(w)
    PROVE  Moved(w)
<1> USE DEF Values
<1>1. Values(w)
    BY WorkerValues
<1>2. Becomes(w, "error", FALSE, rowsSeen[w], rowsInActive[w], pending[w],
              reportedActive[w], reportedFlushed[w])
    BY <1>1 DEF CloseFails, WorkerGoto, SinkTypes, Becomes
<1>3. CellOk("error", FALSE, rowsSeen[w], rowsInActive[w], pending[w],
             reportedActive[w], reportedFlushed[w])
    BY <1>1 DEF CloseFails, CellOk, UpToDate
<1>4. /\ bytes_written' + (rowsSeen[w] - rowsInActive[w])
            = bytes_written + (rowsSeen[w] - rowsInActive[w])
      /\ active_bytes' + reportedActive[w] = active_bytes + reportedActive[w]
      /\ rows_flushed' + reportedFlushed[w] = rows_flushed + reportedFlushed[w]
    BY <1>1 DEF CloseFails, gauges, CellOk
<1>5. lost' \in Nat /\ lost' >= lost /\ queue' = queue
    BY <1>1 DEF CloseFails
<1>6. abandoned' \in [Workers -> Nat]
    BY <1>1 DEF CloseFails, SinkTypes
<1>7. UNCHANGED <<genVars, rows_generated>>
    BY DEF CloseFails, gauges
<1>8. "error" \in WorkerPcs
    BY DEF WorkerPcs
<1>9. QED
    BY <1>1, <1>2, <1>3, <1>4, <1>5, <1>6, <1>7, <1>8, BecomesMoved

LEMMA FinalCloseFailsMoved ==
    ASSUME SinkInv, NEW w \in Workers, FinalCloseFails(w)
    PROVE  Moved(w)
<1> USE DEF Values
<1>1. Values(w)
    BY WorkerValues
<1>2. PICK pl \in {"failed", "done"} :
        Becomes(w, pl, FALSE, rowsSeen[w], rowsInActive[w], pending[w],
                reportedActive[w], reportedFlushed[w])
    BY <1>1 DEF FinalCloseFails, WorkerGoto, SinkTypes, Becomes
<1>3. CellOk(pl, FALSE, rowsSeen[w], rowsInActive[w], pending[w],
             reportedActive[w], reportedFlushed[w])
    BY <1>1, <1>2 DEF FinalCloseFails, CellOk, UpToDate
<1>4. /\ bytes_written' + (rowsSeen[w] - rowsInActive[w])
            = bytes_written + (rowsSeen[w] - rowsInActive[w])
      /\ active_bytes' + reportedActive[w] = active_bytes + reportedActive[w]
      /\ rows_flushed' + reportedFlushed[w] = rows_flushed + reportedFlushed[w]
    BY <1>1 DEF FinalCloseFails, gauges, CellOk
<1>5. lost' \in Nat /\ lost' >= lost /\ queue' = queue
    BY <1>1 DEF FinalCloseFails
<1>6. abandoned' \in [Workers -> Nat]
    BY <1>1 DEF FinalCloseFails, SinkTypes
<1>7. UNCHANGED <<genVars, rows_generated>>
    BY DEF FinalCloseFails, gauges
<1>8. pl \in WorkerPcs
    BY <1>2 DEF WorkerPcs
<1>9. QED
    BY <1>1, <1>2, <1>3, <1>4, <1>5, <1>6, <1>7, <1>8, BecomesMoved

LEMMA AbandonMoved ==
    ASSUME SinkInv, NEW w \in Workers, Abandon(w)
    PROVE  Moved(w)
<1> USE DEF Values
<1>1. Values(w)
    BY WorkerValues
<1>2. Becomes(w, "abandonFlushed", FALSE, rowsSeen[w] - rowsInActive[w], 0, 0,
              0, reportedFlushed[w])
    BY <1>1 DEF Abandon, PublishActiveBytes, WorkerGoto, SinkTypes, Becomes
<1>3. CellOk("abandonFlushed", FALSE, rowsSeen[w] - rowsInActive[w], 0, 0,
             0, reportedFlushed[w])
    BY <1>1 DEF Abandon, CellOk, UpToDate
<1>4. /\ bytes_written' + (rowsSeen[w] - rowsInActive[w])
            = bytes_written + (rowsSeen[w] - rowsInActive[w] - 0)
      /\ active_bytes' + reportedActive[w] = active_bytes + 0
      /\ rows_flushed' + reportedFlushed[w] = rows_flushed + reportedFlushed[w]
      /\ rowsSeen[w] - rowsInActive[w] \in Nat
    BY <1>1 DEF Abandon, PublishActiveBytes, gauges, CellOk
<1>5. lost' \in Nat /\ lost' >= lost /\ queue' = queue
    BY <1>1 DEF Abandon
<1>6. abandoned' \in [Workers -> Nat]
    BY <1>1 DEF Abandon, SinkTypes
<1>7. UNCHANGED <<genVars, rows_generated>>
    BY DEF Abandon, gauges
<1>8. "abandonFlushed" \in WorkerPcs
    BY DEF WorkerPcs
<1>9. QED
    BY <1>1, <1>2, <1>3, <1>4, <1>5, <1>6, <1>7, <1>8, BecomesMoved

LEMMA AbandonFlushedMoved ==
    ASSUME SinkInv, NEW w \in Workers, AbandonFlushed(w)
    PROVE  Moved(w)
<1> USE DEF Values
<1>1. Values(w)
    BY WorkerValues
<1>2. Becomes(w, "recv", file[w], rowsSeen[w], rowsInActive[w], pending[w],
              reportedActive[w], rowsSeen[w])
    BY <1>1 DEF AbandonFlushed, PublishFlushedRows, WorkerGoto, SinkTypes, Becomes
<1>3. CellOk("recv", file[w], rowsSeen[w], rowsInActive[w], pending[w],
             reportedActive[w], rowsSeen[w])
    BY <1>1 DEF AbandonFlushed, CellOk, UpToDate
<1>4. /\ bytes_written' + (rowsSeen[w] - rowsInActive[w])
            = bytes_written + (rowsSeen[w] - rowsInActive[w])
      /\ active_bytes' + reportedActive[w] = active_bytes + reportedActive[w]
      /\ rows_flushed' + reportedFlushed[w] = rows_flushed + rowsSeen[w]
      /\ rowsSeen[w] \in Nat
    BY <1>1 DEF AbandonFlushed, PublishFlushedRows, gauges, CellOk
<1>5. lost' \in Nat /\ lost' >= lost /\ queue' = queue
    BY <1>1 DEF AbandonFlushed
<1>6. abandoned' \in [Workers -> Nat]
    BY <1>1 DEF AbandonFlushed, SinkTypes
<1>7. UNCHANGED <<genVars, rows_generated>>
    BY DEF AbandonFlushed, gauges
<1>8. "recv" \in WorkerPcs
    BY DEF WorkerPcs
<1>9. QED
    BY <1>1, <1>2, <1>3, <1>4, <1>5, <1>6, <1>7, <1>8, BecomesMoved

(* Every step of a worker. *)
LEMMA WorkerMoved ==
    ASSUME SinkInv, NEW w \in Workers, Worker(w)
    PROVE  Moved(w)
BY PassMoved, WriteMoved, PublishActiveMoved, PublishFlushedMoved, CloseMoved,
   ResetActiveMoved, ResetFlushedMoved, CloseFailsMoved, FinalCloseFailsMoved,
   AbandonMoved, AbandonFlushedMoved DEF Worker

-----------------------------------------------------------------------------
(* The sinks' counts and the gauges stay in step.                          *)

(* Per-worker counts are sequences of naturals. *)
LEMMA WorkerTotals ==
    ASSUME NEW f \in [Workers -> Nat], NEW g \in [Workers -> Nat], NEW w \in Workers,
           \A v \in Workers \ {w} : g[v] = f[v]
    PROVE  /\ f[w] \in Nat /\ g[w] \in Nat /\ f[w] <= Total(f)
           /\ Total(f) \in Nat /\ Total(g) \in Nat
           /\ Total(g) + f[w] = Total(f) + g[w]
<1>1. UploadThreads \in Nat
    BY SizeTargetAssumption
<1>2. QED
    BY <1>1, TotalOneChanged DEF Workers

LEMMA GeneratorTotals ==
    ASSUME NEW f \in [Generators -> Nat], NEW g \in [Generators -> Nat],
           NEW k \in Generators, \A i \in Generators \ {k} : g[i] = f[i]
    PROVE  /\ f[k] \in Nat /\ g[k] \in Nat /\ f[k] <= Total(f)
           /\ Total(f) \in Nat /\ Total(g) \in Nat
           /\ Total(g) + f[k] = Total(f) + g[k]
<1>1. GenThreads \in Nat
    BY SizeTargetAssumption
<1>2. QED
    BY <1>1, TotalOneChanged DEF Generators

(* A sink holds no more rows in its open file than it has seen. *)
LEMMA StoredType ==
    ASSUME SinkTypes, \A v \in Workers : SinkOk(v)
    PROVE  Stored \in [Workers -> Nat]
<1>1. ASSUME NEW v \in Workers PROVE rowsSeen[v] - rowsInActive[v] \in Nat
    <2>1. rowsSeen[v] \in Nat /\ rowsInActive[v] \in Nat
        BY DEF SinkTypes
    <2>2. rowsInActive[v] <= rowsSeen[v]
        BY DEF SinkOk, CellOk
    <2>3. QED
        BY <2>1, <2>2
<1>2. QED
    BY <1>1 DEF Stored

LEMMA MovedSinks ==
    ASSUME SinkInv, NEW w \in Workers, Moved(w)
    PROVE  \A v \in Workers : SinkOk(v)'
<1>1. ASSUME NEW v \in Workers, v # w PROVE SinkOk(v)'
    <2>1. /\ workerPc'[v] = workerPc[v] /\ file'[v] = file[v]
          /\ rowsSeen'[v] = rowsSeen[v] /\ rowsInActive'[v] = rowsInActive[v]
          /\ pending'[v] = pending[v] /\ reportedActive'[v] = reportedActive[v]
          /\ reportedFlushed'[v] = reportedFlushed[v]
        BY <1>1 DEF Moved, Others
    <2>2. SinkOk(v)
        BY DEF SinkInv
    <2>3. QED
        BY <2>1, <2>2, Zenon DEF SinkOk
<1>2. SinkOk(w)'
    BY DEF Moved
<1>3. QED
    BY <1>1, <1>2

(* A gauge that is the total of f stays the total when both move by the     *)
(* same difference.                                                        *)
LEMMA GaugeMoves ==
    ASSUME NEW f \in [Workers -> Nat], NEW g \in [Workers -> Nat], NEW w \in Workers,
           \A v \in Workers \ {w} : g[v] = f[v],
           NEW x, NEW y, x = Total(f), y + f[w] = x + g[w], y \in Int
    PROVE  y = Total(g) /\ y \in Nat
<1>1. /\ f[w] \in Nat /\ g[w] \in Nat /\ Total(f) \in Nat /\ Total(g) \in Nat
      /\ Total(g) + f[w] = Total(f) + g[w]
    BY WorkerTotals
<1>2. QED
    BY ONLY <1>1, x = Total(f), y + f[w] = x + g[w], y \in Int

(* The gauges are moved by subtraction, and stay integers. *)
LEMMA GaugesAreIntegers ==
    ASSUME SinkInv, NEW w \in Workers, Worker(w)
    PROVE  bytes_written' \in Int /\ active_bytes' \in Int /\ rows_flushed' \in Int
<1> USE DEF Values
<1>1. Values(w)
    BY WorkerValues
<1>2. \A x \in {Encoded(w), 0, rowsSeen[w], rowsSeen[w] - pending[w]} : x \in Int
    BY <1>1 DEF Encoded
<1>3. CASE Receive(w) \/ QueueClosed(w) \/ Write(w) \/ WriteFails(w) \/ CloseFails(w)
           \/ FinalCloseFails(w) \/ GiveUp(w)
    BY <1>1, <1>3 DEF Receive, QueueClosed, Write, WriteFails, CloseFails,
       FinalCloseFails, GiveUp, gauges
<1>4. CASE PublishActive(w) \/ ResetActive(w) \/ Abandon(w)
    BY <1>1, <1>2, <1>4 DEF PublishActive, ResetActive, Abandon, PublishActiveBytes
<1>5. CASE PublishFlushed(w) \/ ResetFlushed(w) \/ AbandonFlushed(w)
    <2>1. rows_flushed' \in Int
        <3>1. PICK x \in {rowsSeen[w], rowsSeen[w] - pending[w]} :
                rows_flushed' = rows_flushed + (x - reportedFlushed[w])
            BY <1>5 DEF PublishFlushed, ResetFlushed, AbandonFlushed, PublishFlushedRows
        <3>2. QED
            BY <1>1, <1>2, <3>1
    <2>2. bytes_written' = bytes_written /\ active_bytes' = active_bytes
        BY <1>5 DEF PublishFlushed, ResetFlushed, AbandonFlushed
    <2>3. QED
        BY <1>1, <2>1, <2>2
<1>6. CASE Close(w)
    BY <1>1, <1>6 DEF Close
<1>7. QED
    BY <1>3, <1>4, <1>5, <1>6 DEF Worker

LEMMA MovedGauges ==
    ASSUME SinkInv, NEW w \in Workers, Moved(w),
           bytes_written' \in Int, active_bytes' \in Int, rows_flushed' \in Int
    PROVE  /\ GaugesAdd'
           /\ bytes_written' \in Nat /\ active_bytes' \in Nat /\ rows_flushed' \in Nat
<1>1. SinkTypes /\ SinkTypes' /\ Others(w) /\ Deltas(w) /\ GaugesAdd
    BY DEF SinkInv, TypeOK, SinkTypes, Moved
<1>2. Stored \in [Workers -> Nat]
    BY <1>1, StoredType DEF SinkInv
<1>3. Stored' \in [Workers -> Nat]
    <2>1. \A v \in Workers : SinkOk(v)'
        BY MovedSinks
    <2>2. ASSUME NEW v \in Workers PROVE rowsSeen'[v] - rowsInActive'[v] \in Nat
        <3>1. rowsSeen'[v] \in Nat /\ rowsInActive'[v] \in Nat
            BY <1>1 DEF SinkTypes
        <3>2. rowsInActive'[v] <= rowsSeen'[v]
            BY <2>1 DEF SinkOk, CellOk
        <3>3. QED
            BY <3>1, <3>2
    <2>3. QED
        BY <2>2 DEF Stored
<1>4. bytes_written' = Total(Stored') /\ bytes_written' \in Nat
    <2>1. \A v \in Workers \ {w} : Stored'[v] = Stored[v]
        BY <1>1 DEF Others, Stored
    <2>2. bytes_written' + Stored[w] = bytes_written + Stored'[w]
        BY <1>1 DEF Deltas, Stored
    <2>3. bytes_written = Total(Stored)
        BY <1>1 DEF GaugesAdd
    <2>4. QED
        BY <1>2, <1>3, <2>1, <2>2, <2>3, GaugeMoves
<1>5. active_bytes' = Total(reportedActive') /\ active_bytes' \in Nat
    <2>1. \A v \in Workers \ {w} : reportedActive'[v] = reportedActive[v]
        BY <1>1 DEF Others
    <2>2. active_bytes' + reportedActive[w] = active_bytes + reportedActive'[w]
        BY <1>1 DEF Deltas
    <2>3. /\ active_bytes = Total(reportedActive)
          /\ reportedActive \in [Workers -> Nat] /\ reportedActive' \in [Workers -> Nat]
        BY <1>1 DEF GaugesAdd, SinkTypes
    <2>4. QED
        BY <2>1, <2>2, <2>3, GaugeMoves
<1>6. rows_flushed' = Total(reportedFlushed') /\ rows_flushed' \in Nat
    <2>1. \A v \in Workers \ {w} : reportedFlushed'[v] = reportedFlushed[v]
        BY <1>1 DEF Others
    <2>2. rows_flushed' + reportedFlushed[w] = rows_flushed + reportedFlushed'[w]
        BY <1>1 DEF Deltas
    <2>3. /\ rows_flushed = Total(reportedFlushed)
          /\ reportedFlushed \in [Workers -> Nat] /\ reportedFlushed' \in [Workers -> Nat]
        BY <1>1 DEF GaugesAdd, SinkTypes
    <2>4. QED
        BY <2>1, <2>2, <2>3, GaugeMoves
<1>7. QED
    BY <1>4, <1>5, <1>6 DEF GaugesAdd

LEMMA WorkerStep ==
    ASSUME SinkInv, NEW w \in Workers, Worker(w), torn' \in BOOLEAN, UNCHANGED showProgress
    PROVE  SinkInv'
<1>1. Moved(w)
    BY WorkerMoved
<1>2. /\ GaugesAdd'
      /\ bytes_written' \in Nat /\ active_bytes' \in Nat /\ rows_flushed' \in Nat
    BY <1>1, GaugesAreIntegers, MovedGauges
<1>3. \A v \in Workers : SinkOk(v)'
    BY <1>1, MovedSinks
<1>4. TypeOK'
    BY <1>1, <1>2 DEF Moved, SinkTypes, SinkInv, TypeOK, genVars
<1>5. QED
    BY <1>2, <1>3, <1>4 DEF SinkInv

(* What a generator may change of the shared counters. *)
LEMMA GeneratorCounts ==
    ASSUME SinkInv, NEW g \in Generators, Generator(g)
    PROVE  queue' \in 0..QueueDepth /\ rows_generated' \in Nat
<1> USE DEF Generator, LoadWritten, LoadActive, LoadFlushed, LoadGenerated, Send,
            SendFails, CountRows
<1>1. QueueDepth \in Nat /\ BatchRows \in Nat
    BY SizeTargetAssumption
<1>2. queue' = queue \/ (queue' = queue + 1 /\ queue < QueueDepth)
    OBVIOUS
<1>3. rows_generated' \in {rows_generated, rows_generated + BatchRows}
    BY DEF gauges
<1>4. queue \in 0..QueueDepth /\ rows_generated \in Nat
    BY DEF SinkInv, TypeOK
<1>5. QED
    BY ONLY <1>1, <1>2, <1>3, <1>4

(* Generators only read the gauges of the sinks. *)
LEMMA GeneratorStep ==
    ASSUME SinkInv, NEW g \in Generators, Generator(g), torn' \in BOOLEAN, UNCHANGED showProgress
    PROVE  SinkInv' /\ UNCHANGED <<workerPc, sinkVars, bytes_written, active_bytes,
                                   rows_flushed, lost>>
<1> USE DEF Generator, LoadWritten, LoadActive, LoadFlushed, LoadGenerated, Send,
            SendFails, CountRows
<1>1. UNCHANGED <<workerPc, abandoned, sinkVars, bytes_written, active_bytes,
                  rows_flushed, lost>>
    BY DEF gauges
<1>2. /\ genPc' \in [Generators -> GenPcs]
    BY DEF SinkInv, TypeOK, GenGoto, GenPcs
<1>3. produced' \in [Generators -> Nat] /\ flushedSeen' \in [Generators -> Nat]
    BY DEF SinkInv, TypeOK
<1>4. queue' \in 0..QueueDepth /\ rows_generated' \in Nat
    BY GeneratorCounts
<1>5. TypeOK'
    BY <1>1, <1>2, <1>3, <1>4 DEF SinkInv, TypeOK, sinkVars
<1>6. (\A v \in Workers : SinkOk(v)') /\ GaugesAdd'
    BY <1>1, Zenon DEF SinkInv, SinkOk, GaugesAdd, Stored, sinkVars
<1>7. QED
    BY <1>1, <1>5, <1>6 DEF SinkInv

LEMMA SinkInit == Init => SinkInv
<1> SUFFICES ASSUME Init PROVE SinkInv
    OBVIOUS
<1>1. /\ GenThreads \in Nat /\ UploadThreads \in Nat /\ QueueDepth \in Nat
      /\ 0 \in 0..QueueDepth /\ 0 \in 0..RowGroupRows - 1
    BY SizeTargetAssumption
<1>2. TypeOK
    BY <1>1 DEF Init, TypeOK, GenPcs, WorkerPcs
<1>3. ASSUME NEW w \in Workers PROVE SinkOk(w)
    BY DEF Init, SinkOk, CellOk, UpToDate
<1>4. /\ Stored \in [Workers -> Nat] /\ \A w \in Workers : Stored[w] = 0
      /\ reportedActive \in [Workers -> Nat] /\ \A w \in Workers : reportedActive[w] = 0
      /\ reportedFlushed \in [Workers -> Nat] /\ \A w \in Workers : reportedFlushed[w] = 0
    BY DEF Init, Stored
<1>5. Total(Stored) = 0 /\ Total(reportedActive) = 0 /\ Total(reportedFlushed) = 0
    <2> HIDE DEF Stored
    <2>1. QED
        BY <1>1, <1>4, TotalNone DEF Workers
<1>6. GaugesAdd
    BY <1>5 DEF Init, GaugesAdd
<1>7. QED
    BY <1>2, <1>3, <1>6 DEF SinkInv

LEMMA SinkUnchanged ==
    ASSUME SinkInv, UNCHANGED vars
    PROVE  SinkInv'
<1>1. TypeOK'
    BY DEF SinkInv, TypeOK, vars, genVars, sinkVars, gauges
<1>2. (\A v \in Workers : SinkOk(v)') /\ GaugesAdd'
    BY Zenon DEF SinkInv, SinkOk, GaugesAdd, Stored, vars, sinkVars, gauges
<1>3. QED
    BY <1>1, <1>2 DEF SinkInv

LEMMA SinkStep ==
    ASSUME SinkInv, [Next]_vars
    PROVE  SinkInv'
<1>1. CASE /\ (\E g \in Generators : Generator(g)) \/ (\E w \in Workers : Worker(w))
           /\ torn' = (torn \/ Tearing')
           /\ UNCHANGED showProgress
    <2>1. torn' \in BOOLEAN
        BY <1>1 DEF SinkInv, TypeOK, Tearing
    <2>2. QED
        BY <1>1, <2>1, GeneratorStep, WorkerStep
<1>2. CASE UNCHANGED vars
    BY <1>2, SinkUnchanged
<1>3. QED
    BY <1>1, <1>2 DEF Next, Stutter

LEMMA SinksInvariant == Spec => []SinkInv
BY SinkInit, SinkStep, PTL DEF Spec

(* Every variable keeps its type; in particular no gauge, moved by          *)
(* subtraction (apply_delta), ever drops below zero.                       *)
THEOREM GaugesAreTyped == Spec => []TypeOK
BY SinksInvariant, PTL DEF SinkInv

-----------------------------------------------------------------------------
(* Away from the middle of an update, a sink's reports pair. *)
LEMMA CellPairs ==
    ASSUME SinkInv, NEW w \in Workers, ~ MidUpdate(w)
    PROVE  reportedFlushed[w] = (rowsSeen[w] - rowsInActive[w]) + reportedActive[w]
<1> USE DEF Values
<1>1. Values(w)
    BY WorkerValues
<1>2. workerPc[w] \in UpToDate \cup {"publishActive"}
    BY DEF SinkInv, TypeOK, WorkerPcs, MidUpdate, UpToDate
<1>3. \/ /\ reportedActive[w] = rowsInActive[w] - pending[w]
         /\ reportedFlushed[w] = rowsSeen[w] - pending[w]
      \/ reportedFlushed[w] = (rowsSeen[w] - rowsInActive[w]) + reportedActive[w]
    BY <1>1, <1>2 DEF CellOk
<1>4. QED
    BY <1>1, <1>3

(* So do the gauges, when it is so of every sink. *)
LEMMA GaugesPairUp ==
    ASSUME SinkInv, \A w \in Workers : ~ MidUpdate(w)
    PROVE  bytes_written + active_bytes = rows_flushed
<1>1. \A w \in Workers :
        reportedFlushed[w] = (rowsSeen[w] - rowsInActive[w]) + reportedActive[w]
    BY CellPairs
<1>2. UploadThreads \in Nat /\ SinkTypes /\ GaugesAdd
    BY SizeTargetAssumption DEF SinkInv, TypeOK, SinkTypes
<1>3. Stored \in [Workers -> Nat]
    BY <1>2, StoredType DEF SinkInv
<1>4. \A w \in Workers : reportedFlushed[w] = Stored[w] + reportedActive[w]
    BY <1>1 DEF Stored
<1>5. Total(reportedFlushed) = Total(Stored) + Total(reportedActive)
    <2> HIDE DEF Stored
    <2>1. /\ Stored \in [1..UploadThreads -> Nat]
          /\ reportedActive \in [1..UploadThreads -> Nat]
          /\ reportedFlushed \in [1..UploadThreads -> Nat]
          /\ \A w \in 1..UploadThreads :
                reportedFlushed[w] = Stored[w] + reportedActive[w]
        BY <1>2, <1>3, <1>4, Zenon DEF SinkTypes, Workers
    <2>2. QED
        BY ONLY <1>2, <2>1, TotalSum
<1>6. QED
    BY <1>2, <1>5 DEF GaugesAdd

(* "Pair the byte total with the rows those bytes actually came from":      *)
(* between updates, and with no sink stopped on an error, the two gauges    *)
(* total_bytes adds up count the rows of rows_flushed, and active_bytes is  *)
(* the open files' share, whatever was abandoned before.                   *)
THEOREM GaugesArePaired == Spec => []GaugesPair
<1>1. ASSUME SinkInv, \A w \in Workers : Settled(w)
      PROVE  /\ bytes_written + active_bytes = rows_flushed
             /\ active_bytes = Total([w \in Workers |-> Encoded(w)])
    <2>1. \A w \in Workers : ~ MidUpdate(w)
        BY <1>1 DEF Settled, MidUpdate
    <2>2. ASSUME NEW w \in Workers PROVE Encoded(w) = reportedActive[w]
        <3>1. workerPc[w] \in UpToDate
            BY <1>1 DEF Settled, UpToDate
        <3>2. SinkOk(w)
            BY <1>1 DEF SinkInv
        <3>3. QED
            BY <3>1, <3>2 DEF SinkOk, CellOk, Encoded
    <2>3. [w \in Workers |-> Encoded(w)] = reportedActive
        BY <1>1, <2>2 DEF SinkInv, TypeOK
    <2>4. active_bytes = Total(reportedActive)
        BY <1>1 DEF SinkInv, GaugesAdd
    <2>5. QED
        BY <1>1, <2>1, <2>3, <2>4, GaugesPairUp
<1>2. SinkInv => GaugesPair
    BY <1>1 DEF GaugesPair
<1>3. QED
    BY <1>2, SinksInvariant, PTL

-----------------------------------------------------------------------------
(* While no row is lost no worker has given a file up or failed, and a      *)
(* failed close has rows to lose.                                          *)
LossOk(w) ==
    /\ workerPc[w] \notin {"failed", "abandonFlushed"}
    /\ workerPc[w] = "error" => rowsInActive[w] > 0
    /\ workerPc[w] = "done" => rowsInActive[w] = 0

(* A worker leaves, or closes its last file, only when there is nothing     *)
(* left to receive, and never will be.                                     *)
StopsLast(w) ==
    workerPc[w] \in {"final", "done"} => AllGenDone /\ queue = 0

(* Rows sent and not yet counted in rows_generated. *)
Uncounted == [g \in Generators |-> IF genPc[g] = "count" THEN BatchRows ELSE 0]
(* Rows a worker has taken from the queue, when none was lost. *)
Taken == [w \in Workers |->
            rowsSeen[w] + (IF workerPc[w] = "write" THEN BatchRows ELSE 0)]

(* Rows every generator has sent. *)
Sent == rows_generated + Total(Uncounted)

(* The second layer: as long as no failure lost any, every row sent is in   *)
(* the queue or with a sink.                                               *)
FlowInv ==
    /\ \A w \in Workers : StopsLast(w)
    /\ lost = 0 => /\ \A w \in Workers : LossOk(w)
                   /\ Sent = BatchRows * queue + Total(Taken)

(* What a worker takes it takes from the queue, unless it loses rows. *)
LEMMA WorkerFlow ==
    ASSUME SinkInv, FlowInv, NEW w \in Workers, Worker(w), Moved(w), lost' = 0
    PROVE  /\ lost = 0 /\ LossOk(w)'
           /\ BatchRows * queue' + Taken'[w] = BatchRows * queue + Taken[w]
<1> USE DEF Values
<1>1. Values(w)
    BY WorkerValues
<1>2. BatchRows \in Nat /\ BatchRows > 0 /\ queue \in Nat /\ BatchRows * queue \in Nat
    BY <1>1, SizeTargetAssumption
<1>3. lost = 0
    BY <1>1 DEF Moved
<1>4. LossOk(w)
    BY <1>3 DEF FlowInv
<1>5. /\ Taken[w] = rowsSeen[w] + (IF workerPc[w] = "write" THEN BatchRows ELSE 0)
      /\ Taken'[w] = rowsSeen'[w] + (IF workerPc'[w] = "write" THEN BatchRows ELSE 0)
    BY DEF Taken
<1>6. CASE Receive(w)
    <2>1. /\ workerPc[w] = "recv" /\ workerPc'[w] = "write" /\ rowsSeen'[w] = rowsSeen[w]
          /\ queue' = queue - 1
        BY <1>1, <1>6 DEF Receive, WorkerGoto, SinkTypes, sinkVars
    <2>2. BatchRows * (queue - 1) = BatchRows * queue - BatchRows
        BY <1>2
    <2>3. QED
        BY <1>1, <1>2, <1>3, <1>5, <2>1, <2>2 DEF LossOk
<1>7. CASE Write(w)
    <2>1. /\ workerPc[w] = "write" /\ workerPc'[w] = "publishActive"
          /\ rowsSeen'[w] = rowsSeen[w] + BatchRows /\ queue' = queue
        BY <1>1, <1>7 DEF Write, WorkerGoto, SinkTypes
    <2>2. QED
        BY <1>1, <1>2, <1>3, <1>5, <2>1 DEF LossOk
<1>8. CASE WriteFails(w) \/ FinalCloseFails(w) \/ GiveUp(w) \/ Abandon(w)
    <2>1. WriteFails(w) \/ rowsInActive[w] > 0
        BY <1>1, <1>4, <1>8 DEF FinalCloseFails, GiveUp, Abandon, CellOk, LossOk
    <2>2. PICK n \in Nat : lost' = lost + n /\ n > 0
        BY <1>1, <1>2, <1>8, <2>1 DEF WriteFails, FinalCloseFails, GiveUp, Abandon
    <2>3. QED
        BY <1>3, <2>2
<1>9. CASE QueueClosed(w) \/ PublishActive(w) \/ PublishFlushed(w) \/ Close(w)
           \/ ResetActive(w) \/ ResetFlushed(w) \/ CloseFails(w) \/ AbandonFlushed(w)
    <2>1. /\ queue' = queue /\ rowsSeen' = rowsSeen
          /\ workerPc[w] # "write" /\ workerPc'[w] # "write"
        BY <1>1, <1>9 DEF QueueClosed, PublishActive, PublishFlushed, Close, ResetActive,
           ResetFlushed, CloseFails, AbandonFlushed, WorkerGoto, SinkTypes, sinkVars
    <2>2. workerPc'[w] \notin {"failed", "abandonFlushed"}
        BY <1>1, <1>9 DEF QueueClosed, PublishActive, PublishFlushed, Close, ResetActive,
           ResetFlushed, CloseFails, AbandonFlushed, WorkerGoto, SinkTypes
    <2>3. workerPc'[w] = "error" => rowsInActive'[w] > 0
        BY <1>1, <1>9 DEF QueueClosed, PublishActive, PublishFlushed, Close, ResetActive,
           ResetFlushed, CloseFails, AbandonFlushed, WorkerGoto, SinkTypes, CellOk
    <2>4. workerPc'[w] = "done" => rowsInActive'[w] = 0
        BY <1>1, <1>9 DEF QueueClosed, PublishActive, PublishFlushed, Close, ResetActive,
           ResetFlushed, CloseFails, AbandonFlushed, WorkerGoto, SinkTypes, CellOk,
           sinkVars
    <2>5. Taken'[w] = Taken[w]
        BY <1>5, <2>1
    <2>6. QED
        BY <1>3, <2>1, <2>2, <2>3, <2>4, <2>5 DEF LossOk
<1>10. QED
    BY <1>6, <1>7, <1>8, <1>9 DEF Worker

LEMMA WorkerStops ==
    ASSUME SinkInv, FlowInv, NEW w \in Workers, Worker(w), Moved(w), NEW v \in Workers
    PROVE  StopsLast(v)'
<1>1. genPc' = genPc
    BY DEF Moved, genVars
<1>2. queue = 0 => queue' = 0
    BY DEF Worker, Receive, QueueClosed, Write, WriteFails, PublishActive,
       PublishFlushed, Close, ResetActive, ResetFlushed, CloseFails, FinalCloseFails,
       GiveUp, Abandon, AbandonFlushed
<1>3. CASE workerPc'[v] = workerPc[v]
    BY <1>1, <1>2, <1>3 DEF FlowInv, StopsLast, AllGenDone
<1>4. CASE v = w /\ workerPc'[w] \in {"final", "done"} /\ workerPc'[w] # workerPc[w]
    <2>1. QueueClosed(w) \/ FinalCloseFails(w)
        BY <1>4 DEF Worker, Receive, Write, WriteFails, PublishActive,
           PublishFlushed, Close, ResetActive, ResetFlushed, CloseFails,
           GiveUp, Abandon, AbandonFlushed, WorkerGoto, SinkInv, TypeOK
    <2>2. CASE QueueClosed(w)
        BY <1>1, <2>2 DEF QueueClosed, StopsLast, AllGenDone
    <2>3. CASE FinalCloseFails(w)
        <3>1. AllGenDone /\ queue = 0
            BY <2>3 DEF FinalCloseFails, FlowInv, StopsLast
        <3>2. QED
            BY <1>1, <1>2, <3>1 DEF StopsLast, AllGenDone
    <2>4. QED
        BY <2>1, <2>2, <2>3
<1>5. CASE workerPc'[v] \notin {"final", "done"}
    BY <1>5 DEF StopsLast
<1>6. QED
    BY <1>3, <1>4, <1>5 DEF Moved, Others

(* Totals over the workers of what a worker has taken are well defined. *)
LEMMA TakenType ==
    ASSUME SinkTypes
    PROVE  Taken \in [Workers -> Nat]
<1>1. BatchRows \in Nat
    BY SizeTargetAssumption
<1>2. \A w \in Workers : rowsSeen[w] \in Nat
    BY DEF SinkTypes
<1>3. QED
    BY <1>1, <1>2 DEF Taken

LEMMA UncountedType ==
    /\ Uncounted \in [Generators -> Nat] /\ Total(Uncounted) \in Nat
    /\ Uncounted' \in [Generators -> Nat] /\ Total(Uncounted') \in Nat
<1>1. GenThreads \in Nat /\ BatchRows \in Nat
    BY SizeTargetAssumption
<1>2. Uncounted \in [Generators -> Nat] /\ Uncounted' \in [Generators -> Nat]
    BY <1>1 DEF Uncounted
<1> HIDE DEF Uncounted
<1>3. Uncounted \in Seq(Nat) /\ Uncounted' \in Seq(Nat)
    BY <1>1, <1>2, FunctionIsSequence DEF Generators
<1>4. QED
    BY <1>2, <1>3, TotalType

LEMMA WorkerFlowStep ==
    ASSUME SinkInv, FlowInv, NEW w \in Workers, Worker(w)
    PROVE  FlowInv'
<1>1. Moved(w)
    BY WorkerMoved
<1>2. \A v \in Workers : StopsLast(v)'
    BY <1>1, WorkerStops
<1>3. ASSUME lost' = 0 PROVE \A v \in Workers : LossOk(v)'
    <2>1. lost = 0 /\ LossOk(w)'
        BY <1>1, <1>3, WorkerFlow
    <2>2. ASSUME NEW v \in Workers, v # w PROVE LossOk(v)'
        <3>1. workerPc'[v] = workerPc[v] /\ rowsInActive'[v] = rowsInActive[v]
            BY <1>1, <2>2 DEF Moved, Others
        <3>2. LossOk(v)
            BY <2>1 DEF FlowInv
        <3>3. QED
            BY <3>1, <3>2, Zenon DEF LossOk
    <2>3. QED
        BY <2>1, <2>2
<1>4. ASSUME lost' = 0 PROVE Sent' = BatchRows * queue' + Total(Taken')
    <2>1. lost = 0 /\ BatchRows * queue' + Taken'[w] = BatchRows * queue + Taken[w]
        BY <1>1, <1>4, WorkerFlow
    <2>2. Sent = BatchRows * queue + Total(Taken)
        BY <2>1 DEF FlowInv
    <2>3. Taken \in [Workers -> Nat] /\ Taken' \in [Workers -> Nat]
        <3>1. Taken \in [Workers -> Nat]
            BY TakenType DEF SinkInv, TypeOK, SinkTypes
        <3>2. BatchRows \in Nat /\ \A v \in Workers : rowsSeen'[v] \in Nat
            BY <1>1, SizeTargetAssumption DEF Moved, SinkTypes
        <3>3. Taken' \in [Workers -> Nat]
            BY <3>2 DEF Taken
        <3>4. QED
            BY <3>1, <3>3
    <2>4. \A v \in Workers \ {w} : Taken'[v] = Taken[v]
        BY <1>1 DEF Moved, Others, Taken
    <2>5. /\ Taken[w] \in Nat /\ Taken'[w] \in Nat
          /\ Total(Taken) \in Nat /\ Total(Taken') \in Nat
          /\ Total(Taken') + Taken[w] = Total(Taken) + Taken'[w]
        BY <2>3, <2>4, WorkerTotals
    <2>6. Sent' = Sent
        BY <1>1 DEF Moved, Sent, Uncounted, genVars
    <2>7. BatchRows * queue \in Int /\ BatchRows * queue' \in Int
        <3>1. BatchRows \in Nat /\ queue \in Nat /\ queue' \in Nat
            BY <1>1, SizeTargetAssumption DEF Moved, SinkInv, TypeOK
        <3>2. QED
            BY ONLY <3>1
    <2>8. QED
        BY ONLY <2>1, <2>2, <2>5, <2>6, <2>7
<1>5. QED
    BY <1>2, <1>3, <1>4 DEF FlowInv

(* A batch is in a generator's hands, counted by nobody, or in the queue. *)
LEMMA GeneratorFlow ==
    ASSUME SinkInv, FlowInv, NEW g \in Generators, Generator(g)
    PROVE  Sent' - BatchRows * queue' = Sent - BatchRows * queue
<1>1. /\ \A h \in Generators \ {g} : Uncounted'[h] = Uncounted[h]
      /\ Uncounted[g] = IF genPc[g] = "count" THEN BatchRows ELSE 0
      /\ Uncounted'[g] = IF genPc'[g] = "count" THEN BatchRows ELSE 0
    <2>1. \A h \in Generators \ {g} : genPc'[h] = genPc[h]
        BY DEF Generator, LoadWritten, LoadActive, LoadFlushed, LoadGenerated, Send,
           SendFails, CountRows, GenGoto, SinkInv, TypeOK
    <2>2. QED
        BY <2>1 DEF Uncounted
<1>2. /\ Uncounted[g] \in Nat /\ Uncounted'[g] \in Nat
      /\ Total(Uncounted) \in Nat /\ Total(Uncounted') \in Nat
      /\ Total(Uncounted') + Uncounted[g] = Total(Uncounted) + Uncounted'[g]
    BY <1>1, UncountedType, GeneratorTotals
<1>3. /\ BatchRows \in Nat /\ queue \in Nat /\ rows_generated \in Nat
      /\ BatchRows * queue \in Nat
    <2>1. BatchRows \in Nat /\ queue \in Nat /\ rows_generated \in Nat
        BY SizeTargetAssumption DEF SinkInv, TypeOK
    <2>2. QED
        BY ONLY <2>1
<1>4. /\ Sent = rows_generated + Total(Uncounted)
      /\ Sent' = rows_generated' + Total(Uncounted')
    BY DEF Sent
<1>5. CASE Send(g)
    <2>1. /\ genPc[g] = "send" /\ genPc'[g] = "count" /\ queue' = queue + 1
          /\ rows_generated' = rows_generated
        BY <1>5 DEF Send, GenGoto, SinkInv, TypeOK, gauges
    <2>2. BatchRows * (queue + 1) = BatchRows * queue + BatchRows
        BY <1>3
    <2>3. Uncounted[g] = 0 /\ Uncounted'[g] = BatchRows
        BY <1>1, <2>1
    <2>4. QED
        BY ONLY <1>2, <1>3, <1>4, <2>1, <2>2, <2>3
<1>6. CASE CountRows(g)
    <2>1. /\ genPc[g] = "count" /\ genPc'[g] = "written" /\ queue' = queue
          /\ rows_generated' = rows_generated + BatchRows
        BY <1>6 DEF CountRows, GenGoto, SinkInv, TypeOK
    <2>2. Uncounted[g] = BatchRows /\ Uncounted'[g] = 0
        BY <1>1, <2>1
    <2>3. QED
        BY ONLY <1>2, <1>3, <1>4, <2>1, <2>2
<1>7. CASE LoadWritten(g) \/ LoadActive(g) \/ LoadFlushed(g) \/ LoadGenerated(g)
           \/ SendFails(g)
    <2>1. /\ genPc[g] # "count" /\ genPc'[g] # "count" /\ queue' = queue
          /\ rows_generated' = rows_generated
        BY <1>7 DEF LoadWritten, LoadActive, LoadFlushed, LoadGenerated, SendFails,
           GenGoto, SinkInv, TypeOK, gauges
    <2>2. Uncounted[g] = 0 /\ Uncounted'[g] = 0
        BY <1>1, <2>1
    <2>3. QED
        BY ONLY <1>2, <1>3, <1>4, <2>1, <2>2
<1>8. QED
    BY <1>5, <1>6, <1>7 DEF Generator

LEMMA GeneratorFlowStep ==
    ASSUME SinkInv, FlowInv, NEW g \in Generators, Generator(g)
    PROVE  FlowInv'
<1>1. /\ UNCHANGED <<workerPc, sinkVars, lost>>
      /\ genPc[g] # "done"
    BY DEF Generator, LoadWritten, LoadActive, LoadFlushed, LoadGenerated, Send,
       SendFails, CountRows
<1>2. ASSUME NEW w \in Workers PROVE StopsLast(w)'
    <2>1. workerPc[w] \notin {"final", "done"}
        BY <1>1 DEF FlowInv, StopsLast, AllGenDone
    <2>2. QED
        BY <1>1, <2>1 DEF StopsLast
<1>3. ASSUME lost' = 0 PROVE \A w \in Workers : LossOk(w)'
    BY <1>1, <1>3, Zenon DEF FlowInv, LossOk, sinkVars
<1>4. ASSUME lost' = 0 PROVE Sent' = BatchRows * queue' + Total(Taken')
    <2>1. Sent = BatchRows * queue + Total(Taken)
        BY <1>1, <1>4 DEF FlowInv
    <2>2. Taken' = Taken
        BY <1>1, Zenon DEF Taken, sinkVars
    <2>3. Sent' - BatchRows * queue' = Sent - BatchRows * queue
        BY GeneratorFlow
    <2>4. Total(Taken) \in Nat
        <3>1. Taken \in [Workers -> Nat]
            BY TakenType DEF SinkInv, TypeOK, SinkTypes
        <3>2. UploadThreads \in Nat
            BY SizeTargetAssumption
        <3>3. Taken \in Seq(Nat)
            BY ONLY <3>1, <3>2, FunctionIsSequence DEF Workers
        <3>4. QED
            BY <3>3, TotalType
    <2>5. BatchRows * queue \in Int /\ BatchRows * queue' \in Int /\ Sent' \in Int
        <3>1. queue' \in 0..QueueDepth /\ rows_generated' \in Nat
            BY GeneratorCounts
        <3>2. BatchRows \in Nat /\ queue \in Nat /\ queue' \in Nat
            BY <3>1, SizeTargetAssumption DEF SinkInv, TypeOK
        <3>3. rows_generated' \in Nat
            BY <3>1
        <3>4. QED
            BY <3>2, <3>3, UncountedType DEF Sent
    <2>6. QED
        BY ONLY <2>1, <2>2, <2>3, <2>4, <2>5
<1>5. QED
    BY <1>2, <1>3, <1>4 DEF FlowInv

LEMMA FlowInit == Init => FlowInv
<1> SUFFICES ASSUME Init PROVE FlowInv
    OBVIOUS
<1>1. ASSUME NEW w \in Workers PROVE StopsLast(w) /\ LossOk(w)
    BY DEF Init, StopsLast, LossOk
<1>2. /\ GenThreads \in Nat /\ UploadThreads \in Nat /\ BatchRows \in Nat
    BY SizeTargetAssumption
<1>3. Total(Uncounted) = 0
    <2>1. Uncounted \in [Generators -> Nat] /\ \A g \in Generators : Uncounted[g] = 0
        BY DEF Init, Uncounted
    <2> HIDE DEF Uncounted
    <2>2. QED
        BY <1>2, <2>1, TotalNone DEF Generators
<1>4. Total(Taken) = 0
    <2>1. Taken \in [Workers -> Nat] /\ \A w \in Workers : Taken[w] = 0
        BY DEF Init, Taken
    <2> HIDE DEF Taken
    <2>2. QED
        BY <1>2, <2>1, TotalNone DEF Workers
<1>5. rows_generated = 0 /\ BatchRows * queue = 0
    BY <1>2 DEF Init
<1>6. Sent = BatchRows * queue + Total(Taken)
    BY <1>3, <1>4, <1>5 DEF Sent
<1>7. QED
    BY <1>1, <1>6 DEF FlowInv

LEMMA FlowStep ==
    ASSUME SinkInv, FlowInv, [Next]_vars
    PROVE  FlowInv'
<1>1. CASE UNCHANGED vars
    BY <1>1, Zenon DEF FlowInv, StopsLast, LossOk, Sent, Uncounted, Taken, AllGenDone,
       vars, genVars, sinkVars, gauges
<1>2. QED
    BY <1>1, GeneratorFlowStep, WorkerFlowStep DEF Next, Stutter

LEMMA FlowInvariant == Spec => [](SinkInv /\ FlowInv)
BY SinkInit, SinkStep, FlowInit, FlowStep, PTL DEF Spec

-----------------------------------------------------------------------------
(* What a generator has read so far, as long as no read was torn. *)
ReadOk(g) ==
    /\ genPc[g] = "active" => produced[g] = bytes_written
    /\ genPc[g] = "flushed" => produced[g] = bytes_written + active_bytes
    /\ genPc[g] = "generated" => produced[g] = flushedSeen[g] /\ produced[g] > 0

(* The third layer: the bytes a generator projects from are as many as the  *)
(* rows it projects them over.                                             *)
ReadInv == ~ torn => ~ Tearing /\ (\A g \in Generators : ReadOk(g))

(* A sink between two batches changes no gauge: only a step that enters or  *)
(* leaves the middle of an update does.                                    *)
LEMMA GaugesHold ==
    ASSUME SinkInv, NEW w \in Workers, Worker(w), ~ MidUpdate(w), ~ MidUpdate(w)'
    PROVE  UNCHANGED <<bytes_written, active_bytes, rows_flushed>>
<1>1. ~ (PublishActive(w) \/ Close(w) \/ ResetActive(w) \/ Abandon(w))
    BY DEF PublishActive, Close, ResetActive, Abandon, WorkerGoto, MidUpdate, SinkInv, TypeOK
<1>2. ~ (PublishFlushed(w) \/ ResetFlushed(w) \/ AbandonFlushed(w))
    BY DEF PublishFlushed, ResetFlushed, AbandonFlushed, MidUpdate
<1>3. CASE Receive(w) \/ QueueClosed(w) \/ Write(w) \/ WriteFails(w) \/ CloseFails(w)
           \/ FinalCloseFails(w) \/ GiveUp(w)
    BY <1>3 DEF Receive, QueueClosed, Write, WriteFails, CloseFails, FinalCloseFails,
       GiveUp, gauges
<1>4. QED
    BY <1>1, <1>2, <1>3 DEF Worker

LEMMA WorkerRead ==
    ASSUME SinkInv, ReadInv, NEW w \in Workers, Worker(w), ~ torn, ~ Tearing',
           NEW g \in Generators
    PROVE  ReadOk(g)'
<1>1. UNCHANGED <<genPc, produced, flushedSeen>>
    BY WorkerMoved DEF Moved, genVars
<1>2. CASE MidRead(g)
    <2>1. ~ MidUpdate(w) /\ ~ MidUpdate(w)'
        BY <1>1, <1>2 DEF ReadInv, Tearing, MidRead
    <2>2. UNCHANGED <<bytes_written, active_bytes, rows_flushed>>
        BY <2>1, GaugesHold
    <2>3. ReadOk(g)
        BY DEF ReadInv
    <2>4. QED
        BY <1>1, <2>2, <2>3, Zenon DEF ReadOk
<1>3. CASE ~ MidRead(g)
    BY <1>1, <1>3 DEF ReadInv, ReadOk, MidRead
<1>4. QED
    BY <1>2, <1>3

(* While a generator is between two loads and no read was torn, the gauges  *)
(* pair.                                                                   *)
LEMMA ReadsPair ==
    ASSUME SinkInv, ReadInv, ~ torn, NEW g \in Generators, MidRead(g)
    PROVE  /\ \A w \in Workers : ~ MidUpdate(w)
           /\ bytes_written + active_bytes = rows_flushed
<1>1. \A w \in Workers : ~ MidUpdate(w)
    BY DEF ReadInv, Tearing
<1>2. QED
    BY <1>1, GaugesPairUp

LEMMA GeneratorRead ==
    ASSUME SinkInv, ReadInv, NEW k \in Generators, Generator(k), ~ torn,
           NEW g \in Generators
    PROVE  ReadOk(g)'
<1>1. UNCHANGED <<bytes_written, active_bytes, rows_flushed>>
    BY DEF Generator, LoadWritten, LoadActive, LoadFlushed, LoadGenerated, Send,
       SendFails, CountRows, gauges
<1>2. ReadOk(g)
    BY DEF ReadInv
<1>3. CASE g # k
    <2>1. /\ genPc'[g] = genPc[g] /\ produced'[g] = produced[g]
          /\ flushedSeen'[g] = flushedSeen[g]
        BY <1>3 DEF Generator, LoadWritten, LoadActive, LoadFlushed, LoadGenerated,
           Send, SendFails, CountRows, GenGoto, SinkInv, TypeOK
    <2>2. QED
        BY <1>1, <1>2, <2>1, Zenon DEF ReadOk
<1>4. CASE g = k
    <2>1. CASE LoadWritten(k)
        BY <1>1, <1>4, <2>1 DEF LoadWritten, GenGoto, SinkInv, TypeOK, ReadOk
    <2>2. CASE LoadActive(k)
        <3>1. /\ genPc'[g] \in {"done", "flushed"} /\ genPc[g] = "active"
              /\ produced'[g] = produced[g] + active_bytes
            BY <1>4, <2>2 DEF LoadActive, GenGoto, SinkInv, TypeOK
        <3>2. QED
            BY <1>1, <1>2, <3>1 DEF ReadOk
    <2>3. CASE LoadFlushed(k)
        <3>1. /\ genPc[g] = "flushed" /\ produced'[g] = produced[g]
              /\ flushedSeen'[g] = rows_flushed
              /\ \/ genPc'[g] = "send"
                 \/ genPc'[g] = "generated" /\ produced[g] # 0
            BY <1>4, <2>3 DEF LoadFlushed, GenGoto, SinkInv, TypeOK
        <3>2. produced[g] = rows_flushed
            BY <1>2, <3>1, ReadsPair DEF ReadOk, MidRead
        <3>3. produced[g] \in Nat
            BY DEF SinkInv, TypeOK
        <3>4. QED
            BY <3>1, <3>2, <3>3 DEF ReadOk
    <2>4. CASE LoadGenerated(k) \/ Send(k) \/ SendFails(k) \/ CountRows(k)
        <3>1. genPc'[g] \in {"done", "send", "count", "written"}
            BY <1>4, <2>4 DEF LoadGenerated, Send, SendFails, CountRows, GenGoto, SinkInv,
               TypeOK
        <3>2. QED
            BY <3>1 DEF ReadOk
    <2>5. QED
        BY <2>1, <2>2, <2>3, <2>4 DEF Generator
<1>5. QED
    BY <1>3, <1>4

LEMMA ReadStep ==
    ASSUME SinkInv, ReadInv, [Next]_vars
    PROVE  ReadInv'
<1>1. CASE UNCHANGED vars
    BY <1>1, Zenon DEF ReadInv, ReadOk, Tearing, MidUpdate, MidRead, vars, genVars, gauges
<1>2. CASE /\ (\E g \in Generators : Generator(g)) \/ (\E w \in Workers : Worker(w))
           /\ torn' = (torn \/ Tearing')
    <2>1. SUFFICES ASSUME ~ torn' PROVE ~ Tearing' /\ (\A g \in Generators : ReadOk(g)')
        BY DEF ReadInv
    <2>2. ~ torn /\ ~ Tearing'
        BY <1>2, <2>1 DEF SinkInv, TypeOK
    <2>3. QED
        BY <1>2, <2>2, GeneratorRead, WorkerRead
<1>3. QED
    BY <1>1, <1>2 DEF Next, Stutter

LEMMA ReadInit == Init => ReadInv
BY DEF Init, ReadInv, ReadOk, Tearing, MidUpdate, MidRead

-----------------------------------------------------------------------------
(* The fourth layer: a generator stops when enough rows have been sent.    *)
StopInv ==
    ~ torn /\ lost = 0 => \A g \in Generators : genPc[g] = "done" => Sent >= Target

(* When as many bytes as rows are known, the projection is the row count. *)
LEMMA ProjectOneByteRows ==
    ASSUME NEW p \in Nat, p > 0, NEW r \in Nat
    PROVE  (p * r) \div p = r
<1> DEFINE q == (p * r) \div p
           m == (p * r) % p
<1>1. p * r \in Nat
    OBVIOUS
<1>2. q \in Int /\ m \in 0..p - 1 /\ p * r = p * q + m
    BY <1>1
<1> HIDE DEF q, m
<1>3. CASE q < r
    <2>1. PICK d \in Nat : r = (q + 1) + d
        BY <1>2, <1>3
    <2>2. p * r = p * q + p + p * d /\ p * d >= 0
        BY <1>2, <2>1
    <2>3. QED
        BY <1>2, <2>2
<1>4. CASE q > r
    <2>1. PICK d \in Nat : q = (r + 1) + d
        BY <1>2, <1>4
    <2>2. p * q = p * r + p + p * d /\ p * d >= 0
        BY <1>2, <2>1
    <2>3. QED
        BY <1>2, <2>2
<1>5. QED
    BY <1>2, <1>3, <1>4 DEF q

(* Rows are sent and never unsent. *)
LEMMA SentGrows ==
    ASSUME SinkInv, FlowInv, NEW g \in Generators, Generator(g)
    PROVE  Sent' >= Sent /\ Sent \in Nat /\ Sent' \in Nat
<1>1. Sent' - BatchRows * queue' = Sent - BatchRows * queue
    BY GeneratorFlow
<1>2. queue' = queue \/ queue' = queue + 1
    BY DEF Generator, LoadWritten, LoadActive, LoadFlushed, LoadGenerated, Send,
       SendFails, CountRows
<1>3. BatchRows \in Nat /\ queue \in Nat /\ rows_generated \in Nat
    BY SizeTargetAssumption DEF SinkInv, TypeOK
<1>4. Sent \in Nat /\ Sent' \in Nat
    BY <1>3, GeneratorCounts, UncountedType DEF Sent
<1>5. BatchRows * (queue + 1) = BatchRows * queue + BatchRows /\ BatchRows * queue \in Int
    BY <1>3
<1>6. QED
    BY ONLY <1>1, <1>2, <1>3, <1>4, <1>5

(* No row encoded goes uncounted among those sent. *)
LEMMA EncodedRowsWereSent ==
    ASSUME SinkInv, FlowInv, lost = 0, \A w \in Workers : ~ MidUpdate(w)
    PROVE  rows_flushed <= Sent
<1>1. ASSUME NEW w \in Workers PROVE reportedFlushed[w] <= Taken[w]
    <2> USE DEF Values
    <2>1. Values(w)
        BY WorkerValues
    <2>2. reportedFlushed[w] <= rowsSeen[w]
        <3>1. reportedFlushed[w] = (rowsSeen[w] - rowsInActive[w]) + reportedActive[w]
            BY CellPairs
        <3>2. workerPc[w] \in UpToDate \cup {"publishActive"}
            BY DEF SinkInv, TypeOK, WorkerPcs, MidUpdate, UpToDate
        <3>3. reportedActive[w] <= rowsInActive[w]
            BY <2>1, <3>2 DEF CellOk
        <3>4. QED
            BY <2>1, <3>1, <3>3
    <2>3. Taken[w] = rowsSeen[w] \/ Taken[w] = rowsSeen[w] + BatchRows
        BY <2>1 DEF Taken
    <2>4. BatchRows \in Nat
        BY SizeTargetAssumption
    <2>5. QED
        BY <2>1, <2>2, <2>3, <2>4
<1>2. /\ UploadThreads \in Nat /\ reportedFlushed \in [1..UploadThreads -> Nat]
      /\ Taken \in [1..UploadThreads -> Nat]
      /\ \A w \in 1..UploadThreads : reportedFlushed[w] <= Taken[w]
    <2>1. SinkTypes
        BY DEF SinkInv, TypeOK, SinkTypes
    <2>2. Taken \in [Workers -> Nat]
        BY <2>1, TakenType
    <2>3. UploadThreads \in Nat
        BY SizeTargetAssumption
    <2>4. QED
        BY <1>1, <2>1, <2>2, <2>3, Zenon DEF SinkTypes, Workers
<1>3. Total(reportedFlushed) <= Total(Taken)
    BY ONLY <1>2, TotalMonotone
<1>4. Total(reportedFlushed) \in Nat /\ Total(Taken) \in Nat
    BY <1>2, FunctionIsSequence, TotalType
<1>5. BatchRows * queue >= 0 /\ BatchRows * queue \in Int
    <2>1. BatchRows \in Nat /\ queue \in Nat
        BY SizeTargetAssumption DEF SinkInv, TypeOK
    <2>2. QED
        BY <2>1
<1>6. Sent = BatchRows * queue + Total(Taken) /\ rows_flushed = Total(reportedFlushed)
    BY DEF FlowInv, SinkInv, GaugesAdd
<1>7. QED
    BY ONLY <1>3, <1>4, <1>5, <1>6

(* While no row is lost some worker is left to send to. *)
LEMMA SendSucceeds ==
    ASSUME SinkInv, FlowInv, lost = 0, NEW g \in Generators, genPc[g] # "done"
    PROVE  ~ AllWorkersStopped
<1>1. 1 \in Workers
    BY SizeTargetAssumption DEF Workers
<1>2. workerPc[1] \notin {"done", "failed"}
    BY <1>1 DEF FlowInv, LossOk, StopsLast, AllGenDone
<1>3. QED
    BY <1>1, <1>2 DEF AllWorkersStopped

(* A generator that stops has seen enough. *)
LEMMA GeneratorStops ==
    ASSUME SinkInv, FlowInv, ReadInv, NEW g \in Generators, Generator(g), ~ torn,
           lost = 0, genPc'[g] = "done"
    PROVE  Sent' >= Target
<1>1. Sent' >= Sent /\ Sent \in Nat /\ Sent' \in Nat /\ Target \in Nat
    BY SentGrows, SizeTargetAssumption
<1>2. ReadOk(g)
    BY DEF ReadInv
<1>3. CASE LoadActive(g)
    <2>1. genPc[g] = "active" /\ produced[g] + active_bytes >= Target
        BY <1>3 DEF LoadActive, GenGoto, SinkInv, TypeOK
    <2>2. produced[g] = bytes_written
        BY <1>2, <2>1 DEF ReadOk
    <2>3. /\ \A w \in Workers : ~ MidUpdate(w)
          /\ bytes_written + active_bytes = rows_flushed
        BY <2>1, ReadsPair DEF MidRead
    <2>4. rows_flushed <= Sent /\ rows_flushed \in Nat
        BY <2>3, EncodedRowsWereSent DEF SinkInv, TypeOK
    <2>5. rows_flushed >= Target
        BY <2>1, <2>2, <2>3
    <2>6. QED
        BY ONLY <1>1, <2>4, <2>5
<1>4. CASE LoadGenerated(g)
    <2>1. genPc[g] = "generated" /\ Projected(g) >= Target
        BY <1>4 DEF LoadGenerated, GenGoto, SinkInv, TypeOK
    <2>2. produced[g] = flushedSeen[g] /\ produced[g] > 0
        BY <1>2, <2>1 DEF ReadOk
    <2>3. produced[g] \in Nat /\ rows_generated \in Nat
        BY DEF SinkInv, TypeOK
    <2>4. Projected(g) = rows_generated
        BY <2>2, <2>3, ProjectOneByteRows DEF Projected
    <2>5. rows_generated <= Sent
        BY <2>3, UncountedType DEF Sent
    <2>6. QED
        BY ONLY <1>1, <2>1, <2>3, <2>4, <2>5
<1>5. CASE SendFails(g)
    BY <1>5, SendSucceeds DEF SendFails, NoReceivers
<1>6. CASE LoadWritten(g) \/ LoadFlushed(g) \/ Send(g) \/ CountRows(g)
    BY <1>6 DEF LoadWritten, LoadFlushed, Send, CountRows, GenGoto, SinkInv, TypeOK
<1>7. QED
    BY <1>3, <1>4, <1>5, <1>6 DEF Generator

(* What a step of a worker leaves alone. *)
LEMMA WorkerKeeps ==
    ASSUME SinkInv, FlowInv, NEW w \in Workers, Worker(w)
    PROVE  /\ genPc' = genPc /\ rows_generated' = rows_generated /\ Sent' = Sent
           /\ lost' = 0 => lost = 0
<1>1. Moved(w)
    BY WorkerMoved
<1>2. genPc' = genPc /\ rows_generated' = rows_generated
    BY <1>1 DEF Moved, genVars
<1>3. Sent' = Sent
    BY <1>2 DEF Sent, Uncounted
<1>4. lost' = 0 => lost = 0
    BY <1>1, WorkerFlow
<1>5. QED
    BY <1>2, <1>3, <1>4

LEMMA StopStep ==
    ASSUME SinkInv, FlowInv, ReadInv, StopInv, [Next]_vars
    PROVE  StopInv'
<1>1. CASE UNCHANGED vars
    BY <1>1, Zenon DEF StopInv, Sent, Uncounted, vars, genVars, gauges
<1>2. ASSUME torn' = (torn \/ Tearing'), ~ torn' PROVE ~ torn
    BY <1>2 DEF SinkInv, TypeOK
<1>3. ASSUME NEW k \in Generators, Generator(k), ~ torn, lost' = 0,
             NEW g \in Generators, genPc'[g] = "done"
      PROVE  Sent' >= Target
    <2>1. lost = 0
        BY <1>3, GeneratorCounts DEF Generator, LoadWritten, LoadActive, LoadFlushed,
           LoadGenerated, Send, SendFails, CountRows
    <2>2. CASE g = k
        BY <1>3, <2>1, <2>2, GeneratorStops
    <2>3. CASE g # k
        <3>1. genPc'[g] = genPc[g]
            BY <1>3, <2>3 DEF Generator, LoadWritten, LoadActive, LoadFlushed,
               LoadGenerated, Send, SendFails, CountRows, GenGoto, SinkInv, TypeOK
        <3>2. Sent >= Target
            BY <1>3, <2>1, <3>1 DEF StopInv
        <3>3. Sent' >= Sent /\ Sent \in Nat /\ Sent' \in Nat /\ Target \in Nat
            BY <1>3, SentGrows, SizeTargetAssumption
        <3>4. QED
            BY ONLY <3>2, <3>3
    <2>4. QED
        BY <2>2, <2>3
<1>4. CASE (\E g \in Generators : Generator(g)) /\ torn' = (torn \/ Tearing')
    BY <1>2, <1>3, <1>4 DEF StopInv
<1>5. CASE (\E w \in Workers : Worker(w)) /\ torn' = (torn \/ Tearing')
    BY <1>2, <1>5, WorkerKeeps DEF StopInv
<1>6. QED
    BY <1>1, <1>4, <1>5 DEF Next, Stutter

LEMMA StopInit == Init => StopInv
BY DEF Init, StopInv

LEMMA StopInvariant == Spec => [](SinkInv /\ FlowInv /\ ReadInv /\ StopInv)
BY SinkInit, SinkStep, FlowInit, FlowStep, ReadInit, ReadStep, StopInit, StopStep, PTL
   DEF Spec

(* Generation does not stop short: a run that lost nothing and whose        *)
(* generators never read the gauges in the middle of an update ends with   *)
(* the bytes it was asked for in storage (reached_size_target).            *)
THEOREM TargetIsReached == Spec => []TargetReached
<1>1. ASSUME SinkInv, FlowInv, StopInv, Ended, ~ torn, lost = 0
      PROVE  bytes_written >= Target
    <2>1. 1 \in Generators /\ 1 \in Workers
        BY SizeTargetAssumption DEF Generators, Workers
    <2>2. Sent >= Target
        BY <1>1, <2>1 DEF StopInv, Ended, AllGenDone
    <2>3. \A w \in Workers : workerPc[w] = "done" /\ rowsInActive[w] = 0
        BY <1>1 DEF Ended, AllWorkersStopped, FlowInv, LossOk
    <2>4. queue = 0
        BY <1>1, <2>1, <2>3 DEF FlowInv, StopsLast
    <2>5. Taken = Stored
        <3>1. ASSUME NEW w \in Workers
              PROVE  rowsSeen[w] + (IF workerPc[w] = "write" THEN BatchRows ELSE 0)
                        = rowsSeen[w] - rowsInActive[w]
            BY <1>1, <2>3 DEF SinkInv, TypeOK
        <3>2. QED
            BY <3>1 DEF Taken, Stored
    <2>6. Sent = BatchRows * 0 + Total(Stored)
        BY <1>1, <2>4, <2>5 DEF FlowInv
    <2>7. bytes_written = Total(Stored) /\ bytes_written \in Nat
        BY <1>1 DEF SinkInv, GaugesAdd, TypeOK
    <2>8. BatchRows * 0 = 0
        BY SizeTargetAssumption
    <2>9. QED
        BY ONLY <2>2, <2>6, <2>7, <2>8
<1>2. SinkInv /\ FlowInv /\ StopInv => TargetReached
    BY <1>1 DEF TargetReached
<1>3. QED
    BY <1>2, StopInvariant, PTL

-----------------------------------------------------------------------------
(* Rows the generators are about to send or have not counted yet. *)
Sending == [g \in Generators |-> IF genPc[g] \in {"send", "count"} THEN BatchRows ELSE 0]

Started == rows_generated + Total(Sending)

(* The fifth layer: a generator starts a batch only when the rows counted   *)
(* are below the target, or when no row is encoded yet.                    *)
StartInv ==
    ~ torn /\ lost = 0 =>
        \/ Started <= Target + GenThreads * BatchRows
        \/ Started <= Blind + GenThreads * BatchRows

LEMMA SendingType ==
    /\ Sending \in [Generators -> Nat] /\ Total(Sending) \in Nat
    /\ Sending' \in [Generators -> Nat] /\ Total(Sending') \in Nat
    /\ Total(Sending') <= GenThreads * BatchRows
    /\ GenThreads * BatchRows \in Nat
<1>1. GenThreads \in Nat /\ BatchRows \in Nat
    BY SizeTargetAssumption
<1>2. /\ Sending \in [1..GenThreads -> Nat] /\ Sending' \in [1..GenThreads -> Nat]
      /\ \A g \in 1..GenThreads : Sending'[g] <= BatchRows
    BY <1>1 DEF Sending, Generators
<1> HIDE DEF Sending
<1>3. Sending \in Seq(Nat) /\ Sending' \in Seq(Nat)
    BY ONLY <1>1, <1>2, FunctionIsSequence
<1>4. Total(Sending') <= GenThreads * BatchRows
    BY ONLY <1>1, <1>2, TotalAtMost
<1>5. GenThreads * BatchRows \in Nat
    BY <1>1
<1>6. QED
    BY <1>2, <1>3, <1>4, <1>5, TotalType DEF Generators

(* Sending and counting a batch that was started starts nothing. *)
LEMMA StartedHolds ==
    ASSUME SinkInv, NEW k \in Generators, Generator(k),
           genPc[k] \in {"send", "count"} \/ genPc'[k] \notin {"send", "count"}
    PROVE  Started' <= Started /\ Started \in Nat /\ Started' \in Nat
<1>1. /\ \A h \in Generators \ {k} : Sending'[h] = Sending[h]
      /\ Sending[k] = IF genPc[k] \in {"send", "count"} THEN BatchRows ELSE 0
      /\ Sending'[k] = IF genPc'[k] \in {"send", "count"} THEN BatchRows ELSE 0
    <2>1. \A h \in Generators \ {k} : genPc'[h] = genPc[h]
        BY DEF Generator, LoadWritten, LoadActive, LoadFlushed, LoadGenerated, Send,
           SendFails, CountRows, GenGoto, SinkInv, TypeOK
    <2>2. QED
        BY <2>1 DEF Sending
<1>2. /\ Sending[k] \in Nat /\ Sending'[k] \in Nat
      /\ Total(Sending) \in Nat /\ Total(Sending') \in Nat
      /\ Total(Sending') + Sending[k] = Total(Sending) + Sending'[k]
    BY <1>1, SendingType, GeneratorTotals
<1>3. BatchRows \in Nat /\ rows_generated \in Nat /\ rows_generated' \in Nat
    BY SizeTargetAssumption, GeneratorCounts DEF SinkInv, TypeOK
<1>4. Started = rows_generated + Total(Sending)
      /\ Started' = rows_generated' + Total(Sending')
    BY DEF Started
<1>5. CASE CountRows(k)
    <2>1. /\ genPc[k] = "count" /\ genPc'[k] = "written"
          /\ rows_generated' = rows_generated + BatchRows
        BY <1>5 DEF CountRows, GenGoto, SinkInv, TypeOK
    <2>2. Sending[k] = BatchRows /\ Sending'[k] = 0
        BY <1>1, <2>1
    <2>3. QED
        BY ONLY <1>2, <1>3, <1>4, <2>1, <2>2
<1>6. CASE ~ CountRows(k)
    <2>1. rows_generated' = rows_generated
        BY <1>6 DEF Generator, LoadWritten, LoadActive, LoadFlushed, LoadGenerated, Send,
           SendFails, gauges
    <2>2. Sending'[k] <= Sending[k]
        BY <1>1, <1>3
    <2>3. QED
        BY ONLY <1>2, <1>3, <1>4, <2>1, <2>2
<1>7. QED
    BY <1>5, <1>6

(* Before any row is encoded a sink holds less than a row group and a batch. *)
LEMMA BlindRows ==
    ASSUME SinkInv, FlowInv, lost = 0, rows_flushed = 0,
           \A w \in Workers : ~ MidUpdate(w)
    PROVE  Sent <= Blind /\ Blind \in Nat
<1>1. /\ UploadThreads \in Nat /\ BatchRows \in Nat /\ RowGroupRows \in Nat
      /\ RowGroupRows > 0 /\ QueueDepth \in Nat /\ SinkTypes
    BY SizeTargetAssumption DEF SinkInv, TypeOK, SinkTypes
<1>2. ASSUME NEW w \in Workers PROVE Taken[w] <= RowGroupRows + BatchRows
    <2> USE DEF Values
    <2>1. Values(w)
        BY WorkerValues
    <2>2. reportedFlushed[w] = 0
        <3>1. reportedFlushed[w] <= Total(reportedFlushed) /\ reportedFlushed[w] \in Nat
            BY <1>1, WorkerTotals DEF SinkTypes
        <3>2. Total(reportedFlushed) = 0
            BY DEF SinkInv, GaugesAdd
        <3>3. QED
            BY <3>1, <3>2
    <2>3. CASE workerPc[w] \in UpToDate
        <3>1. rowsSeen[w] = pending[w]
            BY <2>1, <2>2, <2>3 DEF CellOk
        <3>2. Taken[w] = rowsSeen[w] \/ Taken[w] = rowsSeen[w] + BatchRows
            BY <2>1 DEF Taken
        <3>3. QED
            BY <1>1, <2>1, <3>1, <3>2
    <2>4. CASE workerPc[w] = "publishActive"
        <3>1. rowsSeen[w] <= (RowGroupRows - 1) + BatchRows
            BY <1>1, <2>1, <2>2, <2>4 DEF CellOk
        <3>2. Taken[w] = rowsSeen[w]
            BY <2>1, <2>4 DEF Taken
        <3>3. QED
            BY <1>1, <2>1, <3>1, <3>2
    <2>5. workerPc[w] \in UpToDate \cup {"publishActive"}
        BY DEF SinkInv, TypeOK, WorkerPcs, MidUpdate, UpToDate
    <2>6. QED
        BY <2>3, <2>4, <2>5
<1>3. Total(Taken) <= UploadThreads * (RowGroupRows + BatchRows) /\ Total(Taken) \in Nat
    <2>1. Taken \in [1..UploadThreads -> Nat]
        BY <1>1, TakenType DEF Workers
    <2>2. \A w \in 1..UploadThreads : Taken[w] <= RowGroupRows + BatchRows
        BY <1>2 DEF Workers
    <2>3. RowGroupRows + BatchRows \in Nat
        BY <1>1
    <2>4. Taken \in Seq(Nat)
        BY <1>1, <2>1, FunctionIsSequence
    <2>5. QED
        BY ONLY <1>1, <2>1, <2>2, <2>3, <2>4, TotalAtMost, TotalType
<1>4. BatchRows * queue <= QueueDepth * BatchRows /\ BatchRows * queue \in Int
      /\ QueueDepth * BatchRows \in Nat
    <2>1. queue \in Nat /\ queue <= QueueDepth
        BY <1>1 DEF SinkInv, TypeOK
    <2>2. PICK d \in Nat : QueueDepth = queue + d
        BY <1>1, <2>1
    <2>3. QueueDepth * BatchRows = BatchRows * queue + d * BatchRows /\ d * BatchRows >= 0
        BY <1>1, <2>1, <2>2
    <2>4. BatchRows * queue \in Int /\ QueueDepth * BatchRows \in Nat /\ d * BatchRows \in Int
        BY <1>1, <2>1, <2>2
    <2>5. QED
        BY ONLY <2>3, <2>4
<1>5. UploadThreads * (RowGroupRows + BatchRows) \in Nat
    <2>1. RowGroupRows + BatchRows \in Nat
        BY <1>1
    <2>2. QED
        BY <1>1, <2>1
<1>6. Sent = BatchRows * queue + Total(Taken)
    BY DEF FlowInv
<1>7. Blind = UploadThreads * (RowGroupRows + BatchRows) + QueueDepth * BatchRows
    BY DEF Blind
<1>8. QED
    BY ONLY <1>3, <1>4, <1>5, <1>6, <1>7

(* A generator that starts a batch. *)
LEMMA BatchStarts ==
    ASSUME SinkInv, FlowInv, ReadInv, NEW k \in Generators, Generator(k), ~ torn,
           lost = 0, genPc[k] \notin {"send", "count"}, genPc'[k] \in {"send", "count"}
    PROVE  \/ Started' <= Target + GenThreads * BatchRows
           \/ Started' <= Blind + GenThreads * BatchRows
<1>1. /\ Total(Sending') \in Nat /\ GenThreads * BatchRows \in Nat
      /\ Total(Sending') <= GenThreads * BatchRows
    BY SendingType
<1>2. Target \in Nat /\ rows_generated \in Nat /\ produced[k] \in Nat
    BY SizeTargetAssumption DEF SinkInv, TypeOK
<1>3. Started' = rows_generated' + Total(Sending')
    BY DEF Started
<1>4. ReadOk(k)
    BY DEF ReadInv
<1>5. CASE LoadGenerated(k)
    <2>1. /\ genPc[k] = "generated" /\ ~ (Projected(k) >= Target)
          /\ rows_generated' = rows_generated
        BY <1>5 DEF LoadGenerated, GenGoto, SinkInv, TypeOK, gauges
    <2>2. produced[k] = flushedSeen[k] /\ produced[k] > 0
        BY <1>4, <2>1 DEF ReadOk
    <2>3. Projected(k) = rows_generated
        BY <1>2, <2>2, ProjectOneByteRows DEF Projected
    <2>4. QED
        BY ONLY <1>1, <1>2, <1>3, <2>1, <2>3
<1>6. CASE LoadFlushed(k)
    <2>1. /\ genPc[k] = "flushed" /\ (rows_flushed = 0 \/ produced[k] = 0)
          /\ rows_generated' = rows_generated
        BY <1>6 DEF LoadFlushed, GenGoto, SinkInv, TypeOK, gauges
    <2>2. /\ \A w \in Workers : ~ MidUpdate(w)
          /\ bytes_written + active_bytes = rows_flushed
        BY <2>1, ReadsPair DEF MidRead
    <2>3. rows_flushed = 0
        BY <1>4, <2>1, <2>2 DEF ReadOk
    <2>4. Sent <= Blind /\ Blind \in Nat
        BY <2>2, <2>3, BlindRows
    <2>5. Sent = rows_generated + Total(Uncounted) /\ Total(Uncounted) \in Nat
        BY UncountedType DEF Sent
    <2>6. QED
        BY ONLY <1>1, <1>2, <1>3, <2>1, <2>4, <2>5
<1>7. CASE LoadWritten(k) \/ LoadActive(k) \/ Send(k) \/ SendFails(k) \/ CountRows(k)
    BY <1>7 DEF LoadWritten, LoadActive, Send, SendFails, CountRows, GenGoto, SinkInv,
       TypeOK
<1>8. QED
    BY <1>5, <1>6, <1>7 DEF Generator

LEMMA StartStep ==
    ASSUME SinkInv, FlowInv, ReadInv, StartInv, [Next]_vars
    PROVE  StartInv'
<1>1. CASE UNCHANGED vars
    BY <1>1, Zenon DEF StartInv, Started, Sending, vars, genVars, gauges
<1>2. ASSUME torn' = (torn \/ Tearing'), ~ torn' PROVE ~ torn
    BY <1>2 DEF SinkInv, TypeOK
<1>3. ASSUME NEW k \in Generators, Generator(k), ~ torn, lost' = 0
      PROVE  \/ Started' <= Target + GenThreads * BatchRows
             \/ Started' <= Blind + GenThreads * BatchRows
    <2>1. lost = 0
        BY <1>3 DEF Generator, LoadWritten, LoadActive, LoadFlushed,
           LoadGenerated, Send, SendFails, CountRows
    <2>2. CASE genPc[k] \in {"send", "count"} \/ genPc'[k] \notin {"send", "count"}
        <3>1. Started' <= Started /\ Started \in Nat /\ Started' \in Nat
            BY <1>3, <2>2, StartedHolds
        <3>2. \/ Started <= Target + GenThreads * BatchRows
              \/ Started <= Blind + GenThreads * BatchRows
            BY <1>3, <2>1 DEF StartInv
        <3>3. Target + GenThreads * BatchRows \in Int
            BY SendingType, SizeTargetAssumption
        <3>4. Blind + GenThreads * BatchRows \in Int
            <4>1. /\ UploadThreads \in Int /\ RowGroupRows + BatchRows \in Int
                  /\ QueueDepth \in Int /\ BatchRows \in Int
                BY SizeTargetAssumption
            <4>2. QED
                BY <4>1, SendingType DEF Blind
        <3>5. QED
            BY ONLY <3>1, <3>2, <3>3, <3>4
    <2>3. CASE genPc[k] \notin {"send", "count"} /\ genPc'[k] \in {"send", "count"}
        BY <1>3, <2>1, <2>3, BatchStarts
    <2>4. QED
        BY <2>2, <2>3
<1>4. CASE (\E g \in Generators : Generator(g)) /\ torn' = (torn \/ Tearing')
    BY <1>2, <1>3, <1>4 DEF StartInv, Blind
<1>5. CASE (\E w \in Workers : Worker(w)) /\ torn' = (torn \/ Tearing')
    <2>1. PICK w \in Workers : Worker(w)
        BY <1>5
    <2>2. genPc' = genPc /\ rows_generated' = rows_generated /\ (lost' = 0 => lost = 0)
        BY <2>1, WorkerKeeps
    <2>3. Started' = Started
        BY <2>2 DEF Started, Sending
    <2>4. QED
        BY <1>2, <1>5, <2>2, <2>3 DEF StartInv, Blind
<1>6. QED
    BY <1>1, <1>4, <1>5 DEF Next, Stutter

LEMMA StartInit == Init => StartInv
<1> SUFFICES ASSUME Init PROVE StartInv
    OBVIOUS
<1>1. GenThreads \in Nat /\ BatchRows \in Nat /\ Target \in Nat
    BY SizeTargetAssumption
<1>2. Total(Sending) = 0
    <2>1. Sending \in [1..GenThreads -> Nat] /\ \A g \in 1..GenThreads : Sending[g] = 0
        BY <1>1 DEF Init, Sending, Generators
    <2> HIDE DEF Sending
    <2>2. QED
        BY ONLY <1>1, <2>1, TotalNone
<1>3. Started = 0
    BY <1>2 DEF Init, Started
<1>4. GenThreads * BatchRows \in Nat
    BY <1>1
<1>5. QED
    BY <1>1, <1>3, <1>4 DEF StartInv

LEMMA StartInvariant == Spec => [](SinkInv /\ FlowInv /\ ReadInv /\ StartInv)
BY SinkInit, SinkStep, FlowInit, FlowStep, ReadInit, ReadStep, StartInit, StartStep, PTL
   DEF Spec

(* The overshoot is bounded: as long as no row was lost and no read torn,   *)
(* the rows generated exceed the target, or what fits in the queue and in   *)
(* half-built row groups before any size is known, by at most one batch     *)
(* per generator (reached_size_target is asked before every batch).        *)
THEOREM OvershootIsBounded == Spec => []OvershootBounded
<1>1. ASSUME SinkInv, StartInv, ~ torn, lost = 0
      PROVE  \/ rows_generated <= Target + GenThreads * BatchRows
             \/ rows_generated <= Blind + GenThreads * BatchRows
    <2>1. Started = rows_generated + Total(Sending) /\ Total(Sending) \in Nat
        BY SendingType DEF Started
    <2>2. \/ Started <= Target + GenThreads * BatchRows
          \/ Started <= Blind + GenThreads * BatchRows
        BY <1>1 DEF StartInv
    <2>3. rows_generated \in Nat /\ Target + GenThreads * BatchRows \in Int
        BY <1>1, SendingType, SizeTargetAssumption DEF SinkInv, TypeOK
    <2>4. Blind + GenThreads * BatchRows \in Int
        <3>1. /\ UploadThreads \in Int /\ RowGroupRows + BatchRows \in Int
              /\ QueueDepth \in Int /\ BatchRows \in Int
            BY SizeTargetAssumption
        <3>2. QED
            BY <3>1, SendingType DEF Blind
    <2>5. QED
        BY ONLY <2>1, <2>2, <2>3, <2>4
<1>2. SinkInv /\ StartInv => OvershootBounded
    BY <1>1 DEF OvershootBounded, Blind
<1>3. QED
    BY <1>2, StartInvariant, PTL
=============================================================================
