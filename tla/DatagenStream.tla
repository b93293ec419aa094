--------------------------- MODULE DatagenStream ---------------------------
(***************************************************************************)
(* The pipeline of the vendored crate (run in vendor/datagen/src/stream.rs *)
(* and the sinks under vendor/datagen/src/sink): producers reserve rows    *)
(* and send batches, or the error that ended them, through one bounded     *)
(* queue; each sink thread writes what it receives to a sink of its own;   *)
(* run joins the sink threads in order and never waits for producers.      *)
(*                                                                         *)
(* A batch is its number of rows.  Where the sinks differ is kept: files   *)
(* and objects (the console is a file that never rotates), Parquet, which  *)
(* buffers a row group, and Kafka, which waits for acknowledgements.       *)
(* Whether a file is full is a free choice.  The lock around the receiver  *)
(* is left out: which of the waiting threads holds it makes no difference. *)
(* Rate limits only delay.                                                 *)
(***************************************************************************)
EXTENDS Naturals, Sequences, Totals

CONSTANTS
    Threads, SinkThreads, QueueDepth, BatchRows, Rows,
    RowGroupRows,   (* rows a Parquet sink buffers                         *)
    MaxInFlight,    (* records a Kafka sink waits for at most              *)
    HasTimeLimit,
    Kinds           (* kinds of sink the configuration may ask for         *)

ASSUME DatagenStreamAssumption ==
    /\ Threads \in Nat \ {0}
    /\ SinkThreads \in Nat \ {0}
    /\ QueueDepth \in Nat \ {0}
    /\ BatchRows \in Nat \ {0}
    /\ Rows \in Nat
    /\ RowGroupRows \in Nat \ {0}
    /\ MaxInFlight \in Nat \ {0}
    /\ HasTimeLimit \in BOOLEAN
    /\ Kinds \subseteq {"file", "parquet", "kafka"}

Producers == 1..Threads
Sinks == 1..SinkThreads

(* A message is a batch, which has rows, or a producer's error.            *)
Failure == 0

VARIABLES
    remaining, queue,
    producerPc, hand,   (* per producer; rows of the batch it builds       *)
    pc,                 (* per sink thread: its place in consumer_loop     *)
    batch,              (* rows received and not yet counted               *)
    summary,            (* rows the thread will report                     *)
    failed,             (* has the thread met an error?                    *)
    finishing,          (* is its sink finishing?                          *)
    sink,               (* the sink's own state                            *)
    kind,
    stop, expired,
    mainPc, next,       (* run, and the thread it spawns or joins next     *)
    dropped             (* history: reserved rows no sink ever counted     *)

producers == <<producerPc, hand>>
threads == <<pc, batch, summary, failed, finishing>>
control == <<kind, stop, expired, mainPc, next>>
vars == <<remaining, queue, producers, threads, sink, control, dropped>>

SinkState == [
    open : BOOLEAN,
    rows : Nat,         (* rows in the open file                           *)
    moving : Nat,       (* rows on their way into it                       *)
    buffered : Nat,     (* Parquet: rows waiting for a row group           *)
    flying : Nat,       (* Kafka: records without an acknowledgement       *)
    files : Nat,        (* files opened                                    *)
    safe : Nat]         (* rows in closed files, records acknowledged      *)

ThreadPcs == {"new", "check", "recv", "row", "decode", "append", "settle",
              "flush", "finish", "create", "close", "drain", "ok", "err"}

Ended(s) == pc[s] \in {"ok", "err"}
Returned == mainPc \in {"ok", "err"}

(* The receiver lives in what run and the sink threads share. *)
Closed == Returned /\ \A s \in Sinks : pc[s] = "new" \/ Ended(s)

TypeOK ==
    /\ remaining \in 0..Rows
    /\ queue \in Seq(0..BatchRows) /\ Len(queue) <= QueueDepth
    /\ producerPc \in [Producers -> {"reserve", "build", "report", "done"}]
    /\ hand \in [Producers -> 0..BatchRows]
    /\ pc \in [Sinks -> ThreadPcs]
    /\ batch \in [Sinks -> 0..BatchRows]
    /\ summary \in [Sinks -> 0..Rows]
    /\ failed \in [Sinks -> BOOLEAN] /\ finishing \in [Sinks -> BOOLEAN]
    /\ sink \in [Sinks -> SinkState]
    /\ \A s \in Sinks : sink[s].flying <= MaxInFlight /\ sink[s].buffered <= RowGroupRows
    /\ kind \in Kinds
    /\ stop \in BOOLEAN /\ expired \in BOOLEAN
    /\ mainPc \in {"spawn", "join", "ok", "err"}
    /\ next \in Sinks
    /\ dropped \in 0..Rows

Init ==
    /\ remaining = Rows
    /\ queue = <<>>
    /\ producerPc = [p \in Producers |-> "reserve"]
    /\ hand = [p \in Producers |-> 0]
    /\ pc = [s \in Sinks |-> "new"]
    /\ batch = [s \in Sinks |-> 0]
    /\ summary = [s \in Sinks |-> 0]
    /\ failed = [s \in Sinks |-> FALSE]
    /\ finishing = [s \in Sinks |-> FALSE]
    /\ sink = [s \in Sinks |-> [open |-> FALSE, rows |-> 0, moving |-> 0,
                                buffered |-> 0, flying |-> 0, files |-> 0, safe |-> 0]]
    /\ kind \in Kinds
    /\ stop = FALSE /\ expired = FALSE
    /\ mainPc = "spawn" /\ next = 1
    /\ dropped = 0
-----------------------------------------------------------------------------
(* producer_loop.                                                          *)

ProducerGoto(p, place) == producerPc' = [producerPc EXCEPT ![p] = place]

(* Seeded fault: the last batch is not cut to the rows that remain. *)
ReserveUnclamped(p) ==
    /\ producerPc[p] = "reserve"
    /\ LET take == IF remaining >= BatchRows THEN BatchRows ELSE remaining IN
        /\ remaining' = remaining - take
        /\ hand' = [hand EXCEPT ![p] = IF take = 0 THEN 0 ELSE BatchRows]
        /\ ProducerGoto(p, IF take = 0 THEN "done" ELSE "build")
    /\ UNCHANGED <<queue, threads, sink, control, dropped>>

Reserve(p) ==
    /\ producerPc[p] = "reserve"
    /\ LET take == IF remaining >= BatchRows THEN BatchRows ELSE remaining IN
        /\ remaining' = remaining - take
        /\ hand' = [hand EXCEPT ![p] = take]
        /\ ProducerGoto(p, IF take = 0 THEN "done" ELSE "build")
    /\ UNCHANGED <<queue, threads, sink, control, dropped>>

(* A generator or the encoder failed: the rows built so far go with it.    *)
GenerateFails(p) ==
    /\ producerPc[p] = "build"
    /\ ProducerGoto(p, "report")
    /\ hand' = [hand EXCEPT ![p] = 0]
    /\ dropped' = dropped + hand[p]
    /\ UNCHANGED <<remaining, queue, threads, sink, control>>

Send(p) ==
    /\ producerPc[p] = "build"
    /\ ~Closed
    /\ Len(queue) < QueueDepth
    /\ queue' = Append(queue, hand[p])
    /\ hand' = [hand EXCEPT ![p] = 0]
    /\ ProducerGoto(p, "reserve")
    /\ UNCHANGED <<remaining, threads, sink, control, dropped>>

(* Seeded fault: a producer that failed just leaves. *)
ReportForgotten(p) ==
    /\ producerPc[p] = "report"
    /\ ProducerGoto(p, "done")
    /\ UNCHANGED <<remaining, queue, hand, threads, sink, control, dropped>>

(* The producer's error travels through the queue like a batch.            *)
Report(p) ==
    /\ producerPc[p] = "report"
    /\ ~Closed
    /\ Len(queue) < QueueDepth
    /\ queue' = Append(queue, Failure)
    /\ ProducerGoto(p, "done")
    /\ UNCHANGED <<remaining, hand, threads, sink, control, dropped>>

(* Nobody will receive any more. *)
SendFails(p) ==
    /\ producerPc[p] \in {"build", "report"}
    /\ Closed
    /\ ProducerGoto(p, "done")
    /\ hand' = [hand EXCEPT ![p] = 0]
    /\ dropped' = dropped + hand[p]
    /\ UNCHANGED <<remaining, queue, threads, sink, control>>

Producer(p) ==
    Reserve(p) \/ GenerateFails(p) \/ Send(p) \/ Report(p) \/ SendFails(p)

AllProducersDone == \A p \in Producers : producerPc[p] = "done"
-----------------------------------------------------------------------------
(* consumer_loop.                                                          *)

Goto(s, place) == pc' = [pc EXCEPT ![s] = place]

outside == <<remaining, queue, producers, control>>

(* Leave the loop; what is left of the batch is never written.             *)
LeaveLoop(s) ==
    /\ Goto(s, "finish")
    /\ batch' = [batch EXCEPT ![s] = 0]
    /\ dropped' = dropped + batch[s]

(* An error: the sink is still finished, once, and then the error returned. *)
Fail(s) ==
    /\ failed' = [failed EXCEPT ![s] = TRUE]
    /\ IF finishing[s]
       THEN Goto(s, "err") /\ UNCHANGED <<batch, dropped>>
       ELSE LeaveLoop(s)
    /\ UNCHANGED <<summary, finishing>>

(* sink.write returned: the row is counted. *)
RowDone(s) ==
    /\ summary' = [summary EXCEPT ![s] = @ + 1]
    /\ batch' = [batch EXCEPT ![s] = @ - 1]
    /\ Goto(s, IF batch[s] = 1 THEN "flush" ELSE "row")
    /\ UNCHANGED <<failed, finishing, dropped>>

(* Move on, within a row or within finish. *)
Continue(s, place) ==
    /\ Goto(s, place)
    /\ UNCHANGED <<batch, summary, failed, finishing, dropped>>

Check(s) ==
    /\ pc[s] = "check"
    /\ Continue(s, IF stop \/ expired THEN "finish" ELSE "recv")
    /\ UNCHANGED <<outside, sink>>

Receive(s) ==
    /\ pc[s] = "recv"
    /\ queue # <<>>
    /\ queue' = Tail(queue)
    /\ IF Head(queue) = Failure
       THEN Fail(s)
       ELSE /\ batch' = [batch EXCEPT ![s] = Head(queue)]
            /\ Goto(s, "row")
            /\ UNCHANGED <<summary, failed, finishing, dropped>>
    /\ UNCHANGED <<remaining, producers, control, sink>>

(* Seeded fault: an ended queue is taken for an empty batch. *)
DisconnectedUnnoticed(s) ==
    /\ pc[s] = "recv"
    /\ queue = <<>>
    /\ AllProducersDone
    /\ Continue(s, "check")
    /\ UNCHANGED <<outside, sink>>

Disconnected(s) ==
    /\ pc[s] = "recv"
    /\ queue = <<>>
    /\ AllProducersDone
    /\ Continue(s, "finish")
    /\ UNCHANGED <<outside, sink>>

(* Time is looked at before every row. *)
OutOfTime(s) ==
    /\ pc[s] = "row"
    /\ expired
    /\ LeaveLoop(s)
    /\ UNCHANGED <<outside, sink, summary, failed, finishing>>

(* The batch boundary, where only a file has something to push out.        *)
Flush(s) ==
    /\ pc[s] = "flush"
    /\ \/ Continue(s, "check")
       \/ kind = "file" /\ sink[s].open /\ Fail(s)
    /\ UNCHANGED <<outside, sink>>
-----------------------------------------------------------------------------
(* The sinks.  Each step changes one sink and may fail.                    *)

Put(s, state) == sink' = [sink EXCEPT ![s] = state]

StreamRow(s) ==
    /\ kind = "file"
    /\ Put(s, [sink[s] EXCEPT !.moving = 1])
    /\ Continue(s, "append")

(* Parquet: decode and write when a row group is together.                 *)
BufferRow(s) ==
    /\ kind = "parquet"
    /\ Put(s, [sink[s] EXCEPT !.buffered = @ + 1])
    /\ IF sink[s].buffered + 1 >= RowGroupRows THEN Continue(s, "decode") ELSE RowDone(s)

(* Kafka: enqueue, and wait while too many records are in flight.          *)
EnqueueRow(s) ==
    /\ kind = "kafka"
    /\ \/ /\ Put(s, [sink[s] EXCEPT !.flying = @ + 1])
          /\ IF sink[s].flying + 1 >= MaxInFlight THEN Continue(s, "settle") ELSE RowDone(s)
       \/ /\ Fail(s)
          /\ UNCHANGED sink

WriteRow(s) ==
    /\ pc[s] = "row"
    /\ ~expired
    /\ StreamRow(s) \/ BufferRow(s) \/ EnqueueRow(s)
    /\ UNCHANGED outside

(* Seeded fault: the decoded rows stay in the buffer. *)
DecodeKeepsBuffer(s) ==
    /\ pc[s] = "decode"
    /\ \/ /\ Put(s, [sink[s] EXCEPT !.moving = sink[s].buffered])
          /\ Continue(s, "append")
       \/ /\ Fail(s)
          /\ UNCHANGED sink
    /\ UNCHANGED outside

(* flush_group empties the buffer only once all of it could be decoded.    *)
Decode(s) ==
    /\ pc[s] = "decode"
    /\ \/ /\ Put(s, [sink[s] EXCEPT !.moving = sink[s].buffered, !.buffered = 0])
          /\ Continue(s, "append")
       \/ /\ Fail(s)
          /\ UNCHANGED sink
    /\ UNCHANGED outside

(* open_next, for the rows at hand or for the one file an empty run leaves. *)
Open(s) ==
    /\ pc[s] \in {"append", "create"}
    /\ ~sink[s].open
    /\ \/ /\ Put(s, [sink[s] EXCEPT !.open = TRUE, !.files = @ + 1])
          /\ Continue(s, IF pc[s] = "create" THEN "close" ELSE "append")
       \/ /\ Put(s, [sink[s] EXCEPT !.moving = 0])
          /\ Fail(s)
    /\ UNCHANGED outside

Closing(state) == [state EXCEPT !.open = FALSE, !.rows = 0]

Appended(s) == [sink[s] EXCEPT !.rows = @ + sink[s].moving, !.moving = 0]

AfterAppend(s) == IF finishing[s] THEN Continue(s, "close") ELSE RowDone(s)

(* The rows are written; a file that is full by now is closed, or fails to. *)
AppendRows(s) ==
    /\ pc[s] = "append"
    /\ sink[s].open
    /\ \/ /\ Put(s, Appended(s))
          /\ AfterAppend(s)
       \/ /\ Put(s, Closing([Appended(s) EXCEPT !.safe = @ + Appended(s).rows]))
          /\ AfterAppend(s)
       \/ /\ Put(s, Closing(Appended(s)))
          /\ Fail(s)
    /\ UNCHANGED outside

AppendFails(s) ==
    /\ pc[s] = "append"
    /\ sink[s].open
    /\ Put(s, [sink[s] EXCEPT !.moving = 0])
    /\ Fail(s)
    /\ UNCHANGED outside

(* settle_one: an acknowledgement or a failed delivery, awaited before the  *)
(* next row, while finishing, or because the client's own queue is full.   *)
Settle(s) ==
    /\ \/ pc[s] \in {"settle", "drain"}
       \/ pc[s] = "row" /\ kind = "kafka" /\ ~expired
    /\ sink[s].flying > 0
    /\ \/ /\ Put(s, [sink[s] EXCEPT !.flying = @ - 1, !.safe = @ + 1])
          /\ IF pc[s] = "settle" THEN RowDone(s) ELSE Continue(s, pc[s])
       \/ /\ Put(s, [sink[s] EXCEPT !.flying = @ - 1])
          /\ Fail(s)
    /\ UNCHANGED outside

(* Only a sink that never opened a file creates one now. *)
CreateOrClose(s) == IF ~sink[s].open /\ sink[s].files = 0 THEN "create" ELSE "close"

(* Seeded fault: an error returns without finishing the sink. *)
FinishSkippedOnError(s) ==
    /\ pc[s] = "finish"
    /\ finishing' = [finishing EXCEPT ![s] = TRUE]
    /\ Goto(s, IF failed[s] THEN "err"
               ELSE IF kind = "kafka" THEN "drain"
               ELSE IF sink[s].buffered > 0 THEN "decode"
               ELSE CreateOrClose(s))
    /\ UNCHANGED <<outside, sink, batch, summary, failed, dropped>>

(* finish starts, after an error too. *)
Finish(s) ==
    /\ pc[s] = "finish"
    /\ finishing' = [finishing EXCEPT ![s] = TRUE]
    /\ Goto(s, IF kind = "kafka" THEN "drain"
               ELSE IF sink[s].buffered > 0 THEN "decode"
               ELSE CreateOrClose(s))
    /\ UNCHANGED <<outside, sink, batch, summary, failed, dropped>>

Return(s) == Continue(s, IF failed[s] THEN "err" ELSE "ok")

(* close_current, the last step of a file sink. *)
Close(s) ==
    /\ pc[s] = "close"
    /\ \/ /\ ~sink[s].open
          /\ Return(s)
          /\ UNCHANGED sink
       \/ /\ sink[s].open
          /\ Put(s, Closing([sink[s] EXCEPT !.safe = @ + sink[s].rows]))
          /\ Return(s)
       \/ /\ sink[s].open
          /\ Put(s, Closing(sink[s]))
          /\ Fail(s)
    /\ UNCHANGED outside

(* All records are settled; the client's own flush may still fail.         *)
Drained(s) ==
    /\ pc[s] = "drain"
    /\ sink[s].flying = 0
    /\ Return(s) \/ Fail(s)
    /\ UNCHANGED <<outside, sink>>

SinkThread(s) ==
    \/ Check(s) \/ Receive(s) \/ Disconnected(s) \/ OutOfTime(s) \/ Flush(s)
    \/ WriteRow(s) \/ Decode(s) \/ Open(s) \/ AppendRows(s) \/ AppendFails(s)
    \/ Settle(s) \/ Finish(s) \/ Close(s) \/ Drained(s)
-----------------------------------------------------------------------------
(* run.                                                                    *)

rest == <<remaining, queue, producers, batch, summary, failed, finishing, sink,
          kind, expired, dropped>>

Spawn ==
    /\ mainPc = "spawn"
    /\ pc' = [pc EXCEPT ![next] = "check"]
    /\ IF next = SinkThreads
       THEN mainPc' = "join" /\ next' = 1
       ELSE next' = next + 1 /\ UNCHANGED mainPc
    /\ UNCHANGED <<rest, stop>>

(* A sink that cannot be built ends run at once; what was spawned goes on.  *)
BuildFails ==
    /\ mainPc = "spawn"
    /\ mainPc' = "err"
    /\ UNCHANGED <<rest, pc, stop, next>>

(* Sink threads are joined in order; a failed one stops the others.        *)
Join ==
    /\ mainPc = "join"
    /\ Ended(next)
    /\ stop' = (stop \/ pc[next] = "err")
    /\ IF next = SinkThreads
       THEN mainPc' = (IF stop' THEN "err" ELSE "ok") /\ UNCHANGED next
       ELSE next' = next + 1 /\ UNCHANGED mainPc
    /\ UNCHANGED <<rest, pc>>

Main == Spawn \/ BuildFails \/ Join

TimePasses ==
    /\ HasTimeLimit
    /\ ~expired
    /\ expired' = TRUE
    /\ UNCHANGED <<remaining, queue, producers, threads, sink, kind, stop, mainPc,
                   next, dropped>>

AllEnded == Closed /\ AllProducersDone

Stutter == AllEnded /\ UNCHANGED vars

Next ==
    \/ \E p \in Producers : Producer(p)
    \/ \E s \in Sinks : SinkThread(s)
    \/ Main
    \/ TimePasses
    \/ Stutter

Spec == Init /\ [][Next]_vars

(* Every task runs while it can, and an awaited record is settled sooner or *)
(* later; time need not pass.                                              *)
Fairness ==
    /\ \A p \in Producers : WF_vars(Producer(p))
    /\ \A s \in Sinks : WF_vars(SinkThread(s))
    /\ WF_vars(Main)

FairSpec == Spec /\ Fairness
-----------------------------------------------------------------------------
(* "every row must be written exactly once": a reserved row is being built, *)
(* queued, in a sink thread's batch, counted by one, or dropped on an error *)
(* or at the time limit, and never two of these.                           *)
RowsConserved ==
    remaining + Total(hand) + Total(queue) + Total(batch) + Total(summary) + dropped = Rows

(* A thread counts exactly the rows its sink has: as long as nothing has    *)
(* failed, between two rows every counted row is in a closed file or        *)
(* acknowledged, in the open file, buffered or in flight.                  *)
SinkAccounted ==
    \A s \in Sinks :
        ~failed[s] /\ pc[s] \in {"check", "recv", "row", "flush", "finish", "ok"} =>
            summary[s] = sink[s].safe + sink[s].rows + sink[s].buffered + sink[s].flying

(* When run returns Ok every thread did, all it reports is in closed files  *)
(* or acknowledged, and unless time ran out no producer failed and not a    *)
(* row is missing: no error is swallowed on its way through the queue.     *)
OkMeansDelivered ==
    mainPc = "ok" =>
        /\ \A s \in Sinks : pc[s] = "ok" /\ sink[s].safe = summary[s]
        /\ ~expired => Total(summary) = Rows

(* "Finish even after an error so files are flushed": no thread leaves a    *)
(* text file or object open behind it, and one that returned Ok left        *)
(* nothing unfinished and at least one file, rows or not.                  *)
SinksClosed ==
    \A s \in Sinks : Ended(s) =>
        /\ kind = "file" => ~sink[s].open
        /\ pc[s] = "ok" =>
            /\ ~sink[s].open /\ sink[s].buffered = 0 /\ sink[s].flying = 0
            /\ kind # "kafka" => sink[s].files > 0

(* Whatever fails, run returns and no task is left behind waiting, not even *)
(* the producers that nobody joins.                                        *)
Termination == <>AllEnded
=============================================================================
