----------------------------- MODULE SizeTarget -----------------------------
(***************************************************************************)
(* A `--target-size` run: generators stop when reached_size_target         *)
(* (src/main.rs) says enough bytes exist or are on their way, from four    *)
(* gauges that the sinks (src/sink.rs) publish with separate atomic        *)
(* operations.  Pipeline models who holds which rows; this module models   *)
(* the gauges, one shared load or update per action.                       *)
(*                                                                         *)
(* Every row is encoded in one byte, and its byte is known when its row    *)
(* group is complete or its file closes.  Each batch has BatchRows rows:   *)
(* without a quota reserve_batch never returns fewer.  buffered_bytes is   *)
(* left out: only the display reads it.                                    *)
(***************************************************************************)
EXTENDS Integers, Totals

CONSTANTS
    GenThreads, UploadThreads, QueueDepth, BatchRows,
    RowGroupRows,   (* rows in a complete row group                        *)
    FileCap,        (* bytes after which a file is closed                  *)
    Target,         (* bytes the run was asked for                         *)
    FileRetries,    (* files one worker may lose                           *)
    Faults          (* operations that may fail: "write", "close"          *)

ASSUME SizeTargetAssumption ==
    /\ GenThreads \in Nat \ {0}
    /\ UploadThreads \in Nat \ {0}
    /\ QueueDepth \in Nat \ {0}
    /\ RowGroupRows \in Nat \ {0}
    /\ BatchRows \in 1..RowGroupRows
    /\ FileCap \in Nat \ {0}
    /\ Target \in Nat \ {0}
    /\ FileRetries \in Nat
    /\ Faults \subseteq {"write", "close"}

Generators == 1..GenThreads
Workers == 1..UploadThreads

VARIABLES
    genPc, produced, flushedSeen,   (* reached_size_target's locals        *)
    queue,                          (* batches in the queue                *)
    workerPc, abandoned,
    file,                           (* has the sink a file open?           *)
    rowsSeen, rowsInActive,         (* the sink's own row counts           *)
    pending,                        (* rows in the half-built row group    *)
    reportedActive, reportedFlushed,
    rows_generated, bytes_written, active_bytes, rows_flushed,
    showProgress,   (* was the run started with a status task?             *)
    lost,       (* history: rows a failure kept out of storage             *)
    torn        (* history: did a generator ever read the gauges while a   *)
                (* sink was between two updates of them?                   *)

genVars == <<genPc, produced, flushedSeen>>
sinkVars == <<file, rowsSeen, rowsInActive, pending, reportedActive, reportedFlushed>>
gauges == <<rows_generated, bytes_written, active_bytes, rows_flushed>>
vars == <<genVars, queue, workerPc, abandoned, sinkVars, gauges, showProgress, lost, torn>>

GenPcs == {"written", "active", "flushed", "generated", "send", "count", "done"}
WorkerPcs == {"recv", "write", "publishActive", "publishFlushed", "close",
              "resetActive", "resetFlushed", "error", "abandonFlushed",
              "final", "done", "failed"}

TypeOK ==
    /\ genPc \in [Generators -> GenPcs]
    /\ produced \in [Generators -> Nat]
    /\ flushedSeen \in [Generators -> Nat]
    /\ queue \in 0..QueueDepth
    /\ workerPc \in [Workers -> WorkerPcs]
    /\ abandoned \in [Workers -> Nat]
    /\ file \in [Workers -> BOOLEAN]
    /\ rowsSeen \in [Workers -> Nat]
    /\ rowsInActive \in [Workers -> Nat]
    /\ pending \in [Workers -> 0..RowGroupRows - 1]
    /\ reportedActive \in [Workers -> Nat]
    /\ reportedFlushed \in [Workers -> Nat]
    /\ rows_generated \in Nat /\ bytes_written \in Nat
    /\ active_bytes \in Nat /\ rows_flushed \in Nat
    /\ showProgress \in BOOLEAN
    /\ lost \in Nat /\ torn \in BOOLEAN

Init ==
    /\ genPc = [g \in Generators |-> "written"]
    /\ produced = [g \in Generators |-> 0]
    /\ flushedSeen = [g \in Generators |-> 0]
    /\ queue = 0
    /\ workerPc = [w \in Workers |-> "recv"]
    /\ abandoned = [w \in Workers |-> 0]
    /\ file = [w \in Workers |-> FALSE]
    /\ rowsSeen = [w \in Workers |-> 0]
    /\ rowsInActive = [w \in Workers |-> 0]
    /\ pending = [w \in Workers |-> 0]
    /\ reportedActive = [w \in Workers |-> 0]
    /\ reportedFlushed = [w \in Workers |-> 0]
    /\ rows_generated = 0 /\ bytes_written = 0
    /\ active_bytes = 0 /\ rows_flushed = 0
    /\ showProgress \in BOOLEAN
    /\ lost = 0 /\ torn = FALSE

AllGenDone == \A g \in Generators : genPc[g] = "done"
AllWorkersStopped == \A w \in Workers : workerPc[w] \in {"done", "failed"}

(* The queue refuses batches once no task can receive them.  The status     *)
(* task holds a receiver too, and leaves only after every generator and     *)
(* every worker has been joined.                                           *)
NoReceivers == AllWorkersStopped /\ ~ showProgress
-----------------------------------------------------------------------------
(* generator_loop, with reached_size_target load by load.                  *)

GenGoto(g, pc) == genPc' = [genPc EXCEPT ![g] = pc]

(* total_bytes: bytes of closed files first, *)
LoadWritten(g) ==
    /\ genPc[g] = "written"
    /\ produced' = [produced EXCEPT ![g] = bytes_written]
    /\ GenGoto(g, "active")
    /\ UNCHANGED <<flushedSeen, queue, workerPc, abandoned, sinkVars, gauges, lost>>

(* then those of open files; together they may already be enough.          *)
LoadActive(g) ==
    /\ genPc[g] = "active"
    /\ produced' = [produced EXCEPT ![g] = @ + active_bytes]
    /\ GenGoto(g, IF produced'[g] >= Target THEN "done" ELSE "flushed")
    /\ UNCHANGED <<flushedSeen, queue, workerPc, abandoned, sinkVars, gauges, lost>>

(* Without any encoded row there is nothing to project from.               *)
LoadFlushed(g) ==
    /\ genPc[g] = "flushed"
    /\ flushedSeen' = [flushedSeen EXCEPT ![g] = rows_flushed]
    /\ GenGoto(g, IF rows_flushed = 0 \/ produced[g] = 0 THEN "send" ELSE "generated")
    /\ UNCHANGED <<produced, queue, workerPc, abandoned, sinkVars, gauges, lost>>

(* Seeded fault: project over the encoded rows only. *)
ProjectedFromFlushed(g) == produced[g]

(* What the encoded rows weigh, projected over every row generated. *)
Projected(g) == (produced[g] * rows_generated) \div flushedSeen[g]

(* Project the bytes per encoded row over every row generated.             *)
LoadGenerated(g) ==
    /\ genPc[g] = "generated"
    /\ GenGoto(g, IF Projected(g) >= Target THEN "done" ELSE "send")
    /\ UNCHANGED <<produced, flushedSeen, queue, workerPc, abandoned, sinkVars,
                   gauges, lost>>

(* Reserve, build and send a batch, waiting for room in the queue.         *)
Send(g) ==
    /\ genPc[g] = "send"
    /\ ~ NoReceivers
    /\ queue < QueueDepth
    /\ queue' = queue + 1
    /\ GenGoto(g, "count")
    /\ UNCHANGED <<produced, flushedSeen, workerPc, abandoned, sinkVars, gauges, lost>>

(* Every upload worker is gone, and there is no status task. *)
SendFails(g) ==
    /\ genPc[g] = "send"
    /\ NoReceivers
    /\ GenGoto(g, "done")
    /\ UNCHANGED <<produced, flushedSeen, queue, workerPc, abandoned, sinkVars,
                   gauges, lost>>

CountRows(g) ==
    /\ genPc[g] = "count"
    /\ rows_generated' = rows_generated + BatchRows
    /\ GenGoto(g, "written")
    /\ UNCHANGED <<produced, flushedSeen, queue, workerPc, abandoned, sinkVars,
                   bytes_written, active_bytes, rows_flushed, lost>>

Generator(g) ==
    \/ LoadWritten(g) \/ LoadActive(g) \/ LoadFlushed(g) \/ LoadGenerated(g)
    \/ Send(g) \/ SendFails(g) \/ CountRows(g)
-----------------------------------------------------------------------------
(* upload_worker and ParquetSink.                                          *)

WorkerGoto(w, pc) == workerPc' = [workerPc EXCEPT ![w] = pc]

Receive(w) ==
    /\ workerPc[w] = "recv"
    /\ queue > 0
    /\ queue' = queue - 1
    /\ WorkerGoto(w, "write")
    /\ UNCHANGED <<genVars, abandoned, sinkVars, gauges, lost>>

(* Seeded fault: the worker never notices that the queue is closed. *)
QueueClosedUnnoticed(w) ==
    /\ workerPc[w] = "recv"
    /\ queue = 0
    /\ AllGenDone
    /\ WorkerGoto(w, "recv")
    /\ UNCHANGED <<genVars, queue, abandoned, sinkVars, gauges, lost>>

(* The queue is closed and empty: finish, which closes a file still open.  *)
QueueClosed(w) ==
    /\ workerPc[w] = "recv"
    /\ queue = 0
    /\ AllGenDone
    /\ WorkerGoto(w, IF file[w] THEN "final" ELSE "done")
    /\ UNCHANGED <<genVars, queue, abandoned, sinkVars, gauges, lost>>

(* Open a file if need be and hand the batch to its writer, which encodes   *)
(* a row group whenever RowGroupRows rows are together.                    *)
Write(w) ==
    /\ workerPc[w] = "write"
    /\ file' = [file EXCEPT ![w] = TRUE]
    /\ rowsSeen' = [rowsSeen EXCEPT ![w] = @ + BatchRows]
    /\ rowsInActive' = [rowsInActive EXCEPT ![w] = @ + BatchRows]
    /\ pending' = [pending EXCEPT ![w] = (@ + BatchRows) % RowGroupRows]
    /\ WorkerGoto(w, "publishActive")
    /\ UNCHANGED <<genVars, queue, abandoned, reportedActive, reportedFlushed,
                   gauges, lost>>

WriteFails(w) ==
    /\ "write" \in Faults
    /\ workerPc[w] = "write"
    /\ WorkerGoto(w, "error")
    /\ lost' = lost + BatchRows
    /\ UNCHANGED <<genVars, queue, abandoned, sinkVars, gauges>>

(* apply_delta: move a shared gauge by what changed since the last report. *)
PublishActiveBytes(w, current) ==
    /\ active_bytes' = active_bytes + (current - reportedActive[w])
    /\ reportedActive' = [reportedActive EXCEPT ![w] = current]

PublishFlushedRows(w, current) ==
    /\ rows_flushed' = rows_flushed + (current - reportedFlushed[w])
    /\ reportedFlushed' = [reportedFlushed EXCEPT ![w] = current]

(* Rows of the open file whose bytes are known. *)
Encoded(w) == rowsInActive[w] - pending[w]

(* sync_buffer_gauge, bytes first, *)
PublishActive(w) ==
    /\ workerPc[w] = "publishActive"
    /\ PublishActiveBytes(w, Encoded(w))
    /\ WorkerGoto(w, "publishFlushed")
    /\ UNCHANGED <<genVars, queue, abandoned, file, rowsSeen, rowsInActive, pending,
                   reportedFlushed, rows_generated, bytes_written, rows_flushed, lost>>

(* then rows; a file that has reached its cap is closed.                   *)
PublishFlushed(w) ==
    /\ workerPc[w] = "publishFlushed"
    /\ PublishFlushedRows(w, rowsSeen[w] - pending[w])
    /\ WorkerGoto(w, IF reportedActive[w] >= FileCap THEN "close" ELSE "recv")
    /\ UNCHANGED <<genVars, queue, abandoned, file, rowsSeen, rowsInActive, pending,
                   reportedActive, rows_generated, bytes_written, active_bytes, lost>>

(* close_active: the rest is encoded and the whole file is added to the     *)
(* closed bytes while active_bytes still holds what was reported of it.    *)
Close(w) ==
    /\ workerPc[w] \in {"close", "final"}
    /\ file' = [file EXCEPT ![w] = FALSE]
    /\ bytes_written' = bytes_written + rowsInActive[w]
    /\ rowsInActive' = [rowsInActive EXCEPT ![w] = 0]
    /\ pending' = [pending EXCEPT ![w] = 0]
    /\ WorkerGoto(w, "resetActive")
    /\ UNCHANGED <<genVars, queue, abandoned, rowsSeen, reportedActive,
                   reportedFlushed, rows_generated, active_bytes, rows_flushed, lost>>

(* Seeded fault: a closed file keeps its share of the gauge. *)
ResetActiveForgotten(w) ==
    /\ workerPc[w] = "resetActive"
    /\ WorkerGoto(w, "resetFlushed")
    /\ UNCHANGED <<genVars, queue, abandoned, sinkVars, gauges, lost>>

ResetActive(w) ==
    /\ workerPc[w] = "resetActive"
    /\ PublishActiveBytes(w, 0)
    /\ WorkerGoto(w, "resetFlushed")
    /\ UNCHANGED <<genVars, queue, abandoned, file, rowsSeen, rowsInActive, pending,
                   reportedFlushed, rows_generated, bytes_written, rows_flushed, lost>>

(* After the last file the worker finds the queue closed again and leaves. *)
ResetFlushed(w) ==
    /\ workerPc[w] = "resetFlushed"
    /\ PublishFlushedRows(w, rowsSeen[w])
    /\ WorkerGoto(w, "recv")
    /\ UNCHANGED <<genVars, queue, abandoned, file, rowsSeen, rowsInActive, pending,
                   reportedActive, rows_generated, bytes_written, active_bytes, lost>>

(* The file is gone from the sink, its rows and gauges are not yet.        *)
CloseFails(w) ==
    /\ "close" \in Faults
    /\ workerPc[w] = "close"
    /\ file' = [file EXCEPT ![w] = FALSE]
    /\ WorkerGoto(w, "error")
    /\ UNCHANGED <<genVars, queue, abandoned, rowsSeen, rowsInActive, pending,
                   reportedActive, reportedFlushed, gauges, lost>>

(* A last file that does not close is counted against the retries, and that *)
(* is all.                                                                 *)
FinalCloseFails(w) ==
    /\ "close" \in Faults
    /\ workerPc[w] = "final"
    /\ file' = [file EXCEPT ![w] = FALSE]
    /\ abandoned' = [abandoned EXCEPT ![w] = @ + 1]
    /\ WorkerGoto(w, IF abandoned[w] + 1 > FileRetries THEN "failed" ELSE "done")
    /\ lost' = lost + rowsInActive[w]
    /\ UNCHANGED <<genVars, queue, rowsSeen, rowsInActive, pending, reportedActive,
                   reportedFlushed, gauges>>

GiveUp(w) ==
    /\ workerPc[w] = "error"
    /\ abandoned[w] + 1 > FileRetries
    /\ abandoned' = [abandoned EXCEPT ![w] = @ + 1]
    /\ WorkerGoto(w, "failed")
    /\ lost' = lost + rowsInActive[w]
    /\ UNCHANGED <<genVars, queue, sinkVars, gauges>>

(* Seeded fault: rows_seen is not rolled back past the abandoned file. *)
AbandonWithoutRollback(w) ==
    /\ workerPc[w] = "error"
    /\ abandoned[w] + 1 <= FileRetries
    /\ abandoned' = [abandoned EXCEPT ![w] = @ + 1]
    /\ PublishActiveBytes(w, 0)
    /\ file' = [file EXCEPT ![w] = FALSE]
    /\ rowsInActive' = [rowsInActive EXCEPT ![w] = 0]
    /\ pending' = [pending EXCEPT ![w] = 0]
    /\ lost' = lost + rowsInActive[w]
    /\ WorkerGoto(w, "abandonFlushed")
    /\ UNCHANGED <<genVars, queue, rowsSeen, reportedFlushed, rows_generated,
                   bytes_written, rows_flushed>>

(* abandon_active: the file's bytes leave the gauge, then its rows do.     *)
Abandon(w) ==
    /\ workerPc[w] = "error"
    /\ abandoned[w] + 1 <= FileRetries
    /\ abandoned' = [abandoned EXCEPT ![w] = @ + 1]
    /\ PublishActiveBytes(w, 0)
    /\ file' = [file EXCEPT ![w] = FALSE]
    /\ rowsSeen' = [rowsSeen EXCEPT ![w] = @ - rowsInActive[w]]
    /\ rowsInActive' = [rowsInActive EXCEPT ![w] = 0]
    /\ pending' = [pending EXCEPT ![w] = 0]
    /\ lost' = lost + rowsInActive[w]
    /\ WorkerGoto(w, "abandonFlushed")
    /\ UNCHANGED <<genVars, queue, reportedFlushed, rows_generated, bytes_written,
                   rows_flushed>>

AbandonFlushed(w) ==
    /\ workerPc[w] = "abandonFlushed"
    /\ PublishFlushedRows(w, rowsSeen[w])
    /\ WorkerGoto(w, "recv")
    /\ UNCHANGED <<genVars, queue, abandoned, file, rowsSeen, rowsInActive, pending,
                   reportedActive, rows_generated, bytes_written, active_bytes, lost>>

Worker(w) ==
    \/ Receive(w) \/ QueueClosed(w) \/ Write(w) \/ WriteFails(w)
    \/ PublishActive(w) \/ PublishFlushed(w) \/ Close(w) \/ ResetActive(w)
    \/ ResetFlushed(w) \/ CloseFails(w) \/ FinalCloseFails(w) \/ GiveUp(w)
    \/ Abandon(w) \/ AbandonFlushed(w)
-----------------------------------------------------------------------------
Ended == AllGenDone /\ AllWorkersStopped

(* A sink has updated one gauge of a pair and not yet the other. *)
MidUpdate(w) ==
    workerPc[w] \in {"publishFlushed", "resetActive", "resetFlushed", "abandonFlushed"}

(* A generator has loaded one gauge and not yet the last it pairs with it. *)
MidRead(g) == genPc[g] \in {"active", "flushed"}

Tearing == (\E w \in Workers : MidUpdate(w)) /\ (\E g \in Generators : MidRead(g))

Stutter == Ended /\ UNCHANGED vars

Next ==
    \/ /\ \/ \E g \in Generators : Generator(g)
          \/ \E w \in Workers : Worker(w)
       /\ torn' = (torn \/ Tearing')
       /\ UNCHANGED showProgress
    \/ Stutter

Spec == Init /\ [][Next]_vars

Fairness ==
    /\ \A g \in Generators : WF_vars(Generator(g) /\ torn' = (torn \/ Tearing') /\ UNCHANGED showProgress)
    /\ \A w \in Workers : WF_vars(Worker(w) /\ torn' = (torn \/ Tearing') /\ UNCHANGED showProgress)

FairSpec == Spec /\ Fairness
-----------------------------------------------------------------------------
(* Its gauges describe the sink's files: not publishing, not failed. *)
Settled(w) ==
    \/ workerPc[w] \in {"recv", "write", "close", "final"}
    \/ workerPc[w] = "done" /\ rowsInActive[w] = 0

(* "Pair the byte total with the rows those bytes actually came from":      *)
(* whenever no sink is in the middle of publishing, and none has stopped    *)
(* on an error, total_bytes counts exactly the rows in rows_flushed, the    *)
(* bytes of abandoned files taken out of both, and the open files' share is *)
(* in active_bytes.                                                        *)
GaugesPair ==
    (\A w \in Workers : Settled(w)) =>
        /\ bytes_written + active_bytes = rows_flushed
        /\ active_bytes = Total([w \in Workers |-> Encoded(w)])

(* Generation does not stop short: when no read was torn and no row was     *)
(* lost, a finished run has stored at least the bytes it was asked for.    *)
TargetReached == Ended /\ ~torn /\ lost = 0 => bytes_written >= Target

(* Rows that can be on their way before the first row group is encoded, and *)
(* so before a generator has anything to project from.                     *)
Blind ==
    UploadThreads * (RowGroupRows + BatchRows) + QueueDepth * BatchRows

(* The overshoot is bounded: beyond the target, or beyond what fits in the  *)
(* queue and in half-built row groups before any size is known, each        *)
(* generator adds at most one batch.                                       *)
OvershootBounded ==
    ~torn /\ lost = 0 =>
        \/ rows_generated <= Target + GenThreads * BatchRows
        \/ rows_generated <= Blind + GenThreads * BatchRows

(* Every worker has given up, the queue is full, and nobody will receive:   *)
(* the status task keeps the queue open.                                   *)
Stranded ==
    /\ showProgress
    /\ \A w \in Workers : workerPc[w] = "failed"
    /\ queue = QueueDepth
    /\ \A g \in Generators : genPc[g] \in {"send", "done"}
    /\ ~ AllGenDone

(* Every size-bounded run ends, or hangs in just this way: with a status    *)
(* task, once all workers have given up, for a place in the queue.  Without *)
(* the status task it always ends.                                         *)
Termination == <>(Ended \/ Stranded)
-----------------------------------------------------------------------------
(* What docs and comments say, which the code does not do.                 *)

(* "A --target-size run does automatically" make up the rows of abandoned   *)
(* files: a generator that stops leaves enough rows stored or on their way, *)
(* those of abandoned files not among them.                                *)
LossesAreMadeUp ==
    [][ \A g \in Generators :
          genPc[g] = "generated" /\ genPc'[g] = "done" /\ ~torn
            => rows_generated - lost >= Target ]_vars
=============================================================================
