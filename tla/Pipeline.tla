------------------------------ MODULE Pipeline ------------------------------
(***************************************************************************)
(* One run of the generator (run_parquet in src/main.rs): generator tasks  *)
(* reserve rows from a shared quota and push batches into a bounded queue, *)
(* upload workers drain it into Parquet files, the main task joins both    *)
(* and the status task redraws until it is told the run is done.           *)
(*                                                                         *)
(* A batch is the number of rows in it.  What a row contains, where a file *)
(* lands and how many bytes it has are left out; whether a file reached    *)
(* its size cap after a batch is a free choice.  A reservation is one step *)
(* (ReserveBatch shows why it may be), and so are updates of counters that *)
(* nobody but the status display reads before the run is over.  What a     *)
(* size-bounded run reads while it runs is in SizeTarget.                  *)
(***************************************************************************)
EXTENDS Naturals, Sequences, FiniteSets, Totals

CONSTANTS
    GenThreads,     (* generator tasks                                     *)
    UploadThreads,  (* upload workers, one Parquet sink each               *)
    QueueDepth,     (* batches the queue holds                             *)
    BatchRows,      (* rows per batch, already clamped to the row group    *)
    RowsLimited,    (* was a row quota configured?                         *)
    Rows,           (* the quota, when it was                              *)
    RowBound,       (* model bound: without a quota, a generator waits for *)
                    (* the deadline once this many rows were generated     *)
    HasDeadline,    (* was a run time configured?                          *)
    FileRetries,    (* files one worker may lose; 0 for a local run        *)
    ShowProgress,   (* is the status task running?                         *)
    Faults          (* operations that may fail in this run                *)

FaultKinds == {"generate", "open", "write", "close"}

ASSUME PipelineAssumption ==
    /\ GenThreads \in Nat \ {0}
    /\ UploadThreads \in Nat \ {0}
    /\ QueueDepth \in Nat \ {0}
    /\ BatchRows \in Nat \ {0}
    /\ RowsLimited \in BOOLEAN
    /\ Rows \in Nat
    /\ RowBound \in Nat
    /\ HasDeadline \in BOOLEAN
    /\ FileRetries \in Nat
    /\ ShowProgress \in BOOLEAN
    /\ Faults \subseteq FaultKinds

Generators == 1..GenThreads
Workers == 1..UploadThreads

VARIABLES
    remaining,        (* the shared quota, remaining_rows                  *)
    queue,            (* batches sent and not yet received                 *)
    genPc,            (* where each generator is in its loop               *)
    hand,             (* rows of the batch each generator is building      *)
    workerPc,         (* where each upload worker is                       *)
    batch,            (* rows of the batch each worker has received        *)
    file,             (* has the worker's sink a file open?                *)
    rowsInActive,     (* rows written into the sink's current file         *)
    refund,           (* rows abandon_active returned, not yet credited    *)
    abandoned,        (* failures each worker has counted                  *)
    rows_generated, rows, rows_lost, files_abandoned, files_completed,
    file_counter,     (* files opened by all sinks, counted in next_path   *)
    stored,           (* history: rows in completed files                  *)
    unsent,           (* history: reserved rows that never reached the     *)
                      (* queue                                             *)
    unwritten,        (* history: received rows that no file ever took     *)
    expired,          (* has the deadline passed?                          *)
    statusOn,         (* is the status task alive, holding a receiver?     *)
    mainPc            (* how far run_parquet has joined, then its result   *)

genVars == <<genPc, hand>>
sinkVars == <<file, rowsInActive>>
workerVars == <<workerPc, batch, sinkVars, refund, abandoned>>
stats == <<rows, rows_lost, files_abandoned, files_completed>>
history == <<stored, unsent, unwritten>>
control == <<expired, statusOn, mainPc>>
vars == <<remaining, queue, genVars, workerVars, rows_generated, stats,
          file_counter, history, control>>

GenPcs == {"check", "reserve", "build", "count", "done", "failed"}
WorkerPcs == {"recv", "write", "roll", "error", "credit", "finish", "done", "failed"}
MainPcs == {"generating", "draining", "reporting", "ok", "failed"}

GenStopped(g) == genPc[g] \in {"done", "failed"}
WorkerStopped(w) == workerPc[w] \in {"done", "failed"}
AllGenStopped == \A g \in Generators : GenStopped(g)
AllWorkersStopped == \A w \in Workers : WorkerStopped(w)
SomeTaskFailed ==
    \/ \E g \in Generators : genPc[g] = "failed"
    \/ \E w \in Workers : workerPc[w] = "failed"

(* The channel closes to senders when no receiver is left.  The status task *)
(* holds a receiver of its own, to show the queue's length.                 *)
NoReceivers == AllWorkersStopped /\ ~statusOn

(* The channel closes to receivers when no sender is left.                  *)
NoSenders == AllGenStopped

TypeOK ==
    /\ remaining \in Nat
    /\ queue \in Seq(Nat)
    /\ genPc \in [Generators -> GenPcs]
    /\ hand \in [Generators -> Nat]
    /\ workerPc \in [Workers -> WorkerPcs]
    /\ batch \in [Workers -> Nat]
    /\ file \in [Workers -> BOOLEAN]
    /\ rowsInActive \in [Workers -> Nat]
    /\ refund \in [Workers -> Nat]
    /\ abandoned \in [Workers -> Nat]
    /\ rows_generated \in Nat /\ rows \in Nat /\ rows_lost \in Nat
    /\ files_abandoned \in Nat /\ files_completed \in Nat
    /\ file_counter \in Nat
    /\ stored \in Nat /\ unsent \in Nat /\ unwritten \in Nat
    /\ expired \in BOOLEAN /\ statusOn \in BOOLEAN
    /\ mainPc \in MainPcs

Init ==
    /\ remaining = Rows
    /\ queue = <<>>
    /\ genPc = [g \in Generators |-> "check"]
    /\ hand = [g \in Generators |-> 0]
    /\ workerPc = [w \in Workers |-> "recv"]
    /\ batch = [w \in Workers |-> 0]
    /\ file = [w \in Workers |-> FALSE]
    /\ rowsInActive = [w \in Workers |-> 0]
    /\ refund = [w \in Workers |-> 0]
    /\ abandoned = [w \in Workers |-> 0]
    /\ rows_generated = 0 /\ rows = 0 /\ rows_lost = 0
    /\ files_abandoned = 0 /\ files_completed = 0
    /\ file_counter = 0
    /\ stored = 0 /\ unsent = 0 /\ unwritten = 0
    /\ expired = FALSE
    /\ statusOn = ShowProgress
    /\ mainPc = "generating"
-----------------------------------------------------------------------------
(* generator_loop.                                                         *)

GenGoto(g, pc) == genPc' = [genPc EXCEPT ![g] = pc]

(* The head of the loop: stop at the deadline, otherwise go and reserve.   *)
CheckDeadline(g) ==
    /\ genPc[g] = "check"
    /\ expired \/ RowsLimited \/ rows_generated < RowBound
    /\ GenGoto(g, IF expired THEN "done" ELSE "reserve")
    /\ UNCHANGED <<remaining, queue, hand, workerVars, rows_generated, stats,
                   file_counter, history, control>>

(* Seeded fault: a short last batch is refused. *)
BatchTargetWholeOnly == IF ~RowsLimited \/ remaining >= BatchRows THEN BatchRows ELSE 0

(* reserve_batch: a whole batch, or what is left of the quota. *)
BatchTarget ==
    IF ~RowsLimited \/ remaining >= BatchRows THEN BatchRows ELSE remaining

(* Seeded fault: the reservation is not taken out of the quota. *)
ReserveWithoutTaking(g) ==
    /\ genPc[g] = "reserve"
    /\ BatchTarget > 0
    /\ hand' = [hand EXCEPT ![g] = BatchTarget]
    /\ GenGoto(g, "build")
    /\ UNCHANGED <<remaining, queue, workerVars, rows_generated, stats,
                   file_counter, history, control>>

(* reserve_batch returned rows to build. *)
Reserve(g) ==
    /\ genPc[g] = "reserve"
    /\ BatchTarget > 0
    /\ remaining' = IF RowsLimited THEN remaining - BatchTarget ELSE remaining
    /\ hand' = [hand EXCEPT ![g] = BatchTarget]
    /\ GenGoto(g, "build")
    /\ UNCHANGED <<queue, workerVars, rows_generated, stats, file_counter,
                   history, control>>

(* reserve_batch returned 0: the quota is spent and the generator leaves. *)
QuotaSpent(g) ==
    /\ genPc[g] = "reserve"
    /\ BatchTarget = 0
    /\ GenGoto(g, "done")
    /\ UNCHANGED <<remaining, queue, hand, workerVars, rows_generated, stats,
                   file_counter, history, control>>

(* A generator, append_row or BatchBuilder::finish returned an error.      *)
GenerateFails(g) ==
    /\ "generate" \in Faults
    /\ genPc[g] = "build"
    /\ GenGoto(g, "failed")
    /\ hand' = [hand EXCEPT ![g] = 0]
    /\ unsent' = unsent + hand[g]
    /\ UNCHANGED <<remaining, queue, workerVars, rows_generated, stats,
                   file_counter, stored, unwritten, control>>

(* queue.send: blocks while the queue is full and somebody could receive.  *)
Send(g) ==
    /\ genPc[g] = "build"
    /\ ~NoReceivers
    /\ Len(queue) < QueueDepth
    /\ queue' = Append(queue, hand[g])
    /\ GenGoto(g, "count")
    /\ UNCHANGED <<remaining, hand, workerVars, rows_generated, stats,
                   file_counter, history, control>>

(* queue.send returned an error: every receiver is gone.                   *)
SendFails(g) ==
    /\ genPc[g] = "build"
    /\ NoReceivers
    /\ GenGoto(g, "done")
    /\ hand' = [hand EXCEPT ![g] = 0]
    /\ unsent' = unsent + hand[g]
    /\ UNCHANGED <<remaining, queue, workerVars, rows_generated, stats,
                   file_counter, stored, unwritten, control>>

(* Only after the send are the rows counted as generated.                  *)
CountRows(g) ==
    /\ genPc[g] = "count"
    /\ rows_generated' = rows_generated + hand[g]
    /\ hand' = [hand EXCEPT ![g] = 0]
    /\ GenGoto(g, "check")
    /\ UNCHANGED <<remaining, queue, workerVars, stats, file_counter, history,
                   control>>

Generator(g) ==
    \/ CheckDeadline(g) \/ Reserve(g) \/ QuotaSpent(g) \/ GenerateFails(g)
    \/ Send(g) \/ SendFails(g) \/ CountRows(g)
-----------------------------------------------------------------------------
(* upload_worker and the ParquetSink it owns.                              *)

WorkerGoto(w, pc) == workerPc' = [workerPc EXCEPT ![w] = pc]

(* queue.recv returned a batch. *)
Receive(w) ==
    /\ workerPc[w] = "recv"
    /\ queue # <<>>
    /\ batch' = [batch EXCEPT ![w] = Head(queue)]
    /\ queue' = Tail(queue)
    /\ WorkerGoto(w, "write")
    /\ UNCHANGED <<remaining, genVars, sinkVars, refund, abandoned,
                   rows_generated, stats, file_counter, history, control>>

(* Seeded fault: a closed queue is left with batches still in it. *)
QueueClosedUndrained(w) ==
    /\ workerPc[w] = "recv"
    /\ NoSenders
    /\ WorkerGoto(w, "finish")
    /\ UNCHANGED <<remaining, queue, genVars, batch, sinkVars, refund, abandoned,
                   rows_generated, stats, file_counter, history, control>>

(* queue.recv returned an error: closed and empty, so finish the sink.     *)
QueueClosed(w) ==
    /\ workerPc[w] = "recv"
    /\ queue = <<>>
    /\ NoSenders
    /\ WorkerGoto(w, "finish")
    /\ UNCHANGED <<remaining, queue, genVars, batch, sinkVars, refund, abandoned,
                   rows_generated, stats, file_counter, history, control>>

(* ParquetSink::open, from write when no file is open.  next_path has used  *)
(* up a place in the file numbering even when the file cannot be started.   *)
Open(w) ==
    /\ workerPc[w] = "write"
    /\ ~file[w]
    /\ file_counter' = file_counter + 1
    /\ file' = [file EXCEPT ![w] = TRUE]
    /\ rowsInActive' = [rowsInActive EXCEPT ![w] = 0]
    /\ UNCHANGED <<remaining, queue, genVars, workerPc, batch, refund, abandoned,
                   rows_generated, stats, history, control>>

(* Seeded fault: the file number is only used up by a file that starts. *)
OpenFailsUnnumbered(w) ==
    /\ "open" \in Faults
    /\ workerPc[w] = "write"
    /\ ~file[w]
    /\ WorkerGoto(w, "error")
    /\ batch' = [batch EXCEPT ![w] = 0]
    /\ unwritten' = unwritten + batch[w]
    /\ UNCHANGED <<remaining, queue, genVars, sinkVars, refund, abandoned,
                   rows_generated, stats, file_counter, stored, unsent, control>>

OpenFails(w) ==
    /\ "open" \in Faults
    /\ workerPc[w] = "write"
    /\ ~file[w]
    /\ file_counter' = file_counter + 1
    /\ WorkerGoto(w, "error")
    /\ batch' = [batch EXCEPT ![w] = 0]
    /\ unwritten' = unwritten + batch[w]
    /\ UNCHANGED <<remaining, queue, genVars, sinkVars, refund, abandoned,
                   rows_generated, stats, stored, unsent, control>>

(* The writer took the batch; the file may have reached its cap by then.   *)
Write(w) ==
    /\ workerPc[w] = "write"
    /\ file[w]
    /\ rowsInActive' = [rowsInActive EXCEPT ![w] = @ + batch[w]]
    /\ rows' = rows + batch[w]
    /\ batch' = [batch EXCEPT ![w] = 0]
    /\ \E pc \in {"recv", "roll"} : WorkerGoto(w, pc)
    /\ UNCHANGED <<remaining, queue, genVars, file, refund, abandoned,
                   rows_generated, rows_lost, files_abandoned, files_completed,
                   file_counter, history, control>>

(* Seeded fault: rows are counted before the writer has taken them. *)
WriteFailsCounted(w) ==
    /\ "write" \in Faults
    /\ workerPc[w] = "write"
    /\ file[w]
    /\ WorkerGoto(w, "error")
    /\ rows' = rows + batch[w]
    /\ batch' = [batch EXCEPT ![w] = 0]
    /\ unwritten' = unwritten + batch[w]
    /\ UNCHANGED <<remaining, queue, genVars, sinkVars, refund, abandoned,
                   rows_generated, rows_lost, files_abandoned, files_completed,
                   file_counter, stored, unsent, control>>

(* The writer failed: write returns before any row is counted.             *)
WriteFails(w) ==
    /\ "write" \in Faults
    /\ workerPc[w] = "write"
    /\ file[w]
    /\ WorkerGoto(w, "error")
    /\ batch' = [batch EXCEPT ![w] = 0]
    /\ unwritten' = unwritten + batch[w]
    /\ UNCHANGED <<remaining, queue, genVars, sinkVars, refund, abandoned,
                   rows_generated, stats, file_counter, stored, unsent, control>>

(* Seeded fault: rows_in_active survives a clean close. *)
CloseWithoutReset(w) ==
    /\ file[w]
    /\ file' = [file EXCEPT ![w] = FALSE]
    /\ files_completed' = files_completed + 1
    /\ stored' = stored + rowsInActive[w]
    /\ UNCHANGED rowsInActive

(* close_active takes the file first; a failed close leaves rows_in_active. *)
CloseSucceeds(w) ==
    /\ file[w]
    /\ file' = [file EXCEPT ![w] = FALSE]
    /\ files_completed' = files_completed + 1
    /\ stored' = stored + rowsInActive[w]
    /\ rowsInActive' = [rowsInActive EXCEPT ![w] = 0]

CloseFails(w) ==
    /\ "close" \in Faults
    /\ file[w]
    /\ file' = [file EXCEPT ![w] = FALSE]
    /\ UNCHANGED <<files_completed, stored, rowsInActive>>

Roll(w) ==
    /\ workerPc[w] = "roll"
    /\ \/ CloseSucceeds(w) /\ WorkerGoto(w, "recv")
       \/ CloseFails(w) /\ WorkerGoto(w, "error")
    /\ UNCHANGED <<remaining, queue, genVars, batch, refund, abandoned,
                   rows_generated, rows, rows_lost, files_abandoned,
                   file_counter, unsent, unwritten, control>>

(* A failed write beyond what file_retries tolerates: the worker returns an *)
(* error at once, without abandoning or finishing its file.                *)
GiveUp(w) ==
    /\ workerPc[w] = "error"
    /\ abandoned[w] + 1 > FileRetries
    /\ abandoned' = [abandoned EXCEPT ![w] = @ + 1]
    /\ WorkerGoto(w, "failed")
    /\ UNCHANGED <<remaining, queue, genVars, batch, sinkVars, refund,
                   rows_generated, stats, file_counter, history, control>>

(* Seeded fault: the abandoned file's rows stay in the sink's count. *)
AbandonWithoutReset(w) ==
    /\ workerPc[w] = "error"
    /\ abandoned[w] + 1 <= FileRetries
    /\ abandoned' = [abandoned EXCEPT ![w] = @ + 1]
    /\ file' = [file EXCEPT ![w] = FALSE]
    /\ files_abandoned' = files_abandoned + 1
    /\ rows_lost' = rows_lost + rowsInActive[w]
    /\ refund' = [refund EXCEPT ![w] = rowsInActive[w]]
    /\ WorkerGoto(w, "credit")
    /\ UNCHANGED <<remaining, queue, genVars, batch, rowsInActive,
                   rows_generated, rows, files_completed, file_counter,
                   history, control>>

(* A tolerated failure: abandon_active drops the file and counts its rows. *)
Abandon(w) ==
    /\ workerPc[w] = "error"
    /\ abandoned[w] + 1 <= FileRetries
    /\ abandoned' = [abandoned EXCEPT ![w] = @ + 1]
    /\ file' = [file EXCEPT ![w] = FALSE]
    /\ files_abandoned' = files_abandoned + 1
    /\ rows_lost' = rows_lost + rowsInActive[w]
    /\ refund' = [refund EXCEPT ![w] = rowsInActive[w]]
    /\ rowsInActive' = [rowsInActive EXCEPT ![w] = 0]
    /\ WorkerGoto(w, "credit")
    /\ UNCHANGED <<remaining, queue, genVars, batch, rows_generated, rows,
                   files_completed, file_counter, history, control>>

(* Put the abandoned file's rows back into the quota, if there is one.     *)
Credit(w) ==
    /\ workerPc[w] = "credit"
    /\ remaining' = IF RowsLimited THEN remaining + refund[w] ELSE remaining
    /\ refund' = [refund EXCEPT ![w] = 0]
    /\ WorkerGoto(w, "recv")
    /\ UNCHANGED <<queue, genVars, batch, sinkVars, abandoned, rows_generated,
                   stats, file_counter, history, control>>

(* Seeded fault: the worker returns without finishing its sink. *)
FinishForgotten(w) ==
    /\ workerPc[w] = "finish"
    /\ WorkerGoto(w, "done")
    /\ UNCHANGED <<remaining, queue, genVars, batch, sinkVars, refund, abandoned,
                   rows_generated, stats, file_counter, history, control>>

(* sink.finish with nothing open, or closing the last file.                *)
Finish(w) ==
    /\ workerPc[w] = "finish"
    /\ \/ /\ ~file[w]
          /\ UNCHANGED <<file, files_completed, stored, rowsInActive>>
       \/ CloseSucceeds(w)
    /\ WorkerGoto(w, "done")
    /\ UNCHANGED <<remaining, queue, genVars, batch, refund, abandoned,
                   rows_generated, rows, rows_lost, files_abandoned,
                   file_counter, unsent, unwritten, control>>

(* The last close failed: fatal or tolerated, but never abandoned.         *)
FinishFails(w) ==
    /\ workerPc[w] = "finish"
    /\ CloseFails(w)
    /\ abandoned' = [abandoned EXCEPT ![w] = @ + 1]
    /\ WorkerGoto(w, IF abandoned[w] + 1 > FileRetries THEN "failed" ELSE "done")
    /\ UNCHANGED <<remaining, queue, genVars, batch, refund, rows_generated,
                   rows, rows_lost, files_abandoned, file_counter, unsent,
                   unwritten, control>>

Worker(w) ==
    \/ Receive(w) \/ QueueClosed(w) \/ Open(w) \/ OpenFails(w) \/ Write(w)
    \/ WriteFails(w) \/ Roll(w) \/ GiveUp(w) \/ Abandon(w) \/ Credit(w)
    \/ Finish(w) \/ FinishFails(w)
-----------------------------------------------------------------------------
(* run_parquet's joins, the status task and the clock.                     *)

tasks == <<remaining, queue, genVars, workerVars, rows_generated, stats,
           file_counter, history>>

JoinGenerators ==
    /\ mainPc = "generating"
    /\ AllGenStopped
    /\ mainPc' = "draining"
    /\ UNCHANGED <<tasks, expired, statusOn>>

JoinWorkers ==
    /\ mainPc = "draining"
    /\ AllWorkersStopped
    /\ mainPc' = "reporting"
    /\ UNCHANGED <<tasks, expired, statusOn>>

(* Seeded fault: the status task keeps looping after it has seen done. *)
StatusLoops ==
    /\ statusOn
    /\ mainPc = "reporting"
    /\ UNCHANGED vars

(* status_loop sees done, paints once more and returns its receiver.       *)
StatusExits ==
    /\ statusOn
    /\ mainPc = "reporting"
    /\ statusOn' = FALSE
    /\ UNCHANGED <<tasks, expired, mainPc>>

(* The status task is awaited, then the first failure, if any, is returned. *)
Report ==
    /\ mainPc = "reporting"
    /\ ~statusOn
    /\ mainPc' = IF SomeTaskFailed THEN "failed" ELSE "ok"
    /\ UNCHANGED <<tasks, expired, statusOn>>

Main == JoinGenerators \/ JoinWorkers \/ Report

DeadlinePasses ==
    /\ HasDeadline
    /\ ~expired
    /\ expired' = TRUE
    /\ UNCHANGED <<tasks, statusOn, mainPc>>

Exited == mainPc \in {"ok", "failed"}

(* The process has returned; nothing happens any more. *)
Stutter == Exited /\ UNCHANGED vars

Next ==
    \/ \E g \in Generators : Generator(g)
    \/ \E w \in Workers : Worker(w)
    \/ Main
    \/ StatusExits
    \/ DeadlinePasses
    \/ Stutter

Spec == Init /\ [][Next]_vars

(* tokio keeps polling every task that can move, and time passes.  Nothing *)
(* is assumed about who wins the race for a queue slot or a batch.         *)
Fairness ==
    /\ \A g \in Generators : WF_vars(Generator(g))
    /\ \A w \in Workers : WF_vars(Worker(w))
    /\ WF_vars(Main)
    /\ WF_vars(StatusExits)
    /\ WF_vars(DeadlinePasses)

FairSpec == Spec /\ Fairness
-----------------------------------------------------------------------------
(* Where rows are.                                                         *)

Building == [g \in Generators |-> IF genPc[g] = "build" THEN hand[g] ELSE 0]
Uncounted == [g \in Generators |-> IF genPc[g] = "count" THEN hand[g] ELSE 0]

InFlight ==
    Total(Building) + Total(queue) + Total(batch) + Total(rowsInActive) + Total(refund)

(* The quota is never over- or undercounted: at every instant each row of a *)
(* `--rows` run is in the shared quota, in a generator's hands, in the      *)
(* queue, in a worker's hands, in an open file, on its way back from an     *)
(* abandoned file, in a finished file, or in a batch that failed.  It is    *)
(* what reserve_batch, abandon_active and the credit in upload_worker have  *)
(* to achieve together.                                                     *)
RowConservation ==
    RowsLimited => remaining + InFlight + stored + unsent + unwritten = Rows

(* Stats.rows and Stats.rows_lost agree with the files: every row a writer  *)
(* took is in a finished file, in a file still open (or left behind), or    *)
(* reported as lost, and never in two of these.                             *)
WrittenRowsAccounted == rows = stored + rows_lost + Total(rowsInActive)

(* Stats.rows_generated, which a generator bumps after the send, agrees     *)
(* with what workers received once the sends not yet counted are added.     *)
SentRowsAccounted ==
    rows_generated + Total(Uncounted) = Total(queue) + Total(batch) + rows + unwritten

(* A file number is spent and its file is neither completed nor counted as  *)
(* abandoned: it is open, its failure is being handled, its worker gave up, *)
(* or it was the last file and its close failed.                            *)
Unresolved(w) ==
    \/ file[w]
    \/ workerPc[w] \in {"error", "failed"}
    \/ workerPc[w] = "done" /\ rowsInActive[w] > 0

Pending == {w \in Workers : Unresolved(w)}

(* The shared file numbering and the two file counters agree: no file is    *)
(* both completed and abandoned, and none is dropped without a trace while  *)
(* its worker runs on.                                                      *)
FilesAccounted ==
    file_counter = files_completed + files_abandoned + Cardinality(Pending)

(* run_parquet returns Ok only when nothing is left behind: every task has  *)
(* returned without an error, the queue is empty, no worker holds a batch,  *)
(* a credit or an open file, and every worker stayed within file_retries.   *)
OkMeansDrained ==
    mainPc = "ok" =>
        /\ \A g \in Generators : genPc[g] = "done" /\ hand[g] = 0
        /\ queue = <<>>
        /\ \A w \in Workers :
            /\ workerPc[w] = "done"
            /\ batch[w] = 0 /\ refund[w] = 0 /\ ~file[w]
            /\ abandoned[w] <= FileRetries

(* A run that saw no upload failure delivers exactly what was asked for and *)
(* its counters say so: rows = rows_generated (the debug_assert at the end  *)
(* of run_parquet), all of them in finished files, and the whole quota      *)
(* unless the deadline cut it short.                                        *)
CleanRunIsExact ==
    mainPc = "ok" /\ (\A w \in Workers : abandoned[w] = 0) =>
        /\ rows = rows_generated
        /\ stored = rows
        /\ rows_lost = 0 /\ files_abandoned = 0
        /\ RowsLimited /\ ~expired => stored = Rows

(* "that works as long as the generators are still running": when the last  *)
(* running generator leaves of its own accord, before any deadline, the     *)
(* quota is empty, credits of abandoned files included.  Only rows credited *)
(* after that can be left over.                                             *)
QuotaDrainedByLastGenerator ==
    [][ ~AllGenStopped /\ AllGenStopped' /\ RowsLimited /\ ~expired
          /\ (\A g \in Generators : genPc'[g] = "done") /\ ~NoReceivers
        => remaining' = 0 ]_vars

(* The inductive invariant behind the properties above.  A task holds rows  *)
(* exactly where its loop says so, and batches are never empty.             *)
HandInv ==
    /\ \A g \in Generators : hand[g] > 0 <=> genPc[g] \in {"build", "count"}
    /\ \A i \in 1..Len(queue) : queue[i] > 0

(* What the sink's file and counters say at each point of the worker's loop. *)
SinkInv ==
    \A w \in Workers :
        /\ batch[w] > 0 <=> workerPc[w] = "write"
        /\ refund[w] > 0 => workerPc[w] = "credit"
        /\ workerPc[w] = "roll" => file[w]
        /\ workerPc[w] \in {"credit", "done"} => ~file[w]
        /\ file[w] /\ workerPc[w] \in {"recv", "roll", "finish"} => rowsInActive[w] > 0
        /\ ~file[w] /\ workerPc[w] \in {"recv", "write", "credit", "finish"}
              => rowsInActive[w] = 0

(* A worker fails exactly when it has used up its retries, and credits rows *)
(* only after it has counted a failure.                                     *)
RetryInv ==
    \A w \in Workers :
        /\ workerPc[w] = "failed" <=> abandoned[w] > FileRetries
        /\ workerPc[w] = "credit" => abandoned[w] > 0

(* The order in which the parts of a run shut down.                        *)
ShutdownInv ==
    /\ \A w \in Workers : workerPc[w] \in {"finish", "done"} => NoSenders /\ queue = <<>>
    /\ mainPc # "generating" => AllGenStopped
    /\ mainPc \in {"reporting", "ok", "failed"} => AllWorkersStopped
    /\ mainPc = "ok" => ~SomeTaskFailed

(* While no upload has failed nothing is lost, and a generator leaves early *)
(* only at the deadline.                                                    *)
NoUploadFailure == \A w \in Workers : abandoned[w] = 0 /\ workerPc[w] # "error"

CleanInv ==
    NoUploadFailure =>
        /\ unwritten = 0 /\ rows_lost = 0 /\ files_abandoned = 0
        /\ \A w \in Workers : workerPc[w] = "done" => rowsInActive[w] = 0
        /\ unsent > 0 => \E g \in Generators : genPc[g] = "failed"
        /\ RowsLimited /\ ~expired /\ (\E g \in Generators : genPc[g] = "done")
              => remaining = 0

IInv ==
    /\ TypeOK /\ RowConservation /\ WrittenRowsAccounted /\ SentRowsAccounted
    /\ FilesAccounted
    /\ HandInv /\ SinkInv /\ RetryInv /\ ShutdownInv /\ CleanInv

(* The run ends: with every task scheduled fairly, run_parquet returns.     *)
Termination == <>Exited

(* The bounded quota run implements the abstract ledger.                    *)
Ledger == INSTANCE RowLedger WITH
    Quota <- Rows,
    pool <- remaining,
    moving <- InFlight,
    gone <- unsent + unwritten

LedgerSpec == Ledger!Spec
-----------------------------------------------------------------------------
(* What comments, docs and an assertion say, which the code does not do.   *)

(* Nothing stands in the way of a run whose writers all gave up: generators *)
(* notice that "every upload worker is gone" and the run fails.             *)
RunFailsOnceAllWritersGaveUp ==
    (\A w \in Workers : workerPc[w] = "failed") ~> (mainPc = "failed")

(* A finished `--rows` run that used up its quota, credits included, and    *)
(* whose last files all closed is not short of rows: crediting abandoned    *)
(* rows "has the generators make up the difference".                        *)
AbandonedRowsAreMadeUp ==
    mainPc = "ok" /\ RowsLimited /\ remaining = 0 /\ Total(rowsInActive) = 0
        => stored = Rows
=============================================================================
