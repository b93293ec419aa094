---------------------------- MODULE ObjectLayout ----------------------------
(***************************************************************************)
(* Where files land (next_path in src/sink.rs): runs that share a prefix,  *)
(* on one machine or several, write                                        *)
(*     <run id>/batch-<number>/part-w<writer>-<index>.parquet              *)
(* The writers of a run draw file numbers from one counter, which decides  *)
(* the batch folder; the index is the writer's own.  Storing an object     *)
(* under a key replaces what was there.                                    *)
(*                                                                         *)
(* The padded decimals of a key are never truncated, so two keys are equal *)
(* exactly when their parts are.                                           *)
(***************************************************************************)
EXTENDS Naturals, FiniteSets

CONSTANTS
    Runs,
    RunIds,             (* run ids, pinned in a configuration or generated *)
    UploadThreads,
    files_per_folder,   (* 0: no batch folders                             *)
    MaxFiles            (* model bound: files one writer opens             *)

ASSUME ObjectLayoutAssumption ==
    /\ UploadThreads \in Nat \ {0}
    /\ files_per_folder \in Nat
    /\ MaxFiles \in Nat

Writers == 0..UploadThreads - 1

VARIABLES
    run_id,         (* per run: its id, the same for all its writers       *)
    file_counter,   (* per run: files opened so far by all writers         *)
    file_index,     (* per run and writer: files it opened                 *)
    active,         (* per run and writer: its open file, at most one      *)
    numbered,       (* history: every file that ever got a number          *)
    completed,      (* history: files whose upload completed               *)
    store           (* completed files whose objects have not been replaced *)

vars == <<run_id, file_counter, file_index, active, numbered, completed, store>>

File == [run : Runs, writer : Writers, index : Nat \ {0}, number : Nat]

TypeOK ==
    /\ run_id \in [Runs -> RunIds]
    /\ file_counter \in [Runs -> Nat]
    /\ file_index \in [Runs -> [Writers -> Nat]]
    /\ active \in [Runs -> [Writers -> SUBSET numbered]]
    /\ numbered \in SUBSET File
    /\ completed \in SUBSET numbered
    /\ store \in SUBSET completed

(* Two runs have the same id only if it was pinned, or empty, in both.     *)
Init ==
    /\ run_id \in [Runs -> RunIds]
    /\ file_counter = [r \in Runs |-> 0]
    /\ file_index = [r \in Runs |-> [w \in Writers |-> 0]]
    /\ active = [r \in Runs |-> [w \in Writers |-> {}]]
    /\ numbered = {}
    /\ completed = {}
    /\ store = {}

(* Batch folders count from 1; checked_div leaves them out when they hold 0. *)
BatchOf(f) == IF files_per_folder = 0 THEN 0 ELSE f.number \div files_per_folder + 1

(* Seeded fault: the key does not say which writer's file it is. *)
KeyWithoutWriter(f) == <<run_id[f.run], BatchOf(f), f.index>>

Key(f) == <<run_id[f.run], BatchOf(f), f.writer, f.index>>

(* Seeded fault: every writer numbers its files for itself. *)
NextFileOwnNumber(r, w) ==
    [run |-> r, writer |-> w, index |-> file_index[r][w] + 1,
     number |-> file_index[r][w]]

(* next_path: the writer's next index and the run's next number. *)
NextFile(r, w) ==
    [run |-> r, writer |-> w, index |-> file_index[r][w] + 1,
     number |-> file_counter[r]]

TakeNumber(r, w) ==
    /\ active[r][w] = {}
    /\ file_index[r][w] < MaxFiles
    /\ file_counter' = [file_counter EXCEPT ![r] = @ + 1]
    /\ file_index' = [file_index EXCEPT ![r][w] = @ + 1]
    /\ numbered' = numbered \cup {NextFile(r, w)}

(* open succeeded: the file exists in the writer only. *)
Open(r, w) ==
    /\ TakeNumber(r, w)
    /\ active' = [active EXCEPT ![r][w] = {NextFile(r, w)}]
    /\ UNCHANGED <<run_id, completed, store>>

(* open failed after the number was taken: no file will ever have it.      *)
OpenFails(r, w) ==
    /\ TakeNumber(r, w)
    /\ UNCHANGED <<run_id, active, completed, store>>

(* close_active completed the upload: the object appears under its key.    *)
Close(r, w) ==
    \E f \in active[r][w] :
        /\ completed' = completed \cup {f}
        /\ store' = {g \in store : Key(g) # Key(f)} \cup {f}
        /\ active' = [active EXCEPT ![r][w] = {}]
        /\ UNCHANGED <<run_id, file_counter, file_index, numbered>>

(* The file is abandoned, or its close failed: nothing appears.            *)
Drop(r, w) ==
    /\ active[r][w] # {}
    /\ active' = [active EXCEPT ![r][w] = {}]
    /\ UNCHANGED <<run_id, file_counter, file_index, numbered, completed, store>>

(* No writer has a file open and none will open another. *)
Ended ==
    \A r \in Runs, w \in Writers :
        active[r][w] = {} /\ file_index[r][w] = MaxFiles

Stutter == Ended /\ UNCHANGED vars

Next ==
    \/ \E r \in Runs, w \in Writers :
          Open(r, w) \/ OpenFails(r, w) \/ Close(r, w) \/ Drop(r, w)
    \/ Stutter

Spec == Init /\ [][Next]_vars
-----------------------------------------------------------------------------
Folder(r, b) == {f \in numbered : f.run = r /\ BatchOf(f) = b}

(* "The writer id keeps concurrent writers from colliding": every completed  *)
(* file can still be read under its key, unless a run that was given the    *)
(* same id wrote over it; a run never overwrites its own files.            *)
OnlySameIdOverwrites ==
    \A f \in completed :
        \/ f \in store
        \/ \E g \in store : Key(g) = Key(f) /\ g.run # f.run /\ run_id[g.run] = run_id[f.run]

(* "each folder fills to exactly files_per_folder regardless of which       *)
(* writer produced its files": every folder that numbering has passed was   *)
(* given exactly that many numbers, and the newest at most as many.        *)
FoldersPacked ==
    files_per_folder > 0 =>
        \A f \in numbered :
            LET size == Cardinality(Folder(f.run, BatchOf(f))) IN
                /\ size <= files_per_folder
                /\ BatchOf(f) * files_per_folder <= file_counter[f.run]
                       => size = files_per_folder

(* A folder that has all its files never changes again, so that one load    *)
(* job may read it while the run goes on.                                  *)
SealedFoldersStay ==
    [][ \A f \in completed :
          LET folder == Folder(f.run, BatchOf(f)) IN
            /\ files_per_folder > 0
            /\ \A r \in Runs : run_id[r] = run_id[f.run] => r = f.run
            /\ Cardinality(folder \cap completed) = files_per_folder
            => /\ Folder(f.run, BatchOf(f))' = folder
               /\ folder \cap store' = folder \cap store ]_vars
=============================================================================
