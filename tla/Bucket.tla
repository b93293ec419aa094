------------------------------- MODULE Bucket -------------------------------
(***************************************************************************)
(* The object layout with the multipart uploads behind its files, and      *)
(* calcsize (src/src/bin/calcsize.rs), which lists the uploads left in the *)
(* bucket page by page and aborts them, by age or regardless of it, while  *)
(* the runs may still be writing.                                          *)
(*                                                                         *)
(* A file smaller than one part is stored by a single request; a larger    *)
(* one begins an upload that a successful close completes.  The store      *)
(* forgets an upload only when it is completed or aborted.                 *)
(***************************************************************************)
EXTENDS ObjectLayout

CONSTANTS
    Cutoff,     (* --abort-older-than, in days                             *)
    Modes,      (* how calcsize is run: "keep" (--no-abort), "stale", "force" *)
    PageSize,   (* uploads the store lists at a time                       *)
    LastDay,    (* model bounds: days,                                     *)
    MaxNumbered, MaxUploads    (* files and uploads of all runs together   *)

ASSUME BucketAssumption ==
    /\ Cutoff \in Nat /\ PageSize \in Nat \ {0}
    /\ Modes \subseteq {"keep", "stale", "force"}
    /\ MaxNumbered \in Nat

VARIABLES
    uploads,    (* multipart uploads in the bucket: the file, the day begun *)
    began,      (* files whose upload ever began                           *)
    gone,       (* <<run, writer>>: workers that gave up, or were killed   *)
    broken,     (* files whose upload could not be closed or aborted       *)
    today,
    sweep       (* calcsize: where it is, its mode and what it found       *)

debris == <<uploads, began, gone, broken>>
bucketVars == <<vars, debris, today, sweep>>

BucketInit ==
    /\ Init
    /\ uploads = {} /\ began = {} /\ gone = {} /\ broken = {} /\ today = 0
    /\ sweep = [pc |-> "off", mode |-> "none", found |-> {}, todo |-> {}, failed |-> 0, quiet |-> FALSE]

UploadsOf(f) == {u \in uploads : u.file = f}
-----------------------------------------------------------------------------
(* A writer's steps: those of the layout, and what becomes of the upload.  *)

SinkOpen(r, w) ==
    /\ <<r, w>> \notin gone
    /\ Cardinality(numbered) < MaxNumbered
    /\ Open(r, w) \/ OpenFails(r, w)
    /\ UNCHANGED debris

(* The first full part. *)
BeginUpload(r, w) ==
    \E f \in active[r][w] \ began :
        /\ Cardinality(began) < MaxUploads
        /\ uploads' = uploads \cup {[file |-> f, day |-> today]}
        /\ began' = began \cup {f}
        /\ UNCHANGED <<vars, gone, broken>>

(* close completes the upload, if the file has one and it is still there.  *)
SinkClose(r, w) ==
    \E f \in active[r][w] :
        /\ f \in began => UploadsOf(f) # {}
        /\ Close(r, w)
        /\ uploads' = uploads \ UploadsOf(f)
        /\ UNCHANGED <<began, gone, broken>>

(* close took the writer before it failed: abandon_active has none to abort. *)
SinkCloseFails(r, w) ==
    /\ Drop(r, w)
    /\ broken' = broken \cup (active[r][w] \cap began)
    /\ UNCHANGED <<uploads, began, gone>>

(* Seeded fault: the file is forgotten, its upload is not aborted. *)
AbandonWithoutAbort(r, w) == Drop(r, w) /\ UNCHANGED debris

(* abandon_active after a failed write: the abort may fail as well.        *)
Abandon(r, w) ==
    /\ Drop(r, w)
    /\ \/ /\ uploads' = {u \in uploads : u.file \notin active[r][w]}
          /\ UNCHANGED broken
       \/ /\ broken' = broken \cup (active[r][w] \cap began)
          /\ UNCHANGED uploads
    /\ UNCHANGED <<began, gone>>

(* upload_worker returns its error, or the process is killed: the writer is *)
(* dropped with its file as it is.                                         *)
Leave(r, w) ==
    /\ Drop(r, w)
    /\ gone' = gone \cup {<<r, w>>}
    /\ UNCHANGED <<uploads, began, broken>>

Writer(r, w) ==
    /\ \/ SinkOpen(r, w) \/ BeginUpload(r, w) \/ SinkClose(r, w)
       \/ SinkCloseFails(r, w) \/ Abandon(r, w) \/ Leave(r, w)
    /\ UNCHANGED <<today, sweep>>

DayPasses == today < LastDay /\ today' = today + 1 /\ UNCHANGED <<vars, debris, sweep>>
-----------------------------------------------------------------------------
(* calcsize.                                                               *)

(* No worker has a file open, and none will open another. *)
Idle == \A r \in Runs, w \in Writers :
            /\ active[r][w] = {}
            /\ \/ file_index[r][w] = MaxFiles \/ <<r, w>> \in gone
               \/ Cardinality(numbered) = MaxNumbered

StartListing ==
    /\ sweep.pc = "off"
    /\ \E m \in Modes : sweep' = [sweep EXCEPT !.pc = "listing", !.mode = m, !.quiet = Idle]
    /\ UNCHANGED <<vars, debris, today>>

(* Seeded fault: an upload of exactly the cutoff's age is stale. *)
StaleFromCutoff(found) == {u \in found : sweep.mode = "force" \/ today - u.day >= Cutoff}

Stale(found) == {u \in found : sweep.mode = "force" \/ today - u.day > Cutoff}

(* Seeded fault: the first page is taken for the whole list. *)
LastPageAlways(page) == TRUE

(* The store says whether the page was the last. *)
LastPage(page) == uploads \subseteq sweep.found \cup page

(* list_multipart page by page, then the split by age and what --no-abort skips. *)
ListPage ==
    \E page \in SUBSET (uploads \ sweep.found) :
        /\ sweep.pc = "listing"
        /\ Cardinality(page) <= PageSize
        /\ LastPage(page) \/ Cardinality(page) = PageSize
        /\ sweep' = IF ~LastPage(page) THEN [sweep EXCEPT !.found = @ \cup page]
                    ELSE LET found == sweep.found \cup page IN
                         [sweep EXCEPT !.found = {},
                             !.pc = IF sweep.mode = "keep" THEN "done" ELSE "clearing",
                             !.todo = IF sweep.mode = "keep" THEN {} ELSE Stale(found)]
        /\ UNCHANGED <<vars, debris, today>>

(* One abort; an upload that is gone by now cannot be aborted either.      *)
AbortUpload ==
    \E u \in sweep.todo :
        /\ sweep.pc = "clearing"
        /\ \/ /\ u \in uploads
              /\ uploads' = uploads \ {u}
              /\ sweep' = [sweep EXCEPT !.todo = @ \ {u}]
           \/ /\ sweep' = [sweep EXCEPT !.todo = @ \ {u}, !.failed = @ + 1]
              /\ UNCHANGED uploads
        /\ UNCHANGED <<vars, began, gone, broken, today>>

SweepEnds ==
    /\ sweep.pc = "clearing" /\ sweep.todo = {}
    /\ sweep' = [sweep EXCEPT !.pc = "done"]
    /\ UNCHANGED <<vars, debris, today>>

Calcsize == StartListing \/ ListPage \/ AbortUpload \/ SweepEnds

Over == Idle /\ sweep.pc = "done" /\ UNCHANGED bucketVars

BucketNext == (\E r \in Runs, w \in Writers : Writer(r, w)) \/ DayPasses \/ Calcsize \/ Over

BucketSpec == BucketInit /\ [][BucketNext]_bucketVars
-----------------------------------------------------------------------------
(* "aborting its multipart upload so it does not linger as billable parts": *)
(* an upload in the bucket is that of an open file, or the store refused to *)
(* close or abort it, or its worker left with the file open.               *)
PartsExplained ==
    \A u \in uploads :
        \/ u.file \in active[u.file.run][u.file.writer]
        \/ u.file \in broken
        \/ <<u.file.run, u.file.writer>> \in gone

(* Only --force-abort takes the upload away under a writer's hands within   *)
(* the days that calcsize says are left intact.                            *)
SparesTheFresh ==
    [][ \A u \in uploads \ uploads' :
          u.file \in active'[u.file.run][u.file.writer]
          => sweep.mode = "force" \/ today - u.day > Cutoff ]_bucketVars

(* --force-abort after the last writer has ended leaves nothing behind,     *)
(* however many pages the list takes, unless it reports a failure.         *)
SweptClean ==
    sweep.pc = "done" /\ sweep.mode = "force" /\ sweep.quiet /\ sweep.failed = 0 => uploads = {}
=============================================================================
