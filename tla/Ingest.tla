------------------------------- MODULE Ingest -------------------------------
(***************************************************************************)
(* The ingestion of the document folders (app.py) and what starts it: the   *)
(* file watcher (file_watcher.py), which ingests in its own thread, and     *)
(* POST /ingest and /ingest-sync, which the ten-minute timer calls.         *)
(*                                                                         *)
(* Nothing keeps two ingestions apart: _ingest_lock is not used, and the    *)
(* flag of _ingest_status is only looked at by POST /ingest.  There is one  *)
(* folder here; of a text all chunks are upserted at once.                  *)
(***************************************************************************)
EXTENDS Naturals, FiniteSets

CONSTANTS
  Paths,          \* numbers, in the order of sorted(folder.rglob("*"))
  Images,         \* those that are images
  Texts,          \* what a file may hold: its digest
  Unreadable,     \* a text that extract_text raises on, or that is empty
  NoText,         \* no file, no row
  Watcher, Posts, \* the thread of the watcher, the threads of the requests
  MaxChanges      \* bound: changes of files, failures, crashes

ASSUME IngestAssumption ==
  /\ Paths \subseteq Nat /\ Images \subseteq Paths
  /\ Unreadable \in Texts /\ NoText \notin Texts
  /\ Watcher \notin Posts
  /\ MaxChanges \in Nat

Runs == Posts \cup {Watcher}

VARIABLES
  disk,           \* the folder
  tracked,        \* ingest.db, table files: the digest of a path
  found,          \* Qdrant: points, by path and text
  changed,        \* what the watcher's next scan finds: the times of the files
  flag,           \* _ingest_status["running"]
  run,            \* each thread: where it is and what it has read
  changes,        \* history: changes, failures and crashes so far
  overlapped,     \* history: two ingestions have been at work at once
  amiss           \* history: paths with a failure or a crash between two steps

ingestVars == <<disk, tracked, found, changed, flag, run, changes, overlapped, amiss>>

IdleRun ==
  [at |-> "idle", todo |-> {}, seen |-> {}, path |-> 0, text |-> NoText, background |-> FALSE]
Busy == {r \in Runs : run[r].at # "idle"}
Of(p) == {k \in found : k[1] = p}

IngestTypeOK ==
  /\ disk \in [Paths -> Texts \cup {NoText}]
  /\ tracked \in [Paths -> (Texts \ {Unreadable}) \cup {NoText}]
  /\ found \subseteq Paths \X (Texts \ {Unreadable})
  /\ changed \subseteq Paths /\ amiss \subseteq Paths
  /\ flag \in BOOLEAN /\ overlapped \in BOOLEAN
  /\ \A r \in Runs :
       /\ run[r].at \in {"idle", "walk", "upsert", "mark", "gc", "purge"}
       /\ run[r].todo \subseteq Paths /\ run[r].seen \subseteq Paths
       /\ run[r].at \in {"upsert", "mark"} =>
            run[r].path \in run[r].seen /\ run[r].text \in Texts \ {Unreadable}
       /\ run[r].at = "purge" => run[r].path \in Paths \ run[r].seen
  /\ changes \in 0..MaxChanges

IngestInit ==
  /\ disk = [p \in Paths |-> NoText] /\ tracked = disk
  /\ found = {} /\ changed = {} /\ flag = FALSE
  /\ run = [r \in Runs |-> IdleRun]
  /\ changes = 0 /\ overlapped = FALSE /\ amiss = {}

Changes == changes < MaxChanges /\ changes' = changes + 1

-----------------------------------------------------------------------------
(* What happens to the folder and to the process. *)

Change(p, t) ==
  /\ Changes /\ t # disk[p]
  /\ disk' = [disk EXCEPT ![p] = t]
  /\ changed' = changed \cup {p}
  /\ UNCHANGED <<tracked, found, flag, run, overlapped, amiss>>

\* The points and the row of a path are written one after the other; the first
\* scan takes the files as they are.
CrashIngest ==
  /\ Changes
  /\ run' = [r \in Runs |-> IdleRun] /\ changed' = {} /\ flag' = FALSE
  /\ amiss' = amiss \cup {run[r].path : r \in {q \in Runs : run[q].at \in {"mark", "purge"}}}
  /\ UNCHANGED <<disk, tracked, found, overlapped>>

-----------------------------------------------------------------------------
(* An ingestion begins. *)

Begin(r, background) ==
  /\ run[r].at = "idle"
  /\ run' = [run EXCEPT ![r] = [IdleRun EXCEPT !.at = "walk", !.background = background,
                                               !.todo = {p \in Paths : disk[p] # NoText}]]
  /\ overlapped' = (overlapped \/ Busy # {})

\* _watch_loop: all changes since the last scan; the interval is longer than
\* the debounce.
Scan ==
  /\ changed # {}
  /\ changed' = {}
  /\ Begin(Watcher, TRUE)
  /\ UNCHANGED <<disk, tracked, found, flag, changes, amiss>>

\* POST /ingest; POST /ingest-sync.
PostIngest(r) ==
  /\ ~ flag
  /\ flag' = TRUE
  /\ Begin(r, TRUE)
  /\ UNCHANGED <<disk, tracked, found, changed, changes, amiss>>

PostSync(r) ==
  /\ Begin(r, FALSE)
  /\ UNCHANGED <<disk, tracked, found, changed, flag, changes, amiss>>

\* Returns, or raises: _background_ingest clears the flag, whoever set it.
EndRun(r) ==
  /\ run' = [run EXCEPT ![r] = IdleRun]
  /\ flag' = (flag /\ ~ run[r].background)

-----------------------------------------------------------------------------
(* _run_ingest_sync *)

\* The next file, which may be gone: what is not read, and what is tracked with
\* this digest, is skipped.
Walk(r) ==
  /\ run[r].at = "walk" /\ run[r].todo # {}
  /\ LET p == CHOOSE q \in run[r].todo : \A o \in run[r].todo : q <= o
         next == [run[r] EXCEPT !.todo = run[r].todo \ {p},
                                !.seen = IF disk[p] = NoText THEN run[r].seen ELSE run[r].seen \cup {p}]
     IN run' = [run EXCEPT ![r] =
          IF disk[p] \in {NoText, Unreadable, tracked[p]} THEN next
          ELSE [next EXCEPT !.at = "upsert", !.path = p, !.text = disk[p]]]
  /\ UNCHANGED <<disk, tracked, found, changed, flag, changes, overlapped, amiss>>

\* The points of another text of the path stay.
UpsertPoints(r) ==
  /\ run[r].at = "upsert"
  /\ found' = found \cup {<<run[r].path, run[r].text>>}
  /\ run' = [run EXCEPT ![r].at = "mark"]
  /\ UNCHANGED <<disk, tracked, changed, flag, changes, overlapped, amiss>>

\* Mutant of UpsertFails: the next statement follows.
UpsertFailsMarked(r) ==
  /\ run[r].at = "upsert"
  /\ Changes
  /\ run' = [run EXCEPT ![r].at = "mark"]
  /\ UNCHANGED <<disk, tracked, found, changed, flag, overlapped, amiss>>

\* No vectors, or no Qdrant: that ends the ingestion, but of an image the
\* exception is ignored.
UpsertFails(r) ==
  /\ run[r].at = "upsert"
  /\ Changes
  /\ IF run[r].path \in Images
     THEN /\ run' = [run EXCEPT ![r].at = "mark"]
          /\ amiss' = amiss \cup {run[r].path}
          /\ UNCHANGED flag
     ELSE EndRun(r) /\ UNCHANGED amiss
  /\ UNCHANGED <<disk, tracked, found, changed, overlapped>>

MarkIngested(r) ==
  /\ run[r].at = "mark"
  /\ tracked' = [tracked EXCEPT ![run[r].path] = run[r].text]
  /\ run' = [run EXCEPT ![r].at = "walk"]
  /\ UNCHANGED <<disk, found, changed, flag, changes, overlapped, amiss>>

Orphans(r) == {p \in Paths \ run[r].seen : tracked[p] # NoText}

Collect(r) ==
  /\ run[r].at = "walk" /\ run[r].todo = {}
  /\ run' = [run EXCEPT ![r] = [run[r] EXCEPT !.at = "gc", !.todo = Orphans(r)]]
  /\ UNCHANGED <<disk, tracked, found, changed, flag, changes, overlapped, amiss>>

\* First the row, then the points; without them it goes on.
DropRow(r, p) ==
  /\ run[r].at = "gc" /\ p \in run[r].todo
  /\ tracked' = [tracked EXCEPT ![p] = NoText]
  /\ run' = [run EXCEPT ![r] = [run[r] EXCEPT !.todo = run[r].todo \ {p}, !.at = "purge", !.path = p]]
  /\ UNCHANGED <<disk, found, changed, flag, changes, overlapped, amiss>>

DropPoints(r) ==
  /\ run[r].at = "purge"
  /\ run' = [run EXCEPT ![r].at = "gc"]
  /\ \/ found' = found \ Of(run[r].path) /\ UNCHANGED <<changes, amiss>>
     \/ Changes /\ amiss' = amiss \cup {run[r].path} /\ UNCHANGED found
  /\ UNCHANGED <<disk, tracked, changed, flag, overlapped>>

FinishRun(r) ==
  /\ run[r].at = "gc" /\ run[r].todo = {}
  /\ EndRun(r)
  /\ UNCHANGED <<disk, tracked, found, changed, changes, overlapped, amiss>>

\* The watcher, the timer and the threads go on.
IngestProgress ==
  \/ Scan
  \/ \E r \in Posts : PostIngest(r)
  \/ \E r \in Runs : \/ Walk(r) \/ UpsertPoints(r) \/ MarkIngested(r) \/ Collect(r)
                     \/ (\E p \in Paths : DropRow(r, p)) \/ DropPoints(r) \/ FinishRun(r)

IngestNext ==
  \/ IngestProgress
  \/ \E p \in Paths, t \in Texts \cup {NoText} : Change(p, t)
  \/ CrashIngest
  \/ \E r \in Posts : PostSync(r)
  \/ \E r \in Runs : UpsertFails(r)

IngestSpec == IngestInit /\ [][IngestNext]_ingestVars
FairIngestSpec == IngestSpec /\ WF_ingestVars(IngestProgress)

-----------------------------------------------------------------------------
(* Properties. *)

\* A file is only skipped because of its row, so the points of the row must be
\* there: after every order of failures, crashes and changes, unless two
\* ingestions overlapped (the points of one are dropped by the other that did
\* not see the file), and unless an image could not be described.
TrackedIsFound ==
  ~ overlapped =>
    \A p \in Paths \ amiss : tracked[p] # NoText => <<p, tracked[p]>> \in found

\* When an ingestion ends that no other overlapped, nothing of a file that was
\* not there is tracked, or found, but where a step failed between the two.
GoneIsGone ==
  [][\A r \in Runs :
       run[r].at = "gc" /\ run[r].todo = {} /\ run'[r].at = "idle" /\ ~ overlapped =>
         \A p \in Paths \ run[r].seen : tracked[p] = NoText /\ (p \in amiss \/ Of(p) = {})]_ingestVars

\* A text that stays on disk is tracked in the end, also when ingestions
\* overlap: none leaves a state that the next ones do not repair.
AllTracked == \A p \in Paths : disk[p] # Unreadable => tracked[p] = disk[p]
StableIsTracked == []<>AllTracked

\* The ingestions and their store agree.
IngestSafe == IngestTypeOK /\ TrackedIsFound
=============================================================================
