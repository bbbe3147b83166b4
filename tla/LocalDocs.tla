------------------------------ MODULE LocalDocs ------------------------------
(***************************************************************************)
(* The ingestion of local documents (local_doc_ingestor.py,                 *)
(* local_docs_api.py): a watcher that starts a timer at each change of a    *)
(* file, and ingestions that run in the threads of the timers and of the    *)
(* requests.  Paths share no row of docs_ingestion_log and no point of      *)
(* Qdrant, so this is about the file of one path.                           *)
(*                                                                         *)
(* Every query of the log is a connection and a transaction of its own, and *)
(* nothing is locked between them, the file and Qdrant.                     *)
(***************************************************************************)
EXTENDS Naturals, FiniteSets

CONSTANTS
  Contents,       \* what the file may hold; its hash is the content itself
  Large, Broken,  \* contents over 50 MB, and those whose text is not extracted
  NoFile,         \* there is no file, no row or no hash
  Pieces,         \* Pieces[c]: the number of chunks of a content
  Ingestors,      \* threads, numbers: the first that is free takes what comes
  MaxInputs       \* bound: changes of the file, requests to ingest or to
                  \* delete, failures of Qdrant and of the model, crashes

ASSUME DocsAssumption ==
  /\ Large \in Contents /\ Broken \in Contents \ {Large} /\ NoFile \notin Contents
  /\ Pieces \in [Contents -> Nat \ {0}]
  /\ MaxInputs \in Nat /\ Ingestors \subseteq Nat

VARIABLES
  file,           \* what is at the path
  event,          \* the observer has a change to tell of
  timer,          \* a timer of the path is running
  entry,          \* the row of the path: document, hash, status
  chunks,         \* the points: document, index, and the content they are of
  ingest,         \* each thread: where it is and what it knows
  docs,           \* history: document ids given out
  used,           \* history: inputs so far
  clean,          \* history: only one thread at a time, no fault, no deletion
  torn            \* history: the text read was not that of the hash

docsVars == <<file, event, timer, entry, chunks, ingest, docs, used, clean, torn>>

Free == [at |-> "free", hash |-> NoFile, text |-> NoFile, doc |-> 0]
Working == {w \in Ingestors : ingest[w].at # "free"}
NoEntry == [doc |-> 0, hash |-> NoFile, status |-> "none"]
ChunksOf(doc, c) == {[doc |-> doc, index |-> i, of |-> c] : i \in 1..Pieces[c]}

DocsTypeOK ==
  /\ file \in Contents \cup {NoFile}
  /\ event \in BOOLEAN /\ timer \in BOOLEAN /\ clean \in BOOLEAN /\ torn \in BOOLEAN
  /\ entry.doc \in 0..docs /\ entry.hash \in Contents \cup {NoFile}
  /\ entry.status \in {"none", "indexed", "skipped", "error", "deleted"}
  /\ \A k \in chunks : k.doc \in 1..docs /\ k.of \in Contents /\ k.index \in 1..Pieces[k.of]
  /\ \A k, l \in chunks : k.doc = l.doc /\ k.index = l.index => k = l
  /\ \A w \in Ingestors : /\ ingest[w].at \in {"free", "hash", "lookup", "skip", "known", "delete",
                               "extract", "upsert", "log", "fail", "error", "remove", "purge", "mark"}
                          /\ ingest[w].doc \in 0..docs
  /\ used \in 0..MaxInputs

DocsInit ==
  /\ file = NoFile /\ event = FALSE /\ timer = FALSE
  /\ entry = NoEntry /\ chunks = {} /\ docs = 0
  /\ ingest = [w \in Ingestors |-> Free]
  /\ used = 0
  /\ clean = TRUE /\ torn = FALSE

Input == used < MaxInputs /\ used' = used + 1
At(w, place) == ingest' = [ingest EXCEPT ![w].at = place]
Leave(w) == ingest' = [ingest EXCEPT ![w] = Free]

-----------------------------------------------------------------------------
(* The file and the watcher. *)

\* The observer is only told of what is created or modified.
Edit(c) ==
  /\ Input /\ c # file
  /\ file' = c
  /\ event' = (event \/ c # NoFile)
  /\ UNCHANGED <<timer, entry, chunks, ingest, docs, clean, torn>>

\* The timer of the path is cancelled and started again.
HandleEvent ==
  /\ event
  /\ event' = FALSE /\ timer' = TRUE
  /\ UNCHANGED <<file, entry, chunks, ingest, docs, used, clean, torn>>

\* A thread starts; the others may be at the same file.
Start(w, place) ==
  /\ ingest[w].at = "free" /\ \A v \in Ingestors : v < w => v \in Working
  /\ At(w, place)
  /\ clean' = (clean /\ Working = {} /\ place # "remove")

\* Mutant of TimerFires: the timer repeats.
TimerRepeats(w) ==
  /\ timer
  /\ Start(w, "hash")
  /\ UNCHANGED <<file, event, timer, entry, chunks, docs, used, torn>>

TimerFires(w) ==
  /\ timer
  /\ timer' = FALSE
  /\ Start(w, "hash")
  /\ UNCHANGED <<file, event, entry, chunks, docs, used, torn>>

\* POST /ingest, and DELETE /{doc_id}.
Request(w) ==
  /\ Input
  /\ \/ Start(w, "hash")
     \/ Start(w, "remove")
  /\ UNCHANGED <<file, event, timer, entry, chunks, docs, torn>>

\* What the threads and the timers were doing is lost; the observer does not
\* look at what was changed before it starts.
CrashDocs ==
  /\ Input
  /\ ingest' = [w \in Ingestors |-> Free]
  /\ event' = FALSE /\ timer' = FALSE
  /\ clean' = (clean /\ ~ event /\ ~ timer /\ Working = {})
  /\ UNCHANGED <<file, entry, chunks, docs, torn>>

-----------------------------------------------------------------------------
(* ingest_file *)

\* The size, then the hash; without a file, stat raises.
ReadHash(w) ==
  /\ ingest[w].at = "hash"
  /\ CASE file = NoFile -> Leave(w)
       [] file = Large -> At(w, "fail")
       [] OTHER -> ingest' = [ingest EXCEPT ![w].at = "lookup", ![w].hash = file]
  /\ UNCHANGED <<file, event, timer, entry, chunks, docs, used, clean, torn>>

\* _is_already_indexed, whatever the status of the row.
Lookup(w) ==
  /\ ingest[w].at = "lookup"
  /\ At(w, IF entry.hash = ingest[w].hash THEN "skip" ELSE "known")
  /\ UNCHANGED <<file, event, timer, entry, chunks, docs, used, clean, torn>>

Skip(w) ==
  /\ ingest[w].at = "skip"
  /\ Leave(w)
  /\ entry' = IF entry.doc = 0 THEN entry ELSE [entry EXCEPT !.status = "skipped"]
  /\ UNCHANGED <<file, event, timer, chunks, docs, used, clean, torn>>

\* _get_existing_doc_id
Known(w) ==
  /\ ingest[w].at = "known"
  /\ ingest' = [ingest EXCEPT ![w].doc = entry.doc,
                              ![w].at = IF entry.doc = 0 THEN "extract" ELSE "delete"]
  /\ UNCHANGED <<file, event, timer, entry, chunks, docs, used, clean, torn>>

\* Mutant of Without: all but the first.
WithoutFew(doc) == {k \in chunks : k.doc = doc => k.index = 1}

Without(doc) == {k \in chunks : k.doc # doc}

\* _delete_qdrant_chunks; a failure is logged.
DeleteChunks(w) ==
  /\ ingest[w].at \in {"delete", "purge"}
  /\ At(w, IF ingest[w].at = "delete" THEN "extract" ELSE "mark")
  /\ \/ /\ chunks' = Without(ingest[w].doc)
        /\ UNCHANGED <<used, clean>>
     \/ /\ Input
        /\ clean' = FALSE
        /\ UNCHANGED chunks
  /\ UNCHANGED <<file, event, timer, entry, docs, torn>>

\* The file is read again, for the text; a document that is not known is given
\* its id.
Extract(w) ==
  /\ ingest[w].at = "extract"
  /\ IF file \in {NoFile, Broken}
     THEN At(w, "fail") /\ UNCHANGED <<docs, torn>>
     ELSE LET new == ingest[w].doc = 0
              id == IF new THEN docs + 1 ELSE ingest[w].doc
          IN /\ docs' = IF new THEN id ELSE docs
             /\ ingest' = [ingest EXCEPT ![w].at = "upsert", ![w].text = file, ![w].doc = id]
             /\ torn' = (file # ingest[w].hash)
  /\ UNCHANGED <<file, event, timer, entry, chunks, used, clean>>

\* The id of a point is made of the document and the index.
Put(new) ==
  {k \in chunks : \A n \in new : k.doc # n.doc \/ k.index # n.index} \cup new

\* Without their vectors chunks are left out; batches are upserted until one
\* raises.
Upsert(w) ==
  /\ ingest[w].at = "upsert"
  /\ LET all == ChunksOf(ingest[w].doc, ingest[w].text)
     IN \/ /\ chunks' = Put(all)
           /\ At(w, "log")
           /\ UNCHANGED <<used, clean>>
        \/ /\ Input
           /\ \E some \in SUBSET all \ {all} : chunks' = Put(some)
           /\ At(w, "log") \/ Leave(w)
           /\ clean' = FALSE
  /\ UNCHANGED <<file, event, timer, entry, docs, torn>>

\* _upsert_log: the row of the id, or of the path, is replaced.
Log(w) ==
  /\ ingest[w].at = "log"
  /\ Leave(w)
  /\ entry' = [doc |-> ingest[w].doc, hash |-> ingest[w].hash, status |-> "indexed"]
  /\ UNCHANGED <<file, event, timer, chunks, docs, used, clean, torn>>

\* _log_error: looks for the row, then replaces it by one without a hash.
Fail(w) ==
  /\ ingest[w].at = "fail"
  /\ docs' = IF entry.doc = 0 THEN docs + 1 ELSE docs
  /\ ingest' = [ingest EXCEPT ![w].at = "error", ![w].doc = IF entry.doc = 0 THEN docs + 1 ELSE entry.doc]
  /\ UNCHANGED <<file, event, timer, entry, chunks, used, clean, torn>>

LogError(w) ==
  /\ ingest[w].at = "error"
  /\ Leave(w)
  /\ entry' = [doc |-> ingest[w].doc, hash |-> NoFile, status |-> "error"]
  /\ UNCHANGED <<file, event, timer, chunks, docs, used, clean, torn>>

-----------------------------------------------------------------------------
(* delete_document, of the document of the row; others are not found. *)

CheckRemove(w) ==
  /\ ingest[w].at = "remove"
  /\ IF entry.status \in {"none", "deleted"}
     THEN Leave(w)
     ELSE ingest' = [ingest EXCEPT ![w].at = "purge", ![w].doc = entry.doc]
  /\ UNCHANGED <<file, event, timer, entry, chunks, docs, used, clean, torn>>

MarkDeleted(w) ==
  /\ ingest[w].at = "mark"
  /\ Leave(w)
  /\ entry' = IF entry.doc # ingest[w].doc THEN entry ELSE [entry EXCEPT !.status = "deleted"]
  /\ UNCHANGED <<file, event, timer, chunks, docs, used, clean, torn>>

IngestStep(w) ==
  \/ ReadHash(w) \/ Lookup(w) \/ Skip(w) \/ Known(w) \/ DeleteChunks(w) \/ Extract(w)
  \/ Upsert(w) \/ Log(w) \/ Fail(w) \/ LogError(w) \/ CheckRemove(w) \/ MarkDeleted(w)

\* The observer, the timers and the threads go on.
DocsStep == HandleEvent \/ \E w \in Ingestors : TimerFires(w) \/ IngestStep(w)

DocsNext ==
  \/ \E c \in Contents \cup {NoFile} : Edit(c)
  \/ \E w \in Ingestors : Request(w)
  \/ CrashDocs
  \/ DocsStep

DocsSpec == DocsInit /\ [][DocsNext]_docsVars
FairDocsSpec == DocsSpec /\ WF_docsVars(DocsStep)

-----------------------------------------------------------------------------
(* Properties. *)

Settled == ~ event /\ ~ timer /\ Working = {}

\* What is found is all of one text, or nothing.
OneVersion ==
  chunks = {} \/ \E c \in Contents \ {Broken} : chunks = ChunksOf(entry.doc, c)

\* However the edits fall between the hash, the text and the debounce, and
\* whatever the file was before: once the watcher has nothing to do, what is
\* found is all of one text, never a part, nor parts of two; it is that of the
\* file, or nothing and an error where no text can be extracted.  A file that has
\* become too large keeps what was found of it, with an error in its row, for
\* its size is looked at before the old chunks are deleted; so does one that was
\* removed, of which the watcher is not told.  Not so after a failure, a lost
\* event, two threads at one file or a deleted document; and where the text read
\* was not that of its hash it is one text still, of another version.
FoundIsTheFile ==
  clean /\ Settled =>
    /\ OneVersion
    /\ ~ torn =>
         CASE file = NoFile -> TRUE
           [] file = Large -> entry.status = "error"
           [] file = Broken -> chunks = {} /\ entry.status = "error"
           [] OTHER -> entry.hash = file /\ chunks = ChunksOf(entry.doc, file)

\* One thread at a time and no failure: no chunk is of a document that the row
\* does not name, so none is left that nothing deletes.
NoOrphanChunk ==
  clean => \A k \in chunks : k.doc = entry.doc \/ \E w \in Working : k.doc = ingest[w].doc

\* Every change is looked at in the end.
ChangesAreIngested == []<>Settled

\* The row, the chunks and the file agree whenever nobody is at work.
DocsSafe == DocsTypeOK /\ FoundIsTheFile /\ NoOrphanChunk
=============================================================================
