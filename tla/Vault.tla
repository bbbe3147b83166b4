-------------------------------- MODULE Vault --------------------------------
(***************************************************************************)
(* A note of an Obsidian vault (obsidian_ingestor.py): its text goes the   *)
(* way of a local document (LocalDocs), with the same row and hash, and    *)
(* its links go into an index of their own, if the document was ingested   *)
(* just then. The vault has to lie in the watched folder, whose watcher    *)
(* ingests the note as a document too.                                     *)
(***************************************************************************)
EXTENDS Naturals

CONSTANTS
  Links, LinksOf, \* by edit of the note, its links
  Ingestions,     \* of the vault, threads; by requests
  LinkWatcher,    \* the watcher's thread
  MaxNoteEdits, MaxIngestions \* bounds

ASSUME VaultAssumption ==
  /\ MaxNoteEdits \in Nat \ {0} /\ MaxIngestions \in Nat
  /\ LinksOf \in [1..MaxNoteEdits -> SUBSET Links]

VARIABLES
  note,      \* how often it was edited
  noteLog,   \* docs_ingestion_log: the edit whose hash is in the row; 0: none or an error
  index,     \* obsidian_index: its links
  ingestion, \* where each thread is, with what it has read
  ingestions, \* bound and history: those that have begun
  unlinked,  \* history: edits whose row was written by the watcher, or whose links
             \* were read before an edit or could not be stored
  linked     \* history: edits whose links were stored
vaultVars == <<note, noteLog, index, ingestion, ingestions, unlinked, linked>>

VaultThreads == Ingestions \cup {LinkWatcher}
NoIngestion == [at |-> "idle", links |-> 0, hash |-> 0]

VaultInit ==
  /\ note = 1 /\ noteLog = 0 /\ index = {}
  /\ ingestion = [t \in VaultThreads |-> NoIngestion] /\ ingestions = 0
  /\ unlinked = {} /\ linked = {}

EditNote ==
  /\ note < MaxNoteEdits /\ note' = note + 1
  /\ UNCHANGED <<noteLog, index, ingestion, ingestions, unlinked, linked>>

NoteGoes(t, here, next) == ingestion[t].at = here /\ ingestion' = [ingestion EXCEPT ![t] = next]

\* The text is read for its links, and again, by the ingestor of documents, for its
\* hash and its chunks.
ReadNote(t) ==
  /\ ingestions < MaxIngestions /\ ingestions' = ingestions + 1
  /\ NoteGoes(t, "idle", [at |-> "hash", links |-> IF t = LinkWatcher THEN 0 ELSE note, hash |-> 0])
  /\ UNCHANGED <<note, noteLog, index, unlinked, linked>>

\* A hash that is in the row is skipped.
HashNote(t) ==
  /\ NoteGoes(t, "hash", IF noteLog = note THEN NoIngestion
                     ELSE [ingestion[t] EXCEPT !.at = "log", !.hash = note])
  /\ UNCHANGED <<note, noteLog, index, ingestions, unlinked, linked>>

LogNote(t) ==
  /\ NoteGoes(t, "log", IF t = LinkWatcher THEN NoIngestion ELSE [ingestion[t] EXCEPT !.at = "index"])
  /\ noteLog' = ingestion[t].hash
  /\ unlinked' = IF t # LinkWatcher /\ ingestion[t].links = ingestion[t].hash THEN unlinked
                 ELSE unlinked \cup {ingestion[t].hash}
  /\ UNCHANGED <<note, index, ingestions, linked>>

\* The extraction fails: the row has no hash any more.
NoteFails(t) ==
  /\ NoteGoes(t, "log", NoIngestion) /\ noteLog' = 0
  /\ UNCHANGED <<note, index, ingestions, unlinked, linked>>

\* Mutant of Indexed: the links of the note replace those there are.
IndexedOnly(links) == LinksOf[links]

\* Rows of links that are gone are left.
Indexed(links) == index \cup LinksOf[links]

UpdateIndex(t) ==
  /\ NoteGoes(t, "index", NoIngestion)
  /\ \/ /\ index' = Indexed(ingestion[t].links)
        /\ linked' = linked \cup {ingestion[t].links} /\ UNCHANGED unlinked
     \/ /\ unlinked' = unlinked \cup {ingestion[t].hash}      \* a locked database: a warning
        /\ UNCHANGED <<index, linked>>
  /\ UNCHANGED <<note, noteLog, ingestions>>

VaultNext ==
  \/ EditNote
  \/ \E t \in VaultThreads: ReadNote(t) \/ HashNote(t) \/ LogNote(t) \/ NoteFails(t) \/ UpdateIndex(t)

VaultSpec == VaultInit /\ [][VaultNext]_vaultVars

------------------------------------------------------------------------------
(* Properties. *)

VaultTypeOK ==
  /\ note \in 1..MaxNoteEdits /\ noteLog \in 0..note /\ index \subseteq Links
  /\ \A t \in VaultThreads: ingestion[t].links <= note /\ ingestion[t].hash <= note

\* The links of a note whose row says it was ingested are in the index once
\* nobody is at work, unless the watcher was first, the note was edited between
\* its two readings, or the index could not be written: then they stay out of it,
\* as the hash says there is nothing to do (obsidian_ingestor.py:108).
LinksAreFound ==
  (\A t \in VaultThreads: ingestion[t] = NoIngestion) /\ noteLog # 0 =>
    noteLog \in unlinked \/ LinksOf[noteLog] \subseteq index

\* And there is no link that no ingested text had (obsidian_ingestor.py:130).
NoOtherLinks == index = UNION {LinksOf[e]: e \in linked}

VaultSafe == VaultTypeOK /\ LinksAreFound /\ NoOtherLinks
==============================================================================
