----------------------------- MODULE KeyRotation -----------------------------
(***************************************************************************)
(* Encryption at rest: the migrations that encrypt, decrypt or re-encrypt   *)
(* what is stored (encryption_migrations.py), the job that runs one of them *)
(* in a thread (encryption_api.py), and the process that goes on writing    *)
(* with the key it was started with (knowledge_graph.py, app.py,            *)
(* email_calendar.py, memory_decay.py).                                     *)
(*                                                                         *)
(* A migration makes one pass for each table, whose rows are all read and   *)
(* written in one transaction, and then one for each encrypted field of the *)
(* Qdrant points: a page of whole payloads is read, and where the field is  *)
(* converted the payload is written back, all of it, point by point.  The   *)
(* collections are alike, and none sees the others' points: one stands for  *)
(* them.                                                                    *)
(***************************************************************************)
EXTENDS Integers

CONSTANTS
  Tables, RowIds, \* the tables of SQLITE_TARGETS, and the rows of each
  Points,         \* the points of a collection
  Sealed, Open,   \* the fields of a point: of QDRANT_TARGETS, and the others
  NoPass,
  Keys,           \* master keys
  FirstKey,       \* ENCRYPTION_MASTER_KEY at first
  Plain,          \* a value without the prefix enc:v1:
  MaxWrites,      \* bound: writes of the process
  MaxJobs         \* bound: migrations started

Fields == Sealed \cup Open
Passes == Tables \cup Sealed

ASSUME KeyAssumption ==
  /\ FirstKey \in Keys /\ Plain \notin Keys
  /\ Tables \cap Fields = {} /\ Sealed \cap Open = {} /\ NoPass \notin Passes
  /\ Points # {}
  /\ MaxWrites \in Nat /\ MaxJobs \in Nat

\* A value is that of a column in a row, or of a field in a point.
Items == (Tables \X RowIds) \cup (Fields \X Points)
RowsIn(t) == {t} \X RowIds
PayloadOf(p) == Fields \X {p}

Kinds == {"enable", "disable", "rotate"}
Value == [text : 0..MaxWrites, key : Keys \cup {Plain}]

VARIABLES
  stored,         \* each value: its text, and the key it is encrypted with
  active,         \* the key of the encryptors of the process
  envKey,         \* ENCRYPTION_MASTER_KEY of stack.env
  job,            \* _migration_job: kind, status, and the key of a rotation
  phase,          \* its thread: "next" pass, "update" of rows, "points"
  pass, todo,     \* the pass it makes, and those that are left
  unread,         \* points that the pass has not come to
  page,           \* what the thread has read and not handled
  jobs,           \* history: migrations started
  latest,         \* history: the text written last, and by how many writes
  rotated,        \* history: the key of the last completed rotation
  touched,        \* history: values written, or passed over, during the job
  raced,          \* history: values overwritten with what is not their text
  stranded        \* history: values left under another key than the rotation's

threadVars == <<phase, pass, todo, unread, page>>
keyVars == <<stored, active, envKey, job, threadVars, jobs, latest, rotated,
             touched, raced, stranded>>

Writes == latest.writes
NoPage == [i \in {} |-> 0]
Running == job.status = "in_progress"
Rotating == Running /\ job.kind = "rotate"

KeyTypeOK ==
  /\ stored \in [Items -> Value]
  /\ active \in Keys /\ envKey \in Keys /\ rotated \in Keys
  /\ job.kind \in Kinds /\ job.key \in Keys
  /\ job.status \in {"none", "in_progress", "completed", "error"}
  /\ phase \in {"none", "next", "update", "points"}
  /\ Running <=> phase # "none"
  /\ pass \in CASE phase = "update" -> Tables
                [] phase = "points" -> Sealed
                [] OTHER -> {NoPass}
  /\ todo \subseteq Passes \ {pass}
  /\ unread \subseteq Points /\ (unread # {} => phase = "points")
  /\ DOMAIN page \subseteq CASE phase = "update" -> RowsIn(pass)
                             [] phase = "points" -> Fields \X Points
                             [] OTHER -> {}
  /\ \A i \in DOMAIN page : page[i] \in Value
  /\ jobs \in 0..MaxJobs /\ Writes \in 0..MaxWrites
  /\ touched \subseteq Items /\ raced \subseteq Items /\ stranded \subseteq Items

\* Some of what is stored is older than the encryption.
KeyInit ==
  /\ stored \in [Items -> [text : {0}, key : {Plain, FirstKey}]]
  /\ \A i \in Open \X Points : stored[i].key = Plain
  /\ active = FirstKey /\ envKey = FirstKey /\ rotated = FirstKey
  /\ job = [kind |-> "enable", status |-> "none", key |-> FirstKey]
  /\ phase = "none" /\ pass = NoPass /\ todo = {} /\ unread = {} /\ page = NoPage
  /\ jobs = 0
  /\ latest = [text |-> [i \in Items |-> 0], writes |-> 0]
  /\ touched = {} /\ raced = {} /\ stranded = {}

-----------------------------------------------------------------------------
(* The process. *)

\* The key that the values should be under in the end.
Target == IF Rotating THEN job.key ELSE rotated

\* New texts in place of the old ones: what is encrypted is so with the key
\* that the process has.
WriteTexts(S) ==
  /\ Writes < MaxWrites
  /\ latest' = [text |-> [i \in Items |-> IF i \in S THEN Writes + 1 ELSE latest.text[i]],
                writes |-> Writes + 1]
  /\ stored' = [i \in Items |->
       IF i \in S THEN [text |-> Writes + 1, key |-> IF i[1] \in Open THEN Plain ELSE active]
       ELSE stored[i]]
  /\ touched' = IF Running THEN touched \cup S ELSE touched
  /\ raced' = raced \ S
  /\ stranded' = (stranded \ S) \cup
                   {i \in S : i[1] \notin Open /\ active # Target}
  /\ UNCHANGED <<active, envKey, job, threadVars, jobs, rotated>>

WriteRow(i) == i \in Tables \X RowIds /\ WriteTexts({i})

\* An upsert: the whole payload, new or again.
UpsertPoint(p) == p \in Points /\ WriteTexts(PayloadOf(p))

\* The decay sets one of the other fields.
SetField(f, p) == f \in Open /\ p \in Points /\ WriteTexts({<<f, p>>})

\* The administrator puts the key of the completed rotation into stack.env.
SetEnvKey ==
  /\ envKey # rotated
  /\ envKey' = rotated
  /\ UNCHANGED <<stored, active, job, threadVars, jobs, latest, rotated, touched, raced, stranded>>

\* The thread ends.  Of a rotation that is not completed some values are under
\* its key, and nobody keeps it.
JobEnded(status) ==
  /\ job' = [job EXCEPT !.status = status]
  /\ phase' = "none" /\ pass' = NoPass /\ todo' = {} /\ unread' = {} /\ page' = NoPage
  /\ touched' = {}
  /\ stranded' = IF Rotating /\ status # "completed"
                 THEN {i \in Items : stored[i].key \notin {rotated, Plain}}
                 ELSE stranded

\* A restart, or a crash.
RestartProcess ==
  /\ active # envKey \/ Running
  /\ active' = envKey
  /\ JobEnded("none")
  /\ UNCHANGED <<stored, envKey, jobs, latest, rotated, raced>>

-----------------------------------------------------------------------------
(* The migrations. *)

\* enable_encryption, disable_encryption, rotate_key.
BeginMigration(kind, key) ==
  /\ ~ Running /\ jobs < MaxJobs
  /\ kind = "rotate" => key # active
  /\ job' = [kind |-> kind, status |-> "in_progress", key |-> key]
  /\ phase' = "next" /\ todo' = Passes
  /\ jobs' = jobs + 1
  /\ stranded' = IF kind # "rotate" THEN stranded
                 ELSE {i \in Items : stored[i].key \notin {active, Plain}}
  /\ UNCHANGED <<stored, active, envKey, pass, unread, page, latest, rotated, touched, raced>>

\* The values that are converted: the others, and those that cannot be
\* decrypted, are skipped.
Converts(v) ==
  IF job.kind = "enable" THEN v.key = Plain ELSE v.key = active

Converted(v) ==
  [v EXCEPT !.key = CASE job.kind = "enable" -> active
                      [] job.kind = "disable" -> Plain
                      [] job.kind = "rotate" -> job.key]

\* An error is swallowed: the job goes on without these values.
PassedOver(S) ==
  /\ touched' = touched \cup S
  /\ stranded' = IF Rotating THEN stranded \cup S ELSE stranded

\* What is written back, v[i] for each i of S, where the text is another since
\* the page was read, or the key is not that of the last rotation.
WrittenBack(S, v) ==
  /\ stored' = [i \in Items |-> IF i \in S THEN v[i] ELSE stored[i]]
  /\ raced' = raced \cup {i \in S : stored[i].text # v[i].text}
  /\ stranded' = IF Rotating THEN stranded
                 ELSE stranded \cup {i \in S : v[i].key \notin {rotated, Plain}}

ReadRows(t) ==
  /\ phase = "next" /\ t \in todo \cap Tables
  /\ phase' = "update" /\ pass' = t /\ todo' = todo \ {t}
  /\ page' = [i \in RowsIn(t) |-> stored[i]]
  /\ UNCHANGED <<stored, active, envKey, job, unread, jobs, latest, rotated, touched, raced, stranded>>

\* The SELECT raises an OperationalError: the table is passed over.
ReadRowsFails(t) ==
  /\ phase = "next" /\ t \in todo \cap Tables
  /\ todo' = todo \ {t}
  /\ PassedOver(RowsIn(t))
  /\ UNCHANGED <<stored, active, envKey, job, phase, pass, unread, page, jobs, latest, rotated, raced>>

\* Mutant of UpdateRows: all rows are written back.
UpdateRowsAll ==
  /\ phase = "update"
  /\ LET S == {i \in DOMAIN page : Converts(page[i])}
     IN /\ stored' = [i \in Items |-> IF i \in S THEN Converted(page[i])
                                     ELSE IF i \in DOMAIN page THEN page[i] ELSE stored[i]]
        /\ raced' = raced \cup {i \in S : stored[i].text # page[i].text}
  /\ phase' = "next" /\ pass' = NoPass /\ page' = NoPage
  /\ UNCHANGED <<active, envKey, job, todo, unread, jobs, latest, rotated, touched, stranded>>

\* The updates of one transaction, with what was read before.
UpdateRows ==
  /\ phase = "update"
  /\ LET S == {i \in DOMAIN page : Converts(page[i])}
     IN WrittenBack(S, [i \in S |-> Converted(page[i])])
  /\ phase' = "next" /\ pass' = NoPass /\ page' = NoPage
  /\ UNCHANGED <<active, envKey, job, todo, unread, jobs, latest, rotated, touched>>

\* An OperationalError, the database is locked: a rotation goes on without
\* these rows.
UpdateRowsFails ==
  /\ phase = "update" /\ job.kind = "rotate"
  /\ PassedOver(RowsIn(pass))
  /\ phase' = "next" /\ pass' = NoPass /\ page' = NoPage
  /\ UNCHANGED <<stored, active, envKey, job, todo, unread, jobs, latest, rotated, raced>>

\* Any other error of SQLite, the opening of the database included, is the
\* job's.
TableRaises ==
  /\ phase = "update" \/ (phase = "next" /\ todo \cap Tables # {})
  /\ JobEnded("error")
  /\ UNCHANGED <<stored, active, envKey, jobs, latest, rotated, raced>>

BeginField(f) ==
  /\ phase = "next" /\ todo \cap Tables = {} /\ f \in todo
  /\ phase' = "points" /\ pass' = f /\ todo' = todo \ {f} /\ unread' = Points
  /\ UNCHANGED <<stored, active, envKey, job, page, jobs, latest, rotated, touched, raced, stranded>>

\* scroll: the payloads of some points, of all fields.
ReadPage(S) ==
  /\ phase = "points" /\ DOMAIN page = {} /\ S \subseteq unread /\ S # {}
  /\ page' = [i \in Fields \X S |-> stored[i]]
  /\ unread' = unread \ S
  /\ UNCHANGED <<stored, active, envKey, job, phase, pass, todo, jobs, latest, rotated, touched, raced, stranded>>

\* count or scroll raises: the pass ends without the points that are left.
ReadPageFails ==
  /\ phase = "points" /\ DOMAIN page = {} /\ unread # {}
  /\ PassedOver({pass} \X unread)
  /\ unread' = {}
  /\ UNCHANGED <<stored, active, envKey, job, phase, pass, todo, page, jobs, latest, rotated, raced>>

InHand(p) == phase = "points" /\ <<pass, p>> \in DOMAIN page
Handled(p) == page' = [i \in DOMAIN page \ PayloadOf(p) |-> page[i]]

\* Nothing to convert in this point.
SkipPoint(p) ==
  /\ InHand(p) /\ ~ Converts(page[<<pass, p>>])
  /\ job.kind = "disable" => page[<<pass, p>>].key = Plain
  /\ Handled(p)
  /\ UNCHANGED <<stored, active, envKey, job, phase, pass, todo, unread, jobs, latest, rotated,
                 touched, raced, stranded>>

\* set_payload, with the other fields as they were when the page was read.
UpdatePoint(p) ==
  /\ InHand(p) /\ Converts(page[<<pass, p>>])
  /\ WrittenBack(PayloadOf(p), [i \in PayloadOf(p) |->
       IF i[1] = pass THEN Converted(page[i]) ELSE page[i]])
  /\ Handled(p)
  /\ UNCHANGED <<active, envKey, job, phase, pass, todo, unread, jobs, latest, rotated, touched>>

\* A failure of set_payload is logged or ignored.
UpdatePointFails(p) ==
  /\ InHand(p) /\ Converts(page[<<pass, p>>])
  /\ PassedOver({<<pass, p>>})
  /\ Handled(p)
  /\ UNCHANGED <<stored, active, envKey, job, phase, pass, todo, unread, jobs, latest, rotated, raced>>

\* _qdrant_encrypt_collection has no handler for a point that it cannot decrypt.
DecryptRaises(p) ==
  /\ InHand(p)
  /\ job.kind = "disable" /\ page[<<pass, p>>].key \notin {active, Plain}
  /\ JobEnded("error")
  /\ UNCHANGED <<stored, active, envKey, jobs, latest, rotated, raced>>

EndField ==
  /\ phase = "points" /\ DOMAIN page = {} /\ unread = {}
  /\ phase' = "next" /\ pass' = NoPass
  /\ UNCHANGED <<stored, active, envKey, job, todo, unread, page, jobs, latest, rotated,
                 touched, raced, stranded>>

\* The encryptors of the process stay the same.
Finish ==
  /\ phase = "next" /\ todo = {}
  /\ JobEnded("completed")
  /\ rotated' = IF job.kind = "rotate" THEN job.key ELSE rotated
  /\ UNCHANGED <<stored, active, envKey, jobs, latest, raced>>

TableStep ==
  \/ \E t \in Tables : ReadRows(t) \/ ReadRowsFails(t)
  \/ UpdateRows \/ UpdateRowsFails \/ TableRaises

FieldStep ==
  \/ \E f \in Sealed : BeginField(f)
  \/ \E S \in SUBSET Points : ReadPage(S)
  \/ ReadPageFails \/ EndField
  \/ \E p \in Points : SkipPoint(p) \/ UpdatePoint(p) \/ UpdatePointFails(p) \/ DecryptRaises(p)

MigrationStep == TableStep \/ FieldStep \/ Finish

KeyNext ==
  \/ \E i \in Tables \X RowIds : WriteRow(i)
  \/ \E p \in Points : UpsertPoint(p) \/ \E f \in Open : SetField(f, p)
  \/ SetEnvKey \/ RestartProcess
  \/ \E key \in Keys : BeginMigration("rotate", key)
  \/ BeginMigration("enable", active) \/ BeginMigration("disable", active)
  \/ MigrationStep

KeySpec == KeyInit /\ [][KeyNext]_keyVars

\* The thread of the executor goes on.
KeyFairness == WF_keyVars(MigrationStep)
FairKeySpec == KeySpec /\ KeyFairness

-----------------------------------------------------------------------------
(* Properties. *)

\* run_enable_migration "all plaintext values", run_disable_migration "all
\* enc:v1: values", run_rotation_migration "all encrypted values": when a job
\* is completed, this is so of every value of its tables and fields that nobody
\* wrote meanwhile and that no swallowed error passed over (a table that could
\* not be read or, in a rotation, written, a page that could not be read, a
\* payload that could not be set), also after a job that was cut off.
CompletedIsComplete ==
  [][job.status = "in_progress" /\ job'.status = "completed" =>
       \A i \in Items \ touched :
         i[1] \in Passes =>
           stored[i].key # IF job.kind = "enable" THEN Plain ELSE active]_keyVars

\* A migration changes no text but of what the process wrote after the page was
\* read, in a row that is converted or in any field of a point of which one is:
\* the payload goes back whole.
OnlyRacesLoseText ==
  \A i \in Items \ raced : stored[i].text = latest.text[i]

\* When the rotation is completed and the process runs with its key, it reads
\* every value, except those that were written with the old key since the
\* rotation began, that an error of reading or writing passed over (the job is
\* completed all the same), that a rotation which did not complete left under
\* another key, or that a migration under the old key wrote afterwards.
ReadableAfterRotation ==
  ~ Running /\ active = rotated =>
    \A i \in Items \ stranded : stored[i].key \in {active, Plain}

\* Every migration ends: completed, with an error, or with the process.
MigrationsEnd == []<>(~ Running)

\* A migration among writes, restarts and crashes loses no text, and what it
\* leaves can be read.
KeySafe == KeyTypeOK /\ OnlyRacesLoseText /\ ReadableAfterRotation
=============================================================================
