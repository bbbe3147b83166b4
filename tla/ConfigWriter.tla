---------------------------- MODULE ConfigWriter ----------------------------
(***************************************************************************)
(* config_writer.py, with the settings of settings_registry.py that go      *)
(* through it: changes of the file .env that are proposed, applied by an    *)
(* admin after a backup, rejected, rolled back or left to expire.           *)
(*                                                                         *)
(* Requests are served by threads of a pool.  The rows are written under a  *)
(* lock; the files are not: what opens a file for writing truncates it      *)
(* first, and any other request may read it then.                           *)
(***************************************************************************)
EXTENDS Integers, FiniteSets

CONSTANTS
  Keys, Values, \* environment variables, and what they are set to
  Garbled,      \* a text of other lines, in which the validator finds errors
  Absent,       \* no file
  Offered,      \* bound: whole contents that are proposed
  Initials,     \* what .env is when the bridge is installed
  Changes,      \* bound: change ids, uuid4 in the code
  Threads,      \* of the pool
  MaxSecond,    \* bound: seconds, in which backups are named
  NoChange,     \* no row with this id
  NoKey,        \* not a change of one setting
  NoBackup,     \* no backup file of this second, or none of this change
  Unknown       \* of prior, below

\* The text of the file by what its lines set; a torn or new file sets less.
Contents == UNION {[S -> Values] : S \in SUBSET Keys}
Empty == [k \in {} |-> k]

ASSUME ConfigAssumption ==
  /\ Garbled \notin Contents
  /\ Absent \notin Contents \cup {Garbled}
  /\ Unknown \notin Contents \cup {Garbled, Absent}
  /\ Offered \subseteq Contents \cup {Garbled}
  /\ Initials \subseteq Contents \cup {Absent}
  /\ MaxSecond \in Nat

Seconds == 0..MaxSecond
Statuses == {"pending", "validated", "applied", "rejected", "rolled_back", "expired"}

\* A row of config_changes; key is the setting it was proposed for.
Change == [status : Statuses, content : Contents \cup {Garbled}, key : Keys \cup {NoKey},
           backup : Seconds \cup {NoBackup}]

ASSUME ConfigDistinct ==
  /\ NoChange \notin Change /\ NoChange \notin Changes
  /\ NoKey \notin Keys /\ NoBackup \notin Seconds /\ NoBackup \notin Contents \cup {Garbled}

VARIABLES
  row,      \* config_changes
  file,     \* .env
  backups,  \* the files of BACKUP_DIR, by the second in their name
  second,   \* the clock
  pc, job,  \* where each thread is, and the change it works on
  name,     \* its backup file
  landed,   \* history: changes whose content has been written
  clashed,  \* history: a request has left in the file the rest of what
            \* another had written at the same time
  prior     \* history: the file that a change, applied or being applied,
            \* replaces; Unknown if another application or rollback was under
            \* way, or the backup has been overwritten

fileVars == <<file, backups>>
threadVars == <<pc, job, name>>
historyVars == <<landed, clashed, prior>>
configVars == <<row, fileVars, second, threadVars, historyVars>>

PCs == {"idle", "backup", "truncate", "write", "mark", "restore", "copy", "unmark"}

ConfigTypeOK ==
  /\ row \in [Changes -> Change \cup {NoChange}]
  /\ file \in Contents \cup {Garbled, Absent}
  /\ backups \in [Seconds -> Contents \cup {Garbled, NoBackup}]
  /\ second \in Seconds
  /\ pc \in [Threads -> PCs]
  /\ job \in [Threads -> Changes \cup {NoChange}]
  /\ name \in [Threads -> Seconds \cup {NoBackup}]
  /\ \A t \in Threads : job[t] = NoChange <=> pc[t] = "idle"
  /\ landed \subseteq Changes /\ clashed \in BOOLEAN
  /\ prior \in [Changes -> Contents \cup {Garbled, Absent, Unknown}]

ConfigInit ==
  /\ row = [c \in Changes |-> NoChange]
  /\ file \in Initials
  /\ backups = [s \in Seconds |-> NoBackup]
  /\ second = 0
  /\ pc = [t \in Threads |-> "idle"]
  /\ job = [t \in Threads |-> NoChange]
  /\ name = [t \in Threads |-> NoBackup]
  /\ landed = {} /\ clashed = FALSE
  /\ prior = [c \in Changes |-> Unknown]

-----------------------------------------------------------------------------
(* Rows. *)

Exists(c) == row[c] # NoChange
Undecided(c) == Exists(c) /\ row[c].status \in {"pending", "validated"}
HasErrors(c) == row[c].content = Garbled

\* propose_config_change: validated if the content has no errors.  The diff
\* against the current file is only shown.
Propose(c, content, key) ==
  /\ ~Exists(c)
  /\ row' = [row EXCEPT ![c] =
       [status |-> IF content = Garbled THEN "pending" ELSE "validated",
        content |-> content, key |-> key, backup |-> NoBackup]]
  /\ UNCHANGED <<fileVars, second, threadVars, historyVars>>

ProposeContent(c) == \E content \in Offered : Propose(c, content, NoKey)

\* update_setting_endpoint: the whole file as it is read now, with one line
\* replaced or appended.  That the row is inserted later is not observable:
\* nobody knows its id before.
WithSetting(content, k, v) ==
  [j \in DOMAIN content \cup {k} |-> IF j = k THEN v ELSE content[j]]

ProposeSetting(c) ==
  \E k \in Keys, v \in Values :
    \/ file = Absent /\ Propose(c, WithSetting(Empty, k, v), k)
    \/ file \in Contents /\ Propose(c, WithSetting(file, k, v), k)
    \/ file = Garbled /\ Propose(c, Garbled, k)

\* reject_change looks at no status.
Reject(c) ==
  /\ Exists(c)
  /\ row' = [row EXCEPT ![c].status = "rejected"]
  /\ UNCHANGED <<fileVars, second, threadVars, historyVars>>

\* _expire_stale, of every list request: the changes whose
\* CONFIG_CHANGE_EXPIRY minutes have passed, which may be any of those open.
ExpireStale ==
  /\ \E stale \in SUBSET {c \in Changes : Undecided(c)} :
       row' = [c \in Changes |->
         IF c \in stale THEN [row[c] EXCEPT !.status = "expired"] ELSE row[c]]
  /\ UNCHANGED <<fileVars, second, threadVars, historyVars>>

Tick ==
  /\ second < MaxSecond
  /\ second' = second + 1
  /\ UNCHANGED <<row, fileVars, threadVars, historyVars>>

-----------------------------------------------------------------------------
(* The two requests that write the file. *)

GoTo(t, place) == pc' = [pc EXCEPT ![t] = place]

Others(t) == {u \in Threads \ {t} : pc[u] # "idle"}

\* The thread takes up c.
Enter(t, c, place) ==
  /\ pc[t] = "idle"
  /\ GoTo(t, place)
  /\ job' = [job EXCEPT ![t] = c]

\* History: c and the changes of the other threads overlap.
Overlapping(t, c) == IF Others(t) = {} THEN {} ELSE {c} \cup {job[u] : u \in Others(t)}
Forget(S) == [c \in Changes |-> IF c \in S THEN Unknown ELSE prior[c]]

Leave(t) ==
  /\ GoTo(t, "idle")
  /\ job' = [job EXCEPT ![t] = NoChange]
  /\ name' = [name EXCEPT ![t] = NoBackup]

\* Mutant of ApplyCheck: validation_errors are not looked at.
ApplyUnvalidated(t, c) ==
  /\ Undecided(c)
  /\ Enter(t, c, "backup")
  /\ prior' = [Forget(Overlapping(t, c)) EXCEPT ![c] =
       IF Others(t) = {} THEN Absent ELSE Unknown]
  /\ UNCHANGED <<row, fileVars, second, name, landed, clashed>>

\* apply_change, to its checks of the row.
ApplyCheck(t, c) ==
  /\ Undecided(c) /\ ~HasErrors(c)
  /\ Enter(t, c, "backup")
  /\ prior' = [Forget(Overlapping(t, c)) EXCEPT ![c] =
       IF Others(t) = {} THEN Absent ELSE Unknown]
  /\ UNCHANGED <<row, fileVars, second, name, landed, clashed>>

\* History: the changes whose backup file has this name.
BackedUpIn(s) == {c \in Changes : Exists(c) /\ row[c].backup = s}

\* Mutant of ApplyBackup: whether there is a file is not looked at.
ApplyBacksUpAnything(t) ==
  /\ pc[t] = "backup"
  /\ GoTo(t, "truncate")
  /\ backups' = [backups EXCEPT ![second] = file]
  /\ name' = [name EXCEPT ![t] = second]
  /\ prior' = Forget(BackedUpIn(second) \ {job[t]})
  /\ UNCHANGED <<row, file, second, job, landed, clashed>>

\* The copy of the current file, if there is one, named by the second: one
\* that has this name already is overwritten.
ApplyBackup(t) ==
  /\ pc[t] = "backup"
  /\ GoTo(t, "truncate")
  /\ \/ file = Absent /\ UNCHANGED <<backups, name, prior>>
     \/ /\ file # Absent
        /\ backups' = [backups EXCEPT ![second] = file]
        /\ name' = [name EXCEPT ![t] = second]
        /\ prior' = Forget(BackedUpIn(second) \ {job[t]})
  /\ UNCHANGED <<row, file, second, job, landed, clashed>>

\* Mutant of ApplyTruncate: the row is written before the file.
ApplyMarksFirst(t) ==
  /\ pc[t] = "truncate"
  /\ GoTo(t, "write")
  /\ prior' = IF prior[job[t]] = Unknown THEN prior ELSE [prior EXCEPT ![job[t]] = file]
  /\ file' = Empty
  /\ row' = [row EXCEPT ![job[t]].status = "applied", ![job[t]].backup = name[t]]
  /\ UNCHANGED <<backups, second, job, name, landed, clashed>>

\* write_text opens the file.
ApplyTruncate(t) ==
  /\ pc[t] = "truncate"
  /\ GoTo(t, "write")
  /\ prior' = IF prior[job[t]] = Unknown THEN prior ELSE [prior EXCEPT ![job[t]] = file]
  /\ file' = Empty
  /\ UNCHANGED <<row, backups, second, job, name, landed, clashed>>

\* The content is written from the start of the file that was truncated when
\* it was opened.  What another request has written there since remains if it
\* is longer, from the middle of a line perhaps.
Overlaid(content, other) ==
  {Garbled} \cup
  (IF Garbled \in {content, other} THEN {}
   ELSE {both \in [DOMAIN content \cup DOMAIN other -> Values] :
           \A k \in DOMAIN both :
             \/ k \in DOMAIN content /\ both[k] = content[k]
             \/ k \in DOMAIN other /\ both[k] = other[k]})

WriteFile(content) ==
  \/ file' = content /\ UNCHANGED clashed
  \/ file # Empty /\ file' \in Overlaid(content, file) \ {content} /\ clashed' = TRUE

ApplyWrite(t) ==
  /\ pc[t] = "write"
  /\ GoTo(t, "mark")
  /\ WriteFile(row[job[t]].content)
  /\ landed' = landed \cup {job[t]}
  /\ UNCHANGED <<row, backups, second, job, name, prior>>

ApplyMark(t) ==
  /\ pc[t] = "mark"
  /\ row' = [row EXCEPT ![job[t]].status = "applied", ![job[t]].backup = name[t]]
  /\ Leave(t)
  /\ UNCHANGED <<fileVars, second, historyVars>>

\* rollback_change, to its checks: the backup is one of a file that existed.
RollbackCheck(t, c) ==
  /\ Exists(c) /\ row[c].status = "applied" /\ row[c].backup # NoBackup
  /\ Enter(t, c, "restore")
  /\ name' = [name EXCEPT ![t] = row[c].backup]
  /\ prior' = Forget(Overlapping(t, c))
  /\ UNCHANGED <<row, fileVars, second, landed, clashed>>

\* shutil.copy2 opens the file, then copies.
RollbackTruncate(t) ==
  /\ pc[t] = "restore"
  /\ GoTo(t, "copy")
  /\ file' = Empty
  /\ UNCHANGED <<row, backups, second, job, name, historyVars>>

\* Mutant of RollbackWrite: the newest backup file is taken.
RollbackToNewest(t) ==
  LET newest == CHOOSE s \in Seconds :
        /\ backups[s] # NoBackup
        /\ \A r \in Seconds : backups[r] # NoBackup => r <= s
  IN /\ pc[t] = "copy"
     /\ GoTo(t, "unmark")
     /\ WriteFile(backups[newest])
     /\ UNCHANGED <<row, backups, second, job, name, landed, prior>>

RollbackWrite(t) ==
  /\ pc[t] = "copy"
  /\ GoTo(t, "unmark")
  /\ WriteFile(backups[name[t]])
  /\ UNCHANGED <<row, backups, second, job, name, landed, prior>>

RollbackMark(t) ==
  /\ pc[t] = "unmark"
  /\ row' = [row EXCEPT ![job[t]].status = "rolled_back"]
  /\ Leave(t)
  /\ prior' = Forget({job[t]})
  /\ UNCHANGED <<fileVars, second, landed, clashed>>

\* An exception of the file system or of SQLite ends the request where it is,
\* and so does the end of the process.
Abandon(t) ==
  /\ pc[t] # "idle"
  /\ Leave(t)
  /\ prior' = IF row[job[t]].status = "applied" THEN prior ELSE Forget({job[t]})
  /\ UNCHANGED <<row, fileVars, second, landed, clashed>>

-----------------------------------------------------------------------------
ConfigNext ==
  \/ \E c \in Changes : ProposeContent(c) \/ ProposeSetting(c) \/ Reject(c)
  \/ ExpireStale
  \/ Tick
  \/ \E t \in Threads, c \in Changes : ApplyCheck(t, c) \/ RollbackCheck(t, c)
  \/ \E t \in Threads :
       \/ ApplyBackup(t) \/ ApplyTruncate(t) \/ ApplyWrite(t) \/ ApplyMark(t)
       \/ RollbackTruncate(t) \/ RollbackWrite(t) \/ RollbackMark(t)
       \/ Abandon(t)

ConfigSpec == ConfigInit /\ [][ConfigNext]_configVars

-----------------------------------------------------------------------------
(* Properties. *)

\* config_writer.py:1: "approval-gated configuration changes".  The file is
\* the installed one, the content of a change that was applied and has no
\* errors, or cut off; also after rollbacks and failures, unless two requests
\* have written at the same time.
OnlyApprovedGoesLive ==
  \/ file \in Initials \cup {Empty}
  \/ \E c \in landed : file = row[c].content /\ ~HasErrors(c)
  \/ clashed

\* The status comes after the file: what is marked applied, or was, has been
\* written, whatever was cut short.
MarkedWasWritten ==
  \A c \in Changes :
    Exists(c) /\ row[c].status \in {"applied", "rolled_back"} => c \in landed

\* README.md:685, "change history with rollback": a rollback brings back the
\* file that the change replaced, unless another application or rollback was
\* under way meanwhile, or another backup was taken in the same second.
RollbackRestores ==
  [][\A t \in Threads :
       pc[t] = "copy" /\ pc'[t] = "unmark" /\ prior[job[t]] # Unknown
         => file' = prior[job[t]]]_configVars

\* settings_registry.py:270: "reads the current .env, updates the key".  A
\* change of one setting leaves every other line as it was.
SettingChangesItsKey ==
  \A c \in landed :
    Exists(c) /\ row[c].key # NoKey /\ prior[c] \in Contents =>
      \A k \in DOMAIN prior[c] \ {row[c].key} :
        k \in DOMAIN row[c].content /\ row[c].content[k] = prior[c][k]
=============================================================================
