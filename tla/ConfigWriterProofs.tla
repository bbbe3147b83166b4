------------------------- MODULE ConfigWriterProofs -------------------------
(* Theorems about ConfigWriter, for any settings, changes and threads.      *)
EXTENDS ConfigWriter, TLAPS

-----------------------------------------------------------------------------
(* Contents. *)

LEMMA EmptyIsContent == Empty \in Contents
<1>1. Empty \in [{} -> Values]
  BY DEF Empty
<1>2. {} \in SUBSET Keys
  OBVIOUS
<1> QED
  BY <1>1, <1>2 DEF Contents

LEMMA ContentParts ==
  ASSUME NEW f \in Contents
  PROVE  DOMAIN f \subseteq Keys /\ f \in [DOMAIN f -> Values]
<1>1. PICK S \in SUBSET Keys : f \in [S -> Values]
  BY DEF Contents
<1> QED
  BY <1>1

LEMMA WithSettingIsContent ==
  ASSUME NEW f \in Contents, NEW k \in Keys, NEW v \in Values
  PROVE  WithSetting(f, k, v) \in Contents
<1>1. DOMAIN f \cup {k} \in SUBSET Keys
  BY ContentParts
<1>2. WithSetting(f, k, v) \in [DOMAIN f \cup {k} -> Values]
  BY ContentParts DEF WithSetting
<1> QED
  BY <1>1, <1>2 DEF Contents

LEMMA OverlaidIsContent ==
  ASSUME NEW f \in Contents \cup {Garbled}, NEW g \in Contents \cup {Garbled},
         NEW h \in Overlaid(f, g)
  PROVE  h \in Contents \cup {Garbled}
<1>1. CASE h = Garbled
  BY <1>1
<1>2. CASE h # Garbled
  <2>1. f \in Contents /\ g \in Contents /\ h \in [DOMAIN f \cup DOMAIN g -> Values]
    BY <1>2 DEF Overlaid
  <2>2. DOMAIN f \cup DOMAIN g \in SUBSET Keys
    BY <2>1, ContentParts
  <2> QED
    BY <2>1, <2>2 DEF Contents
<1> QED
  BY <1>1, <1>2

-----------------------------------------------------------------------------
(* Type correctness. *)

Texts == Contents \cup {Garbled}

LEMMA WriteFileType ==
  ASSUME file \in Texts, clashed \in BOOLEAN, NEW f \in Texts, WriteFile(f)
  PROVE  file' \in Texts /\ clashed' \in BOOLEAN
<1>1. CASE file' = f /\ UNCHANGED clashed
  BY <1>1
<1>2. CASE file' \in Overlaid(f, file) /\ clashed' = TRUE
  BY <1>2, OverlaidIsContent DEF Texts
<1> QED
  BY <1>1, <1>2 DEF WriteFile

\* A request works on a row; what it has open is a file; what is rolled back
\* has a backup file.
WorkKnown == \A t \in Threads : pc[t] # "idle" => Exists(job[t])
OpenExists == \A t \in Threads : pc[t] \in {"write", "mark", "copy", "unmark"} => file # Absent
BackupsKept ==
  /\ \A c \in Changes : Exists(c) /\ row[c].backup # NoBackup =>
       backups[row[c].backup] # NoBackup
  /\ \A t \in Threads : name[t] # NoBackup => backups[name[t]] # NoBackup
NamesHeld == \A t \in Threads : pc[t] \in {"restore", "copy", "unmark"} => name[t] # NoBackup

ConfigTypeInv == ConfigTypeOK /\ WorkKnown /\ OpenExists /\ BackupsKept /\ NamesHeld

LEMMA RowOf ==
  ASSUME ConfigTypeOK, NEW c \in Changes, Exists(c)
  PROVE  /\ row[c] \in Change
         /\ row[c].status \in Statuses /\ row[c].content \in Texts
         /\ row[c].backup \in Seconds \cup {NoBackup}
  BY DEF ConfigTypeOK, Exists, Change, Texts

LEMMA JobOf ==
  ASSUME ConfigTypeInv, NEW t \in Threads, pc[t] # "idle"
  PROVE  job[t] \in Changes /\ Exists(job[t])
  BY DEF ConfigTypeInv, ConfigTypeOK, WorkKnown

\* Rows stay, and keep their content.
RowsStay ==
  \A c \in Changes : Exists(c) => /\ Exists(c)'
                                 /\ row'[c].content = row[c].content

LEMMA MarkRow ==
  ASSUME ConfigTypeOK, NEW c \in Changes, Exists(c), NEW s \in Statuses,
         NEW b \in Seconds \cup {NoBackup},
         row' = [row EXCEPT ![c].status = s, ![c].backup = b]
  PROVE  /\ row' \in [Changes -> Change \cup {NoChange}] /\ RowsStay
         /\ row'[c].status = s /\ row'[c].backup = b
         /\ \A d \in Changes : Exists(d)' <=> Exists(d)
         /\ \A d \in Changes \ {c} : row'[d] = row[d]
<1> DEFINE new == [row[c] EXCEPT !.status = s, !.backup = b]
<1>1. row[c] \in Change
  BY RowOf
<1>2. new \in Change /\ new.status = s /\ new.backup = b /\ new.content = row[c].content
  BY <1>1 DEF Change
<1>3. row \in [Changes -> Change \cup {NoChange}]
  BY DEF ConfigTypeOK
<1>4. row' = [row EXCEPT ![c] = new]
  OBVIOUS
<1>5. NoChange \notin Change
  BY ConfigDistinct
<1> HIDE DEF new
<1> QED
  BY <1>2, <1>3, <1>4, <1>5 DEF RowsStay, Exists

LEMMA SettleRow ==
  ASSUME ConfigTypeOK, NEW c \in Changes, Exists(c), NEW s \in Statuses,
         row' = [row EXCEPT ![c].status = s]
  PROVE  /\ row' \in [Changes -> Change \cup {NoChange}] /\ RowsStay
         /\ row'[c].status = s /\ row'[c].backup = row[c].backup
         /\ \A d \in Changes : Exists(d)' <=> Exists(d)
         /\ \A d \in Changes \ {c} : row'[d] = row[d]
<1> DEFINE new == [row[c] EXCEPT !.status = s]
<1>1. row[c] \in Change
  BY RowOf
<1>2. new \in Change /\ new.status = s /\ new.backup = row[c].backup
                       /\ new.content = row[c].content
  BY <1>1 DEF Change
<1>3. row \in [Changes -> Change \cup {NoChange}]
  BY DEF ConfigTypeOK
<1>4. row' = [row EXCEPT ![c] = new]
  OBVIOUS
<1>5. NoChange \notin Change
  BY ConfigDistinct
<1> HIDE DEF new
<1> QED
  BY <1>2, <1>3, <1>4, <1>5 DEF RowsStay, Exists

LEMMA ExpireRows ==
  ASSUME ConfigTypeOK, ExpireStale
  PROVE  /\ row' \in [Changes -> Change \cup {NoChange}] /\ RowsStay
         /\ \A d \in Changes : Exists(d)' <=> Exists(d)
         /\ \A d \in Changes : Exists(d) =>
              /\ row'[d].backup = row[d].backup
              /\ \/ row'[d].status = row[d].status
                 \/ Undecided(d) /\ row'[d].status = "expired"
<1>1. PICK stale \in SUBSET {c \in Changes : Undecided(c)} :
        row' = [c \in Changes |->
          IF c \in stale THEN [row[c] EXCEPT !.status = "expired"] ELSE row[c]]
  BY DEF ExpireStale
<1>2. ASSUME NEW d \in Changes
      PROVE  /\ row'[d] \in Change \cup {NoChange}
             /\ Exists(d)' <=> Exists(d)
             /\ Exists(d) =>
                  /\ row'[d].backup = row[d].backup
                  /\ row'[d].content = row[d].content
                  /\ \/ row'[d].status = row[d].status
                     \/ Undecided(d) /\ row'[d].status = "expired"
  <2>1. CASE d \notin stale
    <3>1. row'[d] = row[d]
      BY <1>1, <2>1
    <3> QED
      BY <3>1 DEF ConfigTypeOK, Exists
  <2>2. CASE d \in stale
    <3> DEFINE new == [row[d] EXCEPT !.status = "expired"]
    <3>1. Undecided(d) /\ Exists(d) /\ row[d] \in Change
      BY <2>2, RowOf DEF Undecided
    <3>2. row'[d] = new
      BY <1>1, <2>2
    <3>3. new \in Change /\ new.status = "expired" /\ new.backup = row[d].backup
                           /\ new.content = row[d].content
      BY <3>1 DEF Change, Statuses
    <3>4. NoChange \notin Change
      BY ConfigDistinct
    <3> HIDE DEF new
    <3> QED
      BY <3>1, <3>2, <3>3, <3>4 DEF Exists
  <2> QED
    BY <2>1, <2>2
<1>3. row' \in [Changes -> Change \cup {NoChange}]
  BY <1>1, <1>2
<1> QED
  BY <1>2, <1>3 DEF RowsStay

LEMMA ProposeRow ==
  ASSUME ConfigTypeOK, NEW c \in Changes, NEW f \in Texts, NEW k \in Keys \cup {NoKey},
         Propose(c, f, k)
  PROVE  /\ row' \in [Changes -> Change \cup {NoChange}] /\ RowsStay
         /\ ~Exists(c) /\ Exists(c)'
         /\ row'[c].backup = NoBackup /\ row'[c].status \in {"pending", "validated"}
         /\ \A d \in Changes \ {c} : row'[d] = row[d]
<1> DEFINE new == [status |-> IF f = Garbled THEN "pending" ELSE "validated",
                   content |-> f, key |-> k, backup |-> NoBackup]
<1>1. new \in Change /\ new.backup = NoBackup /\ new.status \in {"pending", "validated"}
  BY DEF Change, Statuses, Texts
<1>2. row' = [row EXCEPT ![c] = new] /\ ~Exists(c)
  BY DEF Propose
<1>3. row \in [Changes -> Change \cup {NoChange}] /\ NoChange \notin Change
  BY ConfigDistinct DEF ConfigTypeOK
<1> HIDE DEF new
<1> QED
  BY <1>1, <1>2, <1>3 DEF RowsStay, Exists

\* What is proposed.
LEMMA Proposals ==
  ASSUME ConfigTypeOK, NEW c \in Changes, ProposeContent(c) \/ ProposeSetting(c)
  PROVE  \E f \in Texts, k \in Keys \cup {NoKey} : Propose(c, f, k)
<1>1. CASE ProposeContent(c)
  BY <1>1, ConfigAssumption DEF ProposeContent, Texts
<1>2. CASE ProposeSetting(c)
  BY <1>2, EmptyIsContent, WithSettingIsContent DEF ProposeSetting, Texts
<1> QED
  BY <1>1, <1>2

\* A step that keeps the rows and the places keeps what is said of them.
LEMMA KeptWork ==
  ASSUME ConfigTypeInv, RowsStay,
         \A t \in Threads : pc'[t] # "idle" => pc[t] # "idle" /\ job'[t] = job[t]
  PROVE  WorkKnown'
<1>1. \A t \in Threads : pc'[t] # "idle" => job[t] \in Changes /\ Exists(job[t])
  BY JobOf
<1> QED
  BY <1>1 DEF WorkKnown, RowsStay, Exists

LEMMA GoToType ==
  ASSUME ConfigTypeOK, NEW t \in Threads, NEW place \in PCs, GoTo(t, place)
  PROVE  /\ pc' \in [Threads -> PCs] /\ pc'[t] = place
         /\ \A u \in Threads \ {t} : pc'[u] = pc[u]
  BY DEF ConfigTypeOK, GoTo

LEMMA LeaveType ==
  ASSUME ConfigTypeOK, NEW t \in Threads, Leave(t)
  PROVE  /\ pc' \in [Threads -> PCs] /\ pc'[t] = "idle"
         /\ job' \in [Threads -> Changes \cup {NoChange}] /\ job'[t] = NoChange
         /\ name' \in [Threads -> Seconds \cup {NoBackup}] /\ name'[t] = NoBackup
         /\ \A u \in Threads \ {t} : pc'[u] = pc[u] /\ job'[u] = job[u] /\ name'[u] = name[u]
  BY DEF ConfigTypeOK, GoTo, Leave, PCs

LEMMA EnterType ==
  ASSUME ConfigTypeOK, NEW t \in Threads, NEW c \in Changes, NEW place \in PCs,
         Enter(t, c, place)
  PROVE  /\ pc' \in [Threads -> PCs] /\ pc[t] = "idle" /\ pc'[t] = place
         /\ job' \in [Threads -> Changes \cup {NoChange}] /\ job'[t] = c
         /\ \A u \in Threads \ {t} : pc'[u] = pc[u] /\ job'[u] = job[u]
  BY DEF ConfigTypeOK, GoTo, Enter

LEMMA ForgetType ==
  ASSUME ConfigTypeOK, NEW S
  PROVE  Forget(S) \in [Changes -> Texts \cup {Absent, Unknown}]
  BY DEF ConfigTypeOK, Forget, Texts

LEMMA ConfigTypeStep ==
  ASSUME ConfigTypeInv, [ConfigNext]_configVars
  PROVE  ConfigTypeInv'
<1> USE DEF ConfigTypeInv
<1> DEFINE RowType == row \in [Changes -> Change \cup {NoChange}]
           ThreadType ==
             /\ pc \in [Threads -> PCs]
             /\ job \in [Threads -> Changes \cup {NoChange}]
             /\ name \in [Threads -> Seconds \cup {NoBackup}]
             /\ \A t \in Threads : job[t] = NoChange <=> pc[t] = "idle"
           FileType == /\ file \in Contents \cup {Garbled, Absent}
                       /\ backups \in [Seconds -> Contents \cup {Garbled, NoBackup}]
                       /\ second \in Seconds
           PriorType == prior \in [Changes -> Contents \cup {Garbled, Absent, Unknown}]
           HistoryType == /\ landed \subseteq Changes /\ clashed \in BOOLEAN
                          /\ PriorType
<1>1. RowType /\ ThreadType /\ FileType /\ HistoryType
  BY DEF ConfigTypeOK
<1>2. ConfigTypeOK' <=> RowType' /\ ThreadType' /\ FileType' /\ HistoryType'
  BY DEF ConfigTypeOK
<1>3. NoChange \notin Changes /\ NoBackup \notin Seconds /\ NoBackup \notin Texts
      /\ Garbled \notin Contents /\ Absent \notin Texts /\ Empty \in Texts
  BY ConfigDistinct, ConfigAssumption, EmptyIsContent DEF Texts, Contents
<1>4. ASSUME NEW c \in Changes, ProposeContent(c) \/ ProposeSetting(c)
      PROVE  ConfigTypeInv'
  <2>1. PICK f \in Texts, k \in Keys \cup {NoKey} : Propose(c, f, k)
    BY <1>4, Proposals
  <2>2. UNCHANGED <<fileVars, second, threadVars, historyVars>>
    BY <2>1 DEF Propose
  <2>3. RowType' /\ RowsStay /\ row'[c].backup = NoBackup
        /\ \A d \in Changes \ {c} : row'[d] = row[d]
    BY <2>1, ProposeRow
  <2>4. ConfigTypeOK'
    BY <1>1, <1>2, <2>2, <2>3 DEF fileVars, threadVars, historyVars
  <2>5. WorkKnown'
    BY <2>2, <2>3, KeptWork DEF threadVars
  <2>6. BackupsKept'
    BY <2>2, <2>3 DEF BackupsKept, Exists, fileVars, threadVars
  <2> QED
    BY <2>2, <2>4, <2>5, <2>6 DEF OpenExists, NamesHeld, fileVars, threadVars
<1>5. ASSUME NEW c \in Changes, Reject(c)
      PROVE  ConfigTypeInv'
  <2>1. UNCHANGED <<fileVars, second, threadVars, historyVars>>
    BY <1>5 DEF Reject
  <2>2. RowType' /\ RowsStay /\ row'[c].backup = row[c].backup
        /\ (\A d \in Changes : Exists(d)' <=> Exists(d))
        /\ \A d \in Changes \ {c} : row'[d] = row[d]
    BY <1>5, SettleRow DEF Reject, Statuses
  <2>3. ConfigTypeOK'
    BY <1>1, <1>2, <2>1, <2>2 DEF fileVars, threadVars, historyVars
  <2>4. WorkKnown'
    BY <2>1, <2>2, KeptWork DEF threadVars
  <2>5. BackupsKept'
    BY <2>1, <2>2 DEF BackupsKept, fileVars, threadVars
  <2> QED
    BY <2>1, <2>3, <2>4, <2>5 DEF OpenExists, NamesHeld, fileVars, threadVars
<1>6. CASE ExpireStale
  <2>1. UNCHANGED <<fileVars, second, threadVars, historyVars>>
    BY <1>6 DEF ExpireStale
  <2>2. RowType' /\ RowsStay
        /\ (\A d \in Changes : Exists(d)' <=> Exists(d))
        /\ \A d \in Changes : Exists(d) => row'[d].backup = row[d].backup
    BY <1>6, ExpireRows
  <2>3. ConfigTypeOK'
    BY <1>1, <1>2, <2>1, <2>2 DEF fileVars, threadVars, historyVars
  <2>4. WorkKnown'
    BY <2>1, <2>2, KeptWork DEF threadVars
  <2>5. BackupsKept'
    BY <2>1, <2>2 DEF BackupsKept, fileVars, threadVars
  <2> QED
    BY <2>1, <2>3, <2>4, <2>5 DEF OpenExists, NamesHeld, fileVars, threadVars
<1>7. CASE Tick
  <2>1. UNCHANGED <<row, fileVars, threadVars, historyVars>> /\ second' \in Seconds
    BY <1>1, <1>7, ConfigAssumption DEF Tick, Seconds
  <2>2. ConfigTypeOK'
    BY <1>1, <1>2, <2>1 DEF fileVars, threadVars, historyVars
  <2> QED
    BY <2>1, <2>2 DEF WorkKnown, OpenExists, BackupsKept, NamesHeld, Exists, fileVars, threadVars
<1>8. ASSUME NEW t \in Threads, NEW c \in Changes, ApplyCheck(t, c)
      PROVE  ConfigTypeInv'
  <2>1. Exists(c) /\ UNCHANGED <<row, fileVars, second, name, landed, clashed>>
        /\ Enter(t, c, "backup")
    BY <1>8 DEF ApplyCheck, Undecided
  <2>2. ThreadType' /\ pc'[t] = "backup" /\ job'[t] = c
        /\ \A u \in Threads \ {t} : pc'[u] = pc[u] /\ job'[u] = job[u]
    BY <1>1, <1>3, <2>1, EnterType DEF PCs
  <2>3. PriorType'
    BY <1>8, ForgetType DEF ApplyCheck, Texts
  <2>4. ConfigTypeOK'
    BY <1>1, <1>2, <2>1, <2>2, <2>3 DEF fileVars
  <2> QED
    BY <2>1, <2>2, <2>4 DEF WorkKnown, OpenExists, BackupsKept, NamesHeld, Exists, fileVars
<1>9. ASSUME NEW t \in Threads, NEW c \in Changes, RollbackCheck(t, c)
      PROVE  ConfigTypeInv'
  <2>1. Exists(c) /\ UNCHANGED <<row, fileVars, second, landed, clashed>>
        /\ Enter(t, c, "restore") /\ row[c].backup # NoBackup
        /\ name' = [name EXCEPT ![t] = row[c].backup]
    BY <1>9 DEF RollbackCheck
  <2>2. row[c].backup \in Seconds
    BY <2>1, RowOf
  <2>3. ThreadType' /\ pc'[t] = "restore" /\ job'[t] = c /\ name'[t] = row[c].backup
        /\ \A u \in Threads \ {t} : pc'[u] = pc[u] /\ job'[u] = job[u] /\ name'[u] = name[u]
    BY <1>1, <1>3, <2>1, <2>2, EnterType DEF PCs
  <2>4. PriorType'
    BY <1>9, ForgetType DEF RollbackCheck, Texts
  <2>5. ConfigTypeOK'
    BY <1>1, <1>2, <2>1, <2>3, <2>4 DEF fileVars
  <2> QED
    BY <1>3, <2>1, <2>2, <2>3, <2>5 DEF WorkKnown, OpenExists, BackupsKept, NamesHeld, Exists, fileVars
<1>10. ASSUME NEW t \in Threads, ApplyBackup(t)
       PROVE  ConfigTypeInv'
  <2>1. UNCHANGED <<row, file, second, job, landed, clashed>>
        /\ pc[t] = "backup" /\ GoTo(t, "truncate")
    BY <1>10 DEF ApplyBackup
  <2>2. pc' \in [Threads -> PCs] /\ pc'[t] = "truncate" /\ \A u \in Threads \ {t} : pc'[u] = pc[u]
    BY <2>1, GoToType DEF PCs
  <2>3. PriorType'
    BY <1>1, <1>10, ForgetType DEF ApplyBackup, Texts
  <2>4. /\ backups' \in [Seconds -> Contents \cup {Garbled, NoBackup}]
        /\ name' \in [Threads -> Seconds \cup {NoBackup}]
        /\ \A u \in Threads \ {t} : name'[u] = name[u]
        /\ \A s \in Seconds : backups[s] # NoBackup => backups'[s] # NoBackup
        /\ name'[t] # NoBackup => backups'[name'[t]] # NoBackup
    BY <1>1, <1>3, <1>10 DEF ApplyBackup, BackupsKept, Texts
  <2>5. ConfigTypeOK'
    BY <1>1, <1>2, <2>1, <2>2, <2>3, <2>4
  <2>6. WorkKnown'
    BY <2>1, <2>2, KeptWork DEF RowsStay, Exists
  <2>7. BackupsKept'
    BY <1>1, <2>1, <2>4, RowOf DEF BackupsKept, Exists
  <2> QED
    BY <2>1, <2>2, <2>4, <2>5, <2>6, <2>7 DEF OpenExists, NamesHeld
<1>11. ASSUME NEW t \in Threads, ApplyTruncate(t) \/ RollbackTruncate(t)
       PROVE  ConfigTypeInv'
  <2>1. /\ UNCHANGED <<row, backups, second, job, name, landed, clashed>>
        /\ file' = Empty
        /\ \/ pc[t] = "truncate" /\ GoTo(t, "write")
           \/ pc[t] = "restore" /\ GoTo(t, "copy")
    BY <1>11 DEF ApplyTruncate, RollbackTruncate, historyVars
  <2>2. /\ pc' \in [Threads -> PCs] /\ pc'[t] \in {"write", "copy"}
        /\ pc[t] \in {"truncate", "restore"} /\ (pc'[t] = "copy" => pc[t] = "restore")
        /\ \A u \in Threads \ {t} : pc'[u] = pc[u]
    BY <2>1, GoToType DEF PCs
  <2>3. PriorType'
    BY <1>1, <1>11, JobOf DEF ApplyTruncate, RollbackTruncate, historyVars
  <2>4. ConfigTypeOK'
    BY <1>1, <1>2, <1>3, <2>1, <2>2, <2>3 DEF Texts
  <2>5. WorkKnown'
    BY <2>1, <2>2, KeptWork DEF RowsStay, Exists
  <2>6. OpenExists'
    BY <1>3, <2>1 DEF OpenExists
  <2> QED
    BY <2>1, <2>2, <2>4, <2>5, <2>6 DEF BackupsKept, NamesHeld, Exists
<1>12. ASSUME NEW t \in Threads, ApplyWrite(t) \/ RollbackWrite(t)
       PROVE  ConfigTypeInv'
  <2>1. /\ UNCHANGED <<row, backups, second, job, name, prior>>
        /\ \/ pc[t] = "write" /\ GoTo(t, "mark") /\ WriteFile(row[job[t]].content)
              /\ landed' = landed \cup {job[t]}
           \/ pc[t] = "copy" /\ GoTo(t, "unmark") /\ WriteFile(backups[name[t]])
              /\ landed' = landed
    BY <1>12 DEF ApplyWrite, RollbackWrite
  <2>2. /\ pc' \in [Threads -> PCs] /\ pc'[t] \in {"mark", "unmark"}
        /\ pc[t] \in {"write", "copy"} /\ (pc'[t] = "unmark" => pc[t] = "copy")
        /\ \A u \in Threads \ {t} : pc'[u] = pc[u]
    BY <2>1, GoToType DEF PCs
  <2>3. PICK f \in Texts : WriteFile(f)
    <3>1. CASE pc[t] = "write"
      BY <2>1, <3>1, JobOf, RowOf
    <3>2. CASE pc[t] = "copy"
      <4>1. name[t] \in Seconds /\ backups[name[t]] # NoBackup
        BY <1>1, <3>2 DEF NamesHeld, BackupsKept
      <4>2. backups[name[t]] \in Texts
        BY <1>1, <4>1 DEF Texts
      <4> QED
        BY <2>1, <3>2, <4>2
    <3> QED
      BY <2>2, <3>1, <3>2
  <2>4. file \in Texts
    BY <1>1, <2>2 DEF OpenExists, Texts
  <2>5. file' \in Texts /\ clashed' \in BOOLEAN
    BY <1>1, <2>3, <2>4, WriteFileType
  <2>6. landed' \subseteq Changes
    BY <1>1, <2>1, <2>2, JobOf
  <2>7. ConfigTypeOK'
    BY <1>1, <1>2, <2>1, <2>2, <2>5, <2>6 DEF Texts
  <2>8. WorkKnown'
    BY <2>1, <2>2, KeptWork DEF RowsStay, Exists
  <2>9. OpenExists'
    BY <1>3, <2>5 DEF OpenExists
  <2> QED
    BY <2>1, <2>2, <2>7, <2>8, <2>9 DEF BackupsKept, NamesHeld, Exists
<1>13. ASSUME NEW t \in Threads, ApplyMark(t)
       PROVE  ConfigTypeInv'
  <2>1. /\ UNCHANGED <<fileVars, second, historyVars>> /\ Leave(t) /\ pc[t] = "mark"
        /\ row' = [row EXCEPT ![job[t]].status = "applied", ![job[t]].backup = name[t]]
    BY <1>13 DEF ApplyMark
  <2>2. job[t] \in Changes /\ Exists(job[t]) /\ name[t] \in Seconds \cup {NoBackup}
    BY <1>1, <2>1, JobOf
  <2>3. RowType' /\ RowsStay /\ row'[job[t]].backup = name[t]
        /\ (\A d \in Changes : Exists(d)' <=> Exists(d))
        /\ \A d \in Changes \ {job[t]} : row'[d] = row[d]
    BY <2>1, <2>2, MarkRow DEF Statuses
  <2>4. ThreadType' /\ pc'[t] = "idle" /\ name'[t] = NoBackup
        /\ \A u \in Threads \ {t} : pc'[u] = pc[u] /\ job'[u] = job[u] /\ name'[u] = name[u]
    BY <1>1, <2>1, LeaveType
  <2>5. ConfigTypeOK'
    BY <1>1, <1>2, <2>1, <2>3, <2>4 DEF fileVars, historyVars
  <2>6. WorkKnown'
    BY <2>3, <2>4, KeptWork
  <2>7. BackupsKept'
    BY <2>1, <2>2, <2>3, <2>4 DEF BackupsKept, fileVars
  <2> QED
    BY <2>1, <2>4, <2>5, <2>6, <2>7 DEF OpenExists, NamesHeld, fileVars
<1>14. ASSUME NEW t \in Threads, RollbackMark(t)
       PROVE  ConfigTypeInv'
  <2>1. /\ UNCHANGED <<fileVars, second, landed, clashed>> /\ Leave(t) /\ pc[t] = "unmark"
        /\ row' = [row EXCEPT ![job[t]].status = "rolled_back"]
        /\ prior' = Forget({job[t]})
    BY <1>14 DEF RollbackMark
  <2>2. job[t] \in Changes /\ Exists(job[t])
    BY <2>1, JobOf
  <2>3. RowType' /\ RowsStay /\ row'[job[t]].backup = row[job[t]].backup
        /\ (\A d \in Changes : Exists(d)' <=> Exists(d))
        /\ \A d \in Changes \ {job[t]} : row'[d] = row[d]
    BY <2>1, <2>2, SettleRow DEF Statuses
  <2>4. ThreadType' /\ pc'[t] = "idle" /\ name'[t] = NoBackup
        /\ \A u \in Threads \ {t} : pc'[u] = pc[u] /\ job'[u] = job[u] /\ name'[u] = name[u]
    BY <1>1, <2>1, LeaveType
  <2>5. PriorType'
    BY <2>1, ForgetType DEF Texts
  <2>6. ConfigTypeOK'
    BY <1>1, <1>2, <2>1, <2>3, <2>4, <2>5 DEF fileVars
  <2>7. WorkKnown'
    BY <2>3, <2>4, KeptWork
  <2>8. BackupsKept'
    BY <2>1, <2>2, <2>3, <2>4 DEF BackupsKept, fileVars
  <2> QED
    BY <2>1, <2>4, <2>6, <2>7, <2>8 DEF OpenExists, NamesHeld, fileVars
<1>15. ASSUME NEW t \in Threads, Abandon(t)
       PROVE  ConfigTypeInv'
  <2>1. UNCHANGED <<row, fileVars, second, landed, clashed>> /\ Leave(t)
    BY <1>15 DEF Abandon
  <2>2. ThreadType' /\ pc'[t] = "idle" /\ name'[t] = NoBackup
        /\ \A u \in Threads \ {t} : pc'[u] = pc[u] /\ job'[u] = job[u] /\ name'[u] = name[u]
    BY <1>1, <2>1, LeaveType
  <2>3. PriorType'
    BY <1>1, <1>15, ForgetType DEF Abandon, Texts
  <2>4. ConfigTypeOK'
    BY <1>1, <1>2, <2>1, <2>2, <2>3 DEF fileVars
  <2>5. WorkKnown'
    BY <2>1, <2>2, KeptWork DEF RowsStay, Exists
  <2> QED
    BY <2>1, <2>2, <2>4, <2>5 DEF OpenExists, BackupsKept, NamesHeld, Exists, fileVars
<1>16. CASE UNCHANGED configVars
  BY <1>1, <1>2, <1>16 DEF WorkKnown, OpenExists, BackupsKept, NamesHeld, Exists,
     configVars, fileVars, threadVars, historyVars
<1> QED
  BY <1>4, <1>5, <1>6, <1>7, <1>8, <1>9, <1>10, <1>11, <1>12, <1>13, <1>14, <1>15, <1>16
  DEF ConfigNext

LEMMA ConfigTypeStart ==
  ASSUME ConfigInit
  PROVE  ConfigTypeInv
<1>1. ConfigTypeOK
  <2>1. 0 \in Seconds /\ file \in Contents \cup {Absent}
    BY ConfigAssumption DEF ConfigInit, Seconds
  <2> QED
    BY <2>1 DEF ConfigInit, ConfigTypeOK, PCs
<1> QED
  BY <1>1 DEF ConfigInit, ConfigTypeInv, WorkKnown, OpenExists, BackupsKept, NamesHeld, Exists

\* ConfigWriter is type correct: a row, a backup file and what a request holds
\* are what the code stores there.
THEOREM ConfigTypeCorrect == ConfigSpec => []ConfigTypeOK
<1>1. ConfigInit => ConfigTypeInv
  BY ConfigTypeStart
<1>2. ConfigTypeInv /\ [ConfigNext]_configVars => ConfigTypeInv'
  BY ConfigTypeStep
<1>3. ConfigTypeInv => ConfigTypeOK
  BY DEF ConfigTypeInv
<1> QED
  BY <1>1, <1>2, <1>3, PTL DEF ConfigSpec

-----------------------------------------------------------------------------
(* The file comes before the status. *)

LandedWork ==
  \A t \in Threads : pc[t] \in {"mark", "restore", "copy", "unmark"} => job[t] \in landed

LandedInv == MarkedWasWritten /\ LandedWork

LEMMA LandedStep ==
  ASSUME ConfigTypeInv, LandedInv, [ConfigNext]_configVars
  PROVE  LandedInv'
<1> USE DEF LandedInv
<1>1. ConfigTypeOK
  BY DEF ConfigTypeInv
<1>2. ASSUME NEW c \in Changes, ProposeContent(c) \/ ProposeSetting(c)
      PROVE  LandedInv'
  <2>1. PICK f \in Texts, k \in Keys \cup {NoKey} : Propose(c, f, k)
    BY <1>1, <1>2, Proposals
  <2>2. UNCHANGED <<pc, job, landed>>
    BY <2>1 DEF Propose, threadVars, historyVars
  <2>3. row'[c].status \in {"pending", "validated"}
        /\ \A d \in Changes \ {c} : row'[d] = row[d]
    BY <1>1, <2>1, ProposeRow
  <2> QED
    BY <2>2, <2>3 DEF MarkedWasWritten, LandedWork, Exists
<1>3. ASSUME NEW c \in Changes, Reject(c)
      PROVE  LandedInv'
  <2>1. UNCHANGED <<pc, job, landed>>
    BY <1>3 DEF Reject, threadVars, historyVars
  <2>2. row'[c].status = "rejected" /\ \A d \in Changes \ {c} : row'[d] = row[d]
    BY <1>1, <1>3, SettleRow DEF Reject, Statuses
  <2> QED
    BY <2>1, <2>2 DEF MarkedWasWritten, LandedWork, Exists
<1>4. CASE ExpireStale
  <2>1. UNCHANGED <<pc, job, landed>>
    BY <1>4 DEF ExpireStale, threadVars, historyVars
  <2>2. /\ \A d \in Changes : Exists(d)' <=> Exists(d)
        /\ \A d \in Changes : Exists(d) => row'[d].status \in {row[d].status, "expired"}
    BY <1>1, <1>4, ExpireRows
  <2> QED
    BY <2>1, <2>2 DEF MarkedWasWritten, LandedWork
<1>5. ASSUME NEW t \in Threads, NEW c \in Changes, ApplyCheck(t, c)
      PROVE  LandedInv'
  <2>1. UNCHANGED <<row, landed>> /\ Enter(t, c, "backup")
    BY <1>5 DEF ApplyCheck
  <2>2. pc'[t] = "backup" /\ \A u \in Threads \ {t} : pc'[u] = pc[u] /\ job'[u] = job[u]
    BY <1>1, <2>1, EnterType DEF PCs
  <2> QED
    BY <2>1, <2>2 DEF MarkedWasWritten, LandedWork, Exists
<1>6. ASSUME NEW t \in Threads, NEW c \in Changes, RollbackCheck(t, c)
      PROVE  LandedInv'
  <2>1. UNCHANGED <<row, landed>> /\ Enter(t, c, "restore") /\ c \in landed
    BY <1>6 DEF RollbackCheck, MarkedWasWritten
  <2>2. job'[t] = c /\ \A u \in Threads \ {t} : pc'[u] = pc[u] /\ job'[u] = job[u]
    BY <1>1, <2>1, EnterType DEF PCs
  <2> QED
    BY <2>1, <2>2 DEF MarkedWasWritten, LandedWork, Exists
<1>7. ASSUME NEW t \in Threads,
             ApplyBackup(t) \/ ApplyTruncate(t) \/ RollbackTruncate(t)
      PROVE  LandedInv'
  <2>1. UNCHANGED <<row, job, landed>>
        /\ \/ GoTo(t, "truncate") \/ GoTo(t, "write")
           \/ pc[t] = "restore" /\ GoTo(t, "copy")
    BY <1>7 DEF ApplyBackup, ApplyTruncate, RollbackTruncate, historyVars
  <2>2. (pc'[t] \in {"truncate", "write"} \/ pc[t] = "restore")
        /\ \A u \in Threads \ {t} : pc'[u] = pc[u]
    BY <1>1, <2>1, GoToType DEF PCs
  <2> QED
    BY <2>1, <2>2 DEF MarkedWasWritten, LandedWork, Exists
<1>8. ASSUME NEW t \in Threads, ApplyWrite(t) \/ RollbackWrite(t)
      PROVE  LandedInv'
  <2>1. UNCHANGED <<row, job>>
        /\ \/ landed' = landed \cup {job[t]} /\ GoTo(t, "mark")
           \/ landed' = landed /\ pc[t] = "copy" /\ GoTo(t, "unmark")
    BY <1>8 DEF ApplyWrite, RollbackWrite
  <2>2. \A u \in Threads \ {t} : pc'[u] = pc[u]
    BY <1>1, <2>1, GoToType DEF PCs
  <2>3. landed \subseteq landed' /\ job[t] \in landed'
    BY <2>1 DEF LandedWork
  <2> QED
    BY <2>1, <2>2, <2>3 DEF MarkedWasWritten, LandedWork, Exists
<1>9. ASSUME NEW t \in Threads, ApplyMark(t) \/ RollbackMark(t)
      PROVE  LandedInv'
  <2>1. Leave(t) /\ pc[t] \in {"mark", "unmark"} /\ landed' = landed
    BY <1>9 DEF ApplyMark, RollbackMark, historyVars
  <2>2. job[t] \in Changes /\ Exists(job[t]) /\ job[t] \in landed
        /\ name[t] \in Seconds \cup {NoBackup}
    BY <1>1, <2>1, JobOf DEF LandedWork, ConfigTypeOK
  <2>3. \A d \in Changes \ {job[t]} : row'[d] = row[d]
    BY <1>1, <1>9, <2>2, MarkRow, SettleRow DEF ApplyMark, RollbackMark, Statuses
  <2>4. pc'[t] = "idle" /\ \A u \in Threads \ {t} : pc'[u] = pc[u] /\ job'[u] = job[u]
    BY <1>1, <2>1, LeaveType
  <2> QED
    BY <2>1, <2>2, <2>3, <2>4 DEF MarkedWasWritten, LandedWork, Exists
<1>10. ASSUME NEW t \in Threads, Abandon(t)
       PROVE  LandedInv'
  <2>1. Leave(t) /\ UNCHANGED <<row, landed>>
    BY <1>10 DEF Abandon
  <2>2. pc'[t] = "idle" /\ \A u \in Threads \ {t} : pc'[u] = pc[u] /\ job'[u] = job[u]
    BY <1>1, <2>1, LeaveType
  <2> QED
    BY <2>1, <2>2 DEF MarkedWasWritten, LandedWork, Exists
<1>11. CASE Tick \/ UNCHANGED configVars
  BY <1>11 DEF Tick, configVars, threadVars, historyVars, MarkedWasWritten, LandedWork, Exists
<1> QED
  BY <1>2, <1>3, <1>4, <1>5, <1>6, <1>7, <1>8, <1>9, <1>10, <1>11 DEF ConfigNext

\* Whatever overlaps or is cut short, a change that is marked applied or rolled
\* back has been written to the file.
THEOREM WrittenBeforeMarked == ConfigSpec => []MarkedWasWritten
<1>1. ConfigInit => ConfigTypeInv /\ LandedInv
  BY ConfigTypeStart DEF ConfigInit, LandedInv, MarkedWasWritten, LandedWork, Exists
<1>2. ConfigTypeInv /\ LandedInv /\ [ConfigNext]_configVars => (ConfigTypeInv /\ LandedInv)'
  BY ConfigTypeStep, LandedStep
<1>3. LandedInv => MarkedWasWritten
  BY DEF LandedInv
<1> QED
  BY <1>1, <1>2, <1>3, PTL DEF ConfigSpec

-----------------------------------------------------------------------------
(* What goes live. *)

GoodText(x) ==
  \/ x \in Initials \cup {Empty}
  \/ \E c \in landed : Exists(c) /\ x = row[c].content /\ ~HasErrors(c)

\* What is being applied has no errors; without a clash the file and all that
\* can be restored are good.
ApplyingGood ==
  \A t \in Threads : pc[t] \in {"backup", "truncate", "write", "mark"} => ~HasErrors(job[t])
FilesGood ==
  clashed \/ /\ GoodText(file)
             /\ \A s \in Seconds : backups[s] # NoBackup => GoodText(backups[s])

ApprovedInv == ApplyingGood /\ FilesGood

LEMMA GoodStays ==
  ASSUME ConfigTypeOK, RowsStay, landed \subseteq landed', NEW x, GoodText(x)
  PROVE  \/ x \in Initials \cup {Empty}
         \/ \E c \in landed' : Exists(c)' /\ x = row'[c].content /\ ~HasErrors(c)'
<1>1. CASE x \in Initials \cup {Empty}
  BY <1>1
<1>2. CASE \E c \in landed : Exists(c) /\ x = row[c].content /\ ~HasErrors(c)
  <2>1. PICK c \in landed : Exists(c) /\ x = row[c].content /\ ~HasErrors(c)
    BY <1>2
  <2>2. c \in Changes /\ Exists(c)' /\ row'[c].content = row[c].content
    BY <2>1 DEF ConfigTypeOK, RowsStay
  <2> QED
    BY <2>1, <2>2 DEF HasErrors
<1> QED
  BY <1>1, <1>2 DEF GoodText

LEMMA FilesStayGood ==
  ASSUME ConfigTypeOK, RowsStay, landed \subseteq landed', FilesGood,
         UNCHANGED <<file, backups, clashed>>
  PROVE  FilesGood'
  BY GoodStays DEF FilesGood, GoodText

LEMMA ApplyingStaysGood ==
  ASSUME ConfigTypeInv, RowsStay, ApplyingGood, NEW t \in Threads,
         \A u \in Threads \ {t} : pc'[u] = pc[u] /\ job'[u] = job[u],
         \/ pc'[t] \notin {"backup", "truncate", "write", "mark"}
         \/ job'[t] = job[t] /\ pc[t] \in {"backup", "truncate", "write", "mark"}
  PROVE  ApplyingGood'
<1>1. ASSUME NEW u \in Threads, pc'[u] \in {"backup", "truncate", "write", "mark"}
      PROVE  row'[job'[u]].content # Garbled
  <2>1. job'[u] = job[u] /\ pc[u] \in {"backup", "truncate", "write", "mark"}
    BY <1>1
  <2>2. job[u] \in Changes /\ Exists(job[u]) /\ ~HasErrors(job[u])
    BY <2>1, JobOf DEF ApplyingGood
  <2> QED
    BY <2>1, <2>2 DEF HasErrors, RowsStay
<1> QED
  BY <1>1 DEF ApplyingGood, HasErrors

LEMMA ApprovedStep ==
  ASSUME ConfigTypeInv, ApprovedInv, [ConfigNext]_configVars
  PROVE  ApprovedInv'
<1> USE DEF ApprovedInv
<1>1. ConfigTypeOK
  BY DEF ConfigTypeInv
<1>2. ASSUME UNCHANGED <<fileVars, threadVars, historyVars>>, RowsStay
      PROVE  ApprovedInv'
  <2>1. FilesGood'
    BY <1>1, <1>2, FilesStayGood DEF fileVars, historyVars
  <2>2. ASSUME NEW u \in Threads, pc[u] \in {"backup", "truncate", "write", "mark"}
        PROVE  row'[job[u]].content # Garbled
    BY <1>2, <2>2, JobOf DEF ApplyingGood, HasErrors, RowsStay
  <2> QED
    BY <1>2, <2>1, <2>2 DEF ApplyingGood, HasErrors, threadVars
<1>3. ASSUME NEW c \in Changes, ProposeContent(c) \/ ProposeSetting(c)
      PROVE  ApprovedInv'
  <2>1. PICK f \in Texts, k \in Keys \cup {NoKey} : Propose(c, f, k)
    BY <1>1, <1>3, Proposals
  <2> QED
    BY <1>1, <1>2, <2>1, ProposeRow DEF Propose
<1>4. ASSUME NEW c \in Changes, Reject(c)
      PROVE  ApprovedInv'
  BY <1>1, <1>2, <1>4, SettleRow DEF Reject, Statuses
<1>5. CASE ExpireStale
  BY <1>1, <1>2, <1>5, ExpireRows DEF ExpireStale
<1>6. CASE Tick
  BY <1>2, <1>6 DEF Tick, RowsStay, Exists
<1>7. ASSUME NEW t \in Threads, NEW c \in Changes,
             \/ ApplyCheck(t, c)
             \/ RollbackCheck(t, c)
      PROVE  ApprovedInv'
  <2>1. /\ UNCHANGED <<row, fileVars, landed, clashed>>
        /\ \/ Enter(t, c, "backup") /\ ~HasErrors(c)
           \/ Enter(t, c, "restore")
    BY <1>7 DEF ApplyCheck, RollbackCheck
  <2>2. /\ (pc'[t] = "restore" \/ (job'[t] = c /\ ~HasErrors(c)))
        /\ \A u \in Threads \ {t} : pc'[u] = pc[u] /\ job'[u] = job[u]
    BY <1>1, <2>1, EnterType DEF PCs
  <2>3. FilesGood'
    <3>1. RowsStay
      BY <2>1 DEF RowsStay, Exists
    <3>2. UNCHANGED <<file, backups, clashed>> /\ landed' = landed
      BY <2>1 DEF fileVars
    <3> QED
      BY <1>1, <3>1, <3>2, FilesStayGood
  <2>4. ASSUME NEW u \in Threads, pc'[u] \in {"backup", "truncate", "write", "mark"}
        PROVE  row'[job'[u]].content # Garbled
    <3>1. CASE u = t
      BY <2>1, <2>2, <2>4, <3>1 DEF HasErrors
    <3>2. CASE u # t
      BY <2>1, <2>2, <2>4, <3>2 DEF ApplyingGood, HasErrors
    <3> QED
      BY <3>1, <3>2
  <2> QED
    BY <2>3, <2>4 DEF ApplyingGood, HasErrors
<1>8. ASSUME NEW t \in Threads, ApplyBackup(t)
      PROVE  ApprovedInv'
  <2>1. UNCHANGED <<row, file, job, landed, clashed>> /\ pc[t] = "backup" /\ GoTo(t, "truncate")
    BY <1>8 DEF ApplyBackup
  <2>2. \A u \in Threads \ {t} : pc'[u] = pc[u]
    BY <1>1, <2>1, GoToType DEF PCs
  <2>3. ApplyingGood'
    BY <2>1, <2>2, ApplyingStaysGood DEF RowsStay, Exists
  <2>4. \A s \in Seconds : backups'[s] \in {backups[s], file}
    BY <1>1, <1>8 DEF ApplyBackup, ConfigTypeOK
  <2>5. FilesGood'
    BY <2>1, <2>4 DEF FilesGood, GoodText, Exists, HasErrors
  <2> QED
    BY <2>3, <2>5
<1>9. ASSUME NEW t \in Threads, ApplyTruncate(t) \/ RollbackTruncate(t)
      PROVE  ApprovedInv'
  <2>1. /\ UNCHANGED <<row, backups, job, landed, clashed>> /\ file' = Empty
        /\ \/ pc[t] = "truncate" /\ GoTo(t, "write")
           \/ GoTo(t, "copy")
    BY <1>9 DEF ApplyTruncate, RollbackTruncate, historyVars
  <2>2. /\ (pc'[t] = "copy" \/ pc[t] = "truncate")
        /\ \A u \in Threads \ {t} : pc'[u] = pc[u]
    BY <1>1, <2>1, GoToType DEF PCs
  <2>3. ApplyingGood'
    BY <2>1, <2>2, ApplyingStaysGood DEF RowsStay, Exists
  <2>4. FilesGood'
    BY <2>1 DEF FilesGood, GoodText, Exists, HasErrors
  <2> QED
    BY <2>3, <2>4
<1>10. ASSUME NEW t \in Threads, ApplyWrite(t)
       PROVE  ApprovedInv'
  <2>1. UNCHANGED <<row, backups, job>> /\ pc[t] = "write" /\ GoTo(t, "mark")
        /\ WriteFile(row[job[t]].content) /\ landed' = landed \cup {job[t]}
    BY <1>10 DEF ApplyWrite
  <2>2. \A u \in Threads \ {t} : pc'[u] = pc[u]
    BY <1>1, <2>1, GoToType DEF PCs
  <2>3. ApplyingGood'
    BY <2>1, <2>2, ApplyingStaysGood DEF RowsStay, Exists
  <2>4. Exists(job[t]) /\ ~HasErrors(job[t])
    BY <2>1, JobOf DEF ApplyingGood
  <2>5. FilesGood'
    <3>1. CASE clashed' = TRUE
      BY <3>1 DEF FilesGood
    <3>2. CASE file' = row[job[t]].content /\ UNCHANGED clashed
      <4>1. GoodText(file)'
        BY <2>1, <2>4, <3>2 DEF GoodText, Exists, HasErrors
      <4>2. CASE clashed
        BY <3>2, <4>2 DEF FilesGood
      <4>3. CASE ~clashed
        BY <2>1, <4>1, <4>3 DEF FilesGood, GoodText, Exists, HasErrors
      <4> QED
        BY <4>2, <4>3
    <3> QED
      BY <2>1, <3>1, <3>2 DEF WriteFile
  <2> QED
    BY <2>3, <2>5
<1>11. ASSUME NEW t \in Threads, RollbackWrite(t)
       PROVE  ApprovedInv'
  <2>1. UNCHANGED <<row, backups, job, landed>> /\ pc[t] = "copy" /\ GoTo(t, "unmark")
        /\ WriteFile(backups[name[t]])
    BY <1>11 DEF RollbackWrite
  <2>2. pc'[t] = "unmark" /\ \A u \in Threads \ {t} : pc'[u] = pc[u]
    BY <1>1, <2>1, GoToType DEF PCs
  <2>3. ApplyingGood'
    BY <2>1, <2>2, ApplyingStaysGood DEF RowsStay, Exists
  <2>4. name[t] \in Seconds /\ backups[name[t]] # NoBackup
    BY <1>1, <2>1 DEF ConfigTypeInv, ConfigTypeOK, NamesHeld, BackupsKept
  <2>5. FilesGood'
    <3>1. CASE clashed' = TRUE
      BY <3>1 DEF FilesGood
    <3>2. CASE file' = backups[name[t]] /\ UNCHANGED clashed
      BY <2>1, <2>4, <3>2 DEF FilesGood, GoodText, Exists, HasErrors
    <3> QED
      BY <2>1, <3>1, <3>2 DEF WriteFile
  <2> QED
    BY <2>3, <2>5
<1>12. ASSUME NEW t \in Threads, ApplyMark(t) \/ RollbackMark(t) \/ Abandon(t)
       PROVE  ApprovedInv'
  <2>1. Leave(t) /\ pc[t] # "idle" /\ UNCHANGED <<fileVars, landed, clashed>>
    BY <1>12 DEF ApplyMark, RollbackMark, Abandon, historyVars
  <2>2. job[t] \in Changes /\ Exists(job[t]) /\ name[t] \in Seconds \cup {NoBackup}
    BY <1>1, <2>1, JobOf DEF ConfigTypeOK
  <2>3. RowsStay
    <3>1. CASE ApplyMark(t) \/ RollbackMark(t)
      BY <1>1, <2>2, <3>1, MarkRow, SettleRow DEF ApplyMark, RollbackMark, Statuses
    <3>2. CASE Abandon(t)
      BY <3>2 DEF Abandon, RowsStay, Exists
    <3> QED
      BY <1>12, <3>1, <3>2
  <2>4. pc'[t] = "idle" /\ \A u \in Threads \ {t} : pc'[u] = pc[u] /\ job'[u] = job[u]
    BY <1>1, <2>1, LeaveType
  <2>5. ApplyingGood'
    BY <2>3, <2>4, ApplyingStaysGood
  <2>6. FilesGood'
    BY <1>1, <2>1, <2>3, FilesStayGood DEF fileVars
  <2> QED
    BY <2>5, <2>6
<1>13. CASE UNCHANGED configVars
  BY <1>2, <1>13 DEF configVars, RowsStay, Exists
<1> QED
  BY <1>3, <1>4, <1>5, <1>6, <1>7, <1>8, <1>9, <1>10, <1>11, <1>12, <1>13 DEF ConfigNext

\* The file is the installed one, cut off, or the content of an applied change
\* that has no errors, also after rollbacks and failures, unless two requests
\* have written at the same time.
THEOREM ApprovedOnly == ConfigSpec => []OnlyApprovedGoesLive
<1>1. ConfigInit => ConfigTypeInv /\ ApprovedInv
  BY ConfigTypeStart DEF ConfigInit, ApprovedInv, ApplyingGood, FilesGood, GoodText
<1>2. ConfigTypeInv /\ ApprovedInv /\ [ConfigNext]_configVars => (ConfigTypeInv /\ ApprovedInv)'
  BY ConfigTypeStep, ApprovedStep
<1>3. ApprovedInv => OnlyApprovedGoesLive
  BY DEF ApprovedInv, FilesGood, GoodText, OnlyApprovedGoesLive
<1> QED
  BY <1>1, <1>2, <1>3, PTL DEF ConfigSpec

-----------------------------------------------------------------------------
(* What a rollback restores. *)

Applying == {"backup", "truncate", "write", "mark"}
Restoring == {"restore", "copy", "unmark"}
Known(c) == prior[c] # Unknown

\* What a row says of its backup, and a request of the file and its backup,
\* as long as it has not been disturbed.
ChangePrior(c) ==
  Exists(c) => /\ Undecided(c) => row[c].backup = NoBackup
               /\ row[c].backup # NoBackup /\ Known(c) => backups[row[c].backup] = prior[c]

ThreadPrior(t) ==
  pc[t] # "idle" /\ Known(job[t]) =>
    /\ pc[t] \in Applying => row[job[t]].backup = NoBackup
    /\ pc[t] = "truncate" => name[t] = NoBackup \/ backups[name[t]] = file
    /\ pc[t] \in {"write", "mark"} => name[t] = NoBackup \/ backups[name[t]] = prior[job[t]]
    /\ pc[t] \in Restoring => name[t] = row[job[t]].backup
    /\ pc[t] = "copy" => file = Empty

\* A request has no backup before it has made or found one.
NotYetNamed == \A t \in Threads : pc[t] \in {"idle", "backup"} => name[t] = NoBackup

\* Two requests at work disturb each other.
OverlapUnknown ==
  \A t, u \in Threads :
    t # u /\ pc[t] # "idle" /\ pc[u] # "idle" => ~Known(job[t])

PriorInv == /\ \A c \in Changes : ChangePrior(c)
            /\ \A t \in Threads : ThreadPrior(t)
            /\ OverlapUnknown

\* What is not remembered of the others' changes stays so.
UnknownStays == \A c \in Changes : prior'[c] \in {prior[c], Unknown}

LEMMA ForgetStays ==
  ASSUME ConfigTypeOK, NEW S, prior' = Forget(S)
  PROVE  UnknownStays
  BY DEF Forget, UnknownStays

\* A step of a request that is under way, or no step of a request: the others
\* at work are disturbed already.
LEMMA OverlapStays ==
  ASSUME ConfigTypeInv, OverlapUnknown, NEW t \in Threads, pc[t] # "idle",
         \A u \in Threads \ {t} : pc'[u] = pc[u] /\ job'[u] = job[u],
         pc'[t] # "idle" => job'[t] = job[t],
         UnknownStays \/ (\E x : Known(job[t]) /\ prior' = [prior EXCEPT ![job[t]] = x])
  PROVE  /\ OverlapUnknown'
         /\ \A u \in Threads \ {t} : ThreadPrior(u)'
<1>1. ASSUME NEW u \in Threads, NEW v \in Threads, u # v,
             pc'[u] # "idle", pc'[v] # "idle"
      PROVE  prior'[job'[u]] = Unknown
  <2>1. pc[u] # "idle" /\ pc[v] # "idle" /\ job'[u] = job[u]
    BY <1>1
  <2>2. prior[job[u]] = Unknown /\ job[u] \in Changes
    BY <1>1, <2>1, JobOf DEF OverlapUnknown, Known
  <2>3. CASE UnknownStays
    BY <2>1, <2>2, <2>3 DEF UnknownStays
  <2>4. CASE \E x : Known(job[t]) /\ prior' = [prior EXCEPT ![job[t]] = x]
    <3>1. job[u] # job[t]
      BY <2>2, <2>4 DEF Known
    <3> QED
      BY <2>1, <2>2, <2>4, <3>1 DEF ConfigTypeInv, ConfigTypeOK
  <2> QED
    BY <2>3, <2>4
<1>2. ASSUME NEW u \in Threads \ {t}, pc'[u] # "idle"
      PROVE  prior'[job'[u]] = Unknown
  <2>1. pc[u] # "idle" /\ job'[u] = job[u]
    BY <1>2
  <2>2. prior[job[u]] = Unknown /\ job[u] \in Changes
    BY <1>2, <2>1, JobOf DEF OverlapUnknown, Known
  <2>3. CASE UnknownStays
    BY <2>1, <2>2, <2>3 DEF UnknownStays
  <2>4. CASE \E x : Known(job[t]) /\ prior' = [prior EXCEPT ![job[t]] = x]
    <3>1. job[u] # job[t]
      BY <2>2, <2>4 DEF Known
    <3> QED
      BY <2>1, <2>2, <2>4, <3>1 DEF ConfigTypeInv, ConfigTypeOK
  <2> QED
    BY <2>3, <2>4
<1> QED
  BY <1>1, <1>2 DEF OverlapUnknown, ThreadPrior, Known

LEMMA PriorStepRows ==
  ASSUME ConfigTypeInv, PriorInv,
         NEW c \in Changes, ProposeContent(c) \/ ProposeSetting(c) \/ Reject(c)
  PROVE  PriorInv'
<1>1. ConfigTypeOK /\ WorkKnown
  BY DEF ConfigTypeInv
<1>2. /\ UNCHANGED <<fileVars, second, threadVars, historyVars>>
      /\ \A d \in Changes \ {c} : row'[d] = row[d]
      /\ \/ ~Exists(c) /\ row'[c].backup = NoBackup
         \/ /\ Exists(c) /\ Exists(c)' /\ row'[c].backup = row[c].backup
            /\ row'[c].status = "rejected"
  <2>1. CASE ProposeContent(c) \/ ProposeSetting(c)
    <3>1. PICK f \in Texts, k \in Keys \cup {NoKey} : Propose(c, f, k)
      BY <1>1, <2>1, Proposals
    <3> QED
      BY <1>1, <3>1, ProposeRow DEF Propose
  <2>2. CASE Reject(c)
    BY <1>1, <2>2, SettleRow DEF Reject, Statuses
  <2> QED
    BY <2>1, <2>2
<1>3. \A d \in Changes : ChangePrior(d)'
  <2>1. ASSUME NEW d \in Changes \ {c}
        PROVE  ChangePrior(d)'
    BY <1>2, <2>1 DEF PriorInv, ChangePrior, Exists, Undecided, Known, fileVars, historyVars
  <2>2. ChangePrior(c)'
    BY <1>2 DEF PriorInv, ChangePrior, Exists, Undecided, Known, fileVars, historyVars
  <2> QED
    BY <2>1, <2>2
<1>4. \A t \in Threads : ThreadPrior(t)'
  <2>1. ASSUME NEW t \in Threads, pc[t] # "idle"
        PROVE  job[t] \in Changes /\ row'[job[t]].backup = row[job[t]].backup
    BY <1>2, <2>1, JobOf
  <2> QED
    BY <1>2, <2>1 DEF PriorInv, ThreadPrior, Known, fileVars, threadVars, historyVars
<1> QED
  BY <1>2, <1>3, <1>4 DEF PriorInv, OverlapUnknown, Known, threadVars, historyVars

LEMMA PriorStepExpire ==
  ASSUME ConfigTypeInv, PriorInv, ExpireStale
  PROVE  PriorInv'
<1>1. ConfigTypeOK
  BY DEF ConfigTypeInv
<1>2. UNCHANGED <<fileVars, second, threadVars, historyVars>>
  BY DEF ExpireStale
<1>3. /\ \A d \in Changes : Exists(d)' <=> Exists(d)
      /\ \A d \in Changes : Exists(d) =>
           row'[d].backup = row[d].backup /\ row'[d].status \in {row[d].status, "expired"}
  BY <1>1, ExpireRows
<1>4. ASSUME NEW d \in Changes
      PROVE  ChangePrior(d)'
  BY <1>2, <1>3 DEF PriorInv, ChangePrior, Undecided, Known, fileVars, historyVars
<1>5. ASSUME NEW t \in Threads
      PROVE  ThreadPrior(t)'
  <2>1. pc[t] # "idle" => job[t] \in Changes /\ row'[job[t]].backup = row[job[t]].backup
    BY <1>3, JobOf
  <2> QED
    BY <1>2, <2>1 DEF PriorInv, ThreadPrior, Known, fileVars, threadVars, historyVars
<1> QED
  BY <1>2, <1>4, <1>5 DEF PriorInv, OverlapUnknown, Known, threadVars, historyVars

LEMMA PriorStepEnter ==
  ASSUME ConfigTypeInv, PriorInv, NEW t \in Threads, NEW c \in Changes,
         ApplyCheck(t, c) \/ RollbackCheck(t, c)
  PROVE  PriorInv'
<1> DEFINE place == IF ApplyCheck(t, c) THEN "backup" ELSE "restore"
<1>1. ConfigTypeOK
  BY DEF ConfigTypeInv
<1>2. /\ UNCHANGED <<row, file, backups>> /\ Exists(c)
      /\ \/ /\ Enter(t, c, "backup") /\ Undecided(c) /\ name' = name
            /\ prior' = [Forget(Overlapping(t, c)) EXCEPT ![c] =
                 IF Others(t) = {} THEN Absent ELSE Unknown]
         \/ /\ Enter(t, c, "restore") /\ row[c].backup # NoBackup
            /\ name' = [name EXCEPT ![t] = row[c].backup]
            /\ prior' = Forget(Overlapping(t, c))
  BY DEF ApplyCheck, RollbackCheck, Undecided, fileVars
<1>3. /\ pc[t] = "idle" /\ pc'[t] \in {"backup", "restore"} /\ job'[t] = c
      /\ \A u \in Threads \ {t} : pc'[u] = pc[u] /\ job'[u] = job[u] /\ name'[u] = name[u]
  BY <1>1, <1>2, EnterType DEF PCs, ConfigTypeOK
<1>4. \A d \in Changes \ {c} : prior'[d] \in {prior[d], Unknown}
  BY <1>1, <1>2 DEF Forget, ConfigTypeOK
<1>5. ASSUME NEW u \in Threads \ {t}, pc[u] # "idle"
      PROVE  prior'[c] = Unknown /\ prior'[job[u]] = Unknown
  <2>1. u \in Others(t) /\ Others(t) # {} /\ job[u] \in Changes
    BY <1>5, JobOf DEF Others
  <2>2. c \in Overlapping(t, c) /\ job[u] \in Overlapping(t, c)
    BY <2>1 DEF Overlapping
  <2> QED
    BY <1>2, <2>1, <2>2 DEF Forget
<1>6. OverlapUnknown'
  <2>1. ASSUME NEW u \in Threads, NEW v \in Threads, u # v, pc'[u] # "idle", pc'[v] # "idle"
        PROVE  prior'[job'[u]] = Unknown
    <3>1. CASE u = t
      BY <1>3, <1>5, <2>1, <3>1
    <3>2. CASE u # t
      BY <1>3, <1>5, <2>1, <3>2
    <3> QED
      BY <3>1, <3>2
  <2> QED
    BY <2>1 DEF OverlapUnknown, Known
<1>7. ASSUME NEW u \in Threads
      PROVE  ThreadPrior(u)'
  <2>1. CASE u # t
    BY <1>3, <1>5, <2>1 DEF ThreadPrior, Known
  <2>2. CASE u = t /\ ApplyCheck(t, c)
    <3>1. row[c].backup = NoBackup /\ pc'[t] = "backup"
      BY <1>1, <2>2, EnterType DEF ApplyCheck, PriorInv, ChangePrior, Undecided, PCs
    <3> QED
      BY <1>2, <1>3, <2>2, <3>1 DEF ThreadPrior, Restoring
  <2>3. CASE u = t /\ RollbackCheck(t, c)
    <3>1. name'[t] = row[c].backup /\ pc'[t] = "restore"
      BY <1>1, <2>3, EnterType DEF RollbackCheck, PCs, ConfigTypeOK
    <3> QED
      BY <1>2, <1>3, <2>3, <3>1 DEF ThreadPrior, Applying
  <2> QED
    BY <2>1, <2>2, <2>3
<1>8. ASSUME NEW d \in Changes
      PROVE  ChangePrior(d)'
  <2>1. CASE d # c
    BY <1>2, <1>4, <2>1 DEF PriorInv, ChangePrior, Exists, Undecided, Known
  <2>2. CASE d = c /\ ApplyCheck(t, c)
    BY <1>2, <2>2 DEF ApplyCheck, PriorInv, ChangePrior, Exists, Undecided, Known
  <2>3. CASE d = c /\ RollbackCheck(t, c)
    <3>1. prior'[c] \in {prior[c], Unknown}
      BY <2>3 DEF RollbackCheck, Forget
    <3> QED
      BY <1>2, <2>3, <3>1 DEF PriorInv, ChangePrior, Exists, Undecided, Known
  <2> QED
    BY <2>1, <2>2, <2>3
<1> QED
  BY <1>6, <1>7, <1>8 DEF PriorInv

LEMMA NotYetNamedStep ==
  ASSUME ConfigTypeOK, NotYetNamed, [ConfigNext]_configVars
  PROVE  NotYetNamed'
<1>1. ASSUME NEW t \in Threads, Leave(t)
      PROVE  NotYetNamed'
  BY <1>1 DEF NotYetNamed, Leave, GoTo, ConfigTypeOK
<1>2. ASSUME NEW t \in Threads, ApplyBackup(t)
      PROVE  NotYetNamed'
  BY <1>2 DEF NotYetNamed, ApplyBackup, GoTo, ConfigTypeOK
<1>3. ASSUME NEW t \in Threads, NEW c \in Changes, ApplyCheck(t, c) \/ RollbackCheck(t, c)
      PROVE  NotYetNamed'
  BY <1>3 DEF NotYetNamed, ApplyCheck, RollbackCheck, Enter, GoTo, ConfigTypeOK
<1>4. ASSUME NEW t \in Threads,
             ApplyTruncate(t) \/ ApplyWrite(t) \/ RollbackTruncate(t) \/ RollbackWrite(t)
      PROVE  NotYetNamed'
  BY <1>4 DEF NotYetNamed, ApplyTruncate, ApplyWrite, RollbackTruncate, RollbackWrite, GoTo,
              ConfigTypeOK
<1>5. ASSUME UNCHANGED threadVars
      PROVE  NotYetNamed'
  BY <1>5 DEF NotYetNamed, threadVars
<1> QED
  BY <1>1, <1>2, <1>3, <1>4, <1>5
  DEF ConfigNext, configVars, ProposeContent, ProposeSetting, Propose, Reject, ExpireStale,
      Tick, ApplyMark, RollbackMark, Abandon

LEMMA PriorStepBackup ==
  ASSUME ConfigTypeInv, NotYetNamed, PriorInv, NEW t \in Threads, ApplyBackup(t)
  PROVE  PriorInv'
<1>1. ConfigTypeOK
  BY DEF ConfigTypeInv
<1>2. /\ UNCHANGED <<row, file, second, job>> /\ pc[t] = "backup" /\ GoTo(t, "truncate")
      /\ \/ file = Absent /\ UNCHANGED <<backups, name, prior>>
         \/ /\ backups' = [backups EXCEPT ![second] = file]
            /\ name' = [name EXCEPT ![t] = second]
            /\ prior' = Forget(BackedUpIn(second) \ {job[t]})
  BY DEF ApplyBackup
<1>3. pc'[t] = "truncate" /\ \A u \in Threads \ {t} : pc'[u] = pc[u] /\ job'[u] = job[u]
  BY <1>1, <1>2, GoToType DEF PCs
<1>4. UnknownStays
  BY <1>1, <1>2, ForgetStays DEF UnknownStays
<1>5. OverlapUnknown' /\ \A u \in Threads \ {t} : ThreadPrior(u)'
  BY <1>2, <1>3, <1>4, OverlapStays DEF PriorInv
<1>6. job[t] \in Changes /\ Exists(job[t])
  BY <1>2, JobOf
<1>7. prior'[job[t]] = prior[job[t]]
  BY <1>2, <1>6 DEF Forget
<1>8. Known(job[t]) => row[job[t]].backup = NoBackup
  BY <1>2 DEF PriorInv, ThreadPrior, Applying
<1>9. ThreadPrior(t)'
  <2>1. CASE file = Absent /\ UNCHANGED <<backups, name, prior>>
    <3>1. ASSUME Known(job[t]) PROVE name[t] = NoBackup
      BY <1>2 DEF NotYetNamed
    <3> QED
      BY <1>2, <1>3, <1>7, <1>8, <2>1, <3>1 DEF ThreadPrior, Known, Applying, Restoring
  <2>2. CASE /\ backups' = [backups EXCEPT ![second] = file]
             /\ name' = [name EXCEPT ![t] = second]
    <3>1. name'[t] = second /\ backups'[second] = file
      BY <1>1, <2>2 DEF ConfigTypeOK
    <3> QED
      BY <1>2, <1>3, <1>7, <1>8, <3>1 DEF ThreadPrior, Known, Applying, Restoring
  <2> QED
    BY <1>2, <2>1, <2>2
<1>10. ASSUME NEW d \in Changes
       PROVE  ChangePrior(d)'
  <2>1. CASE UNCHANGED <<backups, prior>>
    BY <1>2, <2>1 DEF PriorInv, ChangePrior, Exists, Undecided, Known
  <2>2. CASE /\ backups' = [backups EXCEPT ![second] = file]
             /\ prior' = Forget(BackedUpIn(second) \ {job[t]})
    <3>1. CASE ~Exists(d) \/ row[d].backup # second
      <4>1. Exists(d) /\ row[d].backup # NoBackup => backups'[row[d].backup] = backups[row[d].backup]
        BY <1>1, <2>2, <3>1, RowOf DEF ConfigTypeOK
      <4>2. prior'[d] \in {prior[d], Unknown}
        BY <1>4 DEF UnknownStays
      <4> QED
        BY <1>2, <4>1, <4>2 DEF PriorInv, ChangePrior, Exists, Undecided, Known
    <3>2. CASE Exists(d) /\ row[d].backup = second /\ d # job[t]
      <4>1. prior'[d] = Unknown
        BY <2>2, <3>2 DEF BackedUpIn, Forget
      <4> QED
        BY <1>2, <4>1 DEF PriorInv, ChangePrior, Exists, Undecided, Known
    <3>3. CASE Exists(d) /\ row[d].backup = second /\ d = job[t]
      <4>1. second # NoBackup
        BY <1>1, ConfigDistinct DEF ConfigTypeOK
      <4>2. ~Known(d)' /\ ~Known(d)
        BY <1>7, <1>8, <3>3, <4>1 DEF Known
      <4> QED
        BY <1>2, <3>3, <4>2 DEF PriorInv, ChangePrior, Exists, Undecided
    <3> QED
      BY <3>1, <3>2, <3>3
  <2> QED
    BY <1>2, <2>1, <2>2
<1> QED
  BY <1>5, <1>9, <1>10 DEF PriorInv

\* A step that changes no row and no backup, of a request that is under way.
LEMMA RowsAndBackupsStay ==
  ASSUME ConfigTypeInv, PriorInv, UNCHANGED <<row, backups>>, UnknownStays
  PROVE  \A d \in Changes : ChangePrior(d)'
<1>1. ASSUME NEW d \in Changes
      PROVE  ChangePrior(d)'
  <2>1. prior'[d] \in {prior[d], Unknown}
    BY DEF UnknownStays
  <2> QED
    BY <2>1 DEF PriorInv, ChangePrior, Exists, Undecided, Known
<1> QED
  BY <1>1

LEMMA PriorStepTruncate ==
  ASSUME ConfigTypeInv, PriorInv, NEW t \in Threads, ApplyTruncate(t)
  PROVE  PriorInv'
<1>1. ConfigTypeOK
  BY DEF ConfigTypeInv
<1>2. /\ UNCHANGED <<row, backups, second, job, name>> /\ pc[t] = "truncate" /\ GoTo(t, "write")
      /\ prior' = IF prior[job[t]] = Unknown THEN prior ELSE [prior EXCEPT ![job[t]] = file]
  BY DEF ApplyTruncate
<1>3. pc'[t] = "write" /\ \A u \in Threads \ {t} : pc'[u] = pc[u] /\ job'[u] = job[u]
  BY <1>1, <1>2, GoToType DEF PCs
<1>4. UnknownStays \/ (\E x : Known(job[t]) /\ prior' = [prior EXCEPT ![job[t]] = x])
  BY <1>2 DEF UnknownStays, Known
<1>5. OverlapUnknown' /\ \A u \in Threads \ {t} : ThreadPrior(u)'
  BY <1>2, <1>3, <1>4, OverlapStays DEF PriorInv
<1>6. job[t] \in Changes
  BY <1>2, JobOf
<1>7. ThreadPrior(t) /\ (Known(job[t]) => row[job[t]].backup = NoBackup)
  BY <1>2 DEF PriorInv, ThreadPrior, Applying
<1>8. Known(job[t]) => prior'[job[t]] = file
  BY <1>1, <1>2, <1>6 DEF Known, ConfigTypeOK
<1>9. ~Known(job[t]) => prior' = prior
  BY <1>2 DEF Known
<1>10. ThreadPrior(t)'
  <2>1. CASE Known(job[t])
    BY <1>2, <1>3, <1>7, <1>8, <2>1 DEF ThreadPrior, Known, Applying, Restoring
  <2>2. CASE ~Known(job[t])
    BY <1>2, <1>9, <2>2 DEF ThreadPrior, Known
  <2> QED
    BY <2>1, <2>2
<1>11. ASSUME NEW d \in Changes
       PROVE  ChangePrior(d)'
  <2>1. CASE d # job[t] \/ ~Known(job[t])
    <3>1. prior'[d] = prior[d]
      BY <1>1, <1>2, <2>1 DEF Known, ConfigTypeOK
    <3> QED
      BY <1>2, <3>1 DEF PriorInv, ChangePrior, Exists, Undecided, Known
  <2>2. CASE d = job[t] /\ Known(job[t])
    BY <1>2, <1>7, <2>2 DEF ChangePrior, Exists, Undecided
  <2> QED
    BY <2>1, <2>2
<1> QED
  BY <1>5, <1>10, <1>11 DEF PriorInv

LEMMA PriorStepFile ==
  ASSUME ConfigTypeInv, PriorInv, NEW t \in Threads,
         ApplyWrite(t) \/ RollbackTruncate(t) \/ RollbackWrite(t)
  PROVE  PriorInv'
<1>1. ConfigTypeOK
  BY DEF ConfigTypeInv
<1>2. /\ UNCHANGED <<row, backups, second, job, name, prior>>
      /\ \/ pc[t] = "write" /\ GoTo(t, "mark")
         \/ pc[t] = "restore" /\ GoTo(t, "copy") /\ file' = Empty
         \/ pc[t] = "copy" /\ GoTo(t, "unmark")
  BY DEF ApplyWrite, RollbackTruncate, RollbackWrite, historyVars
<1>3. /\ \A u \in Threads \ {t} : pc'[u] = pc[u] /\ job'[u] = job[u]
      /\ \/ pc[t] = "write" /\ pc'[t] = "mark"
         \/ pc[t] = "restore" /\ pc'[t] = "copy" /\ file' = Empty
         \/ pc[t] = "copy" /\ pc'[t] = "unmark"
  BY <1>1, <1>2, GoToType DEF PCs
<1>4. UnknownStays
  BY <1>2 DEF UnknownStays
<1>5. pc[t] # "idle" /\ job'[t] = job[t]
  BY <1>2
<1>6. OverlapUnknown' /\ \A u \in Threads \ {t} : ThreadPrior(u)'
  BY <1>3, <1>4, <1>5, OverlapStays DEF PriorInv
<1>7. ThreadPrior(t)'
  BY <1>2, <1>3 DEF PriorInv, ThreadPrior, Known, Applying, Restoring
<1>8. \A d \in Changes : ChangePrior(d)'
  BY <1>2, <1>4, RowsAndBackupsStay
<1> QED
  BY <1>6, <1>7, <1>8 DEF PriorInv

LEMMA PriorStepLeave ==
  ASSUME ConfigTypeInv, PriorInv, NEW t \in Threads,
         ApplyMark(t) \/ RollbackMark(t) \/ Abandon(t)
  PROVE  PriorInv'
<1>1. ConfigTypeOK
  BY DEF ConfigTypeInv
<1>2. pc[t] # "idle" /\ Leave(t) /\ UNCHANGED <<file, backups>>
  BY DEF ApplyMark, RollbackMark, Abandon, fileVars
<1>3. job[t] \in Changes /\ Exists(job[t])
  BY <1>2, JobOf
<1>4. UnknownStays
  <2>1. prior' = prior \/ prior' = Forget({job[t]})
    BY DEF ApplyMark, RollbackMark, Abandon, historyVars
  <2> QED
    BY <1>1, <2>1, ForgetStays DEF UnknownStays
<1>5. /\ pc'[t] = "idle"
      /\ \A u \in Threads \ {t} : pc'[u] = pc[u] /\ job'[u] = job[u]
  BY <1>1, <1>2, LeaveType
<1>6. OverlapUnknown' /\ \A u \in Threads \ {t} : ThreadPrior(u)'
  BY <1>2, <1>4, <1>5, OverlapStays DEF PriorInv
<1>7. ThreadPrior(t)'
  BY <1>5 DEF ThreadPrior
<1>8. ASSUME NEW d \in Changes
      PROVE  ChangePrior(d)'
  <2>1. CASE Abandon(t)
    <3>1. UNCHANGED <<row, backups>>
      BY <2>1 DEF Abandon, fileVars
    <3> QED
      BY <1>4, <3>1, RowsAndBackupsStay
  <2>2. CASE d # job[t] /\ (ApplyMark(t) \/ RollbackMark(t))
    <3>1. row'[d] = row[d]
      BY <1>1, <2>2 DEF ApplyMark, RollbackMark, ConfigTypeOK
    <3>2. prior'[d] \in {prior[d], Unknown}
      BY <1>4 DEF UnknownStays
    <3> QED
      BY <1>2, <3>1, <3>2 DEF PriorInv, ChangePrior, Exists, Undecided, Known
  <2>3. CASE d = job[t] /\ ApplyMark(t)
    <3>1. row'[d].status = "applied" /\ row'[d].backup = name[t]
      <4>1. row[job[t]] \in Change /\ row \in [Changes -> Change \cup {NoChange}]
        BY <1>1, <1>3, RowOf DEF ConfigTypeOK
      <4> QED
        BY <1>3, <2>3, <4>1 DEF ApplyMark, Change
    <3>2. prior' = prior
      BY <2>3 DEF ApplyMark, historyVars
    <3>3. Known(d) => name[t] = NoBackup \/ backups[name[t]] = prior[d]
      BY <2>3 DEF PriorInv, ThreadPrior, ApplyMark
    <3> QED
      BY <1>2, <3>1, <3>2, <3>3 DEF ChangePrior, Undecided, Known
  <2>4. CASE d = job[t] /\ RollbackMark(t)
    <3>1. row'[d].status = "rolled_back"
      BY <1>1, <1>3, <2>4, SettleRow DEF RollbackMark, Statuses
    <3>2. prior'[d] = Unknown
      BY <1>1, <2>4 DEF RollbackMark, Forget
    <3> QED
      BY <3>1, <3>2 DEF ChangePrior, Undecided, Known
  <2> QED
    BY <2>1, <2>2, <2>3, <2>4
<1> QED
  BY <1>6, <1>7, <1>8 DEF PriorInv

LEMMA PriorStep ==
  ASSUME ConfigTypeInv, NotYetNamed, PriorInv, [ConfigNext]_configVars
  PROVE  PriorInv'
<1>1. CASE UNCHANGED configVars \/ Tick
  <2>1. UNCHANGED <<row, fileVars, threadVars, historyVars>>
    BY <1>1 DEF configVars, Tick
  <2>2. \A d \in Changes : ChangePrior(d)'
    BY <2>1, RowsAndBackupsStay DEF UnknownStays, fileVars, historyVars
  <2>3. \A t \in Threads : ThreadPrior(t)'
    BY <2>1 DEF PriorInv, ThreadPrior, Known, fileVars, threadVars, historyVars
  <2> QED
    BY <2>1, <2>2, <2>3 DEF PriorInv, OverlapUnknown, Known, threadVars, historyVars
<1> QED
  BY <1>1, PriorStepRows, PriorStepExpire, PriorStepEnter, PriorStepBackup,
     PriorStepTruncate, PriorStepFile, PriorStepLeave
  DEF ConfigNext

\* What a rollback reads is what the change replaced, and it writes that to a
\* file which nobody else has written since it was cut off.
LEMMA RestoringStep ==
  ASSUME ConfigTypeInv, PriorInv, [ConfigNext]_configVars,
         NEW t \in Threads, pc[t] = "copy", pc'[t] = "unmark", prior[job[t]] # Unknown
  PROVE  file' = prior[job[t]]
<1>1. ConfigTypeOK
  BY DEF ConfigTypeInv
<1>2. ASSUME NEW u \in Threads, NEW place \in PCs \ {"unmark"}, GoTo(u, place)
      PROVE  FALSE
  BY <1>1, <1>2, GoToType
<1>3. ASSUME NEW u \in Threads, Leave(u)
      PROVE  FALSE
  BY <1>2, <1>3 DEF Leave, PCs
<1>4. ~UNCHANGED threadVars
  BY DEF threadVars
<1>5. \E u \in Threads : RollbackWrite(u)
  BY <1>2, <1>3, <1>4
  DEF ConfigNext, configVars, ProposeContent, ProposeSetting, Propose, Reject, ExpireStale,
      Tick, ApplyCheck, RollbackCheck, Enter, ApplyBackup, ApplyTruncate, ApplyWrite, ApplyMark,
      RollbackTruncate, RollbackMark, Abandon, PCs
<1>6. RollbackWrite(t)
  BY <1>1, <1>5, GoToType DEF RollbackWrite, PCs
<1>7. /\ job[t] \in Changes /\ Exists(job[t]) /\ Known(job[t])
      /\ file = Empty /\ name[t] = row[job[t]].backup
  BY JobOf DEF PriorInv, ThreadPrior, Known, Restoring
<1>8. backups[name[t]] = prior[job[t]]
  BY <1>7 DEF PriorInv, ChangePrior, ConfigTypeInv, NamesHeld
<1> QED
  BY <1>6, <1>7, <1>8 DEF RollbackWrite, WriteFile

\* RollbackRestores: a rollback of a change brings back the file it replaced,
\* for every number of keys, changes and requests.
THEOREM RollbacksRestore == ConfigSpec => RollbackRestores
<1>1. ConfigInit => ConfigTypeInv
  BY ConfigTypeStart
<1>2. ConfigInit => NotYetNamed /\ PriorInv
  BY DEF ConfigInit, NotYetNamed, PriorInv, ChangePrior, ThreadPrior, OverlapUnknown, Exists
<1>3. ConfigTypeInv /\ NotYetNamed /\ PriorInv /\ [ConfigNext]_configVars
        => ConfigTypeInv' /\ NotYetNamed' /\ PriorInv'
  BY ConfigTypeStep, NotYetNamedStep, PriorStep DEF ConfigTypeInv
<1>4. ConfigTypeInv /\ PriorInv /\ [ConfigNext]_configVars =>
        [\A t \in Threads :
           pc[t] = "copy" /\ pc'[t] = "unmark" /\ prior[job[t]] # Unknown
             => file' = prior[job[t]]]_configVars
  BY RestoringStep
<1> QED
  BY <1>1, <1>2, <1>3, <1>4, PTL DEF ConfigSpec, RollbackRestores
=============================================================================
