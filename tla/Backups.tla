------------------------------- MODULE Backups -------------------------------
(***************************************************************************)
(* Backups (backup_manager.py, backup_api.py).  run_backup awaits only the  *)
(* snapshots of Qdrant; from the copy of the databases on it keeps the      *)
(* event loop to itself, but requests that delete run in threads, and the   *)
(* process may crash.  An archive is named after the second in which its    *)
(* run began.                                                              *)
(***************************************************************************)
EXTENDS Naturals, Sequences, SequencesExt

CONSTANTS
  BackupIds,
  Encrypting,     \* BACKUP_ENCRYPTION_KEY is set
  Retention,      \* BACKUP_RETENTION_COUNT
  MaxSecond,      \* bound: the clock
  MaxMishaps      \* bound: failures, deletions and crashes

ASSUME BackupAssumption ==
  /\ Encrypting \in BOOLEAN
  /\ Retention \in Nat /\ MaxSecond \in Nat \ {0} /\ MaxMishaps \in Nat

VARIABLES
  second,         \* the clock
  dir,            \* the archives, by the time of their last change
  backupLog,      \* table backup_log: status and archive of each backup
  backup,         \* the runs under way
  mishaps,        \* history: failures, deletions and crashes so far
  failed,         \* history: runs that failed or were cut off
  newer,          \* history: files written since the archive of the backup
  removed         \* history: backups whose archive, by its name, a request has deleted

backupVars == <<second, dir, backupLog, backup, mishaps, failed, newer, removed>>

NoArchive == [second |-> 0, encrypted |-> FALSE]
Archive(b) == [second |-> backup[b].second, encrypted |-> FALSE]
EncArchive(b) == [second |-> backup[b].second, encrypted |-> TRUE]
Stored(archive, b) == [archive |-> archive, of |-> b]

BackupTypeOK ==
  /\ second \in 1..MaxSecond
  /\ \A i \in DOMAIN dir : dir[i].of \in BackupIds /\ dir[i].archive.second \in 1..MaxSecond
  /\ \A i, j \in DOMAIN dir : dir[i].archive = dir[j].archive => i = j
  /\ \A b \in DOMAIN backupLog : backupLog[b].status \in {"running", "success", "error"}
  /\ \A b \in DOMAIN backup :
       /\ backup[b].at \in {"snapshot", "archive", "encrypt", "unlink", "upload", "retain", "finish"}
       /\ backup[b].status = "success" => backup[b].at = "finish"
  /\ mishaps \in 0..MaxMishaps
  /\ newer \in [BackupIds -> Nat]

BackupInit ==
  /\ second = 1 /\ dir = <<>> /\ mishaps = 0
  /\ backupLog = [b \in {} |-> 0] /\ backup = [b \in {} |-> 0]
  /\ failed = {} /\ newer = [b \in BackupIds |-> 0] /\ removed = {}

Mishap == mishaps < MaxMishaps /\ mishaps' = mishaps + 1
TheLoop(b) == \A o \in DOMAIN backup \ {b} : backup[o].at \in {"snapshot", "archive"}
GoTo(b, place) == backup' = [backup EXCEPT ![b].at = place]
ForgetBackup(f, b) == [k \in DOMAIN f \ {b} |-> f[k]]

OnDisk(archive) == \E i \in DOMAIN dir : dir[i].archive = archive

\* The directory without the file of a name, if there is one.
Unlinked(archive) ==
  LET places == {i \in DOMAIN dir : dir[i].archive = archive}
  IN IF places = {} THEN dir ELSE RemoveAt(dir, CHOOSE i \in places : TRUE)

\* A file that is written again is the last to have changed.
PutArchive(archive, b) == Append(Unlinked(archive), Stored(archive, b))

TickSecond ==
  /\ second < MaxSecond
  /\ second' = second + 1
  /\ UNCHANGED <<dir, backupLog, backup, mishaps, failed, newer, removed>>

-----------------------------------------------------------------------------
(* run_backup *)

\* The row is written as well as may be: without one the backup is not listed.
StartBackup(b) ==
  /\ b \notin DOMAIN backupLog \cup DOMAIN backup \cup failed \cup removed
  /\ TheLoop(b)
  /\ backup' = [k \in DOMAIN backup \cup {b} |->
       IF k = b THEN [at |-> "snapshot", second |-> second, archive |-> NoArchive, status |-> "error"]
       ELSE backup[k]]
  /\ \/ /\ backupLog' = [k \in DOMAIN backupLog \cup {b} |->
            IF k = b THEN [status |-> "running", archive |-> NoArchive] ELSE backupLog[k]]
        /\ UNCHANGED <<mishaps, failed>>
     \/ Mishap /\ failed' = failed \cup {b} /\ UNCHANGED backupLog
  /\ UNCHANGED <<second, dir, newer, removed>>

\* Collections without a snapshot are left out.
SnapshotsDone(b) ==
  /\ backup[b].at = "snapshot"
  /\ GoTo(b, "archive")
  /\ UNCHANGED <<second, dir, backupLog, mishaps, failed, newer, removed>>

\* Databases, stack.env, and the archive of all.
CreateArchive(b) ==
  /\ TheLoop(b) /\ backup[b].at = "archive"
  /\ dir' = PutArchive(Archive(b), b)
  /\ backup' = [backup EXCEPT ![b].at = IF Encrypting THEN "encrypt" ELSE "upload", ![b].archive = Archive(b)]
  /\ newer' = [o \in BackupIds |-> IF o = b THEN 0 ELSE newer[o] + 1]
  /\ UNCHANGED <<second, backupLog, mishaps, failed, removed>>

\* _encrypt_archive: the encrypted file, then without the plain one; and it is
\* measured.
EncryptArchive(b) ==
  /\ backup[b].at = "encrypt" /\ OnDisk(Archive(b))
  /\ dir' = PutArchive(EncArchive(b), b)
  /\ GoTo(b, "unlink")
  /\ newer' = [o \in BackupIds |-> IF o = b THEN 0 ELSE newer[o] + 1]
  /\ UNCHANGED <<second, backupLog, mishaps, failed, removed>>

UnlinkPlain(b) ==
  /\ backup[b].at = "unlink" /\ OnDisk(Archive(b))
  /\ dir' = Unlinked(Archive(b))
  /\ newer' = [o \in BackupIds |-> IF o = b THEN 0 ELSE newer[o] - 1]
  /\ backup' = [backup EXCEPT ![b].at = IF OnDisk(EncArchive(b)) THEN "upload" ELSE "finish",
                              ![b].archive = EncArchive(b)]
  /\ failed' = IF OnDisk(EncArchive(b)) THEN failed ELSE failed \cup {b}
  /\ UNCHANGED <<second, backupLog, mishaps, removed>>

\* A request has deleted the plain file under it: it is neither read nor unlinked.
PlainIsGone(b) ==
  /\ backup[b].at \in {"encrypt", "unlink"} /\ ~ OnDisk(Archive(b))
  /\ GoTo(b, "finish")
  /\ failed' = failed \cup {b}
  /\ UNCHANGED <<second, dir, backupLog, mishaps, newer, removed>>

\* Optional, and it may fail.
UploadArchive(b) ==
  /\ backup[b].at = "upload"
  /\ GoTo(b, "retain")
  /\ UNCHANGED <<second, dir, backupLog, mishaps, failed, newer, removed>>

\* Mutant of Excess: one too many.
ExcessOne == IF Len(dir) > Retention THEN Len(dir) - Retention + 1 ELSE 0

Excess == IF Len(dir) > Retention THEN Len(dir) - Retention ELSE 0

\* _apply_retention: archives of failed runs count as well.
ApplyRetention(b) ==
  /\ backup[b].at = "retain"
  /\ dir' = SubSeq(dir, Excess + 1, Len(dir))
  /\ backup' = [backup EXCEPT ![b].at = "finish", ![b].status = "success"]
  /\ UNCHANGED <<second, backupLog, mishaps, failed, newer, removed>>

\* Qdrant does not list its collections, the disk is full, the key is none, S3
\* does not answer: what is on disk stays, part of an archive too, and there is
\* no retention.
BackupFails(b) ==
  /\ TheLoop(b) /\ backup[b].at \in {"snapshot", "archive", "encrypt", "upload"}
  /\ Mishap
  /\ GoTo(b, "finish")
  /\ failed' = failed \cup {b}
  /\ \/ UNCHANGED <<dir, newer>>
     \/ /\ backup[b].at \in {"archive", "encrypt"}
        /\ dir' = PutArchive(IF backup[b].at = "archive" THEN Archive(b) ELSE EncArchive(b), b)
        /\ newer' = [o \in BackupIds |-> newer[o] + 1]
  /\ UNCHANGED <<second, backupLog, removed>>

\* The row is ended as well as may be.
FinishBackup(b) ==
  /\ backup[b].at = "finish"
  /\ backup' = ForgetBackup(backup, b)
  /\ \/ /\ backupLog' = [k \in DOMAIN backupLog |->
            IF k = b THEN [status |-> backup[b].status, archive |-> backup[b].archive] ELSE backupLog[k]]
        /\ UNCHANGED <<mishaps, failed>>
     \/ Mishap /\ failed' = failed \cup {b} /\ UNCHANGED backupLog
  /\ UNCHANGED <<second, dir, newer, removed>>

-----------------------------------------------------------------------------

\* The archive of the row, then the row; of a run under way there is none yet.
DeleteBackup(b) ==
  /\ b \in DOMAIN backupLog
  /\ Mishap
  /\ LET gone == backupLog[b].archive
     IN /\ dir' = Unlinked(gone)
        /\ removed' = removed \cup {b} \cup
             IF gone = NoArchive THEN {}
             ELSE {o \in DOMAIN backupLog : backupLog[o].archive = gone}
                    \cup {o \in DOMAIN backup : backup[o].archive = gone}
  /\ backupLog' = ForgetBackup(backupLog, b)
  /\ UNCHANGED <<second, backup, failed, newer>>

\* Nothing ends the rows of what was running.
CrashBackups ==
  /\ DOMAIN backup # {}
  /\ Mishap
  /\ failed' = failed \cup DOMAIN backup
  /\ backup' = [b \in {} |-> 0]
  /\ UNCHANGED <<second, dir, backupLog, newer, removed>>

BackupStep ==
  \E b \in DOMAIN backup :
    \/ SnapshotsDone(b) \/ CreateArchive(b) \/ EncryptArchive(b) \/ UnlinkPlain(b)
    \/ PlainIsGone(b) \/ UploadArchive(b) \/ ApplyRetention(b) \/ FinishBackup(b)

BackupNext ==
  \/ BackupStep
  \/ TickSecond \/ CrashBackups
  \/ \E b \in BackupIds : StartBackup(b) \/ DeleteBackup(b)
  \/ \E b \in DOMAIN backup : BackupFails(b)

BackupSpec == BackupInit /\ [][BackupNext]_backupVars

-----------------------------------------------------------------------------
(* Properties. *)

\* Two runs began in one second: their archives have one name.
Namesake(b) ==
  \E i \in DOMAIN dir : \E o \in BackupIds \ {b} :
    b \in DOMAIN backupLog /\ dir[i] = Stored(backupLog[b].archive, o)

\* A backup that is listed as a success is on disk, unless as many files as
\* are kept were written after it, a request has deleted it, or another run
\* began in its second: a run that fails or is cut off takes none away.
SuccessIsOnDisk ==
  \A b \in DOMAIN backupLog :
    backupLog[b].status = "success" /\ b \notin removed /\ newer[b] < Retention /\ ~ Namesake(b) =>
      \E i \in DOMAIN dir : dir[i] = Stored(backupLog[b].archive, b)

\* With a key, a plain archive is one of a run under way, or of one that failed
\* or was cut off.
PlainIsUnfinished ==
  Encrypting =>
    \A i \in DOMAIN dir : ~ dir[i].archive.encrypted => dir[i].of \in DOMAIN backup \cup failed

\* A row says that its backup runs only while it does, or after a crash; and
\* one that says success is not of a run that failed.
RowsAreTrue ==
  \A b \in DOMAIN backupLog :
    /\ backupLog[b].status = "running" => b \in DOMAIN backup \cup failed
    /\ backupLog[b].status = "success" => b \notin failed

\* The log and the directory agree, whichever runs fail or are cut off.
BackupSafe == BackupTypeOK /\ SuccessIsOnDisk /\ PlainIsUnfinished /\ RowsAreTrue
=============================================================================
