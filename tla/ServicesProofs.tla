--------------------------- MODULE ServicesProofs ---------------------------
(***************************************************************************)
(* What TLAPS proves of the services as MCServices puts them together,     *)
(* from the invariants of StoreProofs and ChannelProofs, and of the        *)
(* backups and the migrations here, for all values of the constants.       *)
(***************************************************************************)
EXTENDS MCServices, StoreProofs, ChannelProofs

-----------------------------------------------------------------------------
(* The backups (Backups)                                                   *)

Archives == [second : Nat, encrypted : BOOLEAN]
BackupRun ==
  [at : {"snapshot", "archive", "encrypt", "unlink", "upload", "retain", "finish"},
   second : 1..MaxSecond, archive : Archives, status : {"success", "error"}]
LogRow == [status : {"running", "success", "error"}, archive : Archives]
\* A file was written by a run that has begun.
Files == [archive : [second : 1..MaxSecond, encrypted : BOOLEAN], of : BackupIds]

BackupTyped ==
  /\ BackupTypeOK
  /\ dir \in Seq(Files)
  /\ DOMAIN backupLog \subseteq BackupIds /\ \A b \in DOMAIN backupLog : backupLog[b] \in LogRow
  /\ DOMAIN backup \subseteq BackupIds /\ \A b \in DOMAIN backup : backup[b] \in BackupRun

\* Of the runs at most one is past the archive; it keeps the event loop.
InTheLoop(b) == b \in DOMAIN backup /\ backup[b].at \notin {"snapshot", "archive"}
OneInTheLoop == \A b, o \in DOMAIN backup : InTheLoop(b) /\ InTheLoop(o) => b = o

\* The encryption is under way: there is a plain file more than there will be.
Encrypts(b) == b \in DOMAIN backup /\ backup[b].at \in {"encrypt", "unlink"}

\* The archive that a run ends with, once it is written.
WrittenTo(b) == b \in DOMAIN backup /\ (backup[b].at \in {"upload", "retain"} \/ backup[b].status = "success")
Listed(b) == b \in DOMAIN backupLog /\ backupLog[b].status = "success"
FinalOf(b) == IF b \in DOMAIN backup THEN backup[b].archive ELSE backupLog[b].archive

BackupHolds(b) ==
  /\ Encrypts(b) =>
       /\ Encrypting /\ backup[b].archive = Archive(b)
       /\ \A o \in BackupIds \ {b} : newer[o] > 0
  /\ backup[b].at = "unlink" =>
       \A i \in 1..Len(dir) : dir[i].archive = EncArchive(b) => i = Len(dir)
  /\ WrittenTo(b) => backup[b].archive = [second |-> backup[b].second, encrypted |-> Encrypting]
  /\ b \in failed \cap DOMAIN backupLog => backup[b].status = "error" /\ backup[b].at = "finish"

RowHolds(b) ==
  /\ backupLog[b].status = "running" => b \in DOMAIN backup \cup failed
  /\ backupLog[b].status # "running" => b \notin DOMAIN backup
  /\ backupLog[b].status = "success" => b \notin failed
  /\ backupLog[b].status = "success" =>
       backupLog[b].archive.second > 0 /\ backupLog[b].archive.encrypted = Encrypting

\* The archive is on disk, and fewer files follow it than were written since;
\* one more was, while another run has yet to unlink its plain file.
Lies(b) ==
  \E i \in 1..Len(dir) :
    /\ dir[i].archive = FinalOf(b) /\ Len(dir) - i <= newer[b]
    /\ \A o \in DOMAIN backup \ {b} :
         Encrypts(o) /\ OnDisk(Archive(o)) =>
           Len(dir) - i < newer[b] \/ \E j \in i + 1..Len(dir) : dir[j].archive = Archive(o)

\* As many as are kept have been written since, and will have been after that.
Superseded(b) ==
  newer[b] >= Retention /\ \A o \in DOMAIN backup \ {b} : Encrypts(o) => newer[b] > Retention

FileHolds(b) == WrittenTo(b) \/ Listed(b) => b \in removed \/ Lies(b) \/ Superseded(b)

PlainFiles ==
  Encrypting =>
    \A i \in 1..Len(dir), b \in BackupIds :
      dir[i].of = b /\ ~ dir[i].archive.encrypted =>
        b \in failed \/ (Encrypts(b) /\ dir[i].archive = Archive(b))

BackupInv ==
  /\ BackupTyped /\ OneInTheLoop /\ PlainFiles
  /\ \A b \in DOMAIN backup : BackupHolds(b)
  /\ \A b \in DOMAIN backupLog : RowHolds(b)
  /\ \A b \in BackupIds : FileHolds(b)

-----------------------------------------------------------------------------

\* The parts of the typing, one by one.
LEMMA DirIs ==
  ASSUME BackupTyped
  PROVE  /\ dir \in Seq(Files) /\ Len(dir) \in Nat /\ DOMAIN dir = 1..Len(dir)
         /\ \A i \in 1..Len(dir) : dir[i] \in Files
         /\ \A i, j \in 1..Len(dir) : dir[i].archive = dir[j].archive => i = j
<1>1. dir \in Seq(Files)
  BY DEF BackupTyped
<1>2. Len(dir) \in Nat /\ DOMAIN dir = 1..Len(dir) /\ \A i \in 1..Len(dir) : dir[i] \in Files
  BY <1>1
<1> QED
  BY <1>1, <1>2 DEF BackupTyped, BackupTypeOK

\* The parts of the typing, one by one.
LEMMA BackupTypes ==
  ASSUME BackupTyped
  PROVE  /\ second \in 1..MaxSecond /\ mishaps \in 0..MaxMishaps /\ newer \in [BackupIds -> Nat]
         /\ \A b \in DOMAIN backupLog : b \in BackupIds /\ backupLog[b] \in LogRow
         /\ \A b \in DOMAIN backup : b \in BackupIds /\ backup[b] \in BackupRun
         /\ \A b \in DOMAIN backup : backup[b].status = "success" => backup[b].at = "finish"
         /\ Encrypting \in BOOLEAN /\ Retention \in Nat /\ MaxSecond \in Nat \ {0} /\ MaxMishaps \in Nat
BY BackupAssumption DEF BackupTyped, BackupTypeOK

\* The typing is that of its parts.
LEMMA AreTyped ==
  ASSUME second' \in 1..MaxSecond, dir' \in Seq(Files),
         \A i, j \in 1..Len(dir') : dir'[i].archive = dir'[j].archive => i = j,
         \A b \in DOMAIN backupLog' : b \in BackupIds /\ backupLog'[b] \in LogRow,
         \A b \in DOMAIN backup' : b \in BackupIds /\ backup'[b] \in BackupRun,
         \A b \in DOMAIN backup' : backup'[b].status = "success" => backup'[b].at = "finish",
         mishaps' \in 0..MaxMishaps, newer' \in [BackupIds -> Nat]
  PROVE  BackupTyped'
<1>1. DOMAIN dir' = 1..Len(dir') /\ \A i \in 1..Len(dir') : dir'[i] \in Files
  OBVIOUS
<1>2. \A i \in DOMAIN dir' : dir'[i].of \in BackupIds /\ dir'[i].archive.second \in 1..MaxSecond
  BY <1>1 DEF Files
<1>3. \A b \in DOMAIN backupLog' : backupLog'[b].status \in {"running", "success", "error"}
  BY DEF LogRow
<1>4. \A b \in DOMAIN backup' :
        backup'[b].at \in {"snapshot", "archive", "encrypt", "unlink", "upload", "retain", "finish"}
  BY DEF BackupRun
<1> QED
  BY <1>1, <1>2, <1>3, <1>4 DEF BackupTyped, BackupTypeOK

\* A sequence without the element of a place.
LEMMA RemoveAtIs ==
  ASSUME NEW T, NEW s \in Seq(T), NEW k \in 1..Len(s)
  PROVE  /\ RemoveAt(s, k) \in Seq(T) /\ Len(RemoveAt(s, k)) = Len(s) - 1
         /\ \A n \in 1..Len(s) - 1 : RemoveAt(s, k)[n] = IF n < k THEN s[n] ELSE s[n + 1]
<1> DEFINE a == SubSeq(s, 1, k - 1)
           z == SubSeq(s, k + 1, Len(s))
<1>1. k \in 1..Len(s) /\ Len(s) \in Nat
  OBVIOUS
<1>2. a \in Seq(T) /\ Len(a) = k - 1 /\ \A n \in 1..k - 1 : a[n] = s[n]
  BY <1>1
<1>3. z \in Seq(T) /\ Len(z) = Len(s) - k /\ \A n \in 1..Len(s) - k : z[n] = s[k + n]
  BY <1>1
<1>4. RemoveAt(s, k) = a \o z
  BY DEF RemoveAt
<1> HIDE DEF a, z
<1>5. a \o z \in Seq(T) /\ Len(a \o z) = Len(s) - 1
  <2>1. a \o z \in Seq(T) /\ Len(a \o z) = Len(a) + Len(z)
    BY <1>2, <1>3, ConcatProperties
  <2> QED
    BY <1>1, <1>2, <1>3, <2>1
<1>6. ASSUME NEW n \in 1..Len(s) - 1 PROVE (a \o z)[n] = IF n < k THEN s[n] ELSE s[n + 1]
  <2>1. CASE n < k
    <3>1. (a \o z)[n] = a[n] /\ n \in 1..k - 1
      BY <1>1, <1>2, <1>3, <2>1
    <3> QED
      BY <1>2, <2>1, <3>1
  <2>2. CASE ~ (n < k)
    <3>1. (a \o z)[n] = z[n - (k - 1)] /\ n - (k - 1) \in 1..Len(s) - k /\ k + (n - (k - 1)) = n + 1
      BY <1>1, <1>2, <1>3, <2>2
    <3>2. z[n - (k - 1)] = s[k + (n - (k - 1))]
      BY <1>3, <3>1
    <3> QED
      BY <2>2, <3>1, <3>2
  <2> QED
    BY <2>1, <2>2
<1> QED
  BY <1>4, <1>5, <1>6

\* The directory without a file: at most one place is gone.
LEMMA UnlinkedIs ==
  ASSUME BackupTyped, NEW archive
  PROVE  \E k \in 1..Len(dir) + 1 :
           /\ Unlinked(archive) \in Seq(Files)
           /\ Len(Unlinked(archive)) = IF k <= Len(dir) THEN Len(dir) - 1 ELSE Len(dir)
           /\ \A i \in 1..Len(dir) : dir[i].archive = archive <=> i = k
           /\ \A n \in 1..Len(Unlinked(archive)) :
                Unlinked(archive)[n] = IF n < k THEN dir[n] ELSE dir[n + 1]
<1> DEFINE places == {i \in DOMAIN dir : dir[i].archive = archive}
<1>1. CASE places = {}
  <2>1. Unlinked(archive) = dir
    BY <1>1 DEF Unlinked
  <2>2. \A i \in 1..Len(dir) : dir[i].archive = archive <=> i = Len(dir) + 1
    BY <1>1, DirIs
  <2>3. Len(dir) + 1 \in 1..Len(dir) + 1 /\ ~ (Len(dir) + 1 <= Len(dir)) /\ \A n \in 1..Len(dir) : n < Len(dir) + 1
    BY DirIs
  <2> QED
    BY <2>1, <2>2, <2>3, DirIs
<1>2. CASE places # {}
  <2> DEFINE k == CHOOSE i \in places : TRUE
  <2>1. k \in places
    BY <1>2
  <2>2. Unlinked(archive) = RemoveAt(dir, k)
    BY <1>2 DEF Unlinked
  <2>3. k \in 1..Len(dir) /\ \A i \in 1..Len(dir) : dir[i].archive = archive <=> i = k
    BY <2>1, DirIs
  <2> HIDE DEF k
  <2>4. /\ RemoveAt(dir, k) \in Seq(Files) /\ Len(RemoveAt(dir, k)) = Len(dir) - 1
        /\ \A n \in 1..Len(dir) - 1 : RemoveAt(dir, k)[n] = IF n < k THEN dir[n] ELSE dir[n + 1]
    BY <2>3, DirIs, RemoveAtIs
  <2>5. k \in 1..Len(dir) + 1 /\ k <= Len(dir)
    BY <2>3, DirIs
  <2> QED
    BY <2>2, <2>3, <2>4, <2>5
<1> QED
  BY <1>1, <1>2

\* A file that is put is the last; the others move up by one place at most.
LEMMA PutIs ==
  ASSUME BackupTyped, NEW b \in BackupIds, NEW archive \in [second : 1..MaxSecond, encrypted : BOOLEAN],
         dir' = PutArchive(archive, b)
  PROVE  \E k \in 1..Len(dir) + 1 :
           /\ dir' \in Seq(Files) /\ Len(dir') = IF k <= Len(dir) THEN Len(dir) ELSE Len(dir) + 1
           /\ dir'[Len(dir')] = Stored(archive, b)
           /\ \A i \in 1..Len(dir) : dir[i].archive = archive <=> i = k
           /\ \A n \in 1..Len(dir') - 1 : dir'[n] = IF n < k THEN dir[n] ELSE dir[n + 1]
           /\ \A i, j \in 1..Len(dir') : dir'[i].archive = dir'[j].archive => i = j
<1> DEFINE d == Unlinked(archive)
<1>1. PICK k \in 1..Len(dir) + 1 :
           /\ d \in Seq(Files)
           /\ Len(d) = IF k <= Len(dir) THEN Len(dir) - 1 ELSE Len(dir)
           /\ \A i \in 1..Len(dir) : dir[i].archive = archive <=> i = k
           /\ \A n \in 1..Len(d) : d[n] = IF n < k THEN dir[n] ELSE dir[n + 1]
  BY UnlinkedIs
<1>2. Stored(archive, b) \in Files /\ Stored(archive, b).archive = archive
  BY DEF Stored, Files
<1>3. dir' = Append(d, Stored(archive, b))
  BY DEF PutArchive
<1> HIDE DEF d
<1>4. /\ dir' \in Seq(Files) /\ Len(dir') = Len(d) + 1 /\ dir'[Len(d) + 1] = Stored(archive, b)
      /\ \A n \in 1..Len(d) : dir'[n] = d[n]
  BY <1>1, <1>2, <1>3
<1> HIDE DEF Stored
<1>5. /\ Len(dir') = IF k <= Len(dir) THEN Len(dir) ELSE Len(dir) + 1
      /\ Len(dir') - 1 = Len(d) /\ Len(dir') \in 1..Len(dir) + 1 /\ Len(d) \in 0..Len(dir)
  <2>1. Len(dir) \in Nat /\ k \in 1..Len(dir) + 1
    BY <1>1, DirIs
  <2>2. Len(d) \in Nat
    BY <1>1
  <2> QED
    BY <1>1, <1>4, <2>1, <2>2
<1>6. \A n \in 1..Len(dir') - 1 : dir'[n] = IF n < k THEN dir[n] ELSE dir[n + 1]
  BY <1>1, <1>4, <1>5
<1>7. ASSUME NEW n \in 1..Len(dir') - 1
      PROVE  \E i \in 1..Len(dir) : dir'[n] = dir[i] /\ i # k /\ i = IF n < k THEN n ELSE n + 1
  <2>1. Len(dir) \in Nat /\ n \in Nat /\ k \in Nat
    BY <1>7, <1>5, DirIs
  <2>2. (IF n < k THEN n ELSE n + 1) \in 1..Len(dir) \ {k}
    BY <1>5, <1>7, <2>1
  <2>3. dir'[n] = dir[IF n < k THEN n ELSE n + 1]
    BY <1>6, <1>7
  <2> QED
    BY <2>2, <2>3
<1>8. ASSUME NEW i \in 1..Len(dir'), NEW j \in 1..Len(dir'), dir'[i].archive = dir'[j].archive
      PROVE  i = j
  <2>1. ASSUME NEW n \in 1..Len(dir') - 1 PROVE dir'[n].archive # archive
    BY <1>1, <1>7
  <2>2. dir'[Len(dir')].archive = archive
    BY <1>2, <1>4
  <2>3. Len(dir') \in Nat /\ \A n \in 1..Len(dir') : n = Len(dir') \/ n \in 1..Len(dir') - 1
    BY <1>4
  <2>4. CASE i = Len(dir') \/ j = Len(dir')
    BY <1>8, <2>1, <2>2, <2>3, <2>4
  <2>5. CASE i \in 1..Len(dir') - 1 /\ j \in 1..Len(dir') - 1
    <3>1. PICK x \in 1..Len(dir) : dir'[i] = dir[x] /\ x # k /\ x = IF i < k THEN i ELSE i + 1
      BY <1>7, <2>5
    <3>2. PICK y \in 1..Len(dir) : dir'[j] = dir[y] /\ y # k /\ y = IF j < k THEN j ELSE j + 1
      BY <1>7, <2>5
    <3>3. x = y
      BY <1>8, <3>1, <3>2, DirIs
    <3>4. i \in Nat /\ j \in Nat /\ k \in Nat
      BY <2>3, DirIs
    <3> QED
      BY <3>1, <3>2, <3>3, <3>4
  <2> QED
    BY <2>3, <2>4, <2>5
<1> QED
  BY <1>1, <1>4, <1>5, <1>6, <1>8

\* It holds at the start.
LEMMA BackupInit_Inv == ASSUME BackupInit PROVE BackupInv
<1>1. second \in 1..MaxSecond /\ dir \in Seq(Files) /\ Len(dir) = 0 /\ DOMAIN dir = {} /\ mishaps \in 0..MaxMishaps
  BY BackupAssumption DEF BackupInit
<1>2. newer \in [BackupIds -> Nat] /\ DOMAIN backupLog = {} /\ DOMAIN backup = {}
  BY DEF BackupInit
<1>3. BackupTyped
  BY <1>1, <1>2 DEF BackupTyped, BackupTypeOK
<1> QED
  BY <1>1, <1>2, <1>3 DEF BackupInv, OneInTheLoop, PlainFiles, FileHolds, WrittenTo, Listed

\* A file whose name is not the one that is put keeps its order, and at most one
\* more follows it.
LEMMA PutMoves ==
  ASSUME BackupTyped, NEW b \in BackupIds, NEW archive \in [second : 1..MaxSecond, encrypted : BOOLEAN],
         dir' = PutArchive(archive, b)
  PROVE  /\ \A i \in 1..Len(dir) : dir[i].archive # archive =>
              \E x \in 1..Len(dir') - 1 :
                /\ dir'[x] = dir[i] /\ Len(dir') - x <= Len(dir) - i + 1
                /\ \A j \in i + 1..Len(dir) : dir[j].archive # archive =>
                     \E y \in x + 1..Len(dir') : dir'[y] = dir[j]
         /\ \A x \in 1..Len(dir') - 1 : \E i \in 1..Len(dir) : dir'[x] = dir[i]
         /\ dir' \in Seq(Files) /\ Len(dir') \in Nat \ {0} /\ dir'[Len(dir')] = Stored(archive, b)
         /\ \A i, j \in 1..Len(dir') : dir'[i].archive = dir'[j].archive => i = j
<1>1. PICK k \in 1..Len(dir) + 1 :
        /\ dir' \in Seq(Files) /\ Len(dir') = IF k <= Len(dir) THEN Len(dir) ELSE Len(dir) + 1
        /\ dir'[Len(dir')] = Stored(archive, b)
        /\ \A i \in 1..Len(dir) : dir[i].archive = archive <=> i = k
        /\ \A n \in 1..Len(dir') - 1 : dir'[n] = IF n < k THEN dir[n] ELSE dir[n + 1]
        /\ \A i, j \in 1..Len(dir') : dir'[i].archive = dir'[j].archive => i = j
  BY PutIs
<1>2. Len(dir) \in Nat /\ k \in Nat \ {0} /\ Len(dir') \in Nat
  BY <1>1, DirIs
<1> DEFINE p(i) == IF i < k THEN i ELSE i - 1
<1>3. ASSUME NEW i \in 1..Len(dir), i # k
      PROVE  p(i) \in 1..Len(dir') - 1 /\ dir'[p(i)] = dir[i] /\ Len(dir') - p(i) <= Len(dir) - i + 1
  <2>1. p(i) \in 1..Len(dir') - 1 /\ Len(dir') - p(i) <= Len(dir) - i + 1 /\ (IF p(i) < k THEN p(i) ELSE p(i) + 1) = i
    BY <1>1, <1>2, <1>3
  <2> HIDE DEF p
  <2>2. dir'[p(i)] = dir[IF p(i) < k THEN p(i) ELSE p(i) + 1]
    BY <1>1, <2>1
  <2> QED
    BY <2>1, <2>2
<1>4. ASSUME NEW i \in 1..Len(dir), i # k, NEW j \in i + 1..Len(dir), j # k
      PROVE  p(j) \in p(i) + 1..Len(dir')
  BY <1>1, <1>2, <1>4
<1> HIDE DEF p
<1>5. ASSUME NEW i \in 1..Len(dir), dir[i].archive # archive
      PROVE  \E x \in 1..Len(dir') - 1 :
                /\ dir'[x] = dir[i] /\ Len(dir') - x <= Len(dir) - i + 1
                /\ \A j \in i + 1..Len(dir) : dir[j].archive # archive =>
                     \E y \in x + 1..Len(dir') : dir'[y] = dir[j]
  <2>1. i # k /\ \A j \in i + 1..Len(dir) : j \in 1..Len(dir) /\ (dir[j].archive # archive => j # k)
    BY <1>1, <1>2, <1>5
  <2>2. \A j \in i + 1..Len(dir) : dir[j].archive # archive =>
          p(j) \in p(i) + 1..Len(dir') /\ dir'[p(j)] = dir[j]
    BY <1>3, <1>4, <2>1
  <2> QED
    BY <1>3, <2>1, <2>2
<1>6. ASSUME NEW x \in 1..Len(dir') - 1 PROVE \E i \in 1..Len(dir) : dir'[x] = dir[i]
  <2>1. (IF x < k THEN x ELSE x + 1) \in 1..Len(dir)
    BY <1>1, <1>2, <1>6
  <2>2. dir'[x] = dir[IF x < k THEN x ELSE x + 1]
    BY <1>1, <1>6
  <2> QED
    BY <2>1, <2>2
<1>7. Len(dir') # 0
  BY <1>1, <1>2
<1> QED
  BY <1>1, <1>2, <1>5, <1>6, <1>7

\* A file whose name is not the one that is unlinked keeps its order too, and one
\* less follows it, if what is unlinked did.
LEMMA UnlinkMoves ==
  ASSUME BackupTyped, NEW archive, dir' = Unlinked(archive)
  PROVE  /\ \A i \in 1..Len(dir) : dir[i].archive # archive =>
              \E x \in 1..Len(dir') :
                /\ dir'[x] = dir[i] /\ Len(dir') - x <= Len(dir) - i
                /\ (\E j \in i + 1..Len(dir) : dir[j].archive = archive) => Len(dir') - x <= Len(dir) - i - 1
                /\ \A j \in i + 1..Len(dir) : dir[j].archive # archive =>
                     \E y \in x + 1..Len(dir') : dir'[y] = dir[j]
         /\ \A x \in 1..Len(dir') :
              \E i \in 1..Len(dir) : /\ dir'[x] = dir[i] /\ dir[i].archive # archive
                                     /\ i = Len(dir) => x = Len(dir')
         /\ dir' \in Seq(Files) /\ Len(dir') \in Nat
         /\ \A i, j \in 1..Len(dir') : dir'[i].archive = dir'[j].archive => i = j
<1>1. PICK k \in 1..Len(dir) + 1 :
        /\ dir' \in Seq(Files) /\ Len(dir') = IF k <= Len(dir) THEN Len(dir) - 1 ELSE Len(dir)
        /\ \A i \in 1..Len(dir) : dir[i].archive = archive <=> i = k
        /\ \A n \in 1..Len(dir') : dir'[n] = IF n < k THEN dir[n] ELSE dir[n + 1]
  BY UnlinkedIs
<1>2. Len(dir) \in Nat /\ k \in Nat \ {0} /\ Len(dir') \in Nat
  <2>1. Len(dir) \in Nat /\ k \in Nat \ {0}
    BY DirIs
  <2>2. Len(dir') \in Nat
    BY <1>1
  <2> QED
    BY <2>1, <2>2
<1> DEFINE p(i) == IF i < k THEN i ELSE i - 1
           q(x) == IF x < k THEN x ELSE x + 1
<1>3. ASSUME NEW i \in 1..Len(dir), i # k
      PROVE  p(i) \in 1..Len(dir') /\ dir'[p(i)] = dir[i] /\ Len(dir') - p(i) <= Len(dir) - i
  <2>1. p(i) \in 1..Len(dir') /\ Len(dir') - p(i) <= Len(dir) - i /\ (IF p(i) < k THEN p(i) ELSE p(i) + 1) = i
    BY <1>1, <1>2, <1>3
  <2> HIDE DEF p
  <2>2. dir'[p(i)] = dir[IF p(i) < k THEN p(i) ELSE p(i) + 1]
    BY <1>1, <2>1
  <2> QED
    BY <2>1, <2>2
<1>4. ASSUME NEW i \in 1..Len(dir), i # k, NEW j \in i + 1..Len(dir), j # k
      PROVE  p(j) \in p(i) + 1..Len(dir')
  BY <1>1, <1>2, <1>4
<1>5. ASSUME NEW i \in 1..Len(dir), k \in i + 1..Len(dir)
      PROVE  Len(dir') - p(i) <= Len(dir) - i - 1
  BY <1>1, <1>2, <1>5
<1>6. ASSUME NEW x \in 1..Len(dir')
      PROVE  q(x) \in 1..Len(dir) /\ q(x) # k /\ dir'[x] = dir[q(x)] /\ (q(x) = Len(dir) => x = Len(dir'))
  <2>1. q(x) \in 1..Len(dir) /\ q(x) # k /\ (q(x) = Len(dir) => x = Len(dir'))
    BY <1>1, <1>2, <1>6
  <2>2. dir'[x] = dir[q(x)]
    BY <1>1, <1>6
  <2> QED
    BY <2>1, <2>2
<1>7. ASSUME NEW i \in 1..Len(dir'), NEW j \in 1..Len(dir'), q(i) = q(j) PROVE i = j
  BY <1>2, <1>7
<1> HIDE DEF p, q
<1>8. \A i \in 1..Len(dir) : dir[i].archive # archive =>
              \E x \in 1..Len(dir') :
                /\ dir'[x] = dir[i] /\ Len(dir') - x <= Len(dir) - i
                /\ (\E j \in i + 1..Len(dir) : dir[j].archive = archive) => Len(dir') - x <= Len(dir) - i - 1
                /\ \A j \in i + 1..Len(dir) : dir[j].archive # archive =>
                     \E y \in x + 1..Len(dir') : dir'[y] = dir[j]
  <2> SUFFICES ASSUME NEW i \in 1..Len(dir), dir[i].archive # archive
               PROVE  \E x \in 1..Len(dir') :
                /\ dir'[x] = dir[i] /\ Len(dir') - x <= Len(dir) - i
                /\ (\E j \in i + 1..Len(dir) : dir[j].archive = archive) => Len(dir') - x <= Len(dir) - i - 1
                /\ \A j \in i + 1..Len(dir) : dir[j].archive # archive =>
                     \E y \in x + 1..Len(dir') : dir'[y] = dir[j]
    OBVIOUS
  <2>1. i # k /\ \A j \in i + 1..Len(dir) : j \in 1..Len(dir) /\ (dir[j].archive # archive <=> j # k)
    BY <1>1, <1>2
  <2>2. \A j \in i + 1..Len(dir) : dir[j].archive # archive =>
          p(j) \in p(i) + 1..Len(dir') /\ dir'[p(j)] = dir[j]
    BY <1>3, <1>4, <2>1
  <2>3. (\E j \in i + 1..Len(dir) : dir[j].archive = archive) => Len(dir') - p(i) <= Len(dir) - i - 1
    BY <1>5, <2>1
  <2> QED
    BY <1>3, <2>1, <2>2, <2>3
<1>9. \A x \in 1..Len(dir') :
        \E i \in 1..Len(dir) : /\ dir'[x] = dir[i] /\ dir[i].archive # archive
                               /\ i = Len(dir) => x = Len(dir')
  BY <1>1, <1>6
<1>10. ASSUME NEW i \in 1..Len(dir'), NEW j \in 1..Len(dir'), dir'[i].archive = dir'[j].archive
       PROVE  i = j
  <2>1. q(i) = q(j)
    BY <1>6, <1>10, DirIs
  <2> QED
    BY <1>7, <2>1
<1>11. dir' \in Seq(Files) /\ \A i, j \in 1..Len(dir') : dir'[i].archive = dir'[j].archive => i = j
  BY <1>1, <1>10
<1> QED
  BY <1>2, <1>8, <1>9, <1>11

-----------------------------------------------------------------------------

\* What is promised of an archive stays so while the directory does.
LEMMA FileStays ==
  ASSUME BackupTyped, NEW x \in BackupIds, FileHolds(x), UNCHANGED <<dir, newer, removed>>,
         WrittenTo(x)' \/ Listed(x)' => (WrittenTo(x) \/ Listed(x)) /\ FinalOf(x)' = FinalOf(x),
         \A o \in DOMAIN backup' \ {x} :
           Encrypts(o)' => o \in DOMAIN backup /\ Encrypts(o) /\ Archive(o)' = Archive(o)
  PROVE  FileHolds(x)'
<1> SUFFICES ASSUME WrittenTo(x)' \/ Listed(x)', x \notin removed PROVE Lies(x)' \/ Superseded(x)'
  BY DEF FileHolds
<1>1. FinalOf(x)' = FinalOf(x)
  OBVIOUS
<1>2. CASE Lies(x)
  <2>1. PICK i \in 1..Len(dir) :
          /\ dir[i].archive = FinalOf(x) /\ Len(dir) - i <= newer[x]
          /\ \A o \in DOMAIN backup \ {x} :
               Encrypts(o) /\ OnDisk(Archive(o)) =>
                 Len(dir) - i < newer[x] \/ \E j \in i + 1..Len(dir) : dir[j].archive = Archive(o)
    BY <1>2 DEF Lies
  <2>2. ASSUME NEW o \in DOMAIN backup' \ {x}, Encrypts(o)', OnDisk(Archive(o))'
        PROVE  Len(dir) - i < newer[x] \/ \E j \in i + 1..Len(dir) : dir[j].archive = Archive(o)'
    <3>1. Encrypts(o) /\ OnDisk(Archive(o)) /\ o \in DOMAIN backup \ {x} /\ Archive(o)' = Archive(o)
      BY <2>2 DEF OnDisk
    <3> QED
      BY <2>1, <3>1
  <2> QED
    BY <1>1, <2>1, <2>2 DEF Lies
<1>3. CASE Superseded(x)
  BY <1>3 DEF Superseded
<1> QED
  BY <1>2, <1>3 DEF FileHolds

\* And while a run puts a file.
LEMMA PutKeepsFile ==
  ASSUME BackupTyped, NEW x \in BackupIds, FileHolds(x), NEW b \in BackupIds \ {x},
         NEW archive \in [second : 1..MaxSecond, encrypted : BOOLEAN],
         dir' = PutArchive(archive, b), newer'[x] = newer[x] + 1, removed' = removed,
         WrittenTo(x)' \/ Listed(x)' => (WrittenTo(x) \/ Listed(x)) /\ FinalOf(x)' = FinalOf(x),
         \A o \in DOMAIN backup' \ {x} : Encrypts(o)' =>
           \/ archive = Archive(o)'
           \/ o \in DOMAIN backup /\ Encrypts(o) /\ Archive(o)' = Archive(o) /\ Archive(o) # archive
  PROVE  FileHolds(x)'
<1> SUFFICES ASSUME WrittenTo(x)' \/ Listed(x)', x \notin removed PROVE Lies(x)' \/ Superseded(x)'
  BY DEF FileHolds
<1>1. FinalOf(x)' = FinalOf(x) /\ newer[x] \in Nat /\ Retention \in Nat
  BY BackupTypes
<1>2. /\ \A i \in 1..Len(dir) : dir[i].archive # archive =>
            \E n \in 1..Len(dir') - 1 :
              /\ dir'[n] = dir[i] /\ Len(dir') - n <= Len(dir) - i + 1
              /\ \A j \in i + 1..Len(dir) : dir[j].archive # archive =>
                   \E m \in n + 1..Len(dir') : dir'[m] = dir[j]
      /\ \A n \in 1..Len(dir') - 1 : \E i \in 1..Len(dir) : dir'[n] = dir[i]
      /\ dir' \in Seq(Files) /\ Len(dir') \in Nat \ {0} /\ dir'[Len(dir')] = Stored(archive, b)
  BY PutMoves
<1>5. Stored(archive, b).archive = archive
  BY DEF Stored
<1>6. dir'[Len(dir')].archive = archive /\ DOMAIN dir' = 1..Len(dir')
  BY <1>2, <1>5
<1>3. CASE Lies(x)
  <2>1. PICK i \in 1..Len(dir) :
          /\ dir[i].archive = FinalOf(x) /\ Len(dir) - i <= newer[x]
          /\ \A o \in DOMAIN backup \ {x} :
               Encrypts(o) /\ OnDisk(Archive(o)) =>
                 Len(dir) - i < newer[x] \/ \E j \in i + 1..Len(dir) : dir[j].archive = Archive(o)
    BY <1>3 DEF Lies
  <2>2. CASE FinalOf(x) = archive
    <3>1. Len(dir') \in 1..Len(dir') /\ Len(dir') - Len(dir') < newer'[x] /\ Len(dir') - Len(dir') <= newer'[x]
      BY <1>1, <1>2
    <3> QED
      BY <1>1, <1>6, <2>2, <3>1 DEF Lies
  <2>3. CASE FinalOf(x) # archive
    <3>1. PICK n \in 1..Len(dir') - 1 :
              /\ dir'[n] = dir[i] /\ Len(dir') - n <= Len(dir) - i + 1
              /\ \A j \in i + 1..Len(dir) : dir[j].archive # archive =>
                   \E m \in n + 1..Len(dir') : dir'[m] = dir[j]
      BY <1>2, <2>1, <2>3
    <3>2. Len(dir) \in Nat /\ Len(dir') \in Nat /\ i \in Nat /\ n \in Nat
      BY <1>2, DirIs
    <3>3. n \in 1..Len(dir') /\ Len(dir') - n <= newer'[x] /\ (Len(dir) - i < newer[x] => Len(dir') - n < newer'[x])
      BY <1>1, <2>1, <3>1, <3>2
    <3>4. ASSUME NEW o \in DOMAIN backup' \ {x}, Encrypts(o)', OnDisk(Archive(o))'
          PROVE  Len(dir') - n < newer'[x] \/ \E j \in n + 1..Len(dir') : dir'[j].archive = Archive(o)'
      <4>1. CASE archive = Archive(o)'
        <5>1. Len(dir') \in n + 1..Len(dir')
          BY <3>1, <3>2
        <5> QED
          BY <1>6, <4>1, <5>1
      <4>2. CASE o \in DOMAIN backup /\ Encrypts(o) /\ Archive(o)' = Archive(o) /\ Archive(o) # archive
        <5>1. PICK m \in 1..Len(dir') : dir'[m].archive = Archive(o)
          BY <1>6, <3>4, <4>2 DEF OnDisk
        <5>2. m \in 1..Len(dir') - 1
          <6>1. m # Len(dir')
            BY <1>6, <4>2, <5>1
          <6> QED
            BY <1>2, <6>1
        <5>3. OnDisk(Archive(o))
          <6>1. PICK p \in 1..Len(dir) : dir'[m] = dir[p]
            BY <1>2, <5>2
          <6> QED
            BY <5>1, <6>1, DirIs DEF OnDisk
        <5>4. Len(dir) - i < newer[x] \/ \E j \in i + 1..Len(dir) : dir[j].archive = Archive(o)
          BY <2>1, <4>2, <5>3
        <5> QED
          BY <3>1, <3>3, <4>2, <5>4
      <4> QED
        BY <3>4, <4>1, <4>2
    <3> QED
      BY <1>1, <2>1, <3>1, <3>3, <3>4 DEF Lies
  <2> QED
    BY <2>2, <2>3
<1>4. CASE Superseded(x)
  BY <1>1, <1>4 DEF Superseded
<1> QED
  BY <1>3, <1>4 DEF FileHolds

\* While a run has the loop, or may take it, the others rest: none of them has
\* written what it ends with, or is about to encrypt it.
LEMMA OthersRest ==
  ASSUME BackupInv, NEW b \in DOMAIN backup, InTheLoop(b) \/ TheLoop(b),
         DOMAIN backup' \subseteq DOMAIN backup,
         \A o \in DOMAIN backup' \ {b} : backup'[o] = backup[o],
         failed' \subseteq failed \cup {b}, DOMAIN backupLog' \subseteq DOMAIN backupLog
  PROVE  /\ OneInTheLoop' /\ \A o \in DOMAIN backup' \ {b} : BackupHolds(o)'
         /\ \A o \in BackupIds \ {b} : ~ Encrypts(o) /\ ~ Encrypts(o)' /\ ~ WrittenTo(o) /\ ~ WrittenTo(o)'
<1>1. BackupTyped /\ OneInTheLoop
  BY DEF BackupInv
<1>2. \A o \in DOMAIN backup \ {b} : backup[o].at \in {"snapshot", "archive"} /\ backup[o].status # "success"
  BY <1>1, BackupTypes DEF OneInTheLoop, InTheLoop, TheLoop
<1>3. OneInTheLoop'
  BY <1>2 DEF OneInTheLoop, InTheLoop
<1>4. \A o \in BackupIds \ {b} : ~ Encrypts(o) /\ ~ Encrypts(o)' /\ ~ WrittenTo(o) /\ ~ WrittenTo(o)'
  BY <1>2 DEF Encrypts, WrittenTo
<1>5. ASSUME NEW o \in DOMAIN backup' \ {b} PROVE BackupHolds(o)'
  <2>1. o \notin failed' \cap DOMAIN backupLog'
    BY <1>2, <1>5 DEF BackupInv, BackupHolds
  <2>2. o \in BackupIds /\ backup'[o].at # "unlink"
    BY <1>1, <1>2, BackupTypes
  <2> QED
    BY <1>4, <2>1, <2>2 DEF BackupHolds
<1> QED
  BY <1>3, <1>4, <1>5

\* The rows, when a run fails or goes on.
LEMMA RowsStay ==
  ASSUME BackupInv, NEW b \in DOMAIN backup, DOMAIN backup' = DOMAIN backup, backupLog' = backupLog,
         failed \subseteq failed', failed' \subseteq failed \cup {b}
  PROVE  \A x \in DOMAIN backupLog' : RowHolds(x)'
  BY DEF BackupInv, RowHolds

\* Where a run goes.
LEMMA RunGoes ==
  ASSUME BackupTyped, NEW b \in DOMAIN backup, NEW r \in BackupRun, backup' = [backup EXCEPT ![b] = r],
         r.status = "success" => r.at = "finish"
  PROVE  /\ DOMAIN backup' = DOMAIN backup /\ backup'[b] = r
         /\ \A o \in DOMAIN backup \ {b} : backup'[o] = backup[o]
         /\ \A o \in DOMAIN backup' : o \in BackupIds /\ backup'[o] \in BackupRun
         /\ \A o \in DOMAIN backup' : backup'[o].status = "success" => backup'[o].at = "finish"
<1>1. /\ DOMAIN backup' = DOMAIN backup /\ backup'[b] = r
      /\ \A o \in DOMAIN backup \ {b} : backup'[o] = backup[o]
  OBVIOUS
<1> QED
  BY <1>1, BackupTypes

\* Where a run goes, of itself it changes its place alone.
LEMMA RunGoesTo ==
  ASSUME BackupTyped, NEW b \in DOMAIN backup, backup[b].at # "finish",
         NEW place \in {"snapshot", "archive", "encrypt", "unlink", "upload", "retain", "finish"},
         GoTo(b, place)
  PROVE  /\ DOMAIN backup' = DOMAIN backup /\ backup'[b] \in BackupRun
         /\ backup'[b].at = place /\ backup'[b].second = backup[b].second
         /\ backup'[b].archive = backup[b].archive /\ backup'[b].status = backup[b].status
         /\ backup[b].status = "error"
         /\ \A o \in DOMAIN backup \ {b} : backup'[o] = backup[o]
         /\ \A o \in DOMAIN backup' : o \in BackupIds /\ backup'[o] \in BackupRun
         /\ \A o \in DOMAIN backup' : backup'[o].status = "success" => backup'[o].at = "finish"
<1> DEFINE r == [backup[b] EXCEPT !.at = place]
<1>1. backup[b] \in BackupRun /\ backup[b].status = "error"
  BY BackupTypes DEF BackupRun
<1>2. /\ r \in BackupRun /\ r.at = place /\ r.second = backup[b].second
      /\ r.archive = backup[b].archive /\ r.status = backup[b].status
  BY <1>1 DEF BackupRun
<1>3. backup' = [backup EXCEPT ![b] = r]
  BY DEF GoTo
<1> HIDE DEF r
<1> QED
  BY <1>1, <1>2, <1>3, RunGoes

-----------------------------------------------------------------------------

\* A second passes.
LEMMA TickSecond_Inv == ASSUME BackupInv, TickSecond \/ UNCHANGED backupVars PROVE BackupInv'
<1>1. UNCHANGED <<dir, backupLog, backup, mishaps, failed, newer, removed>>
  BY DEF TickSecond, backupVars
<1>2. second' \in 1..MaxSecond
  BY BackupTypes DEF BackupInv, TickSecond, backupVars
<1>3. BackupTyped'
  BY <1>1, <1>2 DEF BackupInv, BackupTyped, BackupTypeOK
<1>4. (\A b \in DOMAIN backup : BackupHolds(b))' /\ OneInTheLoop' /\ PlainFiles'
  BY <1>1 DEF BackupInv, BackupHolds, OneInTheLoop, InTheLoop, PlainFiles, Encrypts, WrittenTo, Archive, EncArchive
<1>5. (\A b \in DOMAIN backupLog : RowHolds(b))'
  BY <1>1 DEF BackupInv, RowHolds
<1>6. \A b \in BackupIds : FileHolds(b)'
  BY <1>1, FileStays DEF BackupInv, WrittenTo, Listed, FinalOf, Encrypts, Archive
<1> QED
  BY <1>3, <1>4, <1>5, <1>6 DEF BackupInv

\* A run begins.
LEMMA StartBackup_Inv == ASSUME BackupInv, NEW b \in BackupIds, StartBackup(b) PROVE BackupInv'
<1> DEFINE r == [at |-> "snapshot", second |-> second, archive |-> NoArchive, status |-> "error"]
           row == [status |-> "running", archive |-> NoArchive]
<1>1. BackupTyped /\ b \notin DOMAIN backupLog /\ b \notin DOMAIN backup /\ b \notin failed
  BY DEF BackupInv, StartBackup
<1>2. NoArchive \in Archives
  BY DEF NoArchive, Archives
<1>3. /\ DOMAIN backup' = DOMAIN backup \cup {b} /\ backup'[b] = r
      /\ \A o \in DOMAIN backup : backup'[o] = backup[o]
  BY <1>1 DEF StartBackup
<1>4. r \in BackupRun /\ row \in LogRow
  BY <1>1, <1>2, BackupTypes DEF BackupRun, LogRow
<1>5. /\ DOMAIN backupLog \subseteq DOMAIN backupLog' /\ DOMAIN backupLog' \subseteq DOMAIN backupLog \cup {b}
      /\ \A o \in DOMAIN backupLog : backupLog'[o] = backupLog[o]
      /\ b \in DOMAIN backupLog' => backupLog'[b] = row /\ failed' = failed
      /\ failed \subseteq failed' /\ failed' \subseteq failed \cup {b}
      /\ mishaps' \in 0..MaxMishaps
  <2>1. CASE /\ backupLog' = [k \in DOMAIN backupLog \cup {b} |->
                IF k = b THEN [status |-> "running", archive |-> NoArchive] ELSE backupLog[k]]
             /\ UNCHANGED <<mishaps, failed>>
    BY <1>1, <2>1, BackupTypes
  <2>2. CASE Mishap /\ failed' = failed \cup {b} /\ UNCHANGED backupLog
    BY <1>1, <2>2, BackupTypes DEF Mishap
  <2> QED
    BY <2>1, <2>2 DEF StartBackup
<1>6. UNCHANGED <<second, dir, newer, removed>>
  BY DEF StartBackup
<1>7. r.at = "snapshot" /\ r.status = "error" /\ row.status = "running"
  OBVIOUS
<1> HIDE DEF r, row
<1>8. BackupTyped'
  <2>1. /\ \A o \in DOMAIN backup' : o \in BackupIds /\ backup'[o] \in BackupRun
        /\ \A o \in DOMAIN backup' : backup'[o].status = "success" => backup'[o].at = "finish"
    BY <1>1, <1>3, <1>4, <1>7, BackupTypes
  <2>2. \A o \in DOMAIN backupLog' : o \in BackupIds /\ backupLog'[o] \in LogRow
    BY <1>1, <1>4, <1>5, BackupTypes
  <2>3. newer' \in [BackupIds -> Nat] /\ second' \in 1..MaxSecond
    BY <1>1, <1>6, BackupTypes
  <2>4. dir' \in Seq(Files) /\ \A i, j \in 1..Len(dir') : dir'[i].archive = dir'[j].archive => i = j
    BY <1>1, <1>6, DirIs
  <2> QED
    BY <1>5, <2>1, <2>2, <2>3, <2>4, AreTyped
<1>9. /\ \A o \in BackupIds : (Encrypts(o)' <=> Encrypts(o)) /\ (WrittenTo(o)' <=> WrittenTo(o)) /\ (Listed(o)' <=> Listed(o))
      /\ \A o \in DOMAIN backup : Archive(o)' = Archive(o) /\ EncArchive(o)' = EncArchive(o)
      /\ ~ Encrypts(b)' /\ ~ WrittenTo(b)' /\ ~ Listed(b)'
  BY <1>1, <1>3, <1>5, <1>7 DEF Encrypts, WrittenTo, Listed, Archive, EncArchive
<1>10. OneInTheLoop'
  BY <1>3, <1>7 DEF BackupInv, OneInTheLoop, InTheLoop
<1>11. ASSUME NEW o \in DOMAIN backup' PROVE BackupHolds(o)'
  <2>1. CASE o = b
    BY <1>1, <1>3, <1>5, <1>7, <1>9, <2>1 DEF BackupHolds
  <2>2. CASE o # b
    BY <1>1, <1>3, <1>5, <1>6, <1>9, <1>11, <2>2, BackupTypes DEF BackupInv, BackupHolds
  <2> QED
    BY <2>1, <2>2
<1>12. ASSUME NEW o \in DOMAIN backupLog' PROVE RowHolds(o)'
  BY <1>1, <1>3, <1>5, <1>7 DEF BackupInv, RowHolds
<1>13. ASSUME NEW o \in BackupIds PROVE FileHolds(o)'
  <2>1. WrittenTo(o) \/ Listed(o) => FinalOf(o)' = FinalOf(o)
    BY <1>1, <1>3, <1>5, <1>9 DEF FinalOf, WrittenTo, Listed
  <2> QED
    BY <1>1, <1>3, <1>6, <1>9, <2>1, BackupTypes, FileStays DEF BackupInv
<1>14. PlainFiles'
  BY <1>5, <1>6, <1>9 DEF BackupInv, PlainFiles, Encrypts
<1> QED
  BY <1>8, <1>10, <1>11, <1>12, <1>13, <1>14 DEF BackupInv

\* The snapshots are done.
LEMMA SnapshotsDone_Inv == ASSUME BackupInv, NEW b \in DOMAIN backup, SnapshotsDone(b) PROVE BackupInv'
<1>1. BackupTyped /\ backup[b].at = "snapshot" /\ b \in BackupIds
  BY BackupTypes DEF BackupInv, SnapshotsDone
<1>2. /\ DOMAIN backup' = DOMAIN backup /\ backup'[b].at = "archive"
      /\ backup'[b].second = backup[b].second /\ backup'[b].archive = backup[b].archive
      /\ backup'[b].status = "error" /\ backup[b].status = "error"
      /\ \A o \in DOMAIN backup \ {b} : backup'[o] = backup[o]
      /\ \A o \in DOMAIN backup' : o \in BackupIds /\ backup'[o] \in BackupRun
      /\ \A o \in DOMAIN backup' : backup'[o].status = "success" => backup'[o].at = "finish"
  BY <1>1, RunGoesTo DEF SnapshotsDone
<1>3. UNCHANGED <<second, dir, backupLog, mishaps, failed, newer, removed>>
  BY DEF SnapshotsDone
<1>4. BackupTyped'
  BY <1>1, <1>2, <1>3, AreTyped, DirIs, BackupTypes
<1>5. \A o \in DOMAIN backup :
        /\ (Encrypts(o)' <=> Encrypts(o)) /\ (WrittenTo(o)' <=> WrittenTo(o)) /\ (InTheLoop(o)' <=> InTheLoop(o))
        /\ Archive(o)' = Archive(o) /\ EncArchive(o)' = EncArchive(o) /\ FinalOf(o)' = FinalOf(o)
  BY <1>1, <1>2 DEF Encrypts, WrittenTo, InTheLoop, Archive, EncArchive, FinalOf
<1>6. OneInTheLoop'
  BY <1>2, <1>5 DEF BackupInv, OneInTheLoop
<1>7. ASSUME NEW o \in DOMAIN backup' PROVE BackupHolds(o)'
  <2>1. CASE o = b
    <3>1. ~ Encrypts(b) /\ ~ WrittenTo(b) /\ b \notin failed \cap DOMAIN backupLog
      BY <1>1, <1>2 DEF BackupInv, BackupHolds, Encrypts, WrittenTo
    <3> QED
      BY <1>2, <1>3, <1>5, <2>1, <3>1 DEF BackupHolds
  <2>2. CASE o # b
    <3>1. BackupHolds(o) /\ o \in BackupIds
      BY <1>2, <1>7 DEF BackupInv
    <3> QED
      BY <1>2, <1>3, <1>5, <2>2, <3>1 DEF BackupHolds
  <2> QED
    BY <2>1, <2>2
<1>8. \A o \in DOMAIN backupLog' : RowHolds(o)'
  BY <1>2, <1>3, RowsStay
<1>9. ASSUME NEW o \in BackupIds PROVE FileHolds(o)'
  <2>1. (WrittenTo(o)' <=> WrittenTo(o)) /\ (Listed(o)' <=> Listed(o)) /\ FinalOf(o)' = FinalOf(o)
    BY <1>2, <1>3, <1>5 DEF FinalOf, WrittenTo, Listed
  <2> QED
    BY <1>1, <1>2, <1>3, <1>5, <2>1, FileStays DEF BackupInv
<1>10. PlainFiles'
  BY <1>2, <1>3, <1>5 DEF BackupInv, PlainFiles, Encrypts
<1> QED
  BY <1>4, <1>6, <1>7, <1>8, <1>9, <1>10 DEF BackupInv

\* The archive is written.
LEMMA CreateArchive_Inv == ASSUME BackupInv, NEW b \in DOMAIN backup, CreateArchive(b) PROVE BackupInv'
<1> DEFINE r == [backup[b] EXCEPT !.at = IF Encrypting THEN "encrypt" ELSE "upload", !.archive = Archive(b)]
<1>1. /\ BackupTyped /\ backup[b].at = "archive" /\ b \in BackupIds /\ backup[b] \in BackupRun
      /\ backup[b].status = "error" /\ TheLoop(b)
  BY BackupTypes DEF BackupInv, CreateArchive, BackupRun
<1>2. Archive(b) \in [second : 1..MaxSecond, encrypted : BOOLEAN] /\ Archive(b) \in Archives
  BY <1>1, BackupTypes DEF Archive, Archives, BackupRun
<1>3. /\ r \in BackupRun /\ r.at = IF Encrypting THEN "encrypt" ELSE "upload"
      /\ r.archive = Archive(b) /\ r.status = "error" /\ r.second = backup[b].second
  BY <1>1, <1>2 DEF BackupRun
<1>4. /\ DOMAIN backup' = DOMAIN backup /\ backup'[b] = r
      /\ \A o \in DOMAIN backup \ {b} : backup'[o] = backup[o]
      /\ \A o \in DOMAIN backup' : o \in BackupIds /\ backup'[o] \in BackupRun
      /\ \A o \in DOMAIN backup' : backup'[o].status = "success" => backup'[o].at = "finish"
  <2>1. backup' = [backup EXCEPT ![b] = r]
    BY DEF CreateArchive
  <2> HIDE DEF r
  <2> QED
    BY <1>1, <1>3, <2>1, RunGoes
<1>5. /\ UNCHANGED <<second, backupLog, mishaps, failed, removed>>
      /\ dir' = PutArchive(Archive(b), b)
      /\ newer' = [o \in BackupIds |-> IF o = b THEN 0 ELSE newer[o] + 1]
  BY DEF CreateArchive
<1> HIDE DEF r
<1>6. /\ Archive(b)' = Archive(b) /\ FinalOf(b)' = Archive(b)
      /\ Encrypts(b)' <=> Encrypting
  BY <1>3, <1>4, BackupTypes DEF Archive, FinalOf, Encrypts
<1>7. /\ OneInTheLoop' /\ \A o \in DOMAIN backup' \ {b} : BackupHolds(o)'
      /\ \A o \in BackupIds \ {b} : ~ Encrypts(o) /\ ~ Encrypts(o)' /\ ~ WrittenTo(o) /\ ~ WrittenTo(o)'
  BY <1>1, <1>4, <1>5, OthersRest
<1>8. newer' \in [BackupIds -> Nat] /\ newer'[b] = 0 /\ \A o \in BackupIds \ {b} : newer'[o] = newer[o] + 1 /\ newer'[o] > 0
  BY <1>1, <1>5, BackupTypes
<1>9. /\ \A x \in 1..Len(dir') - 1 : \E i \in 1..Len(dir) : dir'[x] = dir[i]
      /\ dir' \in Seq(Files) /\ Len(dir') \in Nat \ {0} /\ dir'[Len(dir')] = Stored(Archive(b), b)
      /\ \A i, j \in 1..Len(dir') : dir'[i].archive = dir'[j].archive => i = j
  BY <1>1, <1>2, <1>5, PutMoves
<1>10. BackupTyped'
  BY <1>1, <1>4, <1>5, <1>8, <1>9, AreTyped, BackupTypes
<1>11. BackupHolds(b)'
  <2>1. b \notin failed \cap DOMAIN backupLog
    BY <1>1 DEF BackupInv, BackupHolds
  <2>2. Archive(b) = [second |-> backup'[b].second, encrypted |-> FALSE]
    BY <1>3, <1>4 DEF Archive
  <2>3. WrittenTo(b)' => Encrypting = FALSE
    BY <1>1, <1>3, <1>4, BackupTypes DEF WrittenTo
  <2>4. backup'[b].archive = Archive(b) /\ backup'[b].at # "unlink"
    BY <1>1, <1>3, <1>4
  <2> QED
    BY <1>5, <1>6, <1>8, <2>1, <2>2, <2>3, <2>4 DEF BackupHolds
<1>12. \A o \in DOMAIN backupLog' : RowHolds(o)'
  BY <1>4, <1>5, RowsStay
<1>13. ASSUME NEW x \in BackupIds PROVE FileHolds(x)'
  <2>1. CASE x = b
    <3>1. ~ Listed(b)'
      BY <1>5 DEF BackupInv, RowHolds, Listed
    <3>2. Stored(Archive(b), b).archive = Archive(b)
      BY DEF Stored
    <3>3. Len(dir') \in 1..Len(dir') /\ Len(dir') - Len(dir') <= newer'[b]
      BY <1>8, <1>9
    <3>4. WrittenTo(b)' => Lies(b)'
      BY <1>4, <1>6, <1>7, <1>9, <3>2, <3>3 DEF Lies
    <3> QED
      BY <2>1, <3>1, <3>4 DEF FileHolds
  <2>2. CASE x # b
    <3>1. Listed(x) => FinalOf(x)' = FinalOf(x)
      BY <1>4, <1>5 DEF FinalOf, Listed, BackupInv, RowHolds
    <3>2. WrittenTo(x)' \/ Listed(x)' => (WrittenTo(x) \/ Listed(x)) /\ FinalOf(x)' = FinalOf(x)
      BY <1>5, <1>7, <2>2, <3>1 DEF Listed
    <3>3. \A o \in DOMAIN backup' \ {x} : Encrypts(o)' => Archive(b) = Archive(o)'
      BY <1>4, <1>6, <1>7
    <3>4. FileHolds(x) /\ newer'[x] = newer[x] + 1 /\ removed' = removed
      BY <1>5, <1>8, <2>2 DEF BackupInv
    <3> QED
      BY <1>1, <1>2, <1>5, <2>2, <3>2, <3>3, <3>4, PutKeepsFile
  <2> QED
    BY <2>1, <2>2
<1>14. PlainFiles'
  <2> SUFFICES ASSUME Encrypting, NEW i \in 1..Len(dir'), NEW o \in BackupIds,
                      dir'[i].of = o, ~ dir'[i].archive.encrypted
               PROVE  o \in failed \/ (Encrypts(o)' /\ dir'[i].archive = Archive(o)')
    BY <1>5 DEF PlainFiles
  <2>1. CASE i = Len(dir')
    <3>1. o = b /\ dir'[i].archive = Archive(b)
      BY <1>9, <2>1 DEF Stored
    <3> QED
      BY <1>6, <3>1
  <2>2. CASE i # Len(dir')
    <3>1. i \in 1..Len(dir') - 1
      BY <1>9, <2>2
    <3>2. PICK j \in 1..Len(dir) : dir'[i] = dir[j]
      BY <1>9, <3>1
    <3>3. ~ Encrypts(b)
      BY <1>1 DEF Encrypts
    <3> QED
      BY <1>7, <3>2, <3>3 DEF BackupInv, PlainFiles
  <2> QED
    BY <2>1, <2>2
<1> QED
  BY <1>7, <1>10, <1>11, <1>12, <1>13, <1>14, <1>4 DEF BackupInv

\* It is encrypted.
LEMMA EncryptArchive_Inv == ASSUME BackupInv, NEW b \in DOMAIN backup, EncryptArchive(b) PROVE BackupInv'
<1>1. /\ BackupTyped /\ backup[b].at = "encrypt" /\ b \in BackupIds /\ backup[b] \in BackupRun
      /\ InTheLoop(b) /\ Encrypts(b)
  BY BackupTypes DEF BackupInv, EncryptArchive, InTheLoop, Encrypts
<1>2. EncArchive(b) \in [second : 1..MaxSecond, encrypted : BOOLEAN] /\ EncArchive(b) # Archive(b)
  BY <1>1 DEF EncArchive, Archive, BackupRun
<1>3. /\ DOMAIN backup' = DOMAIN backup /\ backup'[b].at = "unlink"
      /\ backup'[b].second = backup[b].second /\ backup'[b].archive = backup[b].archive
      /\ backup'[b].status = "error"
      /\ \A o \in DOMAIN backup \ {b} : backup'[o] = backup[o]
      /\ \A o \in DOMAIN backup' : o \in BackupIds /\ backup'[o] \in BackupRun
      /\ \A o \in DOMAIN backup' : backup'[o].status = "success" => backup'[o].at = "finish"
  BY <1>1, RunGoesTo DEF EncryptArchive
<1>4. /\ UNCHANGED <<second, backupLog, mishaps, failed, removed>>
      /\ dir' = PutArchive(EncArchive(b), b)
      /\ newer' = [o \in BackupIds |-> IF o = b THEN 0 ELSE newer[o] + 1]
  BY DEF EncryptArchive
<1>5. Archive(b)' = Archive(b) /\ EncArchive(b)' = EncArchive(b) /\ Encrypts(b)' /\ ~ WrittenTo(b)'
  BY <1>3 DEF Archive, EncArchive, Encrypts, WrittenTo
<1>6. /\ OneInTheLoop' /\ \A o \in DOMAIN backup' \ {b} : BackupHolds(o)'
      /\ \A o \in BackupIds \ {b} : ~ Encrypts(o) /\ ~ Encrypts(o)' /\ ~ WrittenTo(o) /\ ~ WrittenTo(o)'
  BY <1>1, <1>3, <1>4, OthersRest
<1>7. newer' \in [BackupIds -> Nat] /\ \A o \in BackupIds \ {b} : newer'[o] = newer[o] + 1 /\ newer'[o] > 0
  BY <1>1, <1>4, BackupTypes
<1>8. /\ \A x \in 1..Len(dir') - 1 : \E i \in 1..Len(dir) : dir'[x] = dir[i]
      /\ dir' \in Seq(Files) /\ Len(dir') \in Nat \ {0} /\ dir'[Len(dir')] = Stored(EncArchive(b), b)
      /\ \A i, j \in 1..Len(dir') : dir'[i].archive = dir'[j].archive => i = j
  BY <1>1, <1>2, <1>4, PutMoves
<1>9. BackupTyped'
  BY <1>1, <1>3, <1>4, <1>7, <1>8, AreTyped, BackupTypes
<1>10. BackupHolds(b)'
  <2>1. BackupHolds(b)
    BY DEF BackupInv
  <2>2. b \notin failed \cap DOMAIN backupLog
    BY <1>1, <2>1 DEF BackupHolds
  <2>3. dir'[Len(dir')].archive = EncArchive(b)
    BY <1>8 DEF Stored
  <2>4. \A i \in 1..Len(dir') : dir'[i].archive = EncArchive(b) => i = Len(dir')
    BY <1>8, <2>3
  <2>5. Encrypting /\ backup'[b].archive = Archive(b)
    BY <1>1, <1>3, <2>1 DEF BackupHolds
  <2> QED
    BY <1>3, <1>4, <1>5, <1>7, <2>2, <2>4, <2>5 DEF BackupHolds
<1>11. \A o \in DOMAIN backupLog' : RowHolds(o)'
  BY <1>3, <1>4, RowsStay
<1>12. ASSUME NEW x \in BackupIds PROVE FileHolds(x)'
  <2>1. CASE x = b
    BY <1>4, <1>5, <2>1 DEF BackupInv, RowHolds, Listed, FileHolds
  <2>2. CASE x # b
    <3>1. Listed(x) => FinalOf(x)' = FinalOf(x)
      BY <1>3, <1>4 DEF FinalOf, Listed, BackupInv, RowHolds
    <3>2. WrittenTo(x)' \/ Listed(x)' => (WrittenTo(x) \/ Listed(x)) /\ FinalOf(x)' = FinalOf(x)
      BY <1>4, <1>6, <2>2, <3>1 DEF Listed
    <3>3. \A o \in DOMAIN backup' \ {x} : Encrypts(o)' =>
            o \in DOMAIN backup /\ Encrypts(o) /\ Archive(o)' = Archive(o) /\ Archive(o) # EncArchive(b)
      BY <1>1, <1>2, <1>3, <1>5, <1>6
    <3>4. FileHolds(x) /\ newer'[x] = newer[x] + 1 /\ removed' = removed
      BY <1>4, <1>7, <2>2 DEF BackupInv
    <3> QED
      BY <1>1, <1>2, <1>4, <2>2, <3>2, <3>3, <3>4, PutKeepsFile
  <2> QED
    BY <2>1, <2>2
<1>13. PlainFiles'
  <2> SUFFICES ASSUME Encrypting, NEW i \in 1..Len(dir'), NEW o \in BackupIds,
                      dir'[i].of = o, ~ dir'[i].archive.encrypted
               PROVE  o \in failed \/ (Encrypts(o)' /\ dir'[i].archive = Archive(o)')
    BY <1>4 DEF PlainFiles
  <2>1. i \in 1..Len(dir') - 1
    <3>1. dir'[Len(dir')].archive.encrypted
      BY <1>8 DEF Stored, EncArchive
    <3>2. i # Len(dir')
      BY <3>1
    <3> QED
      BY <1>8, <3>2
  <2>2. PICK j \in 1..Len(dir) : dir'[i] = dir[j]
    BY <1>8, <2>1
  <2> QED
    BY <1>5, <1>6, <2>2 DEF BackupInv, PlainFiles
<1> QED
  BY <1>3, <1>6, <1>9, <1>10, <1>11, <1>12, <1>13 DEF BackupInv

\* The plain file goes: with it the one that was counted too much.
LEMMA UnlinkPlain_Inv == ASSUME BackupInv, NEW b \in DOMAIN backup, UnlinkPlain(b) PROVE BackupInv'
<1> DEFINE r == [backup[b] EXCEPT !.at = IF OnDisk(EncArchive(b)) THEN "upload" ELSE "finish",
                                  !.archive = EncArchive(b)]
<1>1. /\ BackupTyped /\ backup[b].at = "unlink" /\ b \in BackupIds /\ backup[b] \in BackupRun
      /\ InTheLoop(b) /\ Encrypts(b) /\ BackupHolds(b) /\ backup[b].status = "error"
  BY BackupTypes DEF BackupInv, UnlinkPlain, InTheLoop, Encrypts, BackupRun
<1>2. EncArchive(b) \in Archives /\ EncArchive(b) # Archive(b) /\ Encrypting = TRUE
  BY <1>1, BackupTypes DEF EncArchive, Archive, BackupRun, Archives, BackupHolds
<1>3. /\ r \in BackupRun /\ r.at = IF OnDisk(EncArchive(b)) THEN "upload" ELSE "finish"
      /\ r.archive = EncArchive(b) /\ r.status = "error" /\ r.second = backup[b].second
  BY <1>1, <1>2 DEF BackupRun
<1>4. /\ DOMAIN backup' = DOMAIN backup /\ backup'[b] = r
      /\ \A o \in DOMAIN backup \ {b} : backup'[o] = backup[o]
      /\ \A o \in DOMAIN backup' : o \in BackupIds /\ backup'[o] \in BackupRun
      /\ \A o \in DOMAIN backup' : backup'[o].status = "success" => backup'[o].at = "finish"
  <2>1. backup' = [backup EXCEPT ![b] = r]
    BY DEF UnlinkPlain
  <2> HIDE DEF r
  <2> QED
    BY <1>1, <1>3, <2>1, RunGoes
<1>5. /\ UNCHANGED <<second, backupLog, mishaps, removed>>
      /\ dir' = Unlinked(Archive(b)) /\ OnDisk(Archive(b))
      /\ newer' = [o \in BackupIds |-> IF o = b THEN 0 ELSE newer[o] - 1]
      /\ failed' = IF OnDisk(EncArchive(b)) THEN failed ELSE failed \cup {b}
  BY DEF UnlinkPlain
<1> HIDE DEF r
<1>6. FinalOf(b)' = EncArchive(b) /\ ~ Encrypts(b)'
  BY <1>3, <1>4 DEF FinalOf, Encrypts
<1>7. /\ OneInTheLoop' /\ \A o \in DOMAIN backup' \ {b} : BackupHolds(o)'
      /\ \A o \in BackupIds \ {b} : ~ Encrypts(o) /\ ~ Encrypts(o)' /\ ~ WrittenTo(o) /\ ~ WrittenTo(o)'
  BY <1>1, <1>4, <1>5, OthersRest
<1>8. newer' \in [BackupIds -> Nat] /\ newer'[b] = 0 /\ \A o \in BackupIds \ {b} : newer[o] \in Nat /\ newer'[o] = newer[o] - 1
  <2>1. newer \in [BackupIds -> Nat] /\ \A o \in BackupIds \ {b} : newer[o] > 0
    BY <1>1, BackupTypes DEF BackupHolds
  <2> QED
    BY <1>1, <1>5, <2>1
<1>9. /\ \A i \in 1..Len(dir) : dir[i].archive # Archive(b) =>
            \E x \in 1..Len(dir') :
              /\ dir'[x] = dir[i] /\ Len(dir') - x <= Len(dir) - i
              /\ (\E j \in i + 1..Len(dir) : dir[j].archive = Archive(b)) => Len(dir') - x <= Len(dir) - i - 1
              /\ \A j \in i + 1..Len(dir) : dir[j].archive # Archive(b) =>
                   \E y \in x + 1..Len(dir') : dir'[y] = dir[j]
      /\ \A x \in 1..Len(dir') :
           \E i \in 1..Len(dir) : /\ dir'[x] = dir[i] /\ dir[i].archive # Archive(b)
                                  /\ i = Len(dir) => x = Len(dir')
      /\ dir' \in Seq(Files) /\ Len(dir') \in Nat
      /\ \A i, j \in 1..Len(dir') : dir'[i].archive = dir'[j].archive => i = j
  BY <1>1, <1>5, UnlinkMoves
<1>10. BackupTyped'
  BY <1>1, <1>4, <1>5, <1>8, <1>9, AreTyped, BackupTypes
<1>11. BackupHolds(b)'
  <2>1. b \notin failed \cap DOMAIN backupLog
    BY <1>1 DEF BackupHolds
  <2>2. EncArchive(b) = [second |-> backup'[b].second, encrypted |-> TRUE]
    BY <1>3, <1>4 DEF EncArchive
  <2>3. b \in failed' \cap DOMAIN backupLog' => backup'[b].status = "error" /\ backup'[b].at = "finish"
    BY <1>3, <1>4, <1>5, <2>1
  <2> QED
    BY <1>2, <1>3, <1>4, <1>6, <2>2, <2>3 DEF BackupHolds
<1>12. \A o \in DOMAIN backupLog' : RowHolds(o)'
  BY <1>4, <1>5, RowsStay
<1>13. ASSUME NEW x \in BackupIds PROVE FileHolds(x)'
  <2>1. CASE x = b
    <3>1. ~ Listed(b)'
      BY <1>5 DEF BackupInv, RowHolds, Listed
    <3>2. ASSUME WrittenTo(b)' PROVE Lies(b)'
      <4>1. OnDisk(EncArchive(b))
        BY <1>3, <1>4, <3>2 DEF WrittenTo
      <4>2. PICK i \in 1..Len(dir) : dir[i].archive = EncArchive(b)
        BY <1>1, <4>1, DirIs DEF OnDisk
      <4>3. i = Len(dir) /\ Len(dir) \in Nat
        BY <1>1, <4>2, DirIs DEF BackupHolds
      <4>4. PICK n \in 1..Len(dir') : dir'[n] = dir[i] /\ Len(dir') - n <= Len(dir) - i
        BY <1>2, <1>9, <4>2
      <4>5. Len(dir') - n <= newer'[b]
        BY <1>8, <1>9, <4>3, <4>4
      <4> QED
        BY <1>4, <1>6, <1>7, <4>2, <4>4, <4>5 DEF Lies
    <3> QED
      BY <2>1, <3>1, <3>2 DEF FileHolds
  <2>2. CASE x # b
    <3> SUFFICES ASSUME Listed(x)', x \notin removed PROVE Lies(x)' \/ Superseded(x)'
      BY <1>5, <1>7, <2>2 DEF FileHolds
    <3>1. FinalOf(x)' = FinalOf(x) /\ FileHolds(x) /\ Listed(x) /\ FinalOf(x).encrypted
      BY <1>2, <1>4, <1>5 DEF FinalOf, Listed, BackupInv, RowHolds
    <3>2. newer'[x] = newer[x] - 1 /\ newer[x] \in Nat /\ Retention \in Nat
      BY <1>8, <2>2, BackupTypes, <1>1
    <3>3. \A o \in DOMAIN backup' : ~ Encrypts(o)'
      BY <1>4, <1>6, <1>7
    <3>4. CASE Lies(x)
      <4>1. PICK i \in 1..Len(dir) :
              /\ dir[i].archive = FinalOf(x) /\ Len(dir) - i <= newer[x]
              /\ Len(dir) - i < newer[x] \/ \E j \in i + 1..Len(dir) : dir[j].archive = Archive(b)
        BY <1>1, <1>5, <2>2, <3>4 DEF Lies
      <4>2. dir[i].archive # Archive(b)
        BY <3>1, <4>1 DEF Archive
      <4>3. PICK n \in 1..Len(dir') :
              /\ dir'[n] = dir[i] /\ Len(dir') - n <= Len(dir) - i
              /\ (\E j \in i + 1..Len(dir) : dir[j].archive = Archive(b)) => Len(dir') - n <= Len(dir) - i - 1
        BY <1>9, <4>2
      <4>4. i \in Nat /\ Len(dir) \in Nat /\ n \in Nat /\ Len(dir') \in Nat
        <5>1. Len(dir) \in Nat
          BY <1>1, DirIs
        <5>2. Len(dir') \in Nat
          BY <1>9
        <5> QED
          BY <5>1, <5>2
      <4>5. Len(dir') - n <= newer'[x]
        BY <3>2, <4>1, <4>3, <4>4
      <4> QED
        BY <3>1, <3>3, <4>1, <4>3, <4>5 DEF Lies
    <3>5. CASE Superseded(x)
      <4>1. newer[x] > Retention
        BY <1>1, <2>2, <3>5 DEF Superseded
      <4> QED
        BY <3>2, <3>3, <4>1 DEF Superseded
    <3> QED
      BY <1>5, <3>1, <3>4, <3>5 DEF FileHolds
  <2> QED
    BY <2>1, <2>2
<1>14. PlainFiles'
  <2> SUFFICES ASSUME Encrypting, NEW i \in 1..Len(dir'), NEW o \in BackupIds,
                      dir'[i].of = o, ~ dir'[i].archive.encrypted
               PROVE  o \in failed
    BY <1>5 DEF PlainFiles
  <2>1. PICK j \in 1..Len(dir) : dir'[i] = dir[j] /\ dir[j].archive # Archive(b)
    BY <1>9
  <2> QED
    BY <1>7, <2>1 DEF BackupInv, PlainFiles
<1> QED
  BY <1>4, <1>7, <1>10, <1>11, <1>12, <1>13, <1>14 DEF BackupInv

\* A request has deleted the plain file.
LEMMA PlainIsGone_Inv == ASSUME BackupInv, NEW b \in DOMAIN backup, PlainIsGone(b) PROVE BackupInv'
<1>1. /\ BackupTyped /\ backup[b].at \in {"encrypt", "unlink"} /\ b \in BackupIds
      /\ InTheLoop(b) /\ BackupHolds(b) /\ ~ OnDisk(Archive(b))
  BY BackupTypes DEF BackupInv, PlainIsGone, InTheLoop
<1>2. /\ DOMAIN backup' = DOMAIN backup /\ backup'[b].at = "finish" /\ backup'[b].status = "error"
      /\ \A o \in DOMAIN backup \ {b} : backup'[o] = backup[o]
      /\ \A o \in DOMAIN backup' : o \in BackupIds /\ backup'[o] \in BackupRun
      /\ \A o \in DOMAIN backup' : backup'[o].status = "success" => backup'[o].at = "finish"
  BY <1>1, RunGoesTo DEF PlainIsGone
<1>3. UNCHANGED <<second, dir, backupLog, mishaps, newer, removed>> /\ failed' = failed \cup {b}
  BY DEF PlainIsGone
<1>4. /\ OneInTheLoop' /\ \A o \in DOMAIN backup' \ {b} : BackupHolds(o)'
      /\ \A o \in BackupIds \ {b} : ~ Encrypts(o) /\ ~ Encrypts(o)' /\ ~ WrittenTo(o) /\ ~ WrittenTo(o)'
  BY <1>1, <1>2, <1>3, OthersRest
<1>5. BackupTyped'
  BY <1>1, <1>2, <1>3, AreTyped, DirIs, BackupTypes
<1>6. ~ Encrypts(b)' /\ ~ WrittenTo(b)'
  BY <1>2 DEF Encrypts, WrittenTo
<1>7. BackupHolds(b)'
  BY <1>2, <1>6 DEF BackupHolds
<1>8. \A o \in DOMAIN backupLog' : RowHolds(o)'
  BY <1>2, <1>3, RowsStay
<1>9. ASSUME NEW x \in BackupIds PROVE FileHolds(x)'
  <2>1. Listed(x) => FinalOf(x)' = FinalOf(x)
    BY <1>2, <1>3 DEF FinalOf, Listed, BackupInv, RowHolds
  <2>2. WrittenTo(x)' \/ Listed(x)' => (WrittenTo(x) \/ Listed(x)) /\ FinalOf(x)' = FinalOf(x)
    BY <1>3, <1>4, <1>6, <2>1 DEF Listed
  <2>3. \A o \in DOMAIN backup' : ~ Encrypts(o)'
    BY <1>2, <1>4, <1>6
  <2>4. FileHolds(x)
    BY DEF BackupInv
  <2> QED
    BY <1>1, <1>3, <2>2, <2>3, <2>4, FileStays
<1>10. PlainFiles'
  BY <1>3, <1>4 DEF BackupInv, PlainFiles
<1> QED
  BY <1>2, <1>4, <1>5, <1>7, <1>8, <1>9, <1>10 DEF BackupInv

\* It is uploaded.
LEMMA UploadArchive_Inv == ASSUME BackupInv, NEW b \in DOMAIN backup, UploadArchive(b) PROVE BackupInv'
<1>1. /\ BackupTyped /\ backup[b].at = "upload" /\ b \in BackupIds
      /\ InTheLoop(b) /\ BackupHolds(b) /\ WrittenTo(b)
  BY BackupTypes DEF BackupInv, UploadArchive, InTheLoop, WrittenTo
<1>2. /\ DOMAIN backup' = DOMAIN backup /\ backup'[b].at = "retain" /\ backup'[b].status = "error"
      /\ backup'[b].archive = backup[b].archive /\ backup'[b].second = backup[b].second
      /\ \A o \in DOMAIN backup \ {b} : backup'[o] = backup[o]
      /\ \A o \in DOMAIN backup' : o \in BackupIds /\ backup'[o] \in BackupRun
      /\ \A o \in DOMAIN backup' : backup'[o].status = "success" => backup'[o].at = "finish"
  BY <1>1, RunGoesTo DEF UploadArchive
<1>3. UNCHANGED <<second, dir, backupLog, mishaps, failed, newer, removed>>
  BY DEF UploadArchive
<1>4. /\ OneInTheLoop' /\ \A o \in DOMAIN backup' \ {b} : BackupHolds(o)'
      /\ \A o \in BackupIds \ {b} : ~ Encrypts(o) /\ ~ Encrypts(o)' /\ ~ WrittenTo(o) /\ ~ WrittenTo(o)'
  BY <1>1, <1>2, <1>3, OthersRest
<1>5. BackupTyped'
  BY <1>1, <1>2, <1>3, AreTyped, DirIs, BackupTypes
<1>6. ~ Encrypts(b)' /\ ~ Encrypts(b) /\ FinalOf(b)' = FinalOf(b)
  BY <1>1, <1>2 DEF Encrypts, FinalOf
<1>7. BackupHolds(b)'
  <2>1. b \notin failed \cap DOMAIN backupLog
    BY <1>1 DEF BackupHolds
  <2> QED
    BY <1>1, <1>2, <1>3, <1>6, <2>1 DEF BackupHolds
<1>8. \A o \in DOMAIN backupLog' : RowHolds(o)'
  BY <1>2, <1>3, RowsStay
<1>9. ASSUME NEW x \in BackupIds PROVE FileHolds(x)'
  <2>1. Listed(x) => FinalOf(x)' = FinalOf(x)
    BY <1>2, <1>3 DEF FinalOf, Listed, BackupInv, RowHolds
  <2>2. WrittenTo(x)' \/ Listed(x)' => (WrittenTo(x) \/ Listed(x)) /\ FinalOf(x)' = FinalOf(x)
    BY <1>1, <1>3, <1>4, <1>6, <2>1 DEF Listed
  <2>3. \A o \in DOMAIN backup' : ~ Encrypts(o)'
    BY <1>2, <1>4, <1>6
  <2>4. FileHolds(x)
    BY DEF BackupInv
  <2> QED
    BY <1>1, <1>3, <2>2, <2>3, <2>4, FileStays
<1>10. PlainFiles'
  BY <1>3, <1>4, <1>6 DEF BackupInv, PlainFiles
<1> QED
  BY <1>2, <1>4, <1>5, <1>7, <1>8, <1>9, <1>10 DEF BackupInv

\* The oldest go: those after which as many as are kept were written.
LEMMA ApplyRetention_Inv == ASSUME BackupInv, NEW b \in DOMAIN backup, ApplyRetention(b) PROVE BackupInv'
<1> DEFINE r == [backup[b] EXCEPT !.at = "finish", !.status = "success"]
<1>1. /\ BackupTyped /\ backup[b].at = "retain" /\ b \in BackupIds /\ backup[b] \in BackupRun
      /\ InTheLoop(b) /\ BackupHolds(b) /\ WrittenTo(b)
  BY BackupTypes DEF BackupInv, ApplyRetention, InTheLoop, WrittenTo
<1>2. /\ r \in BackupRun /\ r.at = "finish" /\ r.status = "success"
      /\ r.archive = backup[b].archive /\ r.second = backup[b].second
  BY <1>1 DEF BackupRun
<1>3. /\ DOMAIN backup' = DOMAIN backup /\ backup'[b] = r
      /\ \A o \in DOMAIN backup \ {b} : backup'[o] = backup[o]
      /\ \A o \in DOMAIN backup' : o \in BackupIds /\ backup'[o] \in BackupRun
      /\ \A o \in DOMAIN backup' : backup'[o].status = "success" => backup'[o].at = "finish"
  <2>1. backup' = [backup EXCEPT ![b] = r]
    BY DEF ApplyRetention
  <2> HIDE DEF r
  <2> QED
    BY <1>1, <1>2, <2>1, RunGoes
<1>4. UNCHANGED <<second, backupLog, mishaps, failed, newer, removed>> /\ dir' = SubSeq(dir, Excess + 1, Len(dir))
  BY DEF ApplyRetention
<1> HIDE DEF r
<1>5. /\ OneInTheLoop' /\ \A o \in DOMAIN backup' \ {b} : BackupHolds(o)'
      /\ \A o \in BackupIds \ {b} : ~ Encrypts(o) /\ ~ Encrypts(o)' /\ ~ WrittenTo(o) /\ ~ WrittenTo(o)'
  BY <1>1, <1>3, <1>4, OthersRest
<1>6. /\ Excess \in Nat /\ Retention \in Nat /\ Len(dir) \in Nat /\ dir \in Seq(Files)
      /\ Excess > 0 => Len(dir) - Excess = Retention
      /\ Excess <= Len(dir)
  BY <1>1, DirIs, BackupTypes DEF Excess
<1>7. dir' \in Seq(Files) /\ Len(dir') = Len(dir) - Excess /\ \A n \in 1..Len(dir') : dir'[n] = dir[Excess + n]
  <2>1. Excess + 1 \in 1..Len(dir) + 1
    BY <1>6
  <2> HIDE DEF Excess
  <2> QED
    BY <1>4, <1>6, <2>1
<1>8. \A n \in 1..Len(dir') : Excess + n \in 1..Len(dir)
  BY <1>6, <1>7
<1>9. ASSUME NEW i \in 1..Len(dir'), NEW j \in 1..Len(dir'), dir'[i].archive = dir'[j].archive
      PROVE  i = j
  <2>1. Excess + i = Excess + j
    BY <1>1, <1>7, <1>8, <1>9, DirIs
  <2> QED
    BY <1>6, <1>7, <2>1
<1>10. BackupTyped'
  BY <1>1, <1>3, <1>4, <1>7, <1>9, AreTyped, BackupTypes
<1>11. ~ Encrypts(b)' /\ ~ Encrypts(b) /\ FinalOf(b)' = FinalOf(b)
  BY <1>1, <1>2, <1>3 DEF Encrypts, FinalOf
<1>12. BackupHolds(b)'
  <2>1. b \notin failed \cap DOMAIN backupLog
    BY <1>1 DEF BackupHolds
  <2> QED
    BY <1>1, <1>2, <1>3, <1>4, <1>11, <2>1 DEF BackupHolds
<1>13. \A o \in DOMAIN backupLog' : RowHolds(o)'
  BY <1>3, <1>4, RowsStay
<1>14. ASSUME NEW x \in BackupIds PROVE FileHolds(x)'
  <2>1. Listed(x) => FinalOf(x)' = FinalOf(x)
    BY <1>3, <1>4 DEF FinalOf, Listed, BackupInv, RowHolds
  <2>2. WrittenTo(x)' \/ Listed(x)' => (WrittenTo(x) \/ Listed(x)) /\ FinalOf(x)' = FinalOf(x)
    BY <1>1, <1>4, <1>5, <1>11, <2>1 DEF Listed
  <2>3. \A o \in DOMAIN backup' : ~ Encrypts(o)'
    BY <1>3, <1>5, <1>11
  <2>4. FileHolds(x) /\ newer[x] \in Nat
    BY <1>1, BackupTypes DEF BackupInv
  <2>5. CASE Lies(x) /\ FinalOf(x)' = FinalOf(x)
    <3>1. PICK i \in 1..Len(dir) : dir[i].archive = FinalOf(x) /\ Len(dir) - i <= newer[x]
      BY <2>5 DEF Lies
    <3>2. CASE i > Excess
      <4>1. i - Excess \in 1..Len(dir') /\ Excess + (i - Excess) = i /\ Len(dir') - (i - Excess) = Len(dir) - i
        BY <1>6, <1>7, <3>2
      <4>2. dir'[i - Excess] = dir[i]
        BY <1>7, <4>1
      <4>3. Lies(x)'
        BY <1>4, <2>3, <2>5, <3>1, <4>1, <4>2 DEF Lies
      <4> QED
        BY <4>3 DEF FileHolds
    <3>3. CASE ~ (i > Excess)
      <4>1. newer[x] >= Retention
        BY <1>6, <2>4, <3>1, <3>3
      <4>2. Superseded(x)'
        BY <1>4, <2>3, <4>1 DEF Superseded
      <4> QED
        BY <4>2 DEF FileHolds
    <3> QED
      BY <3>2, <3>3
  <2>6. CASE Superseded(x)
    <3>1. Superseded(x)'
      BY <1>4, <2>3, <2>6 DEF Superseded
    <3> QED
      BY <3>1 DEF FileHolds
  <2> QED
    BY <1>4, <2>2, <2>4, <2>5, <2>6 DEF FileHolds
<1>15. PlainFiles'
  <2> SUFFICES ASSUME Encrypting, NEW i \in 1..Len(dir'), NEW o \in BackupIds,
                      dir'[i].of = o, ~ dir'[i].archive.encrypted
               PROVE  o \in failed
    BY <1>4 DEF PlainFiles
  <2>1. dir'[i] = dir[Excess + i] /\ Excess + i \in 1..Len(dir)
    BY <1>7, <1>8
  <2> QED
    BY <1>5, <1>11, <2>1 DEF BackupInv, PlainFiles
<1> QED
  BY <1>3, <1>5, <1>10, <1>12, <1>13, <1>14, <1>15 DEF BackupInv

\* A run fails, with or without a part of an archive left.
LEMMA BackupFails_Inv == ASSUME BackupInv, NEW b \in DOMAIN backup, BackupFails(b) PROVE BackupInv'
<1> DEFINE archive == IF backup[b].at = "archive" THEN Archive(b) ELSE EncArchive(b)
<1>1. /\ BackupTyped /\ backup[b].at \in {"snapshot", "archive", "encrypt", "upload"} /\ b \in BackupIds
      /\ TheLoop(b) /\ BackupHolds(b) /\ backup[b] \in BackupRun
  BY BackupTypes DEF BackupInv, BackupFails
<1>2. /\ DOMAIN backup' = DOMAIN backup /\ backup'[b].at = "finish" /\ backup'[b].status = "error"
      /\ \A o \in DOMAIN backup \ {b} : backup'[o] = backup[o]
      /\ \A o \in DOMAIN backup' : o \in BackupIds /\ backup'[o] \in BackupRun
      /\ \A o \in DOMAIN backup' : backup'[o].status = "success" => backup'[o].at = "finish"
  BY <1>1, RunGoesTo DEF BackupFails
<1>3. /\ UNCHANGED <<second, backupLog, removed>> /\ failed' = failed \cup {b}
      /\ mishaps' \in 0..MaxMishaps
      /\ \/ UNCHANGED <<dir, newer>>
         \/ dir' = PutArchive(archive, b) /\ newer' = [o \in BackupIds |-> newer[o] + 1]
  BY <1>1, BackupTypes DEF BackupFails, Mishap
<1>4. /\ OneInTheLoop' /\ \A o \in DOMAIN backup' \ {b} : BackupHolds(o)'
      /\ \A o \in BackupIds \ {b} : ~ Encrypts(o) /\ ~ Encrypts(o)' /\ ~ WrittenTo(o) /\ ~ WrittenTo(o)'
  BY <1>1, <1>2, <1>3, OthersRest
<1>5. archive \in [second : 1..MaxSecond, encrypted : BOOLEAN]
  BY <1>1 DEF EncArchive, Archive, BackupRun
<1>6. ~ Encrypts(b)' /\ ~ WrittenTo(b)'
  BY <1>2 DEF Encrypts, WrittenTo
<1>7. BackupHolds(b)'
  BY <1>2, <1>6 DEF BackupHolds
<1>8. \A o \in DOMAIN backupLog' : RowHolds(o)'
  BY <1>2, <1>3, RowsStay
<1>9. \A o \in DOMAIN backup' : ~ Encrypts(o)'
  BY <1>2, <1>4, <1>6
<1>10. ASSUME NEW x \in BackupIds
       PROVE  FileHolds(x) /\ (WrittenTo(x)' \/ Listed(x)' => (WrittenTo(x) \/ Listed(x)) /\ FinalOf(x)' = FinalOf(x))
  <2>1. Listed(x) => FinalOf(x)' = FinalOf(x)
    BY <1>2, <1>3 DEF FinalOf, Listed, BackupInv, RowHolds
  <2> QED
    BY <1>3, <1>4, <1>6, <2>1 DEF Listed, BackupInv
<1>11. ~ Listed(b)'
  BY <1>3 DEF BackupInv, RowHolds, Listed
<1>12. CASE UNCHANGED <<dir, newer>>
  <2>1. BackupTyped'
    BY <1>1, <1>2, <1>3, <1>12, AreTyped, DirIs, BackupTypes
  <2>2. \A x \in BackupIds : FileHolds(x)'
    BY <1>1, <1>3, <1>9, <1>10, <1>12, FileStays
  <2>3. PlainFiles'
    BY <1>3, <1>4, <1>12 DEF BackupInv, PlainFiles
  <2> QED
    BY <1>2, <1>4, <1>7, <1>8, <2>1, <2>2, <2>3 DEF BackupInv
<1>13. CASE dir' = PutArchive(archive, b) /\ newer' = [o \in BackupIds |-> newer[o] + 1]
  <2> HIDE DEF archive
  <2>1. newer' \in [BackupIds -> Nat] /\ \A o \in BackupIds : newer'[o] = newer[o] + 1
    BY <1>1, <1>13, BackupTypes
  <2>2. /\ \A x \in 1..Len(dir') - 1 : \E i \in 1..Len(dir) : dir'[x] = dir[i]
        /\ dir' \in Seq(Files) /\ Len(dir') \in Nat \ {0} /\ dir'[Len(dir')] = Stored(archive, b)
        /\ \A i, j \in 1..Len(dir') : dir'[i].archive = dir'[j].archive => i = j
    BY <1>1, <1>5, <1>13, PutMoves
  <2>3. BackupTyped'
    BY <1>1, <1>2, <1>3, <2>1, <2>2, AreTyped, BackupTypes
  <2>4. ASSUME NEW x \in BackupIds PROVE FileHolds(x)'
    <3>1. CASE x = b
      BY <1>6, <1>11, <3>1 DEF FileHolds
    <3>2. CASE x # b
      BY <1>1, <1>3, <1>5, <1>9, <1>10, <1>13, <2>1, <3>2, PutKeepsFile
    <3> QED
      BY <3>1, <3>2
  <2>5. PlainFiles'
    <3> SUFFICES ASSUME Encrypting, NEW i \in 1..Len(dir'), NEW o \in BackupIds \ {b},
                        dir'[i].of = o, ~ dir'[i].archive.encrypted
                 PROVE  o \in failed
      BY <1>3 DEF PlainFiles
    <3>1. i # Len(dir')
      BY <2>2 DEF Stored
    <3>2. i \in 1..Len(dir') - 1
      BY <2>2, <3>1
    <3>3. PICK j \in 1..Len(dir) : dir'[i] = dir[j]
      BY <2>2, <3>2
    <3> QED
      BY <1>4, <3>3 DEF BackupInv, PlainFiles
  <2> QED
    BY <1>2, <1>4, <1>7, <1>8, <2>3, <2>4, <2>5 DEF BackupInv
<1> QED
  BY <1>3, <1>12, <1>13

\* Its row is ended.
LEMMA FinishBackup_Inv == ASSUME BackupInv, NEW b \in DOMAIN backup, FinishBackup(b) PROVE BackupInv'
<1> DEFINE row == [status |-> backup[b].status, archive |-> backup[b].archive]
<1>1. /\ BackupTyped /\ backup[b].at = "finish" /\ b \in BackupIds
      /\ InTheLoop(b) /\ BackupHolds(b) /\ backup[b] \in BackupRun
  BY BackupTypes DEF BackupInv, FinishBackup, InTheLoop
<1>2. /\ DOMAIN backup' = DOMAIN backup \ {b} /\ \A o \in DOMAIN backup \ {b} : backup'[o] = backup[o]
      /\ UNCHANGED <<second, dir, newer, removed>>
  BY DEF FinishBackup, ForgetBackup
<1>3. /\ DOMAIN backupLog' = DOMAIN backupLog /\ \A o \in DOMAIN backupLog \ {b} : backupLog'[o] = backupLog[o]
      /\ failed \subseteq failed' /\ failed' \subseteq failed \cup {b} /\ mishaps' \in 0..MaxMishaps
      /\ b \in DOMAIN backupLog => \/ backupLog'[b] = row /\ failed' = failed
                                   \/ backupLog'[b] = backupLog[b] /\ b \in failed'
  <2>1. CASE /\ backupLog' = [k \in DOMAIN backupLog |->
                IF k = b THEN [status |-> backup[b].status, archive |-> backup[b].archive] ELSE backupLog[k]]
             /\ UNCHANGED <<mishaps, failed>>
    BY <1>1, <2>1, BackupTypes
  <2>2. CASE Mishap /\ failed' = failed \cup {b} /\ UNCHANGED backupLog
    BY <1>1, <2>2, BackupTypes DEF Mishap
  <2> QED
    BY <2>1, <2>2 DEF FinishBackup
<1>4. row \in LogRow /\ row.status = backup[b].status /\ row.archive = backup[b].archive /\ row.status # "running"
  BY <1>1 DEF BackupRun, LogRow
<1> HIDE DEF row
<1>5. /\ OneInTheLoop' /\ \A o \in DOMAIN backup' \ {b} : BackupHolds(o)'
      /\ \A o \in BackupIds \ {b} : ~ Encrypts(o) /\ ~ Encrypts(o)' /\ ~ WrittenTo(o) /\ ~ WrittenTo(o)'
  BY <1>1, <1>2, <1>3, OthersRest
<1>6. BackupTyped'
  <2>1. \A o \in DOMAIN backupLog' : o \in BackupIds /\ backupLog'[o] \in LogRow
    BY <1>1, <1>3, <1>4, BackupTypes
  <2>2. /\ \A o \in DOMAIN backup' : o \in BackupIds /\ backup'[o] \in BackupRun
        /\ \A o \in DOMAIN backup' : backup'[o].status = "success" => backup'[o].at = "finish"
    BY <1>1, <1>2, BackupTypes
  <2>3. second' \in 1..MaxSecond /\ newer' \in [BackupIds -> Nat]
    BY <1>1, <1>2, BackupTypes
  <2>4. dir' \in Seq(Files) /\ \A i, j \in 1..Len(dir') : dir'[i].archive = dir'[j].archive => i = j
    BY <1>1, <1>2, DirIs
  <2> QED
    BY <1>3, <2>1, <2>2, <2>3, <2>4, AreTyped
<1>7. ~ Encrypts(b) /\ ~ Encrypts(b)' /\ ~ WrittenTo(b)'
  BY <1>1, <1>2 DEF Encrypts, WrittenTo
<1>8. b \in DOMAIN backupLog => backupLog[b].status = "running"
  BY DEF BackupInv, RowHolds
<1>9. Listed(b)' => WrittenTo(b) /\ FinalOf(b)' = FinalOf(b) /\ b \notin failed' /\ backupLog'[b] = row
  <2>1. Listed(b)' => backup[b].status = "success" /\ backupLog'[b] = row /\ failed' = failed /\ b \in DOMAIN backupLog
    BY <1>3, <1>4, <1>8 DEF Listed
  <2>2. Listed(b)' => b \notin failed /\ WrittenTo(b)
    BY <1>1, <2>1 DEF BackupHolds, WrittenTo
  <2>3. Listed(b)' => FinalOf(b)' = FinalOf(b)
    BY <1>2, <1>4, <2>1 DEF FinalOf
  <2> QED
    BY <2>1, <2>2, <2>3
<1>10. ASSUME NEW o \in DOMAIN backupLog' PROVE RowHolds(o)'
  <2>1. CASE o = b
    <3>1. backupLog'[b].status = "running" => b \in failed'
      BY <1>3, <1>4, <1>10, <2>1
    <3>2. b \notin DOMAIN backup'
      BY <1>2
    <3>3. backupLog'[b].status = "success" => backupLog'[b].archive.second > 0 /\ backupLog'[b].archive.encrypted = Encrypting
      <4>1. Listed(b)' => backupLog'[b].archive = [second |-> backup[b].second, encrypted |-> Encrypting]
        BY <1>1, <1>4, <1>9 DEF BackupHolds
      <4>2. backup[b].second > 0
        BY <1>1, BackupTypes DEF BackupRun
      <4> QED
        BY <1>10, <2>1, <4>1, <4>2 DEF Listed
    <3>4. backupLog'[b].status = "success" => b \notin failed'
      BY <1>9, <1>10, <2>1 DEF Listed
    <3> QED
      BY <2>1, <3>1, <3>2, <3>3, <3>4 DEF RowHolds
  <2>2. CASE o # b
    BY <1>2, <1>3, <1>10, <2>2 DEF BackupInv, RowHolds
  <2> QED
    BY <2>1, <2>2
<1>11. ASSUME NEW x \in BackupIds PROVE FileHolds(x)'
  <2>1. x # b /\ Listed(x)' => Listed(x) /\ FinalOf(x)' = FinalOf(x)
    BY <1>2, <1>3 DEF FinalOf, Listed, BackupInv, RowHolds
  <2>2. WrittenTo(x)' \/ Listed(x)' => (WrittenTo(x) \/ Listed(x)) /\ FinalOf(x)' = FinalOf(x)
    BY <1>5, <1>7, <1>9, <2>1
  <2>3. \A o \in DOMAIN backup' : ~ Encrypts(o)'
    BY <1>2, <1>5, BackupTypes, <1>1
  <2>4. FileHolds(x)
    BY DEF BackupInv
  <2> QED
    BY <1>1, <1>2, <2>2, <2>3, <2>4, FileStays
<1>12. PlainFiles'
  BY <1>2, <1>3, <1>5, <1>7 DEF BackupInv, PlainFiles
<1> QED
  BY <1>2, <1>5, <1>6, <1>10, <1>11, <1>12 DEF BackupInv

\* A request deletes an archive by the name in its row, and the row.
LEMMA DeleteBackup_Inv == ASSUME BackupInv, NEW b \in BackupIds, DeleteBackup(b) PROVE BackupInv'
<1> DEFINE gone == backupLog[b].archive
<1>1. BackupTyped /\ b \in DOMAIN backupLog /\ NoArchive.second = 0
  BY DEF BackupInv, DeleteBackup, NoArchive
<1>2. /\ dir' = Unlinked(gone) /\ removed \subseteq removed'
      /\ gone # NoArchive => /\ \A o \in DOMAIN backupLog : backupLog[o].archive = gone => o \in removed'
                            /\ \A o \in DOMAIN backup : backup[o].archive = gone => o \in removed'
      /\ DOMAIN backupLog' = DOMAIN backupLog \ {b}
      /\ \A o \in DOMAIN backupLog \ {b} : backupLog'[o] = backupLog[o]
      /\ UNCHANGED <<second, backup, failed, newer>> /\ mishaps' \in 0..MaxMishaps
  <2>1. mishaps' \in 0..MaxMishaps
    BY <1>1, BackupTypes DEF DeleteBackup, Mishap
  <2> QED
    BY <2>1 DEF DeleteBackup, ForgetBackup
<1> HIDE DEF gone
<1>3. /\ \A i \in 1..Len(dir) : dir[i].archive # gone =>
            \E x \in 1..Len(dir') :
              /\ dir'[x] = dir[i] /\ Len(dir') - x <= Len(dir) - i
              /\ (\E j \in i + 1..Len(dir) : dir[j].archive = gone) => Len(dir') - x <= Len(dir) - i - 1
              /\ \A j \in i + 1..Len(dir) : dir[j].archive # gone =>
                   \E y \in x + 1..Len(dir') : dir'[y] = dir[j]
      /\ \A x \in 1..Len(dir') :
           \E i \in 1..Len(dir) : /\ dir'[x] = dir[i] /\ dir[i].archive # gone
                                  /\ i = Len(dir) => x = Len(dir')
      /\ dir' \in Seq(Files) /\ Len(dir') \in Nat
      /\ \A i, j \in 1..Len(dir') : dir'[i].archive = dir'[j].archive => i = j
  BY <1>1, <1>2, UnlinkMoves
<1>4. BackupTyped'
  <2>1. \A o \in DOMAIN backupLog' : o \in BackupIds /\ backupLog'[o] \in LogRow
    BY <1>1, <1>2, BackupTypes
  <2>2. /\ \A o \in DOMAIN backup' : o \in BackupIds /\ backup'[o] \in BackupRun
        /\ \A o \in DOMAIN backup' : backup'[o].status = "success" => backup'[o].at = "finish"
    BY <1>1, <1>2, BackupTypes
  <2>3. second' \in 1..MaxSecond /\ newer' \in [BackupIds -> Nat]
    BY <1>1, <1>2, BackupTypes
  <2> QED
    BY <1>2, <1>3, <2>1, <2>2, <2>3, AreTyped
<1>5. OneInTheLoop'
  BY <1>2 DEF BackupInv, OneInTheLoop, InTheLoop
<1>6. \A o \in BackupIds : /\ (Encrypts(o)' <=> Encrypts(o)) /\ (WrittenTo(o)' <=> WrittenTo(o))
                          /\ Archive(o)' = Archive(o) /\ EncArchive(o)' = EncArchive(o)
  BY <1>2 DEF Encrypts, WrittenTo, Archive, EncArchive
<1>7. ASSUME NEW o \in DOMAIN backup' PROVE BackupHolds(o)'
  <2>1. BackupHolds(o) /\ o \in BackupIds
    BY <1>1, <1>2, <1>7, BackupTypes DEF BackupInv
  <2>2. backup'[o].at = "unlink" =>
          \A i \in 1..Len(dir') : dir'[i].archive = EncArchive(o)' => i = Len(dir')
    <3>1. SUFFICES ASSUME backup'[o].at = "unlink", NEW x \in 1..Len(dir'),
                          dir'[x].archive = EncArchive(o)'
                   PROVE  x = Len(dir')
      OBVIOUS
    <3>2. \A i \in 1..Len(dir) : dir[i].archive = EncArchive(o) => i = Len(dir)
      BY <1>2, <2>1, <3>1 DEF BackupHolds
    <3>3. PICK i \in 1..Len(dir) : dir'[x] = dir[i] /\ (i = Len(dir) => x = Len(dir'))
      BY <1>3
    <3>4. dir[i].archive = EncArchive(o)
      BY <1>6, <2>1, <3>1, <3>3
    <3> QED
      BY <3>2, <3>3, <3>4
  <2> QED
    BY <1>2, <1>6, <2>1, <2>2 DEF BackupHolds
<1>8. \A o \in DOMAIN backupLog' : RowHolds(o)'
  BY <1>2 DEF BackupInv, RowHolds
<1>9. ASSUME NEW x \in BackupIds PROVE FileHolds(x)'
  <2> SUFFICES ASSUME WrittenTo(x)' \/ Listed(x)', x \notin removed' PROVE Lies(x)' \/ Superseded(x)'
    BY DEF FileHolds
  <2>1. /\ WrittenTo(x) \/ Listed(x)
        /\ FinalOf(x)' = FinalOf(x)
        /\ FinalOf(x) # gone /\ newer[x] \in Nat
    <3>1. CASE WrittenTo(x)'
      <4>1. WrittenTo(x) /\ FinalOf(x)' = FinalOf(x) /\ FinalOf(x) = backup[x].archive
        BY <1>2, <1>6, <3>1 DEF FinalOf, WrittenTo
      <4>2. backup[x].archive.second > 0
        <5>1. x \in DOMAIN backup /\ backup[x] \in BackupRun
          BY <1>1, <4>1, BackupTypes DEF WrittenTo
        <5>2. backup[x].archive = [second |-> backup[x].second, encrypted |-> Encrypting]
          BY <4>1, <5>1 DEF BackupInv, BackupHolds
        <5> QED
          BY <1>1, <5>1, <5>2, BackupTypes DEF BackupRun
      <4>3. FinalOf(x) # gone
        BY <1>1, <1>2, <4>1, <4>2 DEF WrittenTo
      <4> QED
        BY <1>1, <4>1, <4>3, BackupTypes
    <3>2. CASE Listed(x)'
      <4>1. Listed(x) /\ RowHolds(x) /\ x \in DOMAIN backupLog \ {b}
        BY <1>2, <3>2 DEF Listed, BackupInv
      <4>2. FinalOf(x)' = FinalOf(x) /\ FinalOf(x) = backupLog[x].archive /\ backupLog[x].archive.second > 0
        BY <1>2, <4>1 DEF FinalOf, Listed, RowHolds
      <4>3. FinalOf(x) # gone
        BY <1>1, <1>2, <4>1, <4>2
      <4> QED
        BY <1>1, <4>1, <4>2, <4>3, BackupTypes
    <3> QED
      BY <3>1, <3>2
  <2>2. CASE Lies(x)
    <3>1. PICK i \in 1..Len(dir) :
            /\ dir[i].archive = FinalOf(x) /\ Len(dir) - i <= newer[x]
            /\ \A o \in DOMAIN backup \ {x} :
                 Encrypts(o) /\ OnDisk(Archive(o)) =>
                   Len(dir) - i < newer[x] \/ \E j \in i + 1..Len(dir) : dir[j].archive = Archive(o)
      BY <2>2 DEF Lies
    <3>2. PICK n \in 1..Len(dir') :
            /\ dir'[n] = dir[i] /\ Len(dir') - n <= Len(dir) - i
            /\ \A j \in i + 1..Len(dir) : dir[j].archive # gone =>
                 \E y \in n + 1..Len(dir') : dir'[y] = dir[j]
      BY <1>3, <2>1, <3>1
    <3>3. Len(dir') - n <= newer[x] /\ (Len(dir) - i < newer[x] => Len(dir') - n < newer[x])
      <4>1. Len(dir) \in Nat
        BY <1>1, DirIs
      <4>2. Len(dir') \in Nat
        BY <1>3
      <4> QED
        BY <2>1, <3>1, <3>2, <4>1, <4>2
    <3>4. ASSUME NEW o \in DOMAIN backup' \ {x}, Encrypts(o)', OnDisk(Archive(o))'
          PROVE  Len(dir') - n < newer'[x] \/ \E j \in n + 1..Len(dir') : dir'[j].archive = Archive(o)'
      <4>1. o \in BackupIds /\ o \in DOMAIN backup \ {x}
        BY <1>1, <1>2, <3>4, BackupTypes
      <4>2. Encrypts(o) /\ Archive(o)' = Archive(o)
        BY <1>6, <3>4, <4>1
      <4>3. PICK m \in 1..Len(dir') : dir'[m].archive = Archive(o)
        <5>1. DOMAIN dir' = 1..Len(dir')
          BY <1>3
        <5> QED
          BY <3>4, <4>2, <5>1 DEF OnDisk
      <4>4. PICK p \in 1..Len(dir) : dir'[m] = dir[p] /\ dir[p].archive # gone
        BY <1>3
      <4>5. OnDisk(Archive(o)) /\ Archive(o) # gone
        BY <1>1, <4>3, <4>4, DirIs DEF OnDisk
      <4>6. Len(dir) - i < newer[x] \/ \E j \in i + 1..Len(dir) : dir[j].archive = Archive(o)
        BY <3>1, <4>1, <4>2, <4>5
      <4> QED
        BY <1>2, <3>2, <3>3, <4>2, <4>5, <4>6
    <3> QED
      BY <1>2, <2>1, <3>1, <3>2, <3>3, <3>4 DEF Lies
  <2>3. CASE Superseded(x)
    <3>1. \A o \in DOMAIN backup : o \in BackupIds
      BY <1>1, BackupTypes
    <3> QED
      BY <1>2, <1>6, <2>3, <3>1 DEF Superseded
  <2>4. x \notin removed
    BY <1>2
  <2> QED
    BY <2>1, <2>2, <2>3, <2>4 DEF FileHolds, BackupInv
<1>10. PlainFiles'
  <2> SUFFICES ASSUME Encrypting, NEW i \in 1..Len(dir'), NEW o \in BackupIds,
                      dir'[i].of = o, ~ dir'[i].archive.encrypted
               PROVE  o \in failed \/ (Encrypts(o)' /\ dir'[i].archive = Archive(o)')
    BY <1>2 DEF PlainFiles
  <2>1. PICK j \in 1..Len(dir) : dir'[i] = dir[j]
    BY <1>3
  <2> QED
    BY <1>6, <2>1 DEF BackupInv, PlainFiles
<1> QED
  BY <1>4, <1>5, <1>7, <1>8, <1>9, <1>10 DEF BackupInv

\* The process crashes.
LEMMA CrashBackups_Inv == ASSUME BackupInv, CrashBackups PROVE BackupInv'
<1>1. /\ BackupTyped /\ DOMAIN backup' = {} /\ UNCHANGED <<second, dir, backupLog, newer, removed>>
      /\ failed' = failed \cup DOMAIN backup /\ mishaps' \in 0..MaxMishaps
  BY BackupTypes DEF BackupInv, CrashBackups, Mishap
<1>2. BackupTyped'
  BY <1>1, AreTyped, DirIs, BackupTypes
<1>3. \A o \in DOMAIN backupLog' : RowHolds(o)'
  BY <1>1 DEF BackupInv, RowHolds
<1>4. ASSUME NEW x \in BackupIds PROVE FileHolds(x)'
  <2>1. WrittenTo(x)' \/ Listed(x)' => (WrittenTo(x) \/ Listed(x)) /\ FinalOf(x)' = FinalOf(x)
    BY <1>1 DEF WrittenTo, Listed, FinalOf, BackupInv, RowHolds
  <2>2. FileHolds(x)
    BY DEF BackupInv
  <2> QED
    BY <1>1, <2>1, <2>2, FileStays
<1>5. PlainFiles'
  BY <1>1 DEF BackupInv, PlainFiles, Encrypts
<1>6. OneInTheLoop' /\ \A o \in DOMAIN backup' : BackupHolds(o)'
  BY <1>1 DEF OneInTheLoop
<1> QED
  BY <1>2, <1>3, <1>4, <1>5, <1>6 DEF BackupInv

\* So every step keeps it.
LEMMA BackupNext_Inv == ASSUME BackupInv, [BackupNext]_backupVars PROVE BackupInv'
<1>1. CASE BackupStep
  BY <1>1, SnapshotsDone_Inv, CreateArchive_Inv, EncryptArchive_Inv, UnlinkPlain_Inv, PlainIsGone_Inv,
     UploadArchive_Inv, ApplyRetention_Inv, FinishBackup_Inv DEF BackupStep
<1>2. CASE TickSecond \/ CrashBackups \/ UNCHANGED backupVars
  BY <1>2, TickSecond_Inv, CrashBackups_Inv
<1>3. CASE \E b \in BackupIds : StartBackup(b) \/ DeleteBackup(b)
  BY <1>3, StartBackup_Inv, DeleteBackup_Inv
<1>4. CASE \E b \in DOMAIN backup : BackupFails(b)
  BY <1>4, BackupFails_Inv
<1> QED
  BY <1>1, <1>2, <1>3, <1>4 DEF BackupNext

\* And it implies what is promised.
LEMMA BackupInv_Safe == ASSUME BackupInv PROVE BackupSafe
<1>1. BackupTypeOK /\ BackupTyped
  BY DEF BackupInv, BackupTyped
<1>2. SuccessIsOnDisk
  <2> SUFFICES ASSUME NEW b \in DOMAIN backupLog, backupLog[b].status = "success", b \notin removed,
                      newer[b] < Retention, ~ Namesake(b)
               PROVE  \E i \in DOMAIN dir : dir[i] = Stored(backupLog[b].archive, b)
    BY DEF SuccessIsOnDisk
  <2>1. b \in BackupIds /\ Listed(b) /\ FinalOf(b) = backupLog[b].archive /\ newer[b] \in Nat /\ Retention \in Nat
    BY <1>1, BackupTypes DEF BackupInv, RowHolds, FinalOf, Listed
  <2>2. Lies(b)
    BY <2>1 DEF BackupInv, FileHolds, Superseded
  <2>3. PICK i \in 1..Len(dir) : dir[i].archive = backupLog[b].archive
    BY <2>1, <2>2 DEF Lies
  <2>4. i \in DOMAIN dir /\ dir[i] \in Files
    BY <1>1, DirIs
  <2>5. dir[i] = Stored(backupLog[b].archive, dir[i].of) /\ dir[i].of \in BackupIds
    BY <2>3, <2>4 DEF Stored, Files
  <2>6. dir[i].of = b
    BY <2>4, <2>5 DEF Namesake
  <2> QED
    BY <2>4, <2>5, <2>6
<1>3. PlainIsUnfinished
  <2>1. \A i \in DOMAIN dir : i \in 1..Len(dir) /\ dir[i].of \in BackupIds
    BY <1>1, DirIs DEF Files
  <2> QED
    BY <2>1 DEF PlainIsUnfinished, BackupInv, PlainFiles, Encrypts
<1>4. RowsAreTrue
  BY DEF RowsAreTrue, BackupInv, RowHolds
<1> QED
  BY <1>1, <1>2, <1>3, <1>4 DEF BackupSafe

-----------------------------------------------------------------------------
(* The migrations (Migrations)                                             *)

\* The objects that a migration makes.
Names(v) == Range(Migrations[v].statements)

Objects == UNION {Names(v) : v \in Versions}

Releases == Versions \cup {NoVersion, 7}

MigrationsTyped ==
  /\ release \in Releases /\ savedRelease \in Releases
  /\ stage \in {"none", "running", "ran", "restarting"}
  /\ pending \subseteq Versions /\ ranVersions \subseteq Versions
  /\ atVersion \in Versions \cup {NoVersion} /\ work \in Seq(Objects)
  /\ blind \subseteq FeedbackColumns

\* A run is at a version that is before all that are pending, and all that it
\* has yet to make of it is still to be done; what is neither has its tables.
RunIsTrue ==
  /\ stage # "running" => pending = {} /\ atVersion = NoVersion
  /\ atVersion = NoVersion => work = <<>>
  /\ atVersion # NoVersion =>
       /\ \A p \in pending : atVersion < p
       /\ Range(work) \subseteq Names(atVersion)
       /\ Names(atVersion) \subseteq objects \cup blind \cup Range(work)
  /\ stage = "running" => \A v \in Versions : v \in pending \/ v = atVersion \/ Tabled(v)

\* Up to a version everything has its tables.
TabledUpTo(n) == \A v \in Versions : v <= n => Tabled(v)

MigrationInv ==
  /\ MigrationsTyped /\ RunIsTrue /\ MadeInOrder /\ PartsAreExplained
  /\ TabledUpTo(release) /\ TabledUpTo(savedRelease)
  /\ \A v \in ranVersions : TabledUpTo(v)

-----------------------------------------------------------------------------

\* What the migrations make.
LEMMA NamesAre ==
  /\ Names(8) = {}
  /\ Names(10) = {"trust_policies", "trust_audit", "action_sequences", "action_log", "idx_log_session",
                  "idx_log_timestamp", "token_budgets", "token_usage_log", "idx_usage_time", "idx_usage_model"}
  /\ Names(11) = {"scheduled_jobs", "job_runs"}
  /\ Names(12) = {"email_sync_log"}
  /\ Names(13) = {"rss_feeds", "rss_entries"}
  /\ Names(14) = {"web_search_log", "idx_web_created", "idx_web_status"}
  /\ Names(15) = {"backup_log", "idx_backup_started"}
  /\ Names(16) = {"docs_ingestion_log", "idx_docs_status", "idx_docs_file_type", "idx_docs_last_indexed"}
  /\ Names(17) = {"voice_sessions", "idx_voice_started"}
  /\ Names(18) = {"query_type", "model_used", "was_helpful", "correction_text",
                  "memory_decay_log", "idx_decay_collection", "idx_decay_created", "routing_adjustments"}
  /\ Names(19) = {"push_subscriptions", "idx_push_endpoint", "idx_push_created"}
  /\ Names(20) = {"github_sync_log", "idx_github_synced", "idx_github_status",
                  "obsidian_index", "idx_obsidian_source", "idx_obsidian_target"}
  /\ Names(21) = {"browser_action_log", "idx_browser_session", "idx_browser_started", "idx_browser_status"}
<1>1. Migrations[8] = Initial8 /\ Migrations[10] = Evolution10 /\ Migrations[11] = Scheduler11
      /\ Migrations[12] = Mail12 /\ Migrations[13] = Rss13 /\ Migrations[14] = WebSearch14
      /\ Migrations[15] = Backup15 /\ Migrations[16] = LocalDocs16 /\ Migrations[17] = Voice17
      /\ Migrations[18] = Feedback18 /\ Migrations[19] = Push19 /\ Migrations[20] = GithubObsidian20
      /\ Migrations[21] = Browser21
  BY DEF Migrations, Versions
<1>2. Names(8) = {}
  BY <1>1 DEF Names, Range, Initial8, Migration
<1>3. Names(10) = {"trust_policies", "trust_audit", "action_sequences", "action_log", "idx_log_session",
                  "idx_log_timestamp", "token_budgets", "token_usage_log", "idx_usage_time", "idx_usage_model"}
  BY <1>1 DEF Names, Range, Evolution10, Migration
<1>4. Names(11) = {"scheduled_jobs", "job_runs"}
  BY <1>1 DEF Names, Range, Scheduler11, Migration
<1>5. Names(12) = {"email_sync_log"}
  BY <1>1 DEF Names, Range, Mail12, Migration
<1>6. Names(13) = {"rss_feeds", "rss_entries"}
  BY <1>1 DEF Names, Range, Rss13, Migration
<1>7. Names(14) = {"web_search_log", "idx_web_created", "idx_web_status"}
  BY <1>1 DEF Names, Range, WebSearch14, Migration
<1>8. Names(15) = {"backup_log", "idx_backup_started"}
  BY <1>1 DEF Names, Range, Backup15, Migration
<1>9. Names(16) = {"docs_ingestion_log", "idx_docs_status", "idx_docs_file_type",
            "idx_docs_last_indexed"}
  BY <1>1 DEF Names, Range, LocalDocs16, Migration
<1>10. Names(17) = {"voice_sessions", "idx_voice_started"}
  BY <1>1 DEF Names, Range, Voice17, Migration
<1>11. Names(18) = {"query_type", "model_used", "was_helpful", "correction_text",
            "memory_decay_log", "idx_decay_collection", "idx_decay_created", "routing_adjustments"}
  BY <1>1 DEF Names, Range, Feedback18, Migration
<1>12. Names(19) = {"push_subscriptions", "idx_push_endpoint", "idx_push_created"}
  BY <1>1 DEF Names, Range, Push19, Migration
<1>13. Names(20) = {"github_sync_log", "idx_github_synced", "idx_github_status",
            "obsidian_index", "idx_obsidian_source", "idx_obsidian_target"}
  BY <1>1 DEF Names, Range, GithubObsidian20, Migration
<1>14. Names(21) = {"browser_action_log", "idx_browser_session", "idx_browser_started",
            "idx_browser_status"}
  BY <1>1 DEF Names, Range, Browser21, Migration
<1> QED
  BY <1>2, <1>3, <1>4, <1>5, <1>6, <1>7, <1>8, <1>9, <1>10, <1>11, <1>12, <1>13, <1>14

\* The tables that the checks ask for.
LEMMA AskedAre ==
  /\ Migrations[8].asked = {} /\ Migrations[10].asked = {}
  /\ \A v \in Versions : Migrations[v].asked \subseteq Lasting(v)
  /\ \A v \in Versions : Migrations[v].statements \in Seq(Names(v))
<1>1. Migrations[8].asked = {} /\ Migrations[10].asked = {}
  BY DEF Migrations, Versions, Migration, Initial8, Evolution10
<1>2. ASSUME NEW v \in Versions
      PROVE  Migrations[v].asked \subseteq Names(v) /\ Migrations[v].asked \cap FeedbackColumns = {}
  <2>1. CASE v = 8
    BY <2>1, NamesAre DEF Migrations, Versions, Migration, Initial8, FeedbackColumns
  <2>2. CASE v = 10
    BY <2>2, NamesAre DEF Migrations, Versions, Migration, Evolution10, FeedbackColumns
  <2>3. CASE v = 11
    BY <2>3, NamesAre DEF Migrations, Versions, Migration, Scheduler11, FeedbackColumns
  <2>4. CASE v = 12
    BY <2>4, NamesAre DEF Migrations, Versions, Migration, Mail12, FeedbackColumns
  <2>5. CASE v = 13
    BY <2>5, NamesAre DEF Migrations, Versions, Migration, Rss13, FeedbackColumns
  <2>6. CASE v = 14
    BY <2>6, NamesAre DEF Migrations, Versions, Migration, WebSearch14, FeedbackColumns
  <2>7. CASE v = 15
    BY <2>7, NamesAre DEF Migrations, Versions, Migration, Backup15, FeedbackColumns
  <2>8. CASE v = 16
    BY <2>8, NamesAre DEF Migrations, Versions, Migration, LocalDocs16, FeedbackColumns
  <2>9. CASE v = 17
    BY <2>9, NamesAre DEF Migrations, Versions, Migration, Voice17, FeedbackColumns
  <2>10. CASE v = 18
    BY <2>10, NamesAre DEF Migrations, Versions, Migration, Feedback18, FeedbackColumns
  <2>11. CASE v = 19
    BY <2>11, NamesAre DEF Migrations, Versions, Migration, Push19, FeedbackColumns
  <2>12. CASE v = 20
    BY <2>12, NamesAre DEF Migrations, Versions, Migration, GithubObsidian20, FeedbackColumns
  <2>13. CASE v = 21
    BY <2>13, NamesAre DEF Migrations, Versions, Migration, Browser21, FeedbackColumns
  <2> QED
    BY <2>1, <2>2, <2>3, <2>4, <2>5, <2>6, <2>7, <2>8, <2>9, <2>10, <2>11, <2>12, <2>13 DEF Versions
<1>3. ASSUME NEW v \in Versions
      PROVE  Migrations[v].statements \in Seq(Names(v))
  <2>1. CASE v = 8
    <3>1. Migrations[v].statements = <<>>
      BY <2>1 DEF Migrations, Versions, Migration, Initial8
    <3> QED
      BY <3>1
  <2>2. CASE v = 10
    <3>1. Evolution10.statements \in Seq({"trust_policies", "trust_audit",
              "action_sequences", "action_log", "idx_log_session", "idx_log_timestamp",
              "token_budgets", "token_usage_log", "idx_usage_time", "idx_usage_model"})
      BY DEF Evolution10, Migration
    <3>2. Migrations[v] = Evolution10
      BY <2>2 DEF Migrations, Versions
    <3> QED
      BY <2>2, <3>1, <3>2, NamesAre
  <2>3. CASE v = 11
    <3>1. Scheduler11.statements \in Seq({"scheduled_jobs", "job_runs"})
      BY DEF Scheduler11, Migration
    <3>2. Migrations[v] = Scheduler11
      BY <2>3 DEF Migrations, Versions
    <3> QED
      BY <2>3, <3>1, <3>2, NamesAre
  <2>4. CASE v = 12
    <3>1. Mail12.statements \in Seq({"email_sync_log"})
      BY DEF Mail12, Migration
    <3>2. Migrations[v] = Mail12
      BY <2>4 DEF Migrations, Versions
    <3> QED
      BY <2>4, <3>1, <3>2, NamesAre
  <2>5. CASE v = 13
    <3>1. Rss13.statements \in Seq({"rss_feeds", "rss_entries"})
      BY DEF Rss13, Migration
    <3>2. Migrations[v] = Rss13
      BY <2>5 DEF Migrations, Versions
    <3> QED
      BY <2>5, <3>1, <3>2, NamesAre
  <2>6. CASE v = 14
    <3>1. WebSearch14.statements \in Seq({"web_search_log", "idx_web_created",
              "idx_web_status"})
      BY DEF WebSearch14, Migration
    <3>2. Migrations[v] = WebSearch14
      BY <2>6 DEF Migrations, Versions
    <3> QED
      BY <2>6, <3>1, <3>2, NamesAre
  <2>7. CASE v = 15
    <3>1. Backup15.statements \in Seq({"backup_log", "idx_backup_started"})
      BY DEF Backup15, Migration
    <3>2. Migrations[v] = Backup15
      BY <2>7 DEF Migrations, Versions
    <3> QED
      BY <2>7, <3>1, <3>2, NamesAre
  <2>8. CASE v = 16
    <3>1. LocalDocs16.statements \in Seq({"docs_ingestion_log", "idx_docs_status",
              "idx_docs_file_type", "idx_docs_last_indexed"})
      BY DEF LocalDocs16, Migration
    <3>2. Migrations[v] = LocalDocs16
      BY <2>8 DEF Migrations, Versions
    <3> QED
      BY <2>8, <3>1, <3>2, NamesAre
  <2>9. CASE v = 17
    <3>1. Voice17.statements \in Seq({"voice_sessions", "idx_voice_started"})
      BY DEF Voice17, Migration
    <3>2. Migrations[v] = Voice17
      BY <2>9 DEF Migrations, Versions
    <3> QED
      BY <2>9, <3>1, <3>2, NamesAre
  <2>10. CASE v = 18
    <3>1. Feedback18.statements \in Seq({"query_type", "model_used", "was_helpful",
              "correction_text", "memory_decay_log", "idx_decay_collection",
              "idx_decay_created", "routing_adjustments"})
      BY DEF Feedback18, Migration
    <3>2. Migrations[v] = Feedback18
      BY <2>10 DEF Migrations, Versions
    <3> QED
      BY <2>10, <3>1, <3>2, NamesAre
  <2>11. CASE v = 19
    <3>1. Push19.statements \in Seq({"push_subscriptions", "idx_push_endpoint",
              "idx_push_created"})
      BY DEF Push19, Migration
    <3>2. Migrations[v] = Push19
      BY <2>11 DEF Migrations, Versions
    <3> QED
      BY <2>11, <3>1, <3>2, NamesAre
  <2>12. CASE v = 20
    <3>1. GithubObsidian20.statements \in Seq({"github_sync_log", "idx_github_synced",
              "idx_github_status", "obsidian_index", "idx_obsidian_source",
              "idx_obsidian_target"})
      BY DEF GithubObsidian20, Migration
    <3>2. Migrations[v] = GithubObsidian20
      BY <2>12 DEF Migrations, Versions
    <3> QED
      BY <2>12, <3>1, <3>2, NamesAre
  <2>13. CASE v = 21
    <3>1. Browser21.statements \in Seq({"browser_action_log", "idx_browser_session",
              "idx_browser_started", "idx_browser_status"})
      BY DEF Browser21, Migration
    <3>2. Migrations[v] = Browser21
      BY <2>13 DEF Migrations, Versions
    <3> QED
      BY <2>13, <3>1, <3>2, NamesAre
  <2> QED
    BY <2>1, <2>2, <2>3, <2>4, <2>5, <2>6, <2>7, <2>8, <2>9, <2>10, <2>11, <2>12, <2>13 DEF Versions
<1> QED
  BY <1>1, <1>2, <1>3 DEF Lasting, Names

\* No two migrations make the same object.
LEMMA NamesApart ==
  \A v, w \in Versions : v # w => Names(v) \cap Names(w) = {}
<1> SUFFICES ASSUME NEW v \in Versions, NEW w \in Versions, v < w
             PROVE  Names(v) \cap Names(w) = {}
  BY DEF Versions
<1>1. CASE v = 8
  <2>1. CASE w = 10
    BY <1>1, <2>1, NamesAre
  <2>2. CASE w = 11
    BY <1>1, <2>2, NamesAre
  <2>3. CASE w = 12
    BY <1>1, <2>3, NamesAre
  <2>4. CASE w = 13
    BY <1>1, <2>4, NamesAre
  <2>5. CASE w = 14
    BY <1>1, <2>5, NamesAre
  <2>6. CASE w = 15
    BY <1>1, <2>6, NamesAre
  <2>7. CASE w = 16
    BY <1>1, <2>7, NamesAre
  <2>8. CASE w = 17
    BY <1>1, <2>8, NamesAre
  <2>9. CASE w = 18
    BY <1>1, <2>9, NamesAre
  <2>10. CASE w = 19
    BY <1>1, <2>10, NamesAre
  <2>11. CASE w = 20
    BY <1>1, <2>11, NamesAre
  <2>12. CASE w = 21
    BY <1>1, <2>12, NamesAre
  <2> QED
    BY <1>1, <2>1, <2>2, <2>3, <2>4, <2>5, <2>6, <2>7, <2>8, <2>9, <2>10, <2>11, <2>12 DEF Versions
<1>2. CASE v = 10
  <2>1. CASE w = 11
    BY <1>2, <2>1, NamesAre
  <2>2. CASE w = 12
    BY <1>2, <2>2, NamesAre
  <2>3. CASE w = 13
    BY <1>2, <2>3, NamesAre
  <2>4. CASE w = 14
    BY <1>2, <2>4, NamesAre
  <2>5. CASE w = 15
    BY <1>2, <2>5, NamesAre
  <2>6. CASE w = 16
    BY <1>2, <2>6, NamesAre
  <2>7. CASE w = 17
    BY <1>2, <2>7, NamesAre
  <2>8. CASE w = 18
    BY <1>2, <2>8, NamesAre
  <2>9. CASE w = 19
    BY <1>2, <2>9, NamesAre
  <2>10. CASE w = 20
    BY <1>2, <2>10, NamesAre
  <2>11. CASE w = 21
    BY <1>2, <2>11, NamesAre
  <2> QED
    BY <1>2, <2>1, <2>2, <2>3, <2>4, <2>5, <2>6, <2>7, <2>8, <2>9, <2>10, <2>11 DEF Versions
<1>3. CASE v = 11
  <2>1. CASE w = 12
    BY <1>3, <2>1, NamesAre
  <2>2. CASE w = 13
    BY <1>3, <2>2, NamesAre
  <2>3. CASE w = 14
    BY <1>3, <2>3, NamesAre
  <2>4. CASE w = 15
    BY <1>3, <2>4, NamesAre
  <2>5. CASE w = 16
    BY <1>3, <2>5, NamesAre
  <2>6. CASE w = 17
    BY <1>3, <2>6, NamesAre
  <2>7. CASE w = 18
    BY <1>3, <2>7, NamesAre
  <2>8. CASE w = 19
    BY <1>3, <2>8, NamesAre
  <2>9. CASE w = 20
    BY <1>3, <2>9, NamesAre
  <2>10. CASE w = 21
    BY <1>3, <2>10, NamesAre
  <2> QED
    BY <1>3, <2>1, <2>2, <2>3, <2>4, <2>5, <2>6, <2>7, <2>8, <2>9, <2>10 DEF Versions
<1>4. CASE v = 12
  <2>1. CASE w = 13
    BY <1>4, <2>1, NamesAre
  <2>2. CASE w = 14
    BY <1>4, <2>2, NamesAre
  <2>3. CASE w = 15
    BY <1>4, <2>3, NamesAre
  <2>4. CASE w = 16
    BY <1>4, <2>4, NamesAre
  <2>5. CASE w = 17
    BY <1>4, <2>5, NamesAre
  <2>6. CASE w = 18
    BY <1>4, <2>6, NamesAre
  <2>7. CASE w = 19
    BY <1>4, <2>7, NamesAre
  <2>8. CASE w = 20
    BY <1>4, <2>8, NamesAre
  <2>9. CASE w = 21
    BY <1>4, <2>9, NamesAre
  <2> QED
    BY <1>4, <2>1, <2>2, <2>3, <2>4, <2>5, <2>6, <2>7, <2>8, <2>9 DEF Versions
<1>5. CASE v = 13
  <2>1. CASE w = 14
    BY <1>5, <2>1, NamesAre
  <2>2. CASE w = 15
    BY <1>5, <2>2, NamesAre
  <2>3. CASE w = 16
    BY <1>5, <2>3, NamesAre
  <2>4. CASE w = 17
    BY <1>5, <2>4, NamesAre
  <2>5. CASE w = 18
    BY <1>5, <2>5, NamesAre
  <2>6. CASE w = 19
    BY <1>5, <2>6, NamesAre
  <2>7. CASE w = 20
    BY <1>5, <2>7, NamesAre
  <2>8. CASE w = 21
    BY <1>5, <2>8, NamesAre
  <2> QED
    BY <1>5, <2>1, <2>2, <2>3, <2>4, <2>5, <2>6, <2>7, <2>8 DEF Versions
<1>6. CASE v = 14
  <2>1. CASE w = 15
    BY <1>6, <2>1, NamesAre
  <2>2. CASE w = 16
    BY <1>6, <2>2, NamesAre
  <2>3. CASE w = 17
    BY <1>6, <2>3, NamesAre
  <2>4. CASE w = 18
    BY <1>6, <2>4, NamesAre
  <2>5. CASE w = 19
    BY <1>6, <2>5, NamesAre
  <2>6. CASE w = 20
    BY <1>6, <2>6, NamesAre
  <2>7. CASE w = 21
    BY <1>6, <2>7, NamesAre
  <2> QED
    BY <1>6, <2>1, <2>2, <2>3, <2>4, <2>5, <2>6, <2>7 DEF Versions
<1>7. CASE v = 15
  <2>1. CASE w = 16
    BY <1>7, <2>1, NamesAre
  <2>2. CASE w = 17
    BY <1>7, <2>2, NamesAre
  <2>3. CASE w = 18
    BY <1>7, <2>3, NamesAre
  <2>4. CASE w = 19
    BY <1>7, <2>4, NamesAre
  <2>5. CASE w = 20
    BY <1>7, <2>5, NamesAre
  <2>6. CASE w = 21
    BY <1>7, <2>6, NamesAre
  <2> QED
    BY <1>7, <2>1, <2>2, <2>3, <2>4, <2>5, <2>6 DEF Versions
<1>8. CASE v = 16
  <2>1. CASE w = 17
    BY <1>8, <2>1, NamesAre
  <2>2. CASE w = 18
    BY <1>8, <2>2, NamesAre
  <2>3. CASE w = 19
    BY <1>8, <2>3, NamesAre
  <2>4. CASE w = 20
    BY <1>8, <2>4, NamesAre
  <2>5. CASE w = 21
    BY <1>8, <2>5, NamesAre
  <2> QED
    BY <1>8, <2>1, <2>2, <2>3, <2>4, <2>5 DEF Versions
<1>9. CASE v = 17
  <2>1. CASE w = 18
    BY <1>9, <2>1, NamesAre
  <2>2. CASE w = 19
    BY <1>9, <2>2, NamesAre
  <2>3. CASE w = 20
    BY <1>9, <2>3, NamesAre
  <2>4. CASE w = 21
    BY <1>9, <2>4, NamesAre
  <2> QED
    BY <1>9, <2>1, <2>2, <2>3, <2>4 DEF Versions
<1>10. CASE v = 18
  <2>1. CASE w = 19
    BY <1>10, <2>1, NamesAre
  <2>2. CASE w = 20
    BY <1>10, <2>2, NamesAre
  <2>3. CASE w = 21
    BY <1>10, <2>3, NamesAre
  <2> QED
    BY <1>10, <2>1, <2>2, <2>3 DEF Versions
<1>11. CASE v = 19
  <2>1. CASE w = 20
    BY <1>11, <2>1, NamesAre
  <2>2. CASE w = 21
    BY <1>11, <2>2, NamesAre
  <2> QED
    BY <1>11, <2>1, <2>2 DEF Versions
<1>12. CASE v = 20
  <2>1. CASE w = 21
    BY <1>12, <2>1, NamesAre
  <2> QED
    BY <1>12, <2>1 DEF Versions
<1> QED
  BY <1>1, <1>2, <1>3, <1>4, <1>5, <1>6, <1>7, <1>8, <1>9, <1>10, <1>11, <1>12 DEF Versions

\* The tables of a check are of no other migration, and no column is one.
LEMMA LastingApart ==
  /\ \A v, w \in Versions : v # w => Lasting(v) \cap Names(w) = {}
  /\ \A v, w \in Versions : v # w => Migrations[v].asked \cap Names(w) = {}
  /\ \A v \in Versions : Lasting(v) \cap FeedbackColumns = {}
  /\ \A v \in Versions : Names(v) \subseteq Lasting(v) \cup FeedbackColumns
  /\ FeedbackColumns \subseteq Names(18)
<1>1. FeedbackColumns \subseteq Names(18)
  BY NamesAre DEF FeedbackColumns
<1>2. \A v \in Versions : Migrations[v].asked \subseteq Names(v) /\ Lasting(v) \subseteq Names(v)
  BY AskedAre DEF Lasting, Names
<1>3. \A v, w \in Versions : v # w => Lasting(v) \cap Names(w) = {}
  BY <1>2, NamesApart
<1>4. \A v, w \in Versions : v # w => Migrations[v].asked \cap Names(w) = {}
  BY <1>2, NamesApart
<1>5. \A v \in Versions : Lasting(v) \cap FeedbackColumns = {}
  BY DEF Lasting
<1>6. \A v \in Versions : Names(v) \subseteq Lasting(v) \cup FeedbackColumns
  BY DEF Lasting, Names
<1> QED
  BY <1>1, <1>3, <1>4, <1>5, <1>6

\* The tables that the bridge makes itself are of the migration 10 alone.
LEMMA BridgeTables ==
  \A v \in Versions \ {10} : Names(v) \cap {"feedback", "trust_policies", "trust_audit"} = {}
<1> SUFFICES ASSUME NEW v \in Versions, v # 10
             PROVE  Names(v) \cap {"feedback", "trust_policies", "trust_audit"} = {}
  OBVIOUS
<1>1. CASE v = 8
  BY <1>1, NamesAre
<1>2. CASE v = 11
  BY <1>2, NamesAre
<1>3. CASE v = 12
  BY <1>3, NamesAre
<1>4. CASE v = 13
  BY <1>4, NamesAre
<1>5. CASE v = 14
  BY <1>5, NamesAre
<1>6. CASE v = 15
  BY <1>6, NamesAre
<1>7. CASE v = 16
  BY <1>7, NamesAre
<1>8. CASE v = 17
  BY <1>8, NamesAre
<1>9. CASE v = 18
  BY <1>9, NamesAre
<1>10. CASE v = 19
  BY <1>10, NamesAre
<1>11. CASE v = 20
  BY <1>11, NamesAre
<1>12. CASE v = 21
  BY <1>12, NamesAre
<1> QED
  BY <1>1, <1>2, <1>3, <1>4, <1>5, <1>6, <1>7, <1>8, <1>9, <1>10, <1>11, <1>12 DEF Versions

\* A set of numbers has a least one.
LEMMA HasLeast ==
  ASSUME NEW S \in SUBSET Nat, S # {}
  PROVE  \E m \in S : \A n \in S : m <= n
<1> DEFINE less == OpToRel(<, Nat)
<1>1. less = {p \in Nat \X Nat : p[1] < p[2]}
  BY DEF OpToRel
<1>2. IsWellFoundedOn(less, Nat)
  BY NatLessThanWellFounded
<1> HIDE DEF less
<1>3. PICK m \in S : \A n \in S : ~ (<<n, m>> \in less)
  BY <1>2, WFMin
<1>4. ASSUME NEW n \in S PROVE m <= n
  <2>1. m \in Nat /\ n \in Nat
    OBVIOUS
  <2>2. ~ (n < m)
    BY <1>1, <1>3, <2>1
  <2> QED
    BY <2>1, <2>2
<1> QED
  BY <1>4

\* A set of versions has its least and its greatest.
LEMMA EndsAreIn ==
  ASSUME NEW S \in SUBSET Versions, S # {}
  PROVE  /\ Min(S) \in S /\ \A v \in S : Min(S) <= v
         /\ Max(S) \in S /\ \A v \in S : v <= Max(S)
<1>1. S \in SUBSET Nat /\ \A v \in S : v \in Nat /\ v <= 21
  BY DEF Versions
<1>2. \E m \in S : \A v \in S : m <= v
  BY <1>1, HasLeast
<1>3. \E m \in S : \A v \in S : m >= v
  <2> DEFINE below == {n \in Nat : \E v \in S : n = 21 - v}
  <2>0. \A v \in S : 21 - v \in Nat
    BY <1>1
  <2>1. below \in SUBSET Nat /\ below # {}
    BY <2>0
  <2>2. PICK m \in below : \A n \in below : m <= n
    BY <2>1, HasLeast
  <2>3. PICK t \in S : m = 21 - t
    OBVIOUS
  <2>4. ASSUME NEW v \in S PROVE t >= v
    <3>1. 21 - v \in below
      BY <2>0
    <3>2. m <= 21 - v
      BY <2>2, <3>1
    <3> HIDE DEF below
    <3> QED
      BY <1>1, <2>3, <3>2
  <2> QED
    BY <2>4
<1>4. Min(S) \in S /\ \A v \in S : Min(S) <= v
  BY <1>2 DEF Min
<1>5. Max(S) \in S /\ \A v \in S : Max(S) >= v
  BY <1>3 DEF Max
<1> QED
  BY <1>1, <1>4, <1>5

-----------------------------------------------------------------------------

\* It holds at the start, and each action of the module keeps it.
LEMMA MigrationsInit_Inv == MigrationsInit => MigrationInv
<1> SUFFICES ASSUME MigrationsInit PROVE MigrationInv
  OBVIOUS
<1> USE DEF MigrationsInit
<1>1. MigrationsTyped
  BY DEF MigrationsTyped, Releases, NoVersion, Versions
<1>2. RunIsTrue
  BY DEF RunIsTrue, NoVersion
<1>3. MadeInOrder
  BY DEF MadeInOrder
<1>4. PartsAreExplained
  BY DEF PartsAreExplained, Applied
<1>5. TabledUpTo(release) /\ TabledUpTo(savedRelease)
  <2>1. \A v \in Versions : v <= release \/ v <= savedRelease => v = 8
    BY DEF Versions, NoVersion
  <2>2. Tabled(8)
    BY AskedAre DEF Tabled
  <2> QED
    BY <2>1, <2>2 DEF TabledUpTo
<1> QED
  BY <1>1, <1>2, <1>3, <1>4, <1>5 DEF MigrationInv

\* As long as no object goes, what had its tables has them.
LEMMA TabledStays ==
  ASSUME objects \subseteq objects'
  PROVE  /\ \A v \in Versions : Tabled(v) => Tabled(v)'
         /\ \A n \in Releases : TabledUpTo(n) => \A v \in Versions : v <= n => Tabled(v)'
<1>1. \A v \in Versions : Tabled(v) => Tabled(v)'
  BY DEF Tabled
<1> QED
  BY <1>1 DEF TabledUpTo

\* The version files and the run, when they stay and no object goes.
LEMMA ReleasesStay ==
  ASSUME MigrationInv, objects \subseteq objects'
  PROVE  /\ release' \in {release, savedRelease} => TabledUpTo(release)'
         /\ savedRelease' \in {release, savedRelease} => TabledUpTo(savedRelease)'
         /\ ranVersions' \subseteq ranVersions => \A v \in ranVersions' : TabledUpTo(v)'
<1>1. \A v \in Versions : Tabled(v) => Tabled(v)'
  BY TabledStays
<1>2. release' \in {release, savedRelease} => TabledUpTo(release)'
  BY <1>1 DEF MigrationInv, TabledUpTo
<1>3. savedRelease' \in {release, savedRelease} => TabledUpTo(savedRelease)'
  BY <1>1 DEF MigrationInv, TabledUpTo
<1>4. ranVersions' \subseteq ranVersions => \A v \in ranVersions' : TabledUpTo(v)'
  BY <1>1 DEF MigrationInv, TabledUpTo
<1> QED
  BY <1>2, <1>3, <1>4

\* What the steps that make nothing and end nothing leave true.
LEMMA PartsStay ==
  ASSUME MigrationInv, objects' = objects, blind' = blind, cutOff \subseteq cutOff',
         atVersion' # atVersion => atVersion = NoVersion \/ atVersion \in cutOff'
  PROVE  MadeInOrder' /\ PartsAreExplained'
<1>1. MadeInOrder'
  BY DEF MigrationInv, MadeInOrder, Tabled
<1>2. PartsAreExplained'
  <2> SUFFICES ASSUME NEW v \in Versions \ {10}, v # atVersion', Migrations[v].asked # {}, Applied(v)'
               PROVE  /\ v \in cutOff' \/ Lasting(v) \subseteq objects'
                      /\ v = 18 => 18 \in cutOff' \/ FeedbackColumns \subseteq objects' \cup blind'
    BY DEF PartsAreExplained
  <2>1. Applied(v)
    BY DEF Applied
  <2>2. CASE v = atVersion
    BY <2>2 DEF NoVersion, Versions
  <2>3. CASE v # atVersion
    BY <2>1, <2>3 DEF MigrationInv, PartsAreExplained
  <2> QED
    BY <2>2, <2>3
<1> QED
  BY <1>1, <1>2

LEMMA BridgeMakes_Inv ==
  ASSUME MigrationInv, BridgeMakes
  PROVE  MigrationInv'
<1>1. PICK tables \in {{"feedback"}, {"trust_policies", "trust_audit"}} :
        /\ objects' = objects \cup tables
        /\ UNCHANGED <<release, savedRelease, stage, runVars, installs, setbacks, cutOff, blind>>
  BY DEF BridgeMakes
<1>2. UNCHANGED <<release, savedRelease, stage, pending, atVersion, work, ranVersions, cutOff, blind>>
  BY <1>1 DEF runVars
<1>3. \A v \in Versions \ {10} : Lasting(v) \cap tables = {} /\ Migrations[v].asked \cap tables = {}
  BY <1>1, BridgeTables, AskedAre DEF Lasting, Names
<1>4. MigrationsTyped' /\ RunIsTrue'
  <2>1. MigrationsTyped'
    BY <1>2 DEF MigrationInv, MigrationsTyped
  <2>2. RunIsTrue'
    BY <1>1, <1>2, TabledStays DEF MigrationInv, RunIsTrue
  <2> QED
    BY <2>1, <2>2
<1>5. MadeInOrder'
  <2> SUFFICES ASSUME NEW v \in Versions \ {8, 10}, Lasting(v) \cap objects' # {},
                      NEW w \in Versions, w < v
               PROVE  Tabled(w)'
    BY DEF MadeInOrder
  <2>1. Lasting(v) \cap objects # {}
    BY <1>1, <1>3
  <2> QED
    BY <1>1, <2>1, TabledStays DEF MigrationInv, MadeInOrder
<1>6. PartsAreExplained'
  <2> SUFFICES ASSUME NEW v \in Versions \ {10}, v # atVersion', Migrations[v].asked # {}, Applied(v)'
               PROVE  /\ v \in cutOff' \/ Lasting(v) \subseteq objects'
                      /\ v = 18 => 18 \in cutOff' \/ FeedbackColumns \subseteq objects' \cup blind'
    BY DEF PartsAreExplained
  <2>1. Applied(v)
    BY <1>1, <1>3 DEF Applied
  <2> QED
    BY <1>1, <1>2, <2>1 DEF MigrationInv, PartsAreExplained
<1> QED
  BY <1>1, <1>2, <1>4, <1>5, <1>6, ReleasesStay DEF MigrationInv

LEMMA StartRunner_Inv ==
  ASSUME MigrationInv, StartRunner
  PROVE  MigrationInv'
<1> USE DEF StartRunner
<1>1. MigrationsTyped'
  BY DEF MigrationInv, MigrationsTyped, Newer
<1>2. atVersion = NoVersion /\ work = <<>>
  BY DEF MigrationInv, RunIsTrue
<1>3. RunIsTrue'
  <2>1. ASSUME NEW v \in Versions, v \notin pending'
        PROVE  Tabled(v)'
    <3>1. v <= release
      BY <2>1 DEF Newer, Versions, MigrationInv, MigrationsTyped, Releases, NoVersion
    <3> QED
      BY <3>1 DEF MigrationInv, TabledUpTo, Tabled
  <2> QED
    BY <1>2, <2>1 DEF RunIsTrue
<1>4. MadeInOrder' /\ PartsAreExplained'
  BY PartsStay
<1> QED
  BY <1>1, <1>3, <1>4, ReleasesStay DEF MigrationInv

LEMMA TakeUp_Inv ==
  ASSUME MigrationInv, TakeUp
  PROVE  MigrationInv'
<1>0. Min(pending) \in pending /\ \A p \in pending : Min(pending) <= p
  BY EndsAreIn DEF MigrationInv, MigrationsTyped, TakeUp
<1>a. PICK v \in pending : v = Min(pending)
  BY <1>0
<1>1. /\ stage = "running" /\ atVersion = NoVersion /\ pending # {}
      /\ pending' = pending \ {v}
      /\ \/ Applied(v) /\ ranVersions' = ranVersions \cup {v} /\ UNCHANGED <<atVersion, work>>
         \/ /\ ~ Applied(v) /\ atVersion' = v /\ work' = Migrations[v].statements
            /\ UNCHANGED ranVersions
      /\ UNCHANGED <<objects, release, savedRelease, stage, installs, setbacks, cutOff, blind>>
  BY <1>a DEF TakeUp
<1>2. v \in pending /\ \A p \in pending : v <= p
  BY <1>0, <1>a
<1>3. pending \subseteq Versions /\ v \in Versions /\ v # NoVersion /\ work = <<>>
  <2>1. pending \subseteq Versions
    BY DEF MigrationInv, MigrationsTyped
  <2>2. v \in Versions /\ v # NoVersion
    BY <2>1 DEF Versions, NoVersion
  <2>3. work = <<>>
    BY <1>1 DEF MigrationInv, RunIsTrue
  <2> QED
    BY <2>1, <2>2, <2>3
<1>4. MadeInOrder' /\ PartsAreExplained'
  BY <1>1, PartsStay
<1>5. \A w \in Versions : w \in pending \/ Tabled(w)'
  BY <1>1 DEF MigrationInv, RunIsTrue, Tabled, NoVersion, Versions
<1>6. CASE Applied(v)
  <2>1. ranVersions' = ranVersions \cup {v} /\ UNCHANGED <<atVersion, work>>
    BY <1>1, <1>6
  <2>2. MigrationsTyped'
    BY <1>1, <1>3, <2>1 DEF MigrationInv, MigrationsTyped
  <2>3. Tabled(v)'
    BY <1>1, <1>6, AskedAre DEF Applied, Tabled
  <2>4. RunIsTrue'
    BY <1>1, <1>3, <1>5, <2>1, <2>3 DEF RunIsTrue
  <2>5. TabledUpTo(v)'
    <3> SUFFICES ASSUME NEW w \in Versions, w <= v PROVE Tabled(w)'
      BY DEF TabledUpTo
    <3>1. w = v \/ w \notin pending
      BY <1>2, <1>3 DEF Versions
    <3> QED
      BY <1>5, <2>3, <3>1
  <2>6. \A w \in ranVersions : TabledUpTo(w)'
    BY <1>1 DEF MigrationInv, TabledUpTo, Tabled
  <2> QED
    BY <1>1, <1>4, <2>1, <2>2, <2>4, <2>5, <2>6, ReleasesStay DEF MigrationInv
<1>7. CASE ~ Applied(v)
  <2>1. atVersion' = v /\ work' = Migrations[v].statements /\ ranVersions' = ranVersions
    BY <1>1, <1>7
  <2>2. work' \in Seq(Names(v)) /\ Range(work') = Names(v)
    BY <1>3, <2>1, AskedAre DEF Names
  <2>3. MigrationsTyped'
    <3>1. Names(v) \subseteq Objects
      BY <1>3 DEF Objects
    <3>2. work' \in Seq(Objects)
      BY <2>2, <3>1
    <3> QED
      BY <1>1, <1>3, <2>1, <3>2 DEF MigrationInv, MigrationsTyped
  <2>4. \A p \in pending' : v < p
    BY <1>1, <1>2, <1>3 DEF Versions
  <2>5. RunIsTrue'
    BY <1>1, <1>3, <1>5, <2>1, <2>2, <2>4 DEF RunIsTrue
  <2> QED
    BY <1>1, <1>4, <2>1, <2>3, <2>5, ReleasesStay DEF MigrationInv
<1> QED
  BY <1>6, <1>7

\* What a step of the work takes from it.
LEMMA WorkLessens ==
  ASSUME NEW q \in Seq(Objects), q # <<>>
  PROVE  /\ Tail(q) \in Seq(Objects) /\ Head(q) \in Range(q)
         /\ Range(q) \subseteq {Head(q)} \cup Range(Tail(q)) /\ Range(Tail(q)) \subseteq Range(q)
<1>1. Len(q) \in Nat \ {0} /\ Head(q) = q[1] /\ Tail(q) \in Seq(Objects)
  BY EmptySeq, HeadTailProperties
<1>2. Len(Tail(q)) = Len(q) - 1 /\ \A i \in 1..Len(Tail(q)) : Tail(q)[i] = q[i + 1]
  BY HeadTailProperties
<1>3. \A x : x \in Range(q) <=> \E i \in 1..Len(q) : q[i] = x
  BY DEF Range
<1>4. \A x : x \in Range(Tail(q)) <=> \E i \in 1..Len(Tail(q)) : Tail(q)[i] = x
  <2>1. DOMAIN Tail(q) = 1..Len(Tail(q))
    BY <1>1, LenProperties
  <2> QED
    BY <2>1 DEF Range
<1>5. Head(q) \in Range(q)
  BY <1>1, <1>3
<1>6. ASSUME NEW x \in Range(q) PROVE x \in {Head(q)} \cup Range(Tail(q))
  <2>1. PICK i \in 1..Len(q) : q[i] = x
    BY <1>3
  <2>2. CASE i = 1
    BY <1>1, <2>1, <2>2
  <2>3. CASE i # 1
    <3>1. i - 1 \in 1..Len(Tail(q)) /\ (i - 1) + 1 = i
      BY <1>1, <1>2, <2>1, <2>3
    <3>2. Tail(q)[i - 1] = x
      BY <1>2, <2>1, <3>1
    <3> QED
      BY <1>4, <3>1, <3>2
  <2> QED
    BY <2>2, <2>3
<1>7. ASSUME NEW x \in Range(Tail(q)) PROVE x \in Range(q)
  <2>1. PICK i \in 1..Len(Tail(q)) : Tail(q)[i] = x
    BY <1>4
  <2>2. i + 1 \in 1..Len(q)
    BY <1>1, <1>2, <2>1
  <2> QED
    BY <1>2, <1>3, <2>1, <2>2
<1> QED
  BY <1>1, <1>5, <1>6, <1>7

LEMMA MakeObject_Inv ==
  ASSUME MigrationInv, MakeObject
  PROVE  MigrationInv'
<1>1. PICK o : o = Head(work)
  OBVIOUS
<1>2. /\ stage = "running" /\ work # <<>> /\ work' = Tail(work)
      /\ \/ objects' = objects \cup {o} /\ blind' = blind
         \/ o \in FeedbackColumns /\ blind' = blind \cup {o} /\ objects' = objects
      /\ UNCHANGED <<release, savedRelease, stage, pending, atVersion, ranVersions, installs, cutOff>>
  BY <1>1 DEF MakeObject
<1>3. MigrationsTyped /\ RunIsTrue
  BY DEF MigrationInv
<1>4. work \in Seq(Objects) /\ blind \subseteq FeedbackColumns /\ pending \subseteq Versions
  BY <1>3 DEF MigrationsTyped
<1>5. PICK at \in Versions : at = atVersion /\ at # NoVersion
  BY <1>2, <1>3 DEF MigrationsTyped, RunIsTrue
<1>6. /\ Tail(work) \in Seq(Objects) /\ o \in Range(work)
      /\ Range(work) \subseteq {o} \cup Range(work') /\ Range(work') \subseteq Range(work)
  BY <1>1, <1>2, <1>4, WorkLessens
<1>7. /\ \A p \in pending : at < p
      /\ Range(work) \subseteq Names(at)
      /\ Names(at) \subseteq objects \cup blind \cup Range(work)
  BY <1>3, <1>5 DEF RunIsTrue
<1>8. o \in Names(at)
  BY <1>6, <1>7
<1>9. \A v \in Versions : v # at => o \notin Lasting(v) /\ o \notin Migrations[v].asked
  BY <1>5, <1>8, LastingApart
<1>10. objects \subseteq objects' /\ objects' \subseteq objects \cup {o} /\ blind \subseteq blind'
  BY <1>2
<1>11. MigrationsTyped'
  BY <1>2, <1>3, <1>6 DEF MigrationsTyped
<1>12. RunIsTrue'
  <2>1. Names(at) \subseteq objects' \cup blind' \cup Range(work')
    BY <1>2, <1>6, <1>7
  <2>2. \A v \in Versions : v \in pending' \/ v = atVersion' \/ Tabled(v)'
    BY <1>2, <1>3, <1>10, TabledStays DEF RunIsTrue
  <2>3. atVersion' = at /\ at # NoVersion /\ stage' = "running" /\ pending' = pending
    BY <1>2, <1>5
  <2>4. Range(work') \subseteq Names(at)
    BY <1>6, <1>7
  <2> QED
    BY <1>7, <2>1, <2>2, <2>3, <2>4 DEF RunIsTrue
<1>13. MadeInOrder'
  <2> SUFFICES ASSUME NEW v \in Versions \ {8, 10}, Lasting(v) \cap objects' # {},
                      NEW w \in Versions, w < v
               PROVE  Tabled(w)'
    BY DEF MadeInOrder
  <2>1. Tabled(w)
    <3>1. CASE v = at
      <4>1. w \notin pending /\ w # at
        BY <1>7, <3>1 DEF Versions
      <4> QED
        BY <1>2, <1>3, <1>5, <4>1 DEF RunIsTrue
    <3>2. CASE v # at
      <4>1. Lasting(v) \cap objects # {}
        BY <1>9, <1>10, <3>2
      <4> QED
        BY <4>1 DEF MigrationInv, MadeInOrder
    <3> QED
      BY <3>1, <3>2
  <2> QED
    BY <1>10, <2>1, TabledStays
<1>14. PartsAreExplained'
  <2> SUFFICES ASSUME NEW v \in Versions \ {10}, v # atVersion', Migrations[v].asked # {}, Applied(v)'
               PROVE  /\ v \in cutOff' \/ Lasting(v) \subseteq objects'
                      /\ v = 18 => 18 \in cutOff' \/ FeedbackColumns \subseteq objects' \cup blind'
    BY DEF PartsAreExplained
  <2>1. Applied(v) /\ v # atVersion
    BY <1>2, <1>5, <1>9, <1>10 DEF Applied
  <2>2. /\ v \in cutOff \/ Lasting(v) \subseteq objects
        /\ v = 18 => 18 \in cutOff \/ FeedbackColumns \subseteq objects \cup blind
    BY <2>1 DEF MigrationInv, PartsAreExplained
  <2> QED
    BY <1>2, <1>10, <2>2
<1> QED
  BY <1>2, <1>10, <1>11, <1>12, <1>13, <1>14, ReleasesStay DEF MigrationInv

LEMMA FinishMigration_Inv ==
  ASSUME MigrationInv, FinishMigration
  PROVE  MigrationInv'
<1>1. PICK at \in Versions : at = atVersion /\ at # NoVersion
  BY DEF FinishMigration, MigrationInv, MigrationsTyped
<1>2. /\ stage = "running" /\ work = <<>> /\ atVersion' = NoVersion
      /\ ranVersions' = ranVersions \cup {at}
      /\ UNCHANGED <<objects, release, savedRelease, stage, pending, work, installs, setbacks, cutOff, blind>>
  BY <1>1 DEF FinishMigration
<1>3. MigrationsTyped /\ RunIsTrue
  BY DEF MigrationInv
<1>4. /\ \A p \in pending : at < p
      /\ Names(at) \subseteq objects \cup blind
  <2>1. Range(<<>>) = {}
    BY DEF Range
  <2> QED
    BY <1>1, <1>2, <1>3, <2>1 DEF RunIsTrue
<1>5. Lasting(at) \subseteq objects /\ Migrations[at].asked \subseteq objects
  <2>1. blind \subseteq FeedbackColumns
    BY <1>3 DEF MigrationsTyped
  <2>2. Lasting(at) \subseteq Names(at) /\ Lasting(at) \cap FeedbackColumns = {}
    BY <1>1 DEF Lasting, Names
  <2> QED
    BY <1>1, <1>4, <2>1, <2>2, AskedAre
<1>6. Tabled(at)'
  BY <1>2, <1>5 DEF Tabled
<1>7. MigrationsTyped'
  BY <1>2, <1>3 DEF MigrationsTyped
<1>8. \A v \in Versions : v \in pending \/ Tabled(v)'
  BY <1>1, <1>2, <1>3, <1>6, TabledStays DEF RunIsTrue
<1>9. RunIsTrue'
  BY <1>2, <1>3, <1>8 DEF RunIsTrue
<1>10. MadeInOrder'
  BY <1>2 DEF MigrationInv, MadeInOrder, Tabled
<1>11. PartsAreExplained'
  <2> SUFFICES ASSUME NEW v \in Versions \ {10}, Migrations[v].asked # {}, Applied(v)'
               PROVE  /\ v \in cutOff' \/ Lasting(v) \subseteq objects'
                      /\ v = 18 => 18 \in cutOff' \/ FeedbackColumns \subseteq objects' \cup blind'
    BY DEF PartsAreExplained
  <2>1. Applied(v)
    BY <1>2 DEF Applied
  <2>2. CASE v = at
    <3>1. v = 18 => FeedbackColumns \subseteq objects \cup blind
      BY <1>4, <2>2, LastingApart
    <3> QED
      BY <1>2, <1>5, <2>2, <3>1
  <2>3. CASE v # at
    BY <1>1, <1>2, <2>1, <2>3 DEF MigrationInv, PartsAreExplained
  <2> QED
    BY <2>2, <2>3
<1>12. TabledUpTo(at)'
  <2> SUFFICES ASSUME NEW w \in Versions, w <= at PROVE Tabled(w)'
    BY DEF TabledUpTo
  <2>1. w \notin pending
    BY <1>4 DEF Versions
  <2> QED
    BY <1>8, <2>1
<1>13. \A w \in ranVersions : TabledUpTo(w)'
  BY <1>2 DEF MigrationInv, TabledUpTo, Tabled
<1> QED
  BY <1>2, <1>7, <1>9, <1>10, <1>11, <1>12, <1>13, ReleasesStay DEF MigrationInv

\* A run that stops where it is.
LEMMA Stops_Inv ==
  ASSUME MigrationInv, NEW to \in {"ran", "none"}, StopAt(to),
         UNCHANGED <<objects, release, savedRelease, installs, blind>>,
         ranVersions' \subseteq ranVersions
  PROVE  MigrationInv'
<1> USE DEF StopAt
<1>1. MigrationsTyped'
  <2>1. work' \in Seq(Objects)
    OBVIOUS
  <2> QED
    BY <2>1 DEF MigrationInv, MigrationsTyped
<1>2. RunIsTrue'
  BY DEF RunIsTrue
<1>3. MadeInOrder' /\ PartsAreExplained'
  BY PartsStay
<1> QED
  BY <1>1, <1>2, <1>3, ReleasesStay DEF MigrationInv

\* The steps that change the stage alone, and what is written at the end.
LEMMA Others_Inv ==
  ASSUME MigrationInv, RunnerEnds \/ WriteVersion \/ EndUpdate \/ Rollback
  PROVE  MigrationInv'
<1>1. UNCHANGED <<objects, savedRelease, pending, atVersion, work, cutOff, blind>>
  BY DEF RunnerEnds, WriteVersion, EndUpdate, Rollback, runVars
<1>2. MigrationsTyped /\ RunIsTrue
  BY DEF MigrationInv
<1>3. MadeInOrder' /\ PartsAreExplained'
  BY <1>1, PartsStay
<1>4. RunIsTrue'
  <2>1. stage' # "running" => pending = {} /\ atVersion = NoVersion
    BY <1>2 DEF RunIsTrue, RunnerEnds, WriteVersion, EndUpdate, Rollback
  <2>2. stage' = "running" => stage = "running"
    BY DEF RunnerEnds, WriteVersion, EndUpdate, Rollback
  <2> QED
    BY <1>1, <1>2, <2>1, <2>2, TabledStays DEF RunIsTrue
<1>5. ranVersions' \subseteq ranVersions
  BY DEF RunnerEnds, WriteVersion, EndUpdate, Rollback, runVars
<1>6. stage' \in {"none", "running", "ran", "restarting"}
  BY <1>2 DEF MigrationsTyped, RunnerEnds, WriteVersion, EndUpdate, Rollback
<1>7. \/ release' \in {release, savedRelease}
      \/ release' = 8
      \/ ranVersions # {} /\ release' = Max(ranVersions)
  BY DEF RunnerEnds, WriteVersion, EndUpdate, Rollback
<1>8. release' \in Releases /\ TabledUpTo(release)'
  <2>1. CASE release' \in {release, savedRelease}
    BY <1>1, <1>2, <2>1, ReleasesStay DEF MigrationsTyped
  <2>2. CASE release' = 8
    <3>1. \A v \in Versions : v <= 8 => v = 8
      BY DEF Versions
    <3>2. Tabled(8)'
      BY AskedAre DEF Tabled
    <3> QED
      BY <2>2, <3>1, <3>2 DEF TabledUpTo, Releases, Versions
  <2>3. CASE ranVersions # {} /\ release' = Max(ranVersions)
    <3>1. Max(ranVersions) \in ranVersions /\ ranVersions \subseteq Versions
      BY <1>2, <2>3, EndsAreIn DEF MigrationsTyped
    <3>2. PICK n \in ranVersions : n = Max(ranVersions)
      BY <3>1
    <3>3. TabledUpTo(n)
      BY DEF MigrationInv
    <3> QED
      BY <1>1, <2>3, <3>1, <3>2, <3>3, TabledStays DEF TabledUpTo, Releases
  <2> QED
    BY <1>7, <2>1, <2>2, <2>3
<1>9. MigrationsTyped'
  BY <1>1, <1>2, <1>5, <1>6, <1>8 DEF MigrationsTyped
<1> QED
  BY <1>1, <1>3, <1>4, <1>5, <1>8, <1>9, ReleasesStay DEF MigrationInv

\* So every step keeps it.
LEMMA MigrationsNext_Inv ==
  ASSUME MigrationInv, [MigrationsNext]_migrationVars
  PROVE  MigrationInv'
<1>1. CASE BridgeMakes
  BY <1>1, BridgeMakes_Inv
<1>2. CASE StartRunner
  BY <1>2, StartRunner_Inv
<1>3. CASE TakeUp
  BY <1>3, TakeUp_Inv
<1>4. CASE MakeObject
  BY <1>4, MakeObject_Inv
<1>5. CASE FinishMigration
  BY <1>5, FinishMigration_Inv
<1>6. CASE MigrationFails
  BY <1>6, Stops_Inv DEF MigrationFails
<1>7. CASE RunnerKilled
  BY <1>7, Stops_Inv DEF RunnerKilled
<1>8. CASE RunnerEnds \/ WriteVersion \/ EndUpdate \/ Rollback
  BY <1>8, Others_Inv
<1>9. CASE UNCHANGED migrationVars
  <2>1. UNCHANGED <<objects, release, savedRelease, stage, pending, atVersion, work, ranVersions, cutOff, blind>>
    BY <1>9 DEF migrationVars, runVars
  <2>2. MigrationsTyped' /\ RunIsTrue'
    BY <2>1 DEF MigrationInv, MigrationsTyped, RunIsTrue, Tabled
  <2>3. MadeInOrder' /\ PartsAreExplained'
    BY <2>1, PartsStay
  <2> QED
    BY <2>1, <2>2, <2>3, ReleasesStay DEF MigrationInv
<1> QED
  BY <1>1, <1>2, <1>3, <1>4, <1>5, <1>6, <1>7, <1>8, <1>9 DEF MigrationsNext

\* And it implies what is promised.
LEMMA MigrationInv_Safe == MigrationInv => MigrationSafe
<1> SUFFICES ASSUME MigrationInv PROVE MigrationSafe
  OBVIOUS
<1>1. VersionsAreTrue
  <2>1. \A v \in Versions : v <= v
    BY DEF Versions
  <2> QED
    BY <2>1 DEF MigrationInv, VersionsAreTrue, TabledUpTo
<1>2. RunsComplete
  <2>1. \A v \in Versions : v <= 21
    BY DEF Versions
  <2> QED
    BY <2>1 DEF MigrationInv, RunsComplete, TabledUpTo
<1> QED
  BY <1>1, <1>2 DEF MigrationInv, MigrationSafe

-----------------------------------------------------------------------------
(* Each step is one of the service in focus, and leaves the variables of   *)
(* the others as they are.                                                 *)

LEMMA StoreSteps ==
  ASSUME [ServicesNext]_serviceVars
  PROVE  /\ [MemoriesNext]_memoryVars /\ [FeedbackNext]_feedbackVars
         /\ [FeedsNext]_feedsVars /\ [GithubNext]_githubVars /\ [MailboxNext]_mailVars
         /\ [IngestNext]_ingestVars /\ [KeyNext]_keyVars
         /\ [DocsNext]_docsVars /\ [VaultNext]_vaultVars
         /\ [BackupNext]_backupVars /\ [MigrationsNext]_migrationVars
  BY DEF ServicesNext, Alone, serviceVars

LEMMA ChannelSteps ==
  ASSUME [ServicesNext]_serviceVars
  PROVE  /\ [GateNext]_gateVars /\ [PhoneNext]_phoneVars
         /\ [NotifyNext]_notifyVars /\ [BriefingNext]_briefingVars
         /\ [CacheNext]_cacheVars /\ [WebNext]_webVars /\ [RetrievalNext]_retrievalVars
         /\ [PlanNext]_planVars /\ [DelegationNext]_delegationVars
         /\ [ChatNext]_chatVars /\ [StreamNext]_streamVars
  BY DEF ServicesNext, Alone, serviceVars

-----------------------------------------------------------------------------
\* The memories and the feedback: of memories only faded ones are deleted, with
\* a line in the log of each, and their confirmations are counted; of votes the
\* thumbs are counted, weights are earned by them, and the cache follows the
\* weights, for any number of memories, passages, callers and voters.
THEOREM MemoriesAreSafe == ServicesSpec => []MemoriesSafe
<1> DEFINE Inv == MemoriesInv /\ FeedbackInv
<1>1. ServicesInit => Inv
  BY MemoriesInit_Inv, FeedbackInit_Inv DEF ServicesInit
<1>2. Inv /\ [ServicesNext]_serviceVars => Inv'
  BY StoreSteps, MemoriesNext_Inv, FeedbackNext_Inv
<1>3. Inv => MemoriesSafe
  BY MemoriesInv_Safe, FeedbackInv_Safe DEF MemoriesSafe, In
<1> QED
  BY <1>1, <1>2, <1>3, PTL DEF ServicesSpec

\* The e-mail reader and the morning briefing.
THEOREM DigestsAreSafe == ServicesSpec => []DigestsSafe
<1> DEFINE Inv == MailInv /\ BriefingInv
<1>1. ServicesInit => Inv
  BY MailInit_Inv, BriefingInit_Inv DEF ServicesInit
<1>2. Inv /\ [ServicesNext]_serviceVars => Inv'
  BY StoreSteps, ChannelSteps, MailboxNext_Inv, BriefingNext_Inv
<1>3. Inv => DigestsSafe
  BY MailInv_Safe, BriefingInv_Safe DEF DigestsSafe, In
<1> QED
  BY <1>1, <1>2, <1>3, PTL DEF ServicesSpec

\* The feeds and the GitHub projects.
THEOREM SourcesAreSafe == ServicesSpec => []SourcesSafe
<1> DEFINE Inv == FeedsInv /\ GithubInv
<1>1. ServicesInit => Inv
  BY FeedsInit_Inv, GithubInit_Inv DEF ServicesInit
<1>2. Inv /\ [ServicesNext]_serviceVars => Inv'
  BY StoreSteps, FeedsNext_Inv, GithubNext_Inv
<1>3. Inv => SourcesSafe
  BY FeedsInv_Safe, GithubInv_Safe DEF SourcesSafe, In
<1> QED
  BY <1>1, <1>2, <1>3, PTL DEF ServicesSpec

\* The encryption of what is stored: a migration changes no text but of what was
\* written after its page was read, and after a completed rotation every value is
\* readable that was not written meanwhile, passed over by a swallowed error or
\* left by a rotation that did not complete, for any tables, rows, points, fields
\* and keys.
THEOREM KeysAreSafe == ServicesSpec => []KeysSafe
<1>1. ServicesInit => KeyInv
  BY KeyInit_Inv DEF ServicesInit
<1>2. KeyInv /\ [ServicesNext]_serviceVars => KeyInv'
  BY StoreSteps, KeyNext_Inv
<1>3. KeyInv => KeysSafe
  BY KeyInv_Safe DEF KeysSafe, In
<1> QED
  BY <1>1, <1>2, <1>3, PTL DEF ServicesSpec

\* The gate of the chat channels, and WhatsApp.
THEOREM ChannelsAreSafe == ServicesSpec => []ChannelsSafe
<1> DEFINE Inv == GateInv /\ PhoneInv
<1>1. ServicesInit => Inv
  BY GateInit_Inv, PhoneInit_Inv DEF ServicesInit
<1>2. Inv /\ [ServicesNext]_serviceVars => Inv'
  BY ChannelSteps, GateNext_Inv, PhoneNext_Inv
<1>3. Inv => ChannelsSafe
  BY GateInv_Safe, PhoneInv_Safe DEF ChannelsSafe, In
<1> QED
  BY <1>1, <1>2, <1>3, PTL DEF ServicesSpec

\* The notifications.
THEOREM NotificationsAreSafe == ServicesSpec => []NotificationsSafe
<1>1. ServicesInit => NotifyInv
  BY NotifyInit_Inv DEF ServicesInit
<1>2. NotifyInv /\ [ServicesNext]_serviceVars => NotifyInv'
  BY ChannelSteps, NotifyNext_Inv
<1>3. NotifyInv => NotificationsSafe
  BY NotifyInv_Safe DEF NotificationsSafe, In
<1> QED
  BY <1>1, <1>2, <1>3, PTL DEF ServicesSpec

\* The cache, the web searches and the retrieval: each text is given a vector of
\* its own, not older than it may be; no more searches in an hour than the limit
\* and those that overlap, a digest of all that its searches gave, and one
\* encoder, behind its lock, for any number of texts, searchers, pages and threads.
THEOREM SearchesAreSafe == ServicesSpec => []SearchesSafe
<1> DEFINE Inv == CacheInv /\ WebInv /\ RetrievalInv
<1>1. ServicesInit => Inv
  BY CacheInit_Inv, WebInit_Inv, RetrievalInit_Inv, CacheAssumption, WebAssumption,
     RetrievalAssumption DEF ServicesInit
<1>2. Inv /\ [ServicesNext]_serviceVars => Inv'
  BY ChannelSteps, CacheNext_Inv, WebNext_Inv, RetrievalNext_Inv, CacheAssumption,
     WebAssumption, RetrievalAssumption
<1>3. Inv => SearchesSafe
  BY CacheInv_Safe, WebInv_Safe, RetrievalInv_Safe, CacheAssumption, WebAssumption
     DEF SearchesSafe, In
<1> QED
  BY <1>1, <1>2, <1>3, PTL DEF ServicesSpec

\* The documents: once nobody is at work what is found of a document is all of one
\* text, unless a failure or a second thread came in between: that of the file, or
\* nothing and an error where no text can be extracted, or what was found of it
\* before it became too large or was removed; what is tracked of a file is found;
\* and the links of the vault are those of its notes, for any number of threads,
\* files, notes and contents.
THEOREM DocumentsAreSafe == ServicesSpec => []DocumentsSafe
<1> DEFINE Inv == DocsInv /\ IngestInv /\ VaultInv
<1>1. ServicesInit => Inv
  BY DocsInit_Inv, IngestInit_Inv, VaultInit_Inv DEF ServicesInit
<1>2. Inv /\ [ServicesNext]_serviceVars => Inv'
  BY StoreSteps, DocsNext_Inv, IngestNext_Inv, VaultNext_Inv
<1>3. Inv => DocumentsSafe
  BY DocsInv_Safe, IngestInv_Safe, VaultInv_Safe DEF DocumentsSafe, In
<1> QED
  BY <1>1, <1>2, <1>3, PTL DEF ServicesSpec

\* The backups and the updates: a row of a run that succeeded has its archive
\* unless something took it, and the version that is recorded stands for the
\* tables of every migration up to it, for any number of runs, however often one
\* fails, is killed or a request deletes its file.
THEOREM BackupsAreSafe == ServicesSpec => []BackupsSafe
<1> DEFINE Inv == BackupInv /\ MigrationInv
<1>1. ServicesInit => Inv
  BY BackupInit_Inv, MigrationsInit_Inv DEF ServicesInit
<1>2. Inv /\ [ServicesNext]_serviceVars => Inv'
  BY StoreSteps, BackupNext_Inv, MigrationsNext_Inv
<1>3. Inv => BackupsSafe
  BY BackupInv_Safe, MigrationInv_Safe DEF BackupsSafe, In
<1> QED
  BY <1>1, <1>2, <1>3, PTL DEF ServicesSpec

\* The plans and the custom agents: a step of a plan has the results of all it
\* depends on if the plan gives it an order, none runs beside one it depends on,
\* and the switch of an agent is what its toggles made of it, for any plan and
\* any number of agents and requests.
THEOREM AgentsAreSafe == ServicesSpec => []AgentsSafe
<1> DEFINE Inv == PlanInv /\ SwitchInv
<1>1. ServicesInit => Inv
  BY PlanInit_Inv, DelegationInit_Inv DEF ServicesInit
<1>2. Inv /\ [ServicesNext]_serviceVars => Inv'
  BY ChannelSteps, PlanNext_Inv, DelegationNext_Inv, PlansAssumption
<1>3. Inv => AgentsSafe
  BY PlanInv_Safe, SwitchInv_Safe DEF AgentsSafe, ParallelSafe, In
<1> QED
  BY <1>1, <1>2, <1>3, PTL DEF ServicesSpec

\* The chats: the store keeps the sessions used last, no chunk is shown twice but
\* to chats that looked for it at once, and no message is lost but behind a
\* summary; a stream tells the end of each phase, and streams of one session share
\* its chunks and its summary out, for any number of sessions, chats and streams.
THEOREM ChatsAreSafe == ServicesSpec => []ChatsSafe
<1> DEFINE Inv == ChatInv /\ StreamInv
<1>1. ServicesInit => Inv
  BY ChatInit_Inv, StreamInit_Inv, ChatAssumption DEF ServicesInit
<1>2. Inv /\ [ServicesNext]_serviceVars => Inv'
  BY ChannelSteps, ChatNext_Inv, StreamNext_Inv, ChatAssumption
<1>3. Inv => ChatsSafe
  BY ChatInv_Safe, StreamInv_Safe, ChatAssumption DEF ChatsSafe, StreamSafe, In
<1> QED
  BY <1>1, <1>2, <1>3, PTL DEF ServicesSpec

\* No step changes a pairing that is decided, completes a migration with values
\* left that no error passed over and nobody wrote meanwhile, or ends an ingestion
\* with files that are gone still tracked or found.
THEOREM StepsAreKept == ServicesSpec => StepsKeep
<1> DEFINE Inv == GateInv /\ KeyInv /\ IngestInv
           Decided == \A c \in Codes : pairing[c] # NoPairing /\ pairing[c].status \in Decisions
                        => pairing'[c] = pairing[c]
           Complete == job.status = "in_progress" /\ job'.status = "completed" =>
                         \A i \in Items \ touched :
                           i[1] \in Passes =>
                             stored[i].key # IF job.kind = "enable" THEN Plain ELSE active
           Gone == \A r \in Runs :
                     run[r].at = "gc" /\ run[r].todo = {} /\ run'[r].at = "idle" /\ ~ overlapped =>
                       \A p \in Paths \ run[r].seen :
                         tracked[p] = NoText /\ (p \in amiss \/ Of(p) = {})
<1>1. ServicesInit => Inv
  BY GateInit_Inv, KeyInit_Inv, IngestInit_Inv DEF ServicesInit
<1>2. Inv /\ [ServicesNext]_serviceVars => Inv'
  BY StoreSteps, ChannelSteps, GateNext_Inv, KeyNext_Inv, IngestNext_Inv
<1>3. Inv /\ [ServicesNext]_serviceVars
        => [Decided]_gateVars /\ [Complete]_keyVars /\ [Gone]_ingestVars
  BY StoreSteps, ChannelSteps, GateNext_Decided, KeyNext_Completes, IngestInv_Gone
<1> HIDE DEF Inv
<1> QED
  BY <1>1, <1>2, <1>3, PTL
     DEF ServicesSpec, StepsKeep, DecisionStands, CompletedIsComplete, GoneIsGone
=============================================================================
