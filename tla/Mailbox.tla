------------------------------ MODULE Mailbox ------------------------------
(***************************************************************************)
(* E-mail and calendar (email_calendar.py, its API, the email_digest and     *)
(* agenda sections of scheduler_executor.py).  A sync stores what it takes   *)
(* from the IMAP folder in Qdrant, a digest tells it in a briefing; both     *)
(* look for unseen mail only, and taking a mail makes the server set its     *)
(* \Seen flag.  The IMAP calls and upserts run in threads, so callers        *)
(* interleave between any two of them.                                      *)
(***************************************************************************)
EXTENDS Naturals, FiniteSetsExt

CONSTANTS
  Mails,          \* sequence numbers in the folder, in order of arrival
  Threaded,       \* mails that answer another one
  MaxFetch,       \* EMAIL_MAX_FETCH
  Uids,           \* UIDs of calendar events
  Readers,        \* threads, numbers: the first that is free reads
  MaxVersion,     \* bound: versions of an event
  MaxReads,       \* bound: syncs and digests
  MaxTroubles     \* bound: failures, crashes, mails read or flagged by the user

ASSUME MailboxAssumption ==
  /\ Mails \subseteq Nat /\ IsFiniteSet(Mails) /\ Threaded \subseteq Mails /\ Readers \subseteq Nat
  /\ MaxFetch \in Nat /\ MaxVersion \in Nat \ {0} /\ MaxReads \in Nat /\ MaxTroubles \in Nat

VARIABLES
  folder,         \* IMAP: mails that came, those unseen, those flagged
  calendar,       \* the version of every event
  reader,         \* every thread: where it is and what it has in hand
  inbox,          \* Qdrant email_inbox
  entries,        \* Qdrant calendar_events: the version of every event, 0: none
  syncRow,        \* email_sync_log, account imap: count and status
  told,           \* mails that were in a digest
  reads, troubles,
  taken,          \* history: mails fetched by the bridge
  dropped,        \* history: mails in the hands of a call that failed
  passed,         \* history: mails fetched and not found important
  again,          \* history: mails wanted by two readers, or unseen once more
  known           \* history: the newest version a whole sync has stored

mailVars ==
  <<folder, calendar, reader, inbox, entries, syncRow, told, reads, troubles,
    taken, dropped, passed, again, known>>

Away == [at |-> "away", kind |-> "sync", todo |-> {}, flagged |-> {}, found |-> {}, count |-> 0,
         status |-> "ok", events |-> [u \in Uids |-> 0], fetched |-> [u \in Uids |-> 0], alone |-> TRUE]
Reading == {r \in Readers : reader[r].at # "away"}
Trouble == troubles < MaxTroubles /\ troubles' = troubles + 1
ReaderLeaves(r) == reader' = [reader EXCEPT ![r] = Away]
Wanted(r) == reader[r].todo
History == <<taken, dropped, passed, again, known>>

MailboxTypeOK ==
  /\ folder.unseen \cup folder.flagged \subseteq folder.came /\ folder.came \subseteq Mails
  /\ calendar \in [Uids -> 1..MaxVersion] /\ entries \in [Uids -> 0..MaxVersion]
  /\ \A r \in Readers :
       /\ reader[r].at \in {"away", "search", "fetch", "events", "upsert", "log"}
       /\ Wanted(r) \cup reader[r].found \subseteq folder.came
  /\ inbox \cup told \subseteq taken /\ taken \subseteq folder.came
  /\ syncRow.count <= Cardinality(Mails) /\ syncRow.status \in {"none", "ok", "error"}

MailboxInit ==
  /\ folder = [came |-> {}, unseen |-> {}, flagged |-> {}]
  /\ calendar = [u \in Uids |-> 1] /\ entries = [u \in Uids |-> 0]
  /\ reader = [r \in Readers |-> Away]
  /\ inbox = {} /\ told = {} /\ syncRow = [count |-> 0, status |-> "none"]
  /\ reads = 0 /\ troubles = 0
  /\ taken = {} /\ dropped = {} /\ passed = {} /\ again = {}
  /\ known = [u \in Uids |-> 0]

-----------------------------------------------------------------------------
(* The world: mails come, the user reads, flags and unreads them, events change. *)

MailComes ==
  /\ Mails # folder.came
  /\ LET m == Min(Mails \ folder.came) IN
       folder' = [folder EXCEPT !.came = @ \cup {m}, !.unseen = @ \cup {m}]
  /\ UNCHANGED <<calendar, reader, inbox, entries, syncRow, told, reads, troubles, History>>

UserMarks ==
  /\ Trouble
  /\ \E m \in folder.came :
       \/ folder' = [folder EXCEPT !.flagged = @ \cup {m}] /\ UNCHANGED again
       \/ folder' = [folder EXCEPT !.unseen = @ \ {m}] /\ UNCHANGED again
       \/ folder' = [folder EXCEPT !.unseen = @ \cup {m}] /\ again' = again \cup {m}
  /\ UNCHANGED <<calendar, reader, inbox, entries, syncRow, told, reads, taken, dropped, passed, known>>

EventChanges ==
  /\ \E u \in Uids :
       calendar[u] < MaxVersion /\ calendar' = [calendar EXCEPT ![u] = @ + 1]
  /\ UNCHANGED <<folder, reader, inbox, entries, syncRow, told, reads, troubles, History>>

-----------------------------------------------------------------------------
(* _fetch_emails_sync *)

\* POST /sync, or the email_digest section of a briefing.
StartRead(r) ==
  /\ reads < MaxReads /\ reads' = reads + 1
  /\ reader[r].at = "away" /\ \A o \in Readers : o < r => o \in Reading
  /\ \E kind \in {"sync", "digest"} :
       reader' = [o \in Readers |->
         IF o = r THEN [Away EXCEPT !.at = "search", !.kind = kind, !.alone = (Reading = {})]
         ELSE [reader[o] EXCEPT !.alone = FALSE]]
  /\ UNCHANGED <<folder, calendar, inbox, entries, syncRow, told, troubles, History>>

\* msg_ids[-max_fetch:]
NewestOf(S) == {m \in S : Cardinality({n \in S : n > m}) < MaxFetch}

\* Mutant of Search: ALL in the place of UNSEEN.
SearchAll == NewestOf(folder.came)

Search == NewestOf(folder.unseen)

\* UNSEEN, then FLAGGED, whose failure is passed over.
SearchUnseen(r) ==
  /\ reader[r].at = "search"
  /\ LET todo == Search IN
       /\ again' = again \cup (todo \cap UNION {Wanted(o) : o \in Readers \ {r}})
       /\ \/ /\ reader' = [reader EXCEPT ![r] = [@ EXCEPT !.at = "fetch", !.todo = todo, !.flagged = folder.flagged]]
             /\ UNCHANGED troubles
          \/ /\ Trouble
             /\ reader' = [reader EXCEPT ![r] = [@ EXCEPT !.at = "fetch", !.todo = todo]]
  /\ UNCHANGED <<folder, calendar, inbox, entries, syncRow, told, reads, taken, dropped, passed, known>>

\* No connection, no login: the digest is an error text, the sync goes on
\* without mails.
SearchRaises(r) ==
  /\ reader[r].at = "search" /\ Trouble
  /\ reader' = [reader EXCEPT ![r] =
       IF @.kind = "digest" THEN Away ELSE [@ EXCEPT !.at = "events", !.status = "error"]]
  /\ UNCHANGED <<folder, calendar, inbox, entries, syncRow, told, reads, History>>

\* Nobody known by e-mail: the rows of dm_pairing have no address.
Important(r, m) == m \in reader[r].flagged \cup Threaded

\* FETCH BODY[HEADER] BODY[TEXT], without PEEK.
FetchMail(r) ==
  /\ reader[r].at = "fetch" /\ reader[r].todo # {}
  /\ LET k == reader[r]
         m == Min(k.todo)
         keep == IF Important(r, m) THEN {m} ELSE {} IN
       /\ folder' = [folder EXCEPT !.unseen = @ \ {m}]
       /\ taken' = taken \cup {m}
       /\ passed' = passed \cup ({m} \ keep)
       /\ \/ /\ reader' = [reader EXCEPT ![r] = [k EXCEPT !.todo = k.todo \ {m}, !.found = k.found \cup keep]]
             /\ UNCHANGED <<troubles, dropped>>
          \/ /\ Trouble /\ dropped' = dropped \cup {m}
             /\ reader' = [reader EXCEPT ![r].todo = k.todo \ {m}]
  /\ UNCHANGED <<calendar, inbox, entries, syncRow, told, reads, again, known>>

\* The digest names what it was given, summarised or as it is.
FetchEnds(r) ==
  /\ reader[r].at = "fetch" /\ reader[r].todo = {}
  /\ IF reader[r].kind = "digest"
       THEN told' = told \cup reader[r].found /\ ReaderLeaves(r)
       ELSE reader' = [reader EXCEPT ![r].at = "events"] /\ UNCHANGED told
  /\ UNCHANGED <<folder, calendar, inbox, entries, syncRow, reads, troubles, History>>

-----------------------------------------------------------------------------
(* sync_to_qdrant *)

\* A calendar that cannot be read has no events.
FetchEvents(r) ==
  /\ reader[r].at = "events"
  /\ \/ /\ reader' = [reader EXCEPT ![r] = [@ EXCEPT !.at = "upsert", !.events = calendar, !.fetched = calendar]]
        /\ UNCHANGED troubles
     \/ Trouble /\ reader' = [reader EXCEPT ![r] = [@ EXCEPT !.at = "upsert", !.alone = FALSE]]
  /\ UNCHANGED <<folder, calendar, inbox, entries, syncRow, told, reads, History>>

UpsertEmail(r) ==
  /\ reader[r].at = "upsert"
  /\ \E m \in reader[r].found : LET k == reader[r] IN
       \/ /\ inbox' = inbox \cup {m}
          /\ reader' = [reader EXCEPT ![r] = [k EXCEPT !.found = k.found \ {m}, !.count = k.count + 1]]
          /\ UNCHANGED <<dropped, troubles>>
       \/ /\ Trouble /\ dropped' = dropped \cup {m}
          /\ reader' = [reader EXCEPT ![r].found = k.found \ {m}]
          /\ UNCHANGED inbox
  /\ UNCHANGED <<folder, calendar, entries, syncRow, told, reads, taken, passed, again, known>>

\* By UID, after the mails.
UpsertEvent(r) ==
  /\ reader[r].at = "upsert" /\ reader[r].found = {}
  /\ \E u \in Uids :
       /\ reader[r].events[u] # 0
       /\ \/ /\ entries' = [entries EXCEPT ![u] = reader[r].events[u]]
             /\ reader' = [reader EXCEPT ![r].events[u] = 0]
             /\ UNCHANGED troubles
          \/ /\ Trouble
             /\ reader' = [reader EXCEPT ![r] = [@ EXCEPT !.events[u] = 0, !.alone = FALSE]]
             /\ UNCHANGED entries
  /\ UNCHANGED <<folder, calendar, inbox, syncRow, told, reads, History>>

WriteSyncLog(r) ==
  /\ reader[r].at = "upsert" /\ reader[r].found = {} /\ \A u \in Uids : reader[r].events[u] = 0
  /\ \/ syncRow' = [count |-> reader[r].count, status |-> reader[r].status] /\ UNCHANGED troubles
     \/ Trouble /\ UNCHANGED syncRow
  /\ known' = IF reader[r].alone THEN reader[r].fetched ELSE known
  /\ ReaderLeaves(r)
  /\ UNCHANGED <<folder, calendar, inbox, entries, told, reads, taken, dropped, passed, again>>

\* The process dies with all mails in hand.
CrashMailbox ==
  /\ Reading # {} /\ Trouble
  /\ dropped' = dropped \cup UNION {reader[r].found : r \in Readers}
  /\ reader' = [r \in Readers |-> Away]
  /\ UNCHANGED <<folder, calendar, inbox, entries, syncRow, told, reads, taken, passed, again, known>>

MailboxNext ==
  \/ MailComes \/ UserMarks \/ EventChanges \/ CrashMailbox
  \/ \E r \in Readers :
       \/ StartRead(r) \/ SearchUnseen(r) \/ SearchRaises(r) \/ FetchMail(r) \/ FetchEnds(r)
       \/ FetchEvents(r) \/ UpsertEmail(r) \/ UpsertEvent(r) \/ WriteSyncLog(r)

MailboxSpec == MailboxInit /\ [][MailboxNext]_mailVars

-----------------------------------------------------------------------------
(* Properties. *)

\* No mail that the bridge marked as seen is lost but by a failure: it is in
\* Qdrant, in a digest, in the hands of a reader, or was not found important.
TakenIsAccounted ==
  taken \subseteq inbox \cup told \cup dropped \cup passed \cup UNION {reader[r].found : r \in Readers}

\* Syncs and digests take mails from each other: one that was stored is in no
\* digest, and the other way round, unless both had found it or the user
\* marked it unread again.
OneReaderTakes == inbox \cap told \subseteq again

\* What a sync has stored of the calendar, from start to end alone and without
\* a failure, no later one takes back; of two that overlap the older may win.
CalendarGoesOn == \A u \in Uids : known[u] <= entries[u]

MailSafe == MailboxTypeOK /\ TakenIsAccounted /\ OneReaderTakes /\ CalendarGoesOn
=============================================================================
