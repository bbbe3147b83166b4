------------------------------ MODULE SmartChat ------------------------------
(***************************************************************************)
(* Smart chat (extensions.py, streaming.py) with what it keeps between      *)
(* messages: the working memory of the session (working_memory.py) and the  *)
(* summary of its conversation (context_compression.py).  The client sends  *)
(* the whole conversation every time; messages have the same length, so     *)
(* that it is summarised from Long messages on and Recent stay as they are. *)
(* Chats run in threads; each call of a model and each hold of a lock is a   *)
(* step.  A chat without a session id is of the session "_default".          *)
(***************************************************************************)
EXTENDS Naturals, SequencesExt

CONSTANTS
  Sessions,       \* session ids
  Default,        \* "_default", the session of the chats without an id
  Chunks,         \* ids of retrieved chunks
  Chats,          \* threads, numbers: the first that is free takes a request
  Long, Recent,   \* SUMMARIZE_TOKEN_THRESHOLD, KEEP_RECENT_TOKEN_BUDGET
  MaxSessions,    \* WORKING_MEMORY_MAX_SESSIONS
  MaxSummaries,   \* 100
  MaxChats        \* bound: chats

ASSUME ChatAssumption ==
  /\ Default \in Sessions
  /\ Chats \subseteq Nat /\ Recent \in Nat \ {0} /\ Long \in Nat /\ Recent <= Long
  /\ MaxSessions \in Nat \ {0} /\ MaxSummaries \in Nat \ {0} /\ MaxChats \in Nat

VARIABLES
  sessions,       \* SessionMemory objects, in the order they were made
  lru,          \* WorkingMemoryStore: objects, the latest used last
  summaries,      \* _summary_cache: session and last message summarised
  chat,           \* every thread: where it is and what it has
  sent,           \* messages of the conversation of every session
  asked,          \* history: sessions in the order of their last use
  collided,          \* history: objects and chunks two chats found unseen
  twice           \* history: objects and chunks shown a second time

chatVars == <<sessions, lru, summaries, chat, sent, asked, collided, twice>>

Silent == [at |-> "silent", session |-> Default, object |-> 0, length |-> 0, kept |-> 0,
           summed |-> 0, source |-> "whole", found |-> {}]
Talking == {c \in Chats : chat[c].at # "silent"}
\* A dict without a key: at most one place holds it.
Drop(s, places) == IF places = {} THEN s ELSE RemoveAt(s, CHOOSE i \in places : TRUE)
AllSent == MapThenSumSet(LAMBDA n : sent[n], Sessions)
Enter(c, place) == chat' = [chat EXCEPT ![c].at = place]
Cached(n) == {i \in DOMAIN summaries : summaries[i].session = n}

ChatTypeOK ==
  /\ \A i \in DOMAIN sessions :
       /\ sessions[i].id \in Sessions /\ sessions[i].stale \in BOOLEAN
       /\ sessions[i].shown \subseteq sessions[i].seen /\ sessions[i].seen \subseteq Chunks
  /\ Len(lru) <= MaxSessions /\ \A i \in DOMAIN lru : lru[i] \in DOMAIN sessions
  /\ Len(summaries) <= MaxSummaries
  /\ \A n \in Sessions : Cardinality(Cached(n)) <= 1
  /\ \A c \in Chats :
       /\ chat[c].at \in {"silent", "compress", "summarise", "retrieve", "track", "answer"}
       /\ chat[c].found \subseteq Chunks /\ chat[c].kept \in 0..chat[c].length
       /\ chat[c].source \in {"whole", "summary", "cache", "empty"}
  /\ sent \in [Sessions -> Nat]

ChatInit ==
  /\ sessions = <<>> /\ lru = <<>> /\ summaries = <<>>
  /\ chat = [c \in Chats |-> Silent]
  /\ sent = [n \in Sessions |-> 0]
  /\ asked = <<>> /\ collided = {} /\ twice = {}

-----------------------------------------------------------------------------
(* Working memory *)

Live(n) == {i \in DOMAIN lru : sessions[lru[i]].id = n /\ ~ sessions[lru[i]].stale}

\* Mutant of Others: an expired object stays.
OthersAndExpired(n) == Drop(lru, Live(n))

Others(n) == Drop(lru, {i \in DOMAIN lru : sessions[lru[i]].id = n})
AskedBut(n) == Drop(asked, {i \in DOMAIN asked : asked[i] = n})

\* The object is the latest; the oldest goes when there are too many.
UsedLast(n, o) ==
  LET all == Append(Others(n), o)
  IN IF Len(all) > MaxSessions THEN Tail(all) ELSE all

\* get_session: the object of the session, or a new one if there is none or it
\* has expired.
GetSession(n, o) ==
  /\ IF Live(n) # {}
       THEN o = lru[CHOOSE i \in Live(n) : TRUE] /\ UNCHANGED sessions
       ELSE /\ o = Len(sessions) + 1
            /\ sessions' = Append(sessions, [id |-> n, seen |-> {}, shown |-> {}, stale |-> FALSE])
  /\ lru' = UsedLast(n, o)
  /\ asked' = Append(AskedBut(n), n)

\* SESSION_TTL, an hour, passes after the last chat of the session.
SessionExpires ==
  /\ \E i \in DOMAIN lru :
       /\ ~ sessions[lru[i]].stale /\ \A c \in Talking : chat[c].object # lru[i]
       /\ sessions' = [sessions EXCEPT ![lru[i]].stale = TRUE]
  /\ UNCHANGED <<lru, summaries, chat, sent, asked, collided, twice>>

-----------------------------------------------------------------------------
(* _smart_chat_inner, _stream_smart_chat *)

StartChat(c) ==
  /\ chat[c].at = "silent" /\ \A d \in Chats : d < c => d \in Talking
  /\ AllSent < MaxChats
  /\ \E n \in Sessions, o \in 1..(Len(sessions) + 1) :
       /\ GetSession(n, o)
       /\ sent' = [sent EXCEPT ![n] = @ + 1]
       /\ chat' = [chat EXCEPT ![c] =
            [Silent EXCEPT !.at = "compress", !.session = n, !.object = o,
               !.length = sent[n] + 1, !.kept = sent[n] + 1]]
  /\ UNCHANGED <<summaries, collided, twice>>

\* A short conversation stays, a summary that was made once is taken as it is.
Compress(c) ==
  /\ chat[c].at = "compress"
  /\ \/ chat[c].length <= Long /\ Enter(c, "retrieve")
     \/ /\ chat[c].length > Long /\ chat[c].session # Default
        /\ \E i \in Cached(chat[c].session) :
             chat' = [chat EXCEPT ![c] = [@ EXCEPT !.at = "retrieve", !.source = "cache",
                        !.kept = Recent, !.summed = summaries[i].upto]]
     \/ /\ chat[c].length > Long
        /\ chat[c].session = Default \/ Cached(chat[c].session) = {}
        /\ Enter(c, "summarise")
  /\ UNCHANGED <<sessions, lru, summaries, sent, asked, collided, twice>>

\* set_cached_summary: a dict keeps the place of a key.
SetSummary(n, upto) ==
  LET new == [session |-> n, upto |-> upto]
      all == IF Cached(n) # {}
               THEN [i \in DOMAIN summaries |-> IF i \in Cached(n) THEN new ELSE summaries[i]]
               ELSE Append(summaries, new)
  IN summaries' = IF Len(all) > MaxSummaries THEN Tail(all) ELSE all

\* The model summarises, answers with nothing, or raises.
Summarise(c) ==
  /\ chat[c].at = "summarise"
  /\ LET upto == chat[c].length - Recent IN
       \/ /\ chat' = [chat EXCEPT ![c] = [@ EXCEPT !.at = "retrieve", !.source = "summary",
                        !.kept = Recent, !.summed = upto]]
          /\ IF chat[c].session = Default THEN UNCHANGED summaries ELSE SetSummary(chat[c].session, upto)
       \/ /\ chat' = [chat EXCEPT ![c] = [@ EXCEPT !.at = "retrieve", !.source = "empty", !.kept = Recent]]
          /\ UNCHANGED summaries
       \/ Enter(c, "retrieve") /\ UNCHANGED summaries
  /\ UNCHANGED <<sessions, lru, sent, asked, collided, twice>>

\* What the search finds, without what the session has seen.
Retrieve(c) ==
  /\ chat[c].at = "retrieve"
  /\ \/ Enter(c, "answer") /\ UNCHANGED collided
     \/ \E results \in SUBSET Chunks \ {{}} :
          LET o == chat[c].object
              found == results \ sessions[o].seen
              others == {d \in Chats \ {c} : chat[d].at = "track" /\ chat[d].object = o}
          IN /\ chat' = [chat EXCEPT ![c] = [@ EXCEPT !.at = "track", !.found = found]]
             /\ collided' = collided \cup ({o} \X (found \cap UNION {chat[d].found : d \in others}))
  /\ UNCHANGED <<sessions, lru, summaries, sent, asked, twice>>

\* All are tracked; those that repeat the conversation or are beyond the token
\* budget are left out afterwards.
TrackRetrieval(c) ==
  /\ chat[c].at = "track"
  /\ sessions' = [sessions EXCEPT ![chat[c].object].seen = @ \cup chat[c].found]
  /\ \E given \in SUBSET chat[c].found :
       chat' = [chat EXCEPT ![c] = [@ EXCEPT !.at = "answer", !.found = given]]
  /\ UNCHANGED <<lru, summaries, sent, asked, collided, twice>>

\* The answer is put into the working memory, whose time begins again.
Answer(c) ==
  /\ chat[c].at = "answer"
  /\ LET o == chat[c].object
         used == [sessions[o] EXCEPT !.shown = @ \cup chat[c].found, !.stale = FALSE] IN
       /\ sessions' = [sessions EXCEPT ![o] = used]
       /\ twice' = twice \cup ({o} \X (chat[c].found \cap sessions[o].shown))
  /\ chat' = [chat EXCEPT ![c] = Silent]
  /\ UNCHANGED <<lru, summaries, sent, asked, collided>>

\* Classification, search or the model raises, or the client of a stream has
\* gone; a summary that raises is caught.
ChatFails(c) ==
  /\ chat[c].at \in {"compress", "retrieve", "answer"}
  /\ chat' = [chat EXCEPT ![c] = Silent]
  /\ UNCHANGED <<sessions, lru, summaries, sent, asked, collided, twice>>

ChatNext ==
  \/ SessionExpires
  \/ \E c \in Chats :
       \/ StartChat(c) \/ Compress(c) \/ Summarise(c) \/ Retrieve(c)
       \/ TrackRetrieval(c) \/ Answer(c) \/ ChatFails(c)

ChatSpec == ChatInit /\ [][ChatNext]_chatVars

-----------------------------------------------------------------------------
(* Properties. *)

\* The store keeps the sessions used last, in that order, whatever expires,
\* and one object for each.
StoreKeepsLatest ==
  Len(lru) <= Len(asked) /\ [i \in DOMAIN lru |-> sessions[lru[i]].id]
    = SubSeq(asked, Len(asked) - Len(lru) + 1, Len(asked))

\* A session shows the model no chunk a second time, unless two chats of it
\* had looked for it before either had noted it.
ShownOnce == twice \subseteq collided

\* The model is given all messages, summarised or as they are, but for those
\* that came after a summary was cached, or when it was empty.  A summary is
\* of messages that were sent.
MessagesReach ==
  \A c \in Talking :
    LET given == 1..chat[c].summed \cup (chat[c].length - chat[c].kept + 1)..chat[c].length IN
      /\ chat[c].source \in {"whole", "summary"} => given = 1..chat[c].length
      /\ chat[c].summed + Recent <= sent[chat[c].session] \/ chat[c].summed = 0

ChatSafe == ChatTypeOK /\ StoreKeepsLatest /\ ShownOnce /\ MessagesReach
=============================================================================
