----------------------------- MODULE ChannelGate -----------------------------
(***************************************************************************)
(* Messages that come in over Telegram (channels/telegram_adapter.py), the  *)
(* gate they pass (handle_incoming of channels/__init__.py) and the pairing *)
(* of unknown users with an admin's approval (dm_pairing.py).               *)
(*                                                                         *)
(* The adapter is one task of the event loop.  The admin's requests run in  *)
(* the thread pool and come between any two database calls of the gate.     *)
(* Telegram keeps an update until a later poll asks for higher ids.         *)
(***************************************************************************)
EXTENDS Integers, Sequences

CONSTANTS
  Users,        \* platform ids
  NoUser,       \* the sender of an update that has no text
  Codes,        \* pairing codes, numbers in the order they are given: token_hex(3)
  NoPairing,    \* no row with this code
  Expiry,       \* PAIRING_CODE_EXPIRY
  MaxMinute,    \* bound: the clock
  MaxUpdates,   \* bound: updates that users send
  MaxCrashes    \* bound: ends of the process

ASSUME GateAssumption ==
  /\ NoUser \notin Users /\ Codes \subseteq Nat
  /\ Expiry \in Nat /\ MaxMinute \in Nat /\ MaxUpdates \in Nat /\ MaxCrashes \in Nat

Decisions == {"approved", "rejected", "expired"}

\* A row of pending_pairings.
Pairing == [user : Users, deadline : Nat, status : Decisions \cup {"pending"}]

ASSUME PairingAssumption == NoPairing \notin Pairing

VARIABLES
  allowed,      \* allowed_users
  pairing,      \* pending_pairings, by code
  minute,       \* the clock
  updates,      \* the senders of all updates, in the order of their ids
  confirmed,    \* Telegram has forgotten the updates up to this one
  offset,       \* _offset of the adapter
  batch,        \* what it has received and not processed yet: first, last
  gate,         \* where it is
  handled,      \* history: how often each update has been answered
  missed,       \* history: the updates that an exception has cut off
  admitted,     \* history: updates whose sender was approved at some time since
  served,       \* history: updates that have reached the chat
  crashes       \* history: ends of the process

adminVars == <<allowed, pairing, minute>>
pollVars == <<updates, confirmed, offset, batch>>
seenVars == <<handled, missed, admitted, served>>
gateVars == <<adminVars, pollVars, gate, seenVars, crashes>>

Ids == 1..MaxUpdates

GateTypeOK ==
  /\ allowed \subseteq Users
  /\ pairing \in [Codes -> Pairing \cup {NoPairing}]
  /\ minute \in 0..MaxMinute
  /\ updates \in Seq(Users \cup {NoUser}) /\ Len(updates) <= MaxUpdates
  /\ confirmed \in 0..Len(updates) /\ offset \in 0..(Len(updates) + 1)
  /\ batch.first \in 1..(Len(updates) + 1) /\ batch.last \in 0..Len(updates)
  /\ gate \in {"poll", "next", "gate", "pair", "session", "reply"}
  /\ gate \in {"gate", "pair", "session", "reply"} => batch.first <= batch.last
  /\ handled \in [Ids -> 0..(MaxCrashes + 1)]
  /\ missed \subseteq Ids /\ admitted \subseteq Ids /\ served \subseteq Ids
  /\ crashes \in 0..MaxCrashes

Nothing == [first |-> 1, last |-> 0]

GateInit ==
  /\ allowed = {} /\ pairing = [c \in Codes |-> NoPairing] /\ minute = 0
  /\ updates = <<>> /\ confirmed = 0 /\ offset = 0 /\ batch = Nothing
  /\ gate = "poll"
  /\ handled = [i \in Ids |-> 0]
  /\ missed = {} /\ admitted = {} /\ served = {} /\ crashes = 0

-----------------------------------------------------------------------------
(* Pairing. *)

Pending(c) == pairing[c] # NoPairing /\ pairing[c].status = "pending"

\* The codes that are given again to this user.
LiveCodes(u) == {c \in Codes : Pending(c) /\ pairing[c].user = u /\ pairing[c].deadline > minute}

\* Mutant of Decide: of the row only its existence is looked at.
DecideAgain(c, decision) ==
  /\ pairing[c] # NoPairing
  /\ pairing' = [pairing EXCEPT ![c].status = decision]

Decide(c, decision) ==
  /\ Pending(c)
  /\ pairing' = [pairing EXCEPT ![c].status = decision]

OfUser(u) == {i \in DOMAIN updates : updates[i] = u}

\* approve_pairing: in one transaction, and the expiry is not looked at.
Approve(c) ==
  /\ Decide(c, "approved")
  /\ allowed' = allowed \cup {pairing[c].user}
  /\ admitted' = admitted \cup OfUser(pairing[c].user)
  /\ UNCHANGED <<minute, pollVars, gate, handled, missed, served, crashes>>

RejectPairing(c) ==
  /\ Decide(c, "rejected")
  /\ UNCHANGED <<allowed, minute, pollVars, gate, seenVars, crashes>>

Revoke(u) ==
  /\ u \in allowed
  /\ allowed' = allowed \ {u}
  /\ UNCHANGED <<pairing, minute, pollVars, gate, seenVars, crashes>>

\* _expire_stale, of every list of the pending ones.
ExpirePairings ==
  /\ pairing' = [c \in Codes |->
       IF Pending(c) /\ pairing[c].deadline < minute
       THEN [pairing[c] EXCEPT !.status = "expired"] ELSE pairing[c]]
  /\ UNCHANGED <<allowed, minute, pollVars, gate, seenVars, crashes>>

Minute ==
  /\ minute < MaxMinute
  /\ minute' = minute + 1
  /\ UNCHANGED <<allowed, pairing, pollVars, gate, seenVars, crashes>>

-----------------------------------------------------------------------------
(* Updates. *)

Write(u) ==
  /\ Len(updates) < MaxUpdates
  /\ updates' = Append(updates, u)
  /\ admitted' = IF u \in allowed THEN admitted \cup {Len(updates')} ELSE admitted
  /\ UNCHANGED <<adminVars, confirmed, offset, batch, gate, handled, missed, served, crashes>>

Larger(a, b) == IF a > b THEN a ELSE b

\* Mutant of Poll: the last id itself is asked for again.
PollFromLast ==
  /\ gate = "poll"
  /\ confirmed' = Larger(confirmed, offset - 1)
  /\ IF confirmed' = Len(updates)
     THEN UNCHANGED <<offset, batch, gate>>
     ELSE /\ batch' = [first |-> confirmed' + 1, last |-> Len(updates)]
          /\ offset' = Len(updates)
          /\ gate' = "next"
  /\ UNCHANGED <<adminVars, updates, seenVars, crashes>>

\* getUpdates: an offset of n confirms what is below n.
Poll ==
  /\ gate = "poll"
  /\ confirmed' = Larger(confirmed, offset - 1)
  /\ IF confirmed' = Len(updates)
     THEN UNCHANGED <<offset, batch, gate>>
     ELSE /\ batch' = [first |-> confirmed' + 1, last |-> Len(updates)]
          /\ offset' = Len(updates) + 1
          /\ gate' = "next"
  /\ UNCHANGED <<adminVars, updates, seenVars, crashes>>

Sender == updates[batch.first]

Answered ==
  /\ handled' = [handled EXCEPT ![batch.first] = @ + 1]
  /\ batch' = [batch EXCEPT !.first = @ + 1]
  /\ gate' = "next"

\* _process_update, to the gate.
NextUpdate ==
  /\ gate = "next"
  /\ \/ /\ batch.first > batch.last
        /\ gate' = "poll"
        /\ UNCHANGED <<batch, handled>>
     \/ /\ batch.first <= batch.last /\ Sender = NoUser
        /\ Answered
     \/ /\ batch.first <= batch.last /\ Sender # NoUser
        /\ gate' = "gate"
        /\ UNCHANGED <<batch, handled>>
  /\ UNCHANGED <<adminVars, updates, confirmed, offset, missed, admitted, served, crashes>>

\* is_user_approved, the first time.
PassGate ==
  /\ gate = "gate"
  /\ gate' = IF Sender \in allowed THEN "session" ELSE "pair"
  /\ UNCHANGED <<adminVars, pollVars, seenVars, crashes>>

\* create_pairing_code: rows are never deleted, so that a code is given once.
GiveCode ==
  /\ gate = "pair"
  /\ gate' = "reply"
  /\ \/ LiveCodes(Sender) # {} /\ UNCHANGED pairing
     \/ /\ LiveCodes(Sender) = {}
        /\ \E c \in Codes :
             /\ pairing[c] = NoPairing /\ \A d \in Codes : d < c => pairing[d] # NoPairing
             /\ pairing' = [pairing EXCEPT ![c] =
                  [user |-> Sender, deadline |-> minute + Expiry, status |-> "pending"]]
  /\ UNCHANGED <<allowed, minute, pollVars, seenVars, crashes>>

\* _resolve_unified_session, which asks again and changes the session only,
\* and the chat, whose exceptions become an answer.
ServeChat ==
  /\ gate = "session"
  /\ gate' = "reply"
  /\ served' = served \cup {batch.first}
  /\ UNCHANGED <<adminVars, pollVars, handled, missed, admitted, crashes>>

\* send_message: failures are logged, retried and then ignored.
Reply ==
  /\ gate = "reply"
  /\ Answered
  /\ UNCHANGED <<adminVars, updates, confirmed, offset, missed, admitted, served, crashes>>

\* SQLite, or a code that is taken, raises out of handle_incoming: start logs
\* it, sleeps, and polls from the offset it has.
GateRaises ==
  /\ gate \in {"gate", "pair", "session"}
  /\ gate' = "poll"
  /\ missed' = missed \cup batch.first..batch.last
  /\ batch' = Nothing
  /\ UNCHANGED <<adminVars, updates, confirmed, offset, handled, admitted, served, crashes>>

\* The process ends and is started again; _offset is 0 then.
Restart ==
  /\ crashes < MaxCrashes
  /\ crashes' = crashes + 1
  /\ gate' = "poll" /\ batch' = Nothing /\ offset' = 0
  /\ UNCHANGED <<adminVars, updates, confirmed, seenVars>>

GateLoop == Poll \/ NextUpdate \/ PassGate \/ GiveCode \/ ServeChat \/ Reply

GateNext ==
  \/ \E c \in Codes : Approve(c) \/ RejectPairing(c)
  \/ \E u \in Users : Revoke(u)
  \/ ExpirePairings \/ Minute
  \/ \E u \in Users \cup {NoUser} : Write(u)
  \/ GateLoop \/ GateRaises \/ Restart

GateSpec == GateInit /\ [][GateNext]_gateVars

\* The loop is a task that only awaits calls with timeouts; one of its
\* database calls may raise instead.
GateFairness == WF_gateVars(GateLoop \/ GateRaises)
FairGateSpec == GateSpec /\ GateFairness

-----------------------------------------------------------------------------
(* Properties. *)

\* channels/__init__.py:53: "must be approved before interaction".  What
\* reaches the chat comes from a user who was approved at some time after
\* sending it, however late the revocation and the poll were.
ServedWasAdmitted == served \subseteq admitted

\* create_pairing_code: of the codes that are not overdue a user has one.
OneLiveCode ==
  \A c, d \in Codes :
    /\ Pending(c) /\ Pending(d) /\ pairing[c].user = pairing[d].user
    /\ pairing[c].deadline > minute /\ pairing[d].deadline > minute
    => c = d

\* What is decided about a code stays: a rejected one lets nobody in later, an
\* approved one cannot be used again after a revocation.
DecisionStands ==
  [][\A c \in Codes : pairing[c] # NoPairing /\ pairing[c].status \in Decisions
       => pairing'[c] = pairing[c]]_gateVars

\* What Telegram forgets has been answered, or an exception came before it;
\* and only a crash makes an update come twice.
ForgottenIsHandled ==
  /\ \A i \in 1..confirmed : handled[i] > 0 \/ i \in missed
  /\ \A i \in Ids : handled[i] <= 1 + crashes

\* Each update is answered in the end, also over crashes, unless an exception
\* has cut off its batch.
AllHandled == \A i \in DOMAIN updates : handled[i] > 0 \/ i \in missed
UpdatesAreHandled == []<>AllHandled

\* The gate and the delivery: only who was admitted is served, one code each,
\* and no update is lost or answered twice but by what is allowed to.
GateSafe == GateTypeOK /\ ServedWasAdmitted /\ OneLiveCode /\ ForgottenIsHandled
=============================================================================
