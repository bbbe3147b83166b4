----------------------------- MODULE Notifications -----------------------------
(***************************************************************************)
(* Broadcasts of the scheduler's jobs to a chat platform and to browsers     *)
(* (broadcast_notifier.py, push_notifications.py, push_api.py, the page of   *)
(* admin_ui.py that subscribes).  Everything runs on the event loop: a push  *)
(* to all browsers is one step, a delivery to users one step for each.  An   *)
(* endpoint is made by a browser and used once; a push is accepted if it is  *)
(* signed by the VAPID key pair whose public key the endpoint was made with. *)
(* The broadcast notifier makes a manager of its own at its first push.      *)
(* Pushes are enabled.                                                       *)
(***************************************************************************)
EXTENDS Naturals, FiniteSets

CONSTANTS
  Endpoints,      \* push endpoints of browsers, numbers: in the order they are asked for
  Members,        \* users of the platform
  Senders,        \* coroutines of jobs
  MinInterval,    \* BROADCAST_MIN_INTERVAL_SEC
  MaxBeat,        \* bound: time
  MaxHitches      \* bound: failures, restarts, changes of approval

ASSUME NotifyAssumption ==
  Endpoints \subseteq Nat /\ MinInterval \in Nat \ {0} /\ MaxBeat \in Nat \ {0} /\ MaxHitches \in Nat

VARIABLES
  beat,           \* time
  lastBroadcast,  \* _last_broadcast, from 1 on; 0: none
  persisted,      \* PUSH_VAPID_*_KEY are in the environment
  pairs,          \* key pairs: of push_api, of the notifier (0: no manager), generated
  browser,        \* every endpoint: where its browser is, and its key pair
  subscribed,     \* push_subscriptions
  members,        \* users that are approved
  cast,           \* every coroutine: what it delivers
  hitches,
  refused         \* history: endpoints that refused a push for its key

notifyVars ==
  <<beat, lastBroadcast, persisted, pairs, browser, subscribed, members, cast, hitches, refused>>

\* Of the platform: who is yet to be sent to, who was listed, whom the message has
\* reached, and whom not although the adapter says nothing of it.
NoCast == [todo |-> {}, users |-> {}, reached |-> {}, lost |-> {}, listed |-> {}, ok |-> TRUE,
          pushed |-> {}, failed |-> {}, pushOk |-> TRUE, dropped |-> FALSE]
LivesAt(e) == browser[e].at \in {"made", "on", "leaving"}
Hitch == hitches < MaxHitches /\ hitches' = hitches + 1

NotifyTypeOK ==
  /\ lastBroadcast \in 0..beat /\ beat \in 1..MaxBeat
  /\ pairs.cast \in 0..pairs.made /\ pairs.api \in 1..pairs.made
  /\ subscribed \cup refused \subseteq Endpoints /\ members \subseteq Members
  /\ \A e \in Endpoints :
       /\ browser[e].at \in {"new", "asked", "made", "on", "leaving", "gone"}
       /\ browser[e].pair \in 0..pairs.made
  /\ \A s \in Senders : cast[s].todo \subseteq {"platform", "webpush"} /\ cast[s].users \subseteq Members

NotifyInit ==
  /\ beat = 1 /\ lastBroadcast = 0
  /\ persisted \in BOOLEAN /\ pairs = [api |-> 1, cast |-> 0, made |-> 1]
  /\ browser = [e \in Endpoints |-> [at |-> "new", pair |-> 0]]
  /\ subscribed = {} /\ members \in SUBSET Members
  /\ cast = [s \in Senders |-> NoCast]
  /\ hitches = 0 /\ refused = {}

Beat ==
  /\ beat < MaxBeat /\ beat' = beat + 1
  /\ UNCHANGED <<lastBroadcast, persisted, pairs, browser, subscribed, members, cast, hitches, refused>>

\* approve, revoke.
MemberChanges ==
  /\ Hitch
  /\ \E u \in Members : members' = IF u \in members THEN members \ {u} ELSE members \cup {u}
  /\ UNCHANGED <<beat, lastBroadcast, persisted, pairs, browser, subscribed, cast, refused>>

-----------------------------------------------------------------------------
(* The page of the admin UI, and push_api *)

Move(e, from, to) == browser[e].at = from /\ browser' = [browser EXCEPT ![e].at = to]

\* subscribePush asks for the public key, ...
AskKey(e) ==
  /\ browser[e].at = "new" /\ \A d \in Endpoints : d < e => browser[d].at # "new"
  /\ browser' = [browser EXCEPT ![e] = [at |-> "asked", pair |-> pairs.api]]
  /\ UNCHANGED <<beat, lastBroadcast, persisted, pairs, subscribed, members, cast, hitches, refused>>

\* ... makes the endpoint, ...
MakeEndpoint(e) ==
  /\ Move(e, "asked", "made")
  /\ UNCHANGED <<beat, lastBroadcast, persisted, pairs, subscribed, members, cast, hitches, refused>>

\* ... and has it stored.
Subscribe(e) ==
  /\ Move(e, "made", "on")
  /\ subscribed' = subscribed \cup {e}
  /\ UNCHANGED <<beat, lastBroadcast, persisted, pairs, members, cast, hitches, refused>>

\* unsubscribePush: the row, then the endpoint.
Unsubscribe(e) ==
  /\ Move(e, "on", "leaving")
  /\ subscribed' = subscribed \ {e}
  /\ UNCHANGED <<beat, lastBroadcast, persisted, pairs, members, cast, hitches, refused>>

EndpointGoes(e) ==
  /\ \/ Move(e, "leaving", "gone") /\ UNCHANGED hitches
     \/ \E at \in {"made", "on"} : Move(e, at, "gone") /\ Hitch
  /\ UNCHANGED <<beat, lastBroadcast, persisted, pairs, subscribed, members, cast, refused>>

-----------------------------------------------------------------------------
(* PushNotificationManager *)

\* A new manager takes the key pair of the environment or generates one.
KeyPair == IF persisted THEN 1 ELSE pairs.made + 1

\* Mutant of Expired: every subscription that failed goes.
ExpiredOrFailed(failed) == subscribed \cap failed

Expired(failed) == {e \in subscribed \cap failed : browser[e].at = "gone"}

\* send_to_all, signed with a pair: what fails and has gone (410) is deleted.
\* Some of the rest may fail as well.
SendToAll(pair, failed) ==
  LET dead == {e \in subscribed : ~ LivesAt(e)}
      wrong == {e \in subscribed : LivesAt(e) /\ browser[e].pair # pair}
  IN /\ failed \subseteq subscribed /\ dead \cup wrong \subseteq failed
     /\ IF failed = dead \cup wrong THEN UNCHANGED hitches ELSE Hitch
     /\ refused' = refused \cup wrong
     /\ subscribed' = subscribed \ Expired(failed)

\* POST /api/push/test
TestPush ==
  /\ subscribed # {} /\ \E failed \in SUBSET subscribed : SendToAll(pairs.api, failed)
  /\ UNCHANGED <<beat, lastBroadcast, persisted, pairs, browser, members, cast>>

-----------------------------------------------------------------------------
(* BroadcastNotifier *)

\* A broadcast too soon after another is dropped, for all of its channels.
Broadcast(s) ==
  /\ cast[s].todo = {} /\ cast[s].users = {}
  /\ \E channels \in SUBSET {"platform", "webpush"} \ {{}} :
       IF lastBroadcast # 0 /\ beat - lastBroadcast < MinInterval
         THEN cast' = [cast EXCEPT ![s] = [NoCast EXCEPT !.dropped = TRUE]] /\ UNCHANGED lastBroadcast
         ELSE cast' = [cast EXCEPT ![s] = [NoCast EXCEPT !.todo = channels]] /\ lastBroadcast' = beat
  /\ UNCHANGED <<beat, persisted, pairs, browser, subscribed, members, hitches, refused>>

\* _deliver_webpush: well done if a push was sent, or none failed.
DeliverWebpush(s) ==
  /\ "webpush" \in cast[s].todo
  /\ LET own == IF pairs.cast = 0 THEN KeyPair ELSE pairs.cast IN
       /\ pairs' = [pairs EXCEPT !.cast = own, !.made = IF own > pairs.made THEN own ELSE pairs.made]
       /\ \E failed \in SUBSET subscribed :
            /\ SendToAll(own, failed)
            /\ cast' = [cast EXCEPT ![s] = LET c == cast[s] IN
                 [c EXCEPT !.todo = c.todo \ {"webpush"}, !.pushed = subscribed \ failed,
                    !.failed = failed \ Expired(failed),
                    !.pushOk = subscribed # failed \/ failed = Expired(failed)]]
  /\ UNCHANGED <<beat, lastBroadcast, persisted, browser, members>>

\* _deliver_adapter: who is approved when it begins; nobody gets it if there is no
\* adapter for them.
ListUsers(s) ==
  /\ "platform" \in cast[s].todo
  /\ LET c == [cast[s] EXCEPT !.todo = cast[s].todo \ {"platform"}, !.listed = members] IN
       \/ cast' = [cast EXCEPT ![s] = [c EXCEPT !.users = members]]
       \/ members # {} /\ cast' = [cast EXCEPT ![s] = [c EXCEPT !.ok = FALSE]]
  /\ UNCHANGED <<beat, lastBroadcast, persisted, pairs, browser, subscribed, members, hitches, refused>>

\* One after the other.  The adapters of Telegram and WhatsApp give up a send
\* silently, that of Discord returns that it failed, at which nobody looks: only
\* an exception counts.
SendMessage(s) ==
  /\ \E u \in cast[s].users : LET c == [cast[s] EXCEPT !.users = cast[s].users \ {u}] IN
       \/ cast' = [cast EXCEPT ![s] = [c EXCEPT !.reached = c.reached \cup {u}]] /\ UNCHANGED hitches
       \/ cast' = [cast EXCEPT ![s] = [c EXCEPT !.lost = c.lost \cup {u}]] /\ Hitch
       \/ cast' = [cast EXCEPT ![s] = [c EXCEPT !.ok = FALSE]] /\ Hitch
  /\ UNCHANGED <<beat, lastBroadcast, persisted, pairs, browser, subscribed, members, refused>>

RestartNotifier ==
  /\ Hitch /\ lastBroadcast' = 0
  /\ pairs' = [api |-> KeyPair, cast |-> 0, made |-> KeyPair]
  /\ cast' = [s \in Senders |-> NoCast]
  /\ UNCHANGED <<beat, persisted, browser, subscribed, members, refused>>

NotifyNext ==
  \/ Beat \/ MemberChanges \/ TestPush \/ RestartNotifier
  \/ \E e \in Endpoints :
       AskKey(e) \/ MakeEndpoint(e) \/ Subscribe(e) \/ Unsubscribe(e) \/ EndpointGoes(e)
  \/ \E s \in Senders : Broadcast(s) \/ DeliverWebpush(s) \/ ListUsers(s) \/ SendMessage(s)

NotifySpec == NotifyInit /\ [][NotifyNext]_notifyVars

-----------------------------------------------------------------------------
(* Properties. *)

\* A browser that had its endpoint stored, and did not take it back, stays
\* subscribed as long as the endpoint lives, whatever pushes to it fail.
SubscribersStay == \A e \in Endpoints : browser[e].at = "on" => e \in subscribed

\* With the key pair in the environment no push is refused for its key.
\* Without, the notifier has a pair of its own and the pushes of jobs are.
KeptKeysPush == persisted => refused = {}

\* What a broadcast reports is so, as far as the notifier knows: well delivered on
\* the platform means that the adapter took the message for everybody approved when
\* it began and raised for none, who have it unless the adapter lost it; nobody else
\* does, whoever is approved or revoked meanwhile.  Well delivered by push means that
\* somebody has it or nobody live could.  Of a broadcast that was dropped nobody has it.
ReportsAreTrue ==
  \A s \in Senders :
    LET c == cast[s] IN
      /\ c.todo = {} /\ c.users = {} /\ c.ok => c.reached \cup c.lost = c.listed
      /\ c.reached \cup c.lost \subseteq c.listed
      /\ c.pushOk => c.pushed # {} \/ c.failed = {}
      /\ c.dropped => c.reached \cup c.lost \cup c.pushed = {}

NotifySafe == NotifyTypeOK /\ SubscribersStay /\ KeptKeysPush /\ ReportsAreTrue
=============================================================================
