------------------------------- MODULE WhatsApp -------------------------------
(***************************************************************************)
(* The WhatsApp adapter on a phone of the user's own, through the WAHA     *)
(* bridge (channels/whatsapp_adapter.py): what comes to the phone and what *)
(* goes out from it is told by webhooks, the adapter's own replies         *)
(* included.  The number of the phone is learned from WAHA, by the start   *)
(* and by a loop.                                                          *)
(***************************************************************************)
EXTENDS Naturals

CONSTANTS
  Parts,       \* of a reply that is cut, 1..n
  Webhooks,    \* coroutines
  MaxAttempts, \* to send a part
  MaxTexts, MaxFlaps \* bounds: messages, and changes of WAHA

ASSUME PhoneAssumption ==
  /\ Parts \subseteq Nat /\ MaxAttempts \in Nat \ {0}
  /\ MaxTexts \in Nat /\ MaxFlaps \in Nat

VARIABLES
  adapter,   \* "off", "on", or "looping": the number is asked for again and again
  waha,      \* "down", "up", or "linked": it knows the number of its phone
  ownNumber, \* whether the adapter knows it
  flaps,     \* bound
  messages,  \* by number: who wrote it and to whom, what it answers; 0: nothing
  toTell,    \* messages of which no webhook has come yet
  webhook,   \* what each coroutine is at
  delivered, \* history: by message and part, how often it was delivered as its answer
  doubtful,  \* history: parts whose delivery was answered by an error
  unknowing  \* history: own messages that were handled while the number was unknown
phoneVars ==
  <<adapter, waha, ownNumber, flaps, messages, toTell, webhook, delivered, doubtful, unknowing>>

MessageIds == 1..MaxTexts
NoMessage == [from |-> "nobody", to |-> "nobody", answers |-> 0]
NoWebhook == [message |-> 0, part |-> 0, attempt |-> 0]
Written == {m \in MessageIds: messages[m] # NoMessage}

PhoneInit ==
  /\ adapter = "off" /\ waha \in {"down", "up", "linked"} /\ ownNumber = FALSE /\ flaps = 0
  /\ messages = [m \in MessageIds |-> NoMessage] /\ toTell = {}
  /\ webhook = [w \in Webhooks |-> NoWebhook]
  /\ delivered = [m \in MessageIds |-> [p \in Parts |-> 0]] /\ doubtful = {} /\ unknowing = {}

WahaChanges ==
  /\ flaps < MaxFlaps /\ flaps' = flaps + 1 /\ waha' \in {"down", "up", "linked"} \ {waha}
  /\ UNCHANGED <<adapter, ownNumber, messages, toTell, webhook, delivered, doubtful, unknowing>>

Send(from, to, answers) ==
  \E m \in MessageIds:
    /\ messages[m] = NoMessage /\ \A n \in 1..(m - 1): messages[n] # NoMessage
    /\ messages' = [messages EXCEPT ![m] = [from |-> from, to |-> to, answers |-> answers]]
    /\ toTell' = toTell \cup {m}

\* A friend writes to the user, or the user to a friend or to himself.
MessageComes ==
  /\ \E who \in {<<"friend", "self">>, <<"self", "friend">>, <<"self", "self">>}: Send(who[1], who[2], 0)
  /\ UNCHANGED <<adapter, waha, ownNumber, flaps, webhook, delivered, doubtful, unknowing>>

-------------------------------------------------------------------------------
\* The start of an adapter that cannot reach WAHA does not begin the loop.
StartWaha ==
  /\ adapter = "off"
  /\ adapter' = IF waha = "down" THEN "on" ELSE "looping"
  /\ ownNumber' = (waha = "linked")
  /\ UNCHANGED <<waha, flaps, messages, toTell, webhook, delivered, doubtful, unknowing>>

\* An answer without a number leaves the one that is known.
RefreshStatus ==
  /\ adapter = "looping" /\ ownNumber' = (ownNumber \/ waha = "linked")
  /\ UNCHANGED <<adapter, waha, flaps, messages, toTell, webhook, delivered, doubtful, unknowing>>

-------------------------------------------------------------------------------
\* Mutant of Skipped: what the phone sends is not looked at.
SkippedNever(m) == FALSE

\* What the phone sends is a command only if it is sent to itself; as long as the
\* number is not known, all of it is.
Skipped(m) == messages[m].from = "self" /\ ownNumber /\ messages[m].to # "self"

HandleWebhook(w) ==
  /\ webhook[w] = NoWebhook
  /\ \E m \in toTell:
       /\ toTell' = toTell \ {m}
       /\ IF adapter = "off" \/ Skipped(m)
          THEN UNCHANGED <<webhook, unknowing>>
          ELSE /\ webhook' = [webhook EXCEPT ![w] = [message |-> m, part |-> 1, attempt |-> 1]]
               /\ unknowing' = IF messages[m].from = "self" /\ ~ ownNumber
                               THEN unknowing \cup {m} ELSE unknowing
  /\ UNCHANGED <<adapter, waha, ownNumber, flaps, messages, delivered, doubtful>>

\* An own message is answered to the own number, of a friend to the friend.
ReplyTo(m) == IF messages[m].from = "self" THEN (IF ownNumber THEN "self" ELSE "nobody") ELSE "friend"

NextPart(w) ==
  LET k == webhook[w] IN
    webhook' = [webhook EXCEPT ![w] =
      IF k.part + 1 \in Parts THEN [k EXCEPT !.part = k.part + 1, !.attempt = 1] ELSE NoWebhook]

\* The part is sent, and is a message of the phone itself; WAHA may answer with an
\* error all the same.
PartArrives(w) ==
  LET m == webhook[w].message
      p == webhook[w].part
  IN /\ m # 0 /\ waha = "linked" /\ ReplyTo(m) # "nobody"
     /\ Send("self", ReplyTo(m), m)
     /\ delivered' = [delivered EXCEPT ![m][p] = @ + 1]
     /\ \/ NextPart(w) /\ UNCHANGED doubtful
        \/ /\ doubtful' = doubtful \cup {<<m, p>>}
           /\ IF webhook[w].attempt < MaxAttempts
              THEN webhook' = [webhook EXCEPT ![w].attempt = @ + 1] ELSE NextPart(w)
     /\ UNCHANGED <<adapter, waha, ownNumber, flaps, unknowing>>

\* After the last attempt the next part is sent, and nobody is told.
PartFails(w) ==
  /\ webhook[w].message # 0
  /\ IF webhook[w].attempt < MaxAttempts
     THEN webhook' = [webhook EXCEPT ![w].attempt = @ + 1] ELSE NextPart(w)
  /\ UNCHANGED <<adapter, waha, ownNumber, flaps, messages, toTell, delivered, doubtful, unknowing>>

PhoneNext ==
  \/ WahaChanges \/ MessageComes \/ StartWaha \/ RefreshStatus
  \/ \E w \in Webhooks: HandleWebhook(w) \/ PartArrives(w) \/ PartFails(w)

PhoneSpec == PhoneInit /\ [][PhoneNext]_phoneVars

-------------------------------------------------------------------------------
(* Properties. *)

PhoneTypeOK ==
  /\ adapter \in {"off", "on", "looping"} /\ toTell \subseteq Written
  /\ \A m \in MessageIds: messages[m].answers \in 0..MaxTexts
  /\ \A w \in Webhooks: webhook[w].message \in Written \cup {0} /\ webhook[w].attempt \in 0..MaxAttempts

\* The adapter answers its own answers only where the user writes to himself, or
\* if they came while it did not know the number ("skip own messages to avoid
\* loops", whatsapp_adapter.py:251).
NoAnswerToAnswers ==
  \A m \in Written:
    LET asked == messages[m].answers
    IN asked # 0 /\ messages[asked].answers # 0 =>
         asked \in unknowing \/ messages[asked].to = "self"

\* A part of an answer is delivered twice only if an attempt that had arrived was
\* answered by an error (whatsapp_adapter.py:118).
DeliveredOnce ==
  \A m \in MessageIds: \A p \in Parts: delivered[m][p] > 1 => <<m, p>> \in doubtful

PhoneSafe == PhoneTypeOK /\ NoAnswerToAnswers /\ DeliveredOnce
===============================================================================
