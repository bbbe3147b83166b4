------------------------------ MODULE Retrieval ------------------------------
(***************************************************************************)
(* A search (app.py: search, reranker.py): the rows that the collections   *)
(* have, scored by the cross-encoder, cut, and scored again by feedback    *)
(* and age.  The cross-encoder is a global of the process that searches in *)
(* several threads load where it is missing and unload when it has been    *)
(* idle, with the flags beside it read without the lock.                   *)
(***************************************************************************)
EXTENDS Naturals, Sequences, SequencesExt, FiniteSets

CONSTANTS
  Hits,           \* the points of the collections
  Found,          \* the sets of them a search can find, as collections answer or fail
  Similarity,     \* by point, how near it is
  Relevance,      \* by point, the cross-encoder's score
  Liked,          \* by point, the boost of feedback
  Freshness,      \* by point, what age has left of it
  Kept,           \* the limit of a search
  Threads,
  UnloadAfter,    \* RERANKER_UNLOAD_AFTER, 0 for never
  MaxIdle, MaxRequested, MaxLoads \* bounds

Unheld == 0

ASSUME RetrievalAssumption ==
  /\ IsFiniteSet(Hits) /\ Found \subseteq SUBSET Hits /\ Unheld \notin Threads
  /\ Kept \in Nat /\ UnloadAfter \in Nat /\ MaxIdle \in Nat /\ MaxRequested \in Nat /\ MaxLoads \in Nat

VARIABLES
  encoder,       \* the global _model: "none" or "loaded"
  encoderLoaded, encoderFailed, \* the flags beside it
  lastUsed, clockNow,
  loadLock,      \* who has it
  thread,        \* what each request is at
  requested,
  loads          \* history: the encoders made, and those the global has dropped

encoderVars == <<encoder, encoderLoaded, encoderFailed, lastUsed>>
retrievalVars == <<encoderVars, clockNow, loadLock, thread, requested, loads>>

NoRequest ==
  [at |-> "idle", searching |-> FALSE, rows |-> {}, reply |-> <<>>, scorer |-> "none",
   excused |-> FALSE]

RetrievalInit ==
  /\ encoder = "none" /\ encoderLoaded = FALSE /\ encoderFailed = FALSE
  /\ lastUsed = 0 /\ clockNow = 0 /\ loadLock = Unheld
  /\ thread = [t \in Threads |-> NoRequest]
  /\ requested = 0 /\ loads = [made |-> 0, dropped |-> 0]

Goes(t, to) == thread' = [thread EXCEPT ![t].at = to]
Unused(since) == clockNow - since > UnloadAfter

SecondsPass ==
  /\ clockNow < MaxIdle /\ clockNow' = clockNow + 1
  /\ UNCHANGED <<encoderVars, loadLock, thread, requested, loads>>

\* The embedded query meets the collections; one that fails twice, with and
\* without names of vectors, is left out.  Without rows nothing is scored.
StartSearch(t) ==
  /\ thread[t].at = "idle" /\ requested < MaxRequested /\ requested' = requested + 1
  /\ \E rows \in Found:
       thread' = [thread EXCEPT
         ![t] = [NoRequest EXCEPT !.at = "idle?", !.searching = TRUE, !.rows = rows]]
  /\ UNCHANGED <<encoderVars, clockNow, loadLock, loads>>

\* The state of the reranker is asked for: it is loaded for that, and counts as used.
AskStatus(t) ==
  /\ thread[t].at = "idle" /\ requested < MaxRequested /\ requested' = requested + 1
  /\ thread' = [thread EXCEPT ![t] = [NoRequest EXCEPT !.at = "load"]]
  /\ UNCHANGED <<encoderVars, clockNow, loadLock, loads>>

\* Looked at without the lock, and again with it.
MaybeUnload(t) ==
  /\ thread[t].at = "idle?"
  /\ Goes(t, IF encoderLoaded /\ encoder # "none" /\ UnloadAfter > 0 /\ Unused(lastUsed)
             THEN "unload lock" ELSE "load")
  /\ UNCHANGED <<encoderVars, clockNow, loadLock, requested, loads>>

TakeUnloadLock(t) ==
  /\ thread[t].at = "unload lock" /\ loadLock = Unheld /\ loadLock' = t
  /\ Goes(t, "unload?")
  /\ UNCHANGED <<encoderVars, clockNow, requested, loads>>

CheckIdle(t) ==
  /\ thread[t].at = "unload?"
  /\ IF encoder # "none" /\ Unused(lastUsed) THEN Goes(t, "unset") /\ UNCHANGED loadLock
                                          ELSE Goes(t, "load") /\ loadLock' = Unheld
  /\ UNCHANGED <<encoderVars, clockNow, requested, loads>>

\* Who is between its loading and its use of the encoder has an excuse to score without it.
Unload(t) ==
  /\ thread[t].at = "unset"
  /\ encoder' = "none" /\ loads' = [loads EXCEPT !.dropped = @ + 1]
  /\ thread' = [u \in Threads |->
       IF u = t THEN [thread[u] EXCEPT !.at = "unflag"]
       ELSE [thread[u] EXCEPT !.excused = @ \/ thread[u].at \in {"use", "predict"}]]
  /\ UNCHANGED <<encoderLoaded, encoderFailed, lastUsed, clockNow, loadLock, requested>>

Unflag(t) ==
  /\ thread[t].at = "unflag" /\ encoderLoaded' = FALSE /\ loadLock' = Unheld
  /\ Goes(t, "load")
  /\ UNCHANGED <<encoder, encoderFailed, lastUsed, clockNow, requested, loads>>

Onwards(t) == IF thread[t].searching THEN "use" ELSE "idle"

\* Without the lock: a failure is for good, an encoder that is there is used.
LoadModel(t) ==
  /\ thread[t].at = "load"
  /\ IF encoderFailed THEN Goes(t, Onwards(t)) /\ UNCHANGED lastUsed
     ELSE IF encoderLoaded /\ encoder # "none" THEN Goes(t, Onwards(t)) /\ lastUsed' = clockNow
     ELSE Goes(t, "load lock") /\ UNCHANGED lastUsed
  /\ UNCHANGED <<encoder, encoderLoaded, encoderFailed, clockNow, loadLock, requested, loads>>

\* Mutant of TakeLoadLock: what was looked at before the lock is not looked at again.
TakeLoadLockOnly(t) ==
  /\ thread[t].at = "load lock" /\ loadLock = Unheld
  /\ Goes(t, "loading") /\ loadLock' = t
  /\ UNCHANGED <<encoderVars, clockNow, requested, loads>>

TakeLoadLock(t) ==
  /\ thread[t].at = "load lock" /\ loadLock = Unheld
  /\ IF encoderFailed THEN Goes(t, Onwards(t)) /\ UNCHANGED <<lastUsed, loadLock>>
     ELSE IF encoderLoaded /\ encoder # "none"
          THEN Goes(t, Onwards(t)) /\ lastUsed' = clockNow /\ UNCHANGED loadLock
          ELSE Goes(t, "loading") /\ loadLock' = t /\ UNCHANGED lastUsed
  /\ UNCHANGED <<encoder, encoderLoaded, encoderFailed, clockNow, requested, loads>>

\* The global is set before its flag.
Loaded(t) ==
  /\ thread[t].at = "loading" /\ loads.made < MaxLoads
  /\ encoder' = "loaded" /\ loads' = [loads EXCEPT !.made = @ + 1]
  /\ Goes(t, "flag")
  /\ UNCHANGED <<encoderLoaded, encoderFailed, lastUsed, clockNow, loadLock, requested>>

Flag(t) ==
  /\ thread[t].at = "flag"
  /\ encoderLoaded' = TRUE /\ lastUsed' = clockNow /\ loadLock' = Unheld /\ Goes(t, Onwards(t))
  /\ UNCHANGED <<encoder, encoderFailed, clockNow, requested, loads>>

\* Disabled, or not there to load.
LoadFails(t) ==
  /\ thread[t].at = "loading" /\ encoderFailed' = TRUE /\ loadLock' = Unheld
  /\ Goes(t, Onwards(t))
  /\ UNCHANGED <<encoder, encoderLoaded, lastUsed, clockNow, requested, loads>>

Score(h, scorer) ==
  IF scorer = "cross_encoder" THEN 6 * Relevance[h] + 3 * Similarity[h] ELSE 7 * Similarity[h]
Final(h, scorer) == (Score(h, scorer) + Liked[h]) * Freshness[h]

\* The rows in an order with the best of the key first; equal ones in any order.
Orders(rows, key) ==
  {all \in [1..Cardinality(rows) -> rows] :
     /\ ToSet(all) = rows
     /\ \A i, j \in DOMAIN all : i < j => key[all[i]] >= key[all[j]]}
FirstOf(all) == SubSeq(all, 1, IF Len(all) < Kept THEN Len(all) ELSE Kept)

\* Cut by the score of the scorer, and sorted again by feedback and age.
Ranked(rows, scorer) ==
  UNION {Orders(ToSet(FirstOf(all)), [h \in rows |-> Final(h, scorer)]) :
           all \in Orders(rows, [h \in rows |-> Score(h, scorer)])}

Replies(t, scorer, excuse) ==
  LET r == thread[t]
  IN \E reply \in Ranked(r.rows, scorer):
       thread' = [thread EXCEPT ![t] = [r EXCEPT !.at = "done", !.scorer = scorer, !.reply = reply,
                                                 !.excused = r.excused \/ excuse]]

UseEncoder(t) ==
  /\ thread[t].at = "use"
  /\ IF encoder = "none" THEN Replies(t, "legacy", FALSE) ELSE Goes(t, "predict")
  /\ UNCHANGED <<encoderVars, clockNow, loadLock, requested, loads>>

\* The global is read again; a prediction that raises leaves all to the legacy scores.
Predict(t) ==
  /\ thread[t].at = "predict"
  /\ \/ encoder = "none" /\ Replies(t, "legacy", FALSE)
     \/ encoder # "none" /\ Replies(t, "cross_encoder", FALSE)
     \/ encoder # "none" /\ Replies(t, "legacy", TRUE)
  /\ UNCHANGED <<encoderVars, clockNow, loadLock, requested, loads>>

Done(t) ==
  /\ thread[t].at = "done" /\ thread' = [thread EXCEPT ![t] = NoRequest]
  /\ UNCHANGED <<encoderVars, clockNow, loadLock, requested, loads>>

RetrievalNext ==
  \/ SecondsPass
  \/ \E t \in Threads:
       \/ StartSearch(t) \/ AskStatus(t) \/ MaybeUnload(t) \/ TakeUnloadLock(t) \/ CheckIdle(t)
       \/ Unload(t) \/ Unflag(t) \/ LoadModel(t) \/ TakeLoadLock(t) \/ Loaded(t) \/ Flag(t)
       \/ LoadFails(t) \/ UseEncoder(t) \/ Predict(t) \/ Done(t)

-----------------------------------------------------------------------------

\* There is at most one encoder, and the flag beside it is true of it whenever
\* the lock is free.
OneEncoder ==
  /\ loads.made - loads.dropped = (IF encoder = "none" THEN 0 ELSE 1)
  /\ loadLock = Unheld => (encoderLoaded <=> encoder # "none")

\* A search is scored without the encoder only when it could not be loaded, or
\* went, or failed, after it was looked for.
LegacyIsExcused ==
  \A t \in Threads: thread[t].at = "done" /\ thread[t].scorer = "legacy" =>
    encoderFailed \/ thread[t].excused

\* A reply has no row that a row left out was better than before feedback and
\* age, and is in order after them, by one scorer throughout.
ReplyIsBest ==
  \A t \in Threads: thread[t].at = "done" =>
    LET reply == thread[t].reply  scorer == thread[t].scorer
    IN /\ \A i \in DOMAIN reply, h \in thread[t].rows \ ToSet(reply):
            Score(reply[i], scorer) >= Score(h, scorer)
       /\ \A i, j \in DOMAIN reply: i < j => Final(reply[i], scorer) >= Final(reply[j], scorer)

\* The property of searches (app.py, reranker.py).
RetrievalSafe == OneEncoder /\ LegacyIsExcused /\ ReplyIsBest
=============================================================================
