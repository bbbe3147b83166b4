------------------------------- MODULE Feedback -------------------------------
(***************************************************************************)
(* What users say of answers (feedback.py, feedback_learner.py, and the    *)
(* part of adaptive_router.py that reads what was learned): thumbs raise   *)
(* and lower the chunks that were found, and votes on a model, which are   *)
(* written to the rows of thumbs, adjust its weight in the routing.        *)
(* Requests run in threads; the weights are cached.                        *)
(***************************************************************************)
EXTENDS Integers, FiniteSets, FiniteSetsExt

CONSTANTS
  Passages,    \* what thumbs are about
  Routes,      \* a type of query and a model
  NoRoute,
  Voters,      \* requests
  MinSamples,  \* FEEDBACK_MIN_SAMPLES
  FreshFor,    \* how long a cached weight is used
  MaxThumbs, MaxVotes, MaxAge \* bounds

ASSUME FeedbackAssumption == NoRoute \notin Routes /\ MinSamples \in Nat

VARIABLES
  table,      \* of feedback: "none", "plain", "extended" by the migration
  upgraded,   \* migration 018 ran
  thumbs,     \* its rows
  boosts,     \* by passage, the counts its boost is the sum of
  weights,    \* by route, in twentieths; 0: there is no row
  voter,      \* what each request is at
  lookup,     \* the router's
  cachedWeight, \* by route, what it is and when it was read; at = -1: nothing is
  age, thumbCount, votes,
  voted,      \* history: every row with every vote it ever had
  overtaken,  \* history: the routes whose cached weight changed while it was read
  misread     \* history: those whose cached weight is what a failed read gave

schemaVars == <<table, upgraded>>
boundVars == <<age, thumbCount, votes>>
historyVars == <<voted, overtaken, misread>>
feedbackVars ==
  <<schemaVars, thumbs, boosts, weights, voter, lookup, cachedWeight, boundVars, historyVars>>

Neutral == 20
Floor == 10
Ceiling == 30
Up == "positive"
Down == "negative"
NoVote == [at |-> "idle", counts |-> {}, found |-> {}]
NoLookup == [at |-> "idle", route |-> NoRoute, weight |-> 0, failed |-> FALSE]
NoWeight == [weight |-> 0, at |-> -1]

FeedbackInit ==
  /\ table = "none" /\ upgraded = FALSE /\ thumbs = {}
  /\ boosts = [p \in Passages |-> [up |-> 0, down |-> 0]]
  /\ weights = [r \in Routes |-> 0]
  /\ voter = [v \in Voters |-> NoVote] /\ lookup = NoLookup
  /\ cachedWeight = [r \in Routes |-> NoWeight]
  /\ age = 0 /\ thumbCount = 0 /\ votes = 0 /\ voted = {} /\ overtaken = {} /\ misread = {}

Weight(r) == IF weights[r] = 0 THEN Neutral ELSE weights[r]

\* Four columns more than the INSERT has values: once the table is extended it
\* raises, before the boost, and the transaction is dropped.
Thumb(p, signal) ==
  /\ thumbCount < MaxThumbs /\ thumbCount' = thumbCount + 1
  /\ table # "extended" /\ table' = "plain"
  /\ thumbs' = IF \E t \in thumbs: t.passage = p /\ t.signal = signal THEN thumbs
               ELSE thumbs \cup {[passage |-> p, signal |-> signal, route |-> NoRoute,
                                  helpful |-> FALSE, recent |-> TRUE, late |-> upgraded]}
  /\ boosts' = [boosts EXCEPT ![p] = [up |-> @.up + (IF signal = Up THEN 1 ELSE 0),
                                     down |-> @.down + (IF signal = Down THEN 1 ELSE 0)]]
  /\ UNCHANGED <<upgraded, weights, voter, lookup, cachedWeight, age, votes, historyVars>>

\* The columns are added to a table that is there, and never afterwards.
Upgrade ==
  /\ ~ upgraded /\ upgraded' = TRUE
  /\ table' = IF table = "plain" THEN "extended" ELSE table
  /\ UNCHANGED <<thumbs, boosts, weights, voter, lookup, cachedWeight, boundVars, historyVars>>

\* Every row of the passage takes the vote; without a row the request is refused,
\* and without the columns it fails.
RecordVote(v, p, r, helpful) ==
  /\ voter[v].at = "idle" /\ votes < MaxVotes /\ votes' = votes + 1
  /\ table = "extended" /\ \E t \in thumbs: t.passage = p
  /\ thumbs' = {IF t.passage = p THEN [t EXCEPT !.route = r, !.helpful = helpful] ELSE t:
                t \in thumbs}
  /\ voted' = voted \cup
       {[passage |-> p, signal |-> t.signal, route |-> r, helpful |-> helpful]:
          t \in {s \in thumbs: s.passage = p}}
  /\ voter' = [voter EXCEPT ![v].at = "analyze"]
  /\ UNCHANGED <<schemaVars, boosts, weights, lookup, cachedWeight, age, thumbCount, overtaken, misread>>

Votes(r, helpful) == Cardinality({t \in thumbs: t.recent /\ t.route = r /\ t.helpful = helpful})

CountVotes(v) ==
  /\ voter[v].at = "analyze"
  /\ voter' = [voter EXCEPT ![v].at = "current",
       ![v].counts = {[route |-> r, down |-> Votes(r, FALSE), up |-> Votes(r, TRUE)]:
                      r \in {s \in Routes: Votes(s, FALSE) + Votes(s, TRUE) > 0}}]
  /\ UNCHANGED <<schemaVars, thumbs, boosts, weights, lookup, cachedWeight, boundVars, historyVars>>

\* Mutant of Penalised: the vote at hand, which is a row already, counts once more.
PenalisedEarly(count) == count.down + 1 >= MinSamples /\ count.down > count.up

Penalised(count) == count.down >= MinSamples /\ count.down > count.up
Rewarded(count) == ~ Penalised(count) /\ count.up >= MinSamples /\ count.up > 2 * count.down
Adjusted(count) ==
  IF Penalised(count) THEN Max({Floor, Weight(count.route) - 2 * count.down})
                      ELSE Min({Ceiling, Weight(count.route) + count.up})

\* The weights are read after the votes, and changed from what they were then.
Analyze(v) ==
  /\ voter[v].at = "current"
  /\ LET significant == {c \in voter[v].counts: Penalised(c) \/ Rewarded(c)}
     IN voter' = [voter EXCEPT ![v] =
          IF significant = {} THEN NoVote
          ELSE [at |-> "apply", counts |-> {},
                found |-> {[route |-> c.route, weight |-> Adjusted(c)]: c \in significant}]]
  /\ UNCHANGED <<schemaVars, thumbs, boosts, weights, lookup, cachedWeight, boundVars, historyVars>>

\* One transaction; what it logs in the user's profile is left out.
ApplyAdjustments(v) ==
  /\ voter[v].at = "apply"
  /\ weights' = [r \in Routes |->
       IF \E f \in voter[v].found: f.route = r
       THEN (CHOOSE f \in voter[v].found: f.route = r).weight ELSE weights[r]]
  /\ voter' = [voter EXCEPT ![v] = [NoVote EXCEPT !.at = "invalidate"]]
  /\ UNCHANGED <<schemaVars, thumbs, boosts, lookup, cachedWeight, boundVars, historyVars>>

\* The analysis or the transaction raises, which is only logged.
LearningFails(v) ==
  /\ voter[v].at \in {"analyze", "current", "apply"}
  /\ voter' = [voter EXCEPT ![v] = NoVote]
  /\ UNCHANGED <<schemaVars, thumbs, boosts, weights, lookup, cachedWeight, boundVars, historyVars>>

\* Mutant of ResetAdjustment: the cache is left as it is.
ResetAdjustmentOnly(v, r) ==
  /\ voter[v].at = "idle" /\ upgraded /\ weights[r] # 0
  /\ weights' = [weights EXCEPT ![r] = 0] /\ UNCHANGED voter
  /\ UNCHANGED <<schemaVars, thumbs, boosts, lookup, cachedWeight, boundVars, historyVars>>

\* An admin takes a weight back: the row is deleted, then the cache is emptied.
ResetAdjustment(v, r) ==
  /\ voter[v].at = "idle" /\ upgraded /\ weights[r] # 0
  /\ weights' = [weights EXCEPT ![r] = 0]
  /\ voter' = [voter EXCEPT ![v].at = "invalidate"]
  /\ UNCHANGED <<schemaVars, thumbs, boosts, lookup, cachedWeight, boundVars, historyVars>>

InvalidateCache(v) ==
  /\ voter[v].at = "invalidate"
  /\ cachedWeight' = [r \in Routes |-> NoWeight] /\ overtaken' = {} /\ misread' = {}
  /\ voter' = [voter EXCEPT ![v] = NoVote]
  /\ UNCHANGED <<schemaVars, thumbs, boosts, weights, lookup, age, thumbCount, votes, voted>>

IsFresh(r) == cachedWeight[r].at >= 0 /\ age - cachedWeight[r].at < FreshFor

\* Without a row the weight is neutral, and so it is when the read raises: without
\* the table, or while another connection holds the database.
ReadWeight(r) ==
  /\ lookup.at = "idle" /\ ~ IsFresh(r)
  /\ \E failed \in BOOLEAN:
       lookup' = [at |-> "read", route |-> r, failed |-> failed,
                  weight |-> IF failed THEN Neutral ELSE Weight(r)]
  /\ UNCHANGED <<schemaVars, thumbs, boosts, weights, voter, cachedWeight, boundVars, historyVars>>

\* What a failed read gave is kept like any other.
KeepWeight ==
  /\ lookup.at = "read" /\ lookup' = NoLookup
  /\ LET r == lookup.route
     IN /\ cachedWeight' = [cachedWeight EXCEPT ![r] = [weight |-> lookup.weight, at |-> age]]
        /\ overtaken' = IF lookup.failed \/ lookup.weight = Weight(r)
                        THEN overtaken \ {r} ELSE overtaken \cup {r}
        /\ misread' = IF lookup.failed THEN misread \cup {r} ELSE misread \ {r}
  /\ UNCHANGED <<schemaVars, thumbs, boosts, weights, voter, age, thumbCount, votes, voted>>

\* Minutes pass, which no lookup takes, or days, after which rows have left the window.
TimeGoesBy ==
  /\ age < MaxAge /\ age' = age + 1 /\ lookup.at = "idle"
  /\ thumbs' \in {thumbs, {[t EXCEPT !.recent = FALSE]: t \in thumbs}}
  /\ UNCHANGED <<schemaVars, boosts, weights, voter, lookup, cachedWeight,
                 thumbCount, votes, historyVars>>

\* What is not committed is gone.
FeedbackCrash ==
  /\ \E v \in Voters: voter[v].at # "idle"
  /\ voter' = [v \in Voters |-> NoVote] /\ lookup' = NoLookup
  /\ cachedWeight' = [r \in Routes |-> NoWeight] /\ overtaken' = {} /\ misread' = {}
  /\ UNCHANGED <<schemaVars, thumbs, boosts, weights, age, thumbCount, votes, voted>>

FeedbackNext ==
  \/ \E p \in Passages, signal \in {Up, Down}: Thumb(p, signal)
  \/ Upgrade
  \/ \E v \in Voters:
       \/ \E p \in Passages, r \in Routes, helpful \in BOOLEAN: RecordVote(v, p, r, helpful)
       \/ \E r \in Routes: ResetAdjustment(v, r)
       \/ CountVotes(v) \/ Analyze(v) \/ ApplyAdjustments(v)
       \/ LearningFails(v) \/ InvalidateCache(v)
  \/ \E r \in Routes: ReadWeight(r)
  \/ KeepWeight \/ TimeGoesBy \/ FeedbackCrash

-----------------------------------------------------------------------------

\* A row of feedback and the boost it gives go together.
ThumbsAreCounted ==
  \A p \in Passages:
    /\ (\E t \in thumbs: t.passage = p /\ t.signal = Up) <=> boosts[p].up > 0
    /\ (\E t \in thumbs: t.passage = p /\ t.signal = Down) <=> boosts[p].down > 0

\* A weight leaves neutral only by enough votes in its direction, of distinct
\* rows, however requests interleave.
WeightsAreEarned ==
  \A r \in Routes:
    LET of(helpful) == Cardinality({x \in voted: x.route = r /\ x.helpful = helpful}) IN
    /\ Weight(r) \in Floor..Ceiling
    /\ Weight(r) < Neutral => of(FALSE) >= MinSamples
    /\ Weight(r) > Neutral => of(TRUE) >= MinSamples

\* The routing has the weight of the table, until a change has emptied the
\* cache, or for as long as a weight is fresh that changed while it was read, or
\* that is neutral because the read failed.
CacheFollowsWeights ==
  \A r \in Routes: cachedWeight[r].at >= 0 /\ cachedWeight[r].weight # Weight(r) =>
    \/ r \in overtaken
    \/ r \in misread /\ cachedWeight[r].weight = Neutral
    \/ \E v \in Voters: voter[v].at = "invalidate"

\* All that is learned is learned from thumbs of before the migration.
OnlyOldThumbsTeach == \A t \in thumbs: t.route # NoRoute => ~ t.late

\* The property of feedback (feedback.py, feedback_learner.py).
FeedbackSafe == ThumbsAreCounted /\ WeightsAreEarned /\ CacheFollowsWeights /\ OnlyOldThumbsTeach
=============================================================================
