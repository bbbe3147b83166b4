---------------------------- MODULE TrustEngine ----------------------------
(***************************************************************************)
(* The trust engine (src/src/bridge/trust_engine.py): a policy table that  *)
(* grades every action type, a gate that consults it before an action      *)
(* runs, an outcome recorder that counts consecutive successes and          *)
(* promotes the type, and the admin operations on the table.                *)
(*                                                                         *)
(* The bridge serves requests from a thread pool.  Every `with _lock:`      *)
(* block is one step here; the code BETWEEN two such blocks is where        *)
(* another thread gets in, so a call is a sequence of steps that keeps      *)
(* what it has read in frame[t].                                            *)
(***************************************************************************)
EXTENDS Integers, FiniteSets

CONSTANTS
  ActionTypes,    \* action_type values
  Threads,        \* request threads of the bridge
  DefaultLevel,   \* TRUST_DEFAULT_LEVEL: any string, the code never checks it
  Threshold,      \* TRUST_AUTO_PROMOTE_THRESHOLD, what _ensure_policy inserts
  NoPolicy,       \* no row in trust_policies
  NoCall,         \* the thread is outside the engine
  MayRaise,       \* whether SQLite may raise inside record_outcome
  MaxRows         \* bound: audit rows per action type and outcome

\* TRUST_LEVELS, and what a policy row can hold.
Levels == {"blocked", "approval_required", "notify_then_execute", "auto"}
StoredLevels == Levels \cup {DefaultLevel}

Policy == [level : StoredLevels, after : Nat, successes : Nat]

\* What record_outcome is given; what an audit row may say.
CallOutcomes == {"success", "failure", "blocked", "auto_executed"}
AuditOutcomes ==
  CallOutcomes \cup {"awaiting_approval", "pending_notify", "cancelled"}

\* gated: the call was made by check_and_execute, whose handler turns an
\* exception of record_outcome("success") into record_outcome("failure").
Frame == [type : ActionTypes, level : StoredLevels, outcome : CallOutcomes,
          gated : BOOLEAN]

ASSUME TrustAssumption ==
  /\ IsFiniteSet(Threads)
  /\ Threshold \in Nat
  /\ MayRaise \in BOOLEAN
  /\ MaxRows \in Nat
  /\ NoPolicy \notin Policy
  /\ NoCall \notin Frame

VARIABLES
  policy,   \* trust_policies: action type -> row or NoPolicy
  audit,    \* trust_audit: how many rows each type has of each outcome
  tpc,      \* where each thread is inside a trust-engine call
  frame,    \* the locals of that call
  ran,      \* history: action_fn calls made by the gate, per action type
  raised    \* history: whether SQLite has raised inside record_outcome

trustVars == <<policy, audit, tpc, frame, ran, raised>>

PCs == {"idle", "gate", "outcome", "count", "promote", "promote_write"}

TrustTypeOK ==
  /\ policy \in [ActionTypes -> Policy \cup {NoPolicy}]
  /\ audit \in [ActionTypes -> [AuditOutcomes -> Nat]]
  /\ tpc \in [Threads -> PCs]
  /\ frame \in [Threads -> Frame \cup {NoCall}]
  /\ ran \in [ActionTypes -> Nat]
  /\ raised \in BOOLEAN
  /\ \A t \in Threads : frame[t] = NoCall <=> tpc[t] = "idle"

-----------------------------------------------------------------------------
(* The order of TRUST_LEVELS: the level one step above.  "auto" has none.    *)
Above == [blocked             |-> "approval_required",
          approval_required   |-> "notify_then_execute",
          notify_then_execute |-> "auto"]

\* What the gate writes in the audit trail when it does not run the action.
\* Every other level, a misspelt one included, falls through to the run.
RefusalOutcome == [blocked             |-> "blocked",
                   approval_required   |-> "awaiting_approval",
                   notify_then_execute |-> "pending_notify"]

GetLevel(a) == IF policy[a] = NoPolicy THEN DefaultLevel ELSE policy[a].level

\* INSERT OR IGNORE: the row as it is, or the default row.
EnsurePolicy(a) ==
  IF policy[a] = NoPolicy
  THEN [level |-> DefaultLevel, after |-> Threshold, successes |-> 0]
  ELSE policy[a]

RecordAudit(a, o) == audit' = [audit EXCEPT ![a][o] = @ + 1]

Enter(t, pc, f) ==
  /\ tpc' = [tpc EXCEPT ![t] = pc]
  /\ frame' = [frame EXCEPT ![t] = f]

Return(t) == Enter(t, "idle", NoCall)

Busy == {t \in Threads : tpc[t] # "idle"}

\* Bound: a call appends at most one row of each outcome, so a call starts
\* only if the rows of the calls in progress and its own still fit.  (Only
\* when recording raises can there be more runs than success and failure rows.)
Room(a) ==
  /\ \A o \in AuditOutcomes : audit[a][o] + Cardinality(Busy) < MaxRows
  /\ ran[a] + Cardinality(Busy) < 2 * MaxRows

\* A row as migrations/010 inserts it: auto_promote_after keeps its default.
Seeded(a) == policy[a] # NoPolicy /\ policy[a].after = 0

TrustInit ==
  /\ policy \in [ActionTypes ->
       {NoPolicy} \cup [level : {"approval_required", "auto"},
                        after : {0}, successes : {0}]]
  /\ audit = [a \in ActionTypes |-> [o \in AuditOutcomes |-> 0]]
  /\ tpc = [t \in Threads |-> "idle"]
  /\ frame = [t \in Threads |-> NoCall]
  /\ ran = [a \in ActionTypes |-> 0]
  /\ raised = FALSE

-----------------------------------------------------------------------------
(* check_and_execute                                                         *)

\* level = get_trust_level(action_type), and the lock is released.
CheckLevel(t, a) ==
  /\ tpc[t] = "idle" /\ Room(a)
  /\ Enter(t, "gate", [type |-> a, level |-> GetLevel(a),
                       outcome |-> "success", gated |-> TRUE])
  /\ UNCHANGED <<policy, audit, ran, raised>>

\* blocked, approval_required, notify_then_execute: an audit row, no action.
Refuse(t) ==
  /\ tpc[t] = "gate"
  /\ frame[t].level \in DOMAIN RefusalOutcome
  /\ RecordAudit(frame[t].type, RefusalOutcome[frame[t].level])
  /\ Return(t)
  /\ UNCHANGED <<policy, ran, raised>>

\* Mutant of RunAction: the handler returns without recording a failure.
RunActionForgetsFailure(t) ==
  /\ tpc[t] = "gate"
  /\ frame[t].level \notin DOMAIN RefusalOutcome
  /\ \/ Enter(t, "outcome", frame[t])
     \/ Return(t)
  /\ ran' = [ran EXCEPT ![frame[t].type] = @ + 1]
  /\ UNCHANGED <<policy, audit, raised>>

\* auto: action_fn() returns or raises.
RunAction(t) ==
  /\ tpc[t] = "gate"
  /\ frame[t].level \notin DOMAIN RefusalOutcome
  /\ \E o \in {"success", "failure"} :
        Enter(t, "outcome", [frame[t] EXCEPT !.outcome = o])
  /\ ran' = [ran EXCEPT ![frame[t].type] = @ + 1]
  /\ UNCHANGED <<policy, audit, raised>>

-----------------------------------------------------------------------------
(* record_outcome and _auto_promote                                          *)

\* A caller outside the gate (elevated_shell, tools) records an outcome.
CallRecordOutcome(t, a, o) ==
  /\ tpc[t] = "idle"
  /\ Enter(t, "outcome", [type |-> a, level |-> GetLevel(a),
                          outcome |-> o, gated |-> FALSE])
  /\ UNCHANGED <<policy, audit, ran, raised>>

\* The audit row; its trust_level column, read just before, is left out.
OutcomeAudit(t) ==
  /\ tpc[t] = "outcome"
  /\ RecordAudit(frame[t].type, frame[t].outcome)
  /\ Enter(t, "count", frame[t])
  /\ UNCHANGED <<policy, ran, raised>>

\* Mutant of Counted: only a failure clears the streak.
CountsRefusals(row, o) ==
  [row EXCEPT !.successes = IF o # "failure" THEN @ + 1 ELSE 0]

\* The row after the UPDATE: one more success, or the streak cleared.
Counted(row, o) ==
  [row EXCEPT !.successes = IF o = "success" THEN @ + 1 ELSE 0]

\* Mutants of Promotable: a threshold of 0 means at once; no top level.
PromotableAtZero(row, o) ==
  o = "success" /\ row.after <= row.successes /\ row.level \in DOMAIN Above

PromotablePastTop(row, o) ==
  o = "success" /\ 0 < row.after /\ row.after <= row.successes

\* if row and outcome == "success": 0 < threshold <= successes, and not at
\* the top level already.
Promotable(row, o) ==
  /\ o = "success"
  /\ 0 < row.after /\ row.after <= row.successes
  /\ row.level \in DOMAIN Above

\* The counters are updated and the row read back under one lock; the
\* promotion it may call for happens after the lock is released.
OutcomeCount(t) ==
  /\ tpc[t] = "count"
  /\ LET a   == frame[t].type
         row == Counted(EnsurePolicy(a), frame[t].outcome)
     IN /\ policy' = [policy EXCEPT ![a] = row]
        /\ IF Promotable(row, frame[t].outcome)
           THEN Enter(t, "promote", [frame[t] EXCEPT !.level = row.level])
           ELSE Return(t)
  /\ UNCHANGED <<audit, ran, raised>>

\* Mutant of AutoPromote: it waits for the level to be the one it has read.
AutoPromoteWaits(t) ==
  /\ tpc[t] = "promote"
  /\ policy[frame[t].type].level = frame[t].level
  /\ policy' = [policy EXCEPT ![frame[t].type] =
                  [@ EXCEPT !.level = Above[frame[t].level], !.successes = 0]]
  /\ Return(t)
  /\ UNCHANGED <<audit, ran, raised>>

\* UPDATE ... SET trust_level = the level above the one that was READ.
AutoPromote(t) ==
  /\ tpc[t] = "promote"
  /\ policy' = [policy EXCEPT ![frame[t].type] =
                  [@ EXCEPT !.level = Above[frame[t].level], !.successes = 0]]
  /\ Return(t)
  /\ UNCHANGED <<audit, ran, raised>>

\* What a block that raises may have committed before: in "count", nothing,
\* the row of _ensure_policy, or the counters too.
CommittedBefore(t) ==
  LET a == frame[t].type IN
  IF tpc[t] = "count"
  THEN {policy[a], EnsurePolicy(a), Counted(EnsurePolicy(a), frame[t].outcome)}
  ELSE {policy[a]}

\* SQLite raises in one of the blocks above.  In the gate the exception of a
\* success lands in the handler that records a failure; otherwise it goes to
\* the caller.
OutcomeRaises(t) ==
  /\ MayRaise
  /\ tpc[t] \in {"outcome", "count", "promote"}
  /\ \E row \in CommittedBefore(t) :
        policy' = [policy EXCEPT ![frame[t].type] = row]
  /\ IF frame[t].gated /\ frame[t].outcome = "success"
     THEN Enter(t, "outcome", [frame[t] EXCEPT !.outcome = "failure"])
     ELSE Return(t)
  /\ raised' = TRUE
  /\ UNCHANGED <<audit, ran>>

\* web_fetch and send_notification look at the level themselves and record
\* a refusal; otherwise they leave the engine alone.
ToolRefused(t, a) ==
  /\ Room(a)
  /\ GetLevel(a) = "blocked"
  /\ CallRecordOutcome(t, a, "blocked")

-----------------------------------------------------------------------------
(* Admin operations                                                          *)

\* Mutant of SetTrustLevel: the string of the request is stored as it is.
SetAnyTrustLevel(a, l) ==
  /\ policy' = [policy EXCEPT ![a] = [EnsurePolicy(a) EXCEPT !.level = l]]
  /\ UNCHANGED <<audit, tpc, frame, ran, raised>>

\* The endpoint takes any string; the level is checked here.
SetTrustLevel(a, l) ==
  /\ l \in Levels
  /\ policy' = [policy EXCEPT ![a] = [EnsurePolicy(a) EXCEPT !.level = l]]
  /\ UNCHANGED <<audit, tpc, frame, ran, raised>>

\* promote() reads the level in one block ...
PromoteRead(t, a) ==
  /\ tpc[t] = "idle" /\ Room(a)
  /\ GetLevel(a) \in DOMAIN Above
  /\ Enter(t, "promote_write", [type |-> a, level |-> GetLevel(a),
                                outcome |-> "success", gated |-> FALSE])
  /\ UNCHANGED <<policy, audit, ran, raised>>

\* ... and writes the level above it in another.
PromoteWrite(t) ==
  /\ tpc[t] = "promote_write"
  /\ LET a == frame[t].type
     IN policy' = [policy EXCEPT ![a] =
                     [EnsurePolicy(a) EXCEPT !.level = Above[frame[t].level],
                                             !.successes = 0]]
  /\ Return(t)
  /\ UNCHANGED <<audit, ran, raised>>

\* The row named by its id is some pending_notify row of some type.
CancelPending(a) ==
  /\ audit[a]["pending_notify"] > 0
  /\ audit[a]["cancelled"] < MaxRows
  /\ audit' = [audit EXCEPT ![a]["pending_notify"] = @ - 1,
                            ![a]["cancelled"] = @ + 1]
  /\ UNCHANGED <<policy, tpc, frame, ran, raised>>

-----------------------------------------------------------------------------
RecordSteps(t) == OutcomeAudit(t) \/ OutcomeCount(t) \/ AutoPromote(t)

CallSteps(t) == Refuse(t) \/ RunAction(t) \/ RecordSteps(t) \/ PromoteWrite(t)

ThreadSteps(t) == CallSteps(t) \/ OutcomeRaises(t)

Calls(t, a) == CheckLevel(t, a) \/ ToolRefused(t, a) \/ PromoteRead(t, a)

RequestedLevels == Levels \cup {"trusted"}

TrustNext ==
  \/ \E t \in Threads : ThreadSteps(t)
  \/ \E t \in Threads, a \in ActionTypes : Calls(t, a)
  \/ \E a \in ActionTypes, l \in RequestedLevels : SetTrustLevel(a, l)
  \/ \E a \in ActionTypes : CancelPending(a)

\* A call that has started is run to its end by its thread: no step of it
\* waits for anything but the lock, which every block releases.  (Nor does a
\* call need an exception to come to its end.)
TrustFairness == \A t \in Threads : WF_trustVars(CallSteps(t))

TrustSpec == TrustInit /\ [][TrustNext]_trustVars
FairTrustSpec == TrustSpec /\ TrustFairness

-----------------------------------------------------------------------------
(* Properties                                                                *)

\* The runs of type a that no thread has written down yet.
Unwritten(a) ==
  {t \in Threads : /\ tpc[t] = "outcome"
                   /\ frame[t].type = a
                   /\ frame[t].outcome \in {"success", "failure"}}

\* As long as SQLite has not raised, every action the gate ran has exactly
\* one success or failure row in the audit trail, except the runs whose
\* thread has not written it yet: check_and_execute neither loses nor
\* doubles the record of a run, whatever the threads interleave.
EveryRunAudited ==
  ~raised =>
    \A a \in ActionTypes :
      ran[a] = audit[a]["success"] + audit[a]["failure"]
               + Cardinality(Unwritten(a))

\* The streak that leads to a promotion is backed by the audit trail: the
\* counter of a type, with the successes that are written down but not yet
\* counted, never exceeds its success rows, although the row and the counter
\* are written under two different lock blocks.
StreakIsAudited ==
  \A a \in ActionTypes :
    policy[a] # NoPolicy =>
      policy[a].successes
        + Cardinality({t \in Threads : /\ tpc[t] = "count"
                                       /\ frame[t].type = a
                                       /\ frame[t].outcome = "success"})
        <= audit[a]["success"]

\* A thread that is about to write a promotion holds a level that can be
\* raised, and when it was the counter that asked for it, a row whose
\* promotion is switched on: _auto_promote is never reached for a type that
\* the migration seeded with auto_promote_after = 0.
PromotesOnlyEnabled ==
  \A t \in Threads :
    /\ tpc[t] \in {"promote", "promote_write"} =>
         frame[t].level \in DOMAIN Above
    /\ tpc[t] = "promote" =>
         /\ policy[frame[t].type] # NoPolicy
         /\ policy[frame[t].type].after > 0
         /\ frame[t].outcome = "success"

\* A step of an admin's request: set_trust_level, or promote()'s write.
AdminStep ==
  \/ UNCHANGED tpc
  \/ \E t \in Threads : tpc[t] = "promote_write" /\ tpc'[t] = "idle"

\* The level of a seeded type changes only by the admin's hand
\* (set_trust_level, promote), however many executions succeed.
SeededLevelIsAdmins ==
  [][\A a \in ActionTypes :
       Seeded(a) /\ policy'[a].level # policy[a].level => AdminStep]_trustVars

\* Every call comes back: no interleaving and no exception leaves a thread
\* inside the engine, so a request thread of the pool is never lost.
CallsReturn == \A t \in Threads : tpc[t] # "idle" ~> tpc[t] = "idle"

\* docs/superpowers/specs/2026-03-24-trust-engine.md:149: "blocked is
\* irreversible via the API (needs a direct change of the DB or an admin
\* flag)".  Weaker: only an operation an admin asked for takes a type out of
\* blocked.
OnlyAdminUnblocks ==
  [][\A a \in ActionTypes :
       GetLevel(a) = "blocked" /\ GetLevel(a)' # "blocked" => AdminStep]_trustVars
=============================================================================
