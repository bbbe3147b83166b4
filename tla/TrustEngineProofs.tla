------------------------- MODULE TrustEngineProofs -------------------------
(* What TLAPS proves of TrustEngine, for any threads and action types. *)
EXTENDS TrustEngine, FiniteSetTheorems, TLAPS

\* The promotion ladder stays inside the known levels.
LEMMA AboveLevels == \A l \in DOMAIN Above : l \in Levels /\ Above[l] \in Levels
  BY DEF Above, Levels

\* Every refusal has an outcome the audit trail knows.
LEMMA RefusalOutcomes ==
  \A l \in DOMAIN RefusalOutcome : RefusalOutcome[l] \in AuditOutcomes
  BY DEF RefusalOutcome, AuditOutcomes, CallOutcomes

\* A row that _ensure_policy returns is a policy row.
LEMMA EnsureType ==
  ASSUME TrustTypeOK, NEW a \in ActionTypes
  PROVE  EnsurePolicy(a) \in Policy
  BY TrustAssumption DEF TrustTypeOK, EnsurePolicy, Policy, StoredLevels

\* A level that a call reads can be stored again.
LEMMA GetLevelType ==
  ASSUME TrustTypeOK, NEW a \in ActionTypes
  PROVE  GetLevel(a) \in StoredLevels
  BY DEF TrustTypeOK, GetLevel, Policy, StoredLevels

\* Counting keeps a row a row, with the same level and threshold.
LEMMA CountedType ==
  ASSUME NEW row \in Policy, NEW o
  PROVE  /\ Counted(row, o) \in Policy
         /\ Counted(row, o).level = row.level
         /\ Counted(row, o).after = row.after
  BY DEF Counted, Policy

\* A new row of the audit trail keeps its type.
LEMMA RecordAuditType ==
  ASSUME TrustTypeOK, NEW a \in ActionTypes, NEW o \in AuditOutcomes,
         RecordAudit(a, o)
  PROVE  audit' \in [ActionTypes -> [AuditOutcomes -> Nat]]
  BY DEF TrustTypeOK, RecordAudit

\* What entering a call or returning from one does to the thread's state.
LEMMA EnterType ==
  ASSUME TrustTypeOK, NEW t \in Threads, NEW pc \in PCs \ {"idle"},
         NEW f \in Frame, Enter(t, pc, f)
  PROVE  /\ tpc' \in [Threads -> PCs]
         /\ frame' \in [Threads -> Frame \cup {NoCall}]
         /\ \A u \in Threads : frame'[u] = NoCall <=> tpc'[u] = "idle"
  BY TrustAssumption DEF TrustTypeOK, Enter

LEMMA ReturnType ==
  ASSUME TrustTypeOK, NEW t \in Threads, Return(t)
  PROVE  /\ tpc' \in [Threads -> PCs]
         /\ frame' \in [Threads -> Frame \cup {NoCall}]
         /\ \A u \in Threads : frame'[u] = NoCall <=> tpc'[u] = "idle"
  BY DEF TrustTypeOK, Return, Enter, PCs

\* A thread inside a call has a frame.
LEMMA InCallFrame ==
  ASSUME TrustTypeOK, NEW t \in Threads, tpc[t] # "idle"
  PROVE  frame[t] \in Frame /\ frame[t].type \in ActionTypes
  BY DEF TrustTypeOK, Frame

-----------------------------------------------------------------------------
\* The inductive invariant: types alone are not inductive, because the two
\* promotion steps look a level up that only PromotesOnlyEnabled keeps on
\* the ladder.
TrustIInv == TrustTypeOK /\ PromotesOnlyEnabled

LEMMA TrustInitInv == TrustInit => TrustIInv
<1> SUFFICES ASSUME TrustInit PROVE TrustIInv
  OBVIOUS
<1>1. policy \in [ActionTypes -> Policy \cup {NoPolicy}]
  BY DEF TrustInit, Policy, StoredLevels, Levels
<1>2. TrustTypeOK
  BY <1>1 DEF TrustInit, TrustTypeOK, PCs
<1>3. PromotesOnlyEnabled
  BY DEF TrustInit, PromotesOnlyEnabled
<1> QED BY <1>2, <1>3 DEF TrustIInv

\* The check of a level, and every other start of a call, only adds a frame.
LEMMA CallStarts ==
  ASSUME TrustIInv, NEW t \in Threads, NEW a \in ActionTypes, Calls(t, a)
  PROVE  TrustIInv' /\ policy' = policy
<1>1. TrustTypeOK /\ PromotesOnlyEnabled
  BY DEF TrustIInv
<1>2. GetLevel(a) \in StoredLevels
  BY <1>1, GetLevelType
<1>3. \E pc \in {"gate", "outcome", "promote_write"}, f \in Frame :
         /\ Enter(t, pc, f) /\ UNCHANGED <<policy, audit, ran, raised>>
         /\ pc = "promote_write" => f.level \in DOMAIN Above
  <2>1. CASE CheckLevel(t, a)
    BY <1>2, <2>1 DEF CheckLevel, Frame, CallOutcomes
  <2>2. CASE ToolRefused(t, a)
    BY <1>2, <2>2 DEF ToolRefused, CallRecordOutcome, Frame, CallOutcomes
  <2>3. CASE PromoteRead(t, a)
    <3> DEFINE f == [type |-> a, level |-> GetLevel(a),
                     outcome |-> "success", gated |-> FALSE]
    <3>1. f \in Frame /\ f.level = GetLevel(a)
      BY <1>2 DEF Frame, CallOutcomes
    <3>2. Enter(t, "promote_write", f) /\ UNCHANGED <<policy, audit, ran, raised>>
      BY <2>3 DEF PromoteRead
    <3>3. f.level \in DOMAIN Above
      BY <2>3, <3>1 DEF PromoteRead
    <3> HIDE DEF f
    <3> QED BY <3>1, <3>2, <3>3
  <2> QED BY <2>1, <2>2, <2>3 DEF Calls
<1>4. PICK pc \in {"gate", "outcome", "promote_write"}, f \in Frame :
         /\ Enter(t, pc, f) /\ UNCHANGED <<policy, audit, ran, raised>>
         /\ pc = "promote_write" => f.level \in DOMAIN Above
  BY <1>3
<1>5. TrustTypeOK'
  <2>1. pc \in PCs \ {"idle"}
    BY DEF PCs
  <2> QED BY <1>1, <1>4, <2>1, EnterType DEF TrustTypeOK
<1>6. PromotesOnlyEnabled'
  BY <1>1, <1>4 DEF PromotesOnlyEnabled, Enter, TrustTypeOK
<1> QED BY <1>4, <1>5, <1>6 DEF TrustIInv

\* Every write of a row keeps the table a table: a row that existed still
\* exists with the same threshold, whoever writes and whatever level.
RowKept(a) ==
  policy[a] # NoPolicy =>
    policy'[a] # NoPolicy /\ policy'[a].after = policy[a].after

\* Promotions pending in other threads survive a write that keeps the rows.
LEMMA OthersKept ==
  ASSUME TrustIInv, \A a \in ActionTypes : RowKept(a),
         NEW t \in Threads, tpc[t] # "idle",
         \A u \in Threads \ {t} : tpc'[u] = tpc[u] /\ frame'[u] = frame[u],
         tpc'[t] \notin {"promote", "promote_write"}
  PROVE  PromotesOnlyEnabled'
<1>1. ASSUME NEW u \in Threads, tpc'[u] \in {"promote", "promote_write"}
      PROVE  /\ tpc[u] = tpc'[u] /\ frame'[u] = frame[u]
             /\ frame[u].type \in ActionTypes
  BY <1>1, InCallFrame DEF TrustIInv
<1> QED BY <1>1 DEF PromotesOnlyEnabled, TrustIInv, RowKept

\* A refusal appends its row and returns.
LEMMA RefuseStep ==
  ASSUME TrustIInv, NEW t \in Threads, Refuse(t)
  PROVE  TrustIInv'
<1>1. TrustTypeOK /\ tpc[t] # "idle"
  BY DEF TrustIInv, Refuse
<1>2. frame[t].type \in ActionTypes
  BY <1>1, InCallFrame
<1>3. RefusalOutcome[frame[t].level] \in AuditOutcomes
  BY RefusalOutcomes DEF Refuse
<1>4. audit' \in [ActionTypes -> [AuditOutcomes -> Nat]]
  BY <1>1, <1>2, <1>3, RecordAuditType DEF Refuse
<1>5. TrustTypeOK'
  BY <1>1, <1>4, ReturnType DEF Refuse, TrustTypeOK
<1>6. PromotesOnlyEnabled'
  BY <1>1, OthersKept DEF Refuse, RowKept, Return, Enter, TrustTypeOK
<1> QED BY <1>5, <1>6 DEF TrustIInv

\* A run is counted and its outcome kept for record_outcome.
LEMMA RunStep ==
  ASSUME TrustIInv, NEW t \in Threads, RunAction(t)
  PROVE  TrustIInv'
<1>1. TrustTypeOK /\ tpc[t] # "idle"
  BY DEF TrustIInv, RunAction
<1>2. frame[t] \in Frame /\ frame[t].type \in ActionTypes
  BY <1>1, InCallFrame
<1>3. PICK o \in {"success", "failure"} :
         Enter(t, "outcome", [frame[t] EXCEPT !.outcome = o])
  BY DEF RunAction
<1>4. [frame[t] EXCEPT !.outcome = o] \in Frame
  BY <1>2 DEF Frame, CallOutcomes
<1>5. ran' \in [ActionTypes -> Nat]
  BY <1>1, <1>2 DEF RunAction, TrustTypeOK
<1>6. TrustTypeOK'
  <2>1. "outcome" \in PCs \ {"idle"}
    BY DEF PCs
  <2> QED BY <1>1, <1>3, <1>4, <1>5, <2>1, EnterType DEF RunAction, TrustTypeOK
<1>7. PromotesOnlyEnabled'
  BY <1>1, <1>3, OthersKept DEF RunAction, RowKept, Enter, TrustTypeOK
<1> QED BY <1>6, <1>7 DEF TrustIInv

\* The audit row of record_outcome.
LEMMA AuditStep ==
  ASSUME TrustIInv, NEW t \in Threads, OutcomeAudit(t)
  PROVE  TrustIInv'
<1>1. TrustTypeOK /\ tpc[t] # "idle"
  BY DEF TrustIInv, OutcomeAudit
<1>2. frame[t] \in Frame /\ frame[t].type \in ActionTypes
  BY <1>1, InCallFrame
<1>3. frame[t].outcome \in AuditOutcomes
  BY <1>2 DEF Frame, AuditOutcomes
<1>4. audit' \in [ActionTypes -> [AuditOutcomes -> Nat]]
  BY <1>1, <1>2, <1>3, RecordAuditType DEF OutcomeAudit
<1>5. TrustTypeOK'
  <2>1. "count" \in PCs \ {"idle"}
    BY DEF PCs
  <2> QED BY <1>1, <1>2, <1>4, <2>1, EnterType DEF OutcomeAudit, TrustTypeOK
<1>6. PromotesOnlyEnabled'
  BY <1>1, OthersKept DEF OutcomeAudit, RowKept, Enter, TrustTypeOK
<1> QED BY <1>5, <1>6 DEF TrustIInv

\* The counters, and perhaps a promotion to come.
LEMMA CountStep ==
  ASSUME TrustIInv, NEW t \in Threads, OutcomeCount(t)
  PROVE  TrustIInv'
<1> DEFINE a   == frame[t].type
           row == Counted(EnsurePolicy(a), frame[t].outcome)
           g   == [frame[t] EXCEPT !.level = row.level]
<1>1. TrustTypeOK /\ tpc[t] # "idle"
  BY DEF TrustIInv, OutcomeCount
<1>2. frame[t] \in Frame /\ a \in ActionTypes
  BY <1>1, InCallFrame
<1>3. /\ row \in Policy /\ row # NoPolicy
      /\ row.level = EnsurePolicy(a).level /\ row.after = EnsurePolicy(a).after
  BY <1>1, <1>2, EnsureType, CountedType, TrustAssumption
<1>4. policy' = [policy EXCEPT ![a] = row]
  BY DEF OutcomeCount
<1>5. policy' \in [ActionTypes -> Policy \cup {NoPolicy}] /\ policy'[a] = row
  BY <1>1, <1>2, <1>3, <1>4 DEF TrustTypeOK
<1>6. \A b \in ActionTypes : RowKept(b)
  BY <1>1, <1>2, <1>3, <1>4 DEF RowKept, TrustTypeOK, EnsurePolicy
<1>7. g \in Frame /\ g.type = a /\ g.level = row.level
      /\ g.outcome = frame[t].outcome
  BY <1>2, <1>3 DEF Frame, Policy
<1>8. CASE Promotable(row, frame[t].outcome)
  <2>1. Enter(t, "promote", g) /\ UNCHANGED <<audit, ran, raised>>
    BY <1>8 DEF OutcomeCount
  <2>2. "promote" \in PCs \ {"idle"}
    BY DEF PCs
  <2> HIDE DEF g, row
  <2>3. TrustTypeOK'
    BY <1>1, <1>5, <1>7, <2>1, <2>2, EnterType DEF TrustTypeOK
  <2>4. tpc'[t] = "promote" /\ frame'[t] = g
    BY <1>1, <2>1 DEF Enter, TrustTypeOK
  <2>5. \A u \in Threads \ {t} : tpc'[u] = tpc[u] /\ frame'[u] = frame[u]
    BY <1>1, <2>1 DEF Enter, TrustTypeOK
  <2>6. ASSUME NEW u \in Threads
        PROVE  /\ tpc'[u] \in {"promote", "promote_write"} =>
                    frame'[u].level \in DOMAIN Above
               /\ tpc'[u] = "promote" =>
                    /\ policy'[frame'[u].type] # NoPolicy
                    /\ policy'[frame'[u].type].after > 0
                    /\ frame'[u].outcome = "success"
    <3>1. CASE u = t
      BY <1>3, <1>5, <1>7, <1>8, <2>4, <3>1 DEF Promotable, Policy
    <3>2. CASE u # t /\ tpc[u] \in {"promote", "promote_write"}
      <4>1. frame[u].type \in ActionTypes
        BY <1>1, <3>2, InCallFrame
      <4> QED BY <1>6, <2>5, <3>2, <4>1
              DEF TrustIInv, PromotesOnlyEnabled, RowKept
    <3>3. CASE u # t /\ tpc[u] \notin {"promote", "promote_write"}
      BY <2>5, <3>3
    <3> QED BY <3>1, <3>2, <3>3
  <2>7. PromotesOnlyEnabled'
    BY <2>6 DEF PromotesOnlyEnabled
  <2> QED BY <2>3, <2>7 DEF TrustIInv
<1>9. CASE ~Promotable(row, frame[t].outcome)
  <2>1. Return(t) /\ UNCHANGED <<audit, ran, raised>>
    BY <1>9 DEF OutcomeCount
  <2> HIDE DEF g, row
  <2>2. TrustTypeOK'
    BY <1>1, <1>5, <2>1, ReturnType DEF TrustTypeOK
  <2>3. PromotesOnlyEnabled'
    BY <1>1, <1>6, <2>1, OthersKept DEF Return, Enter, TrustTypeOK
  <2> QED BY <2>2, <2>3 DEF TrustIInv
<1> QED BY <1>8, <1>9

\* A step that rewrites one row with a row of the same threshold, and
\* returns: the two promotion writes, and the exceptions that go to the caller.
LEMMA WriteAndReturn ==
  ASSUME TrustIInv, NEW t \in Threads, tpc[t] # "idle", Return(t),
         NEW row \in Policy \cup {NoPolicy},
         policy' = [policy EXCEPT ![frame[t].type] = row],
         policy[frame[t].type] # NoPolicy =>
           row # NoPolicy /\ row.after = policy[frame[t].type].after,
         UNCHANGED <<audit, ran>>, raised' \in BOOLEAN
  PROVE  TrustIInv' /\ \A b \in ActionTypes : RowKept(b)
<1>1. TrustTypeOK /\ frame[t].type \in ActionTypes
  BY InCallFrame DEF TrustIInv
<1>2. policy' \in [ActionTypes -> Policy \cup {NoPolicy}]
  BY <1>1 DEF TrustTypeOK
<1>3. \A b \in ActionTypes : RowKept(b)
  BY <1>1 DEF RowKept, TrustTypeOK
<1>4. TrustTypeOK'
  BY <1>1, <1>2, ReturnType DEF TrustTypeOK
<1>5. PromotesOnlyEnabled'
  BY <1>1, <1>3, OthersKept DEF Return, Enter, TrustTypeOK
<1> QED BY <1>3, <1>4, <1>5 DEF TrustIInv

\* A pending promotion is written over whatever level the row has by now.
LEMMA AutoPromoteStep ==
  ASSUME TrustIInv, NEW t \in Threads, AutoPromote(t)
  PROVE  TrustIInv'
<1> DEFINE a   == frame[t].type
           row == [policy[a] EXCEPT !.level = Above[frame[t].level],
                                    !.successes = 0]
<1>1. tpc[t] = "promote" /\ a \in ActionTypes
  BY InCallFrame DEF TrustIInv, AutoPromote
<1>2. policy[a] \in Policy
  BY <1>1 DEF TrustIInv, PromotesOnlyEnabled, TrustTypeOK
<1>3. Above[frame[t].level] \in StoredLevels
  BY <1>1, AboveLevels DEF TrustIInv, PromotesOnlyEnabled, StoredLevels
<1>4. row \in Policy /\ row.after = policy[a].after
  BY <1>2, <1>3 DEF Policy
<1>5. policy' = [policy EXCEPT ![a] = row]
  BY <1>1 DEF AutoPromote, TrustIInv, TrustTypeOK
<1>6. row # NoPolicy
  BY <1>4, TrustAssumption
<1>8. raised' = raised /\ UNCHANGED <<audit, ran>> /\ Return(t)
  BY DEF AutoPromote
<1>9. raised' \in BOOLEAN
  BY <1>8 DEF TrustIInv, TrustTypeOK
<1> HIDE DEF row
<1> QED BY <1>1, <1>4, <1>5, <1>6, <1>8, <1>9, WriteAndReturn

\* promote()'s write creates the row if there is none.
LEMMA PromoteWriteStep ==
  ASSUME TrustIInv, NEW t \in Threads, PromoteWrite(t)
  PROVE  TrustIInv'
<1> DEFINE a   == frame[t].type
           row == [EnsurePolicy(a) EXCEPT !.level = Above[frame[t].level],
                                          !.successes = 0]
<1>1. tpc[t] = "promote_write" /\ a \in ActionTypes
  BY InCallFrame DEF TrustIInv, PromoteWrite
<1>2. EnsurePolicy(a) \in Policy
  BY <1>1, EnsureType DEF TrustIInv
<1>3. Above[frame[t].level] \in StoredLevels
  BY <1>1, AboveLevels DEF TrustIInv, PromotesOnlyEnabled, StoredLevels
<1>4. row \in Policy /\ row.after = EnsurePolicy(a).after
  BY <1>2, <1>3 DEF Policy
<1>5. policy' = [policy EXCEPT ![a] = row]
  BY DEF PromoteWrite
<1>6. row # NoPolicy
  BY <1>4, TrustAssumption
<1>7. policy[a] # NoPolicy => row.after = policy[a].after
  BY <1>4 DEF EnsurePolicy
<1>8. raised' = raised /\ UNCHANGED <<audit, ran>> /\ Return(t)
  BY DEF PromoteWrite
<1>9. raised' \in BOOLEAN
  BY <1>8 DEF TrustIInv, TrustTypeOK
<1> HIDE DEF row
<1> QED BY <1>1, <1>4, <1>5, <1>6, <1>7, <1>8, <1>9, WriteAndReturn

\* Whatever a block committed before it raised is a row of the table.
LEMMA RaiseStep ==
  ASSUME TrustIInv, NEW t \in Threads, OutcomeRaises(t)
  PROVE  TrustIInv' /\ \A b \in ActionTypes : RowKept(b)
<1> DEFINE a == frame[t].type
<1>1. /\ TrustTypeOK /\ tpc[t] # "idle"
      /\ frame[t] \in Frame /\ a \in ActionTypes
  BY InCallFrame DEF TrustIInv, OutcomeRaises
<1>2. PICK row \in CommittedBefore(t) : policy' = [policy EXCEPT ![a] = row]
  BY DEF OutcomeRaises
<1>3. EnsurePolicy(a) \in Policy
      /\ (policy[a] # NoPolicy => EnsurePolicy(a) = policy[a])
  BY <1>1, EnsureType DEF EnsurePolicy
<1>4. LET c == Counted(EnsurePolicy(a), frame[t].outcome)
      IN c \in Policy /\ c.after = EnsurePolicy(a).after
  BY <1>3, CountedType
<1>5. /\ row \in Policy \cup {NoPolicy}
      /\ policy[a] # NoPolicy => row # NoPolicy /\ row.after = policy[a].after
  BY <1>1, <1>3, <1>4, TrustAssumption DEF CommittedBefore, TrustTypeOK
<1>6. CASE Return(t)
  BY <1>1, <1>2, <1>5, <1>6, WriteAndReturn DEF OutcomeRaises
<1>7. CASE Enter(t, "outcome", [frame[t] EXCEPT !.outcome = "failure"])
  <2>1. [frame[t] EXCEPT !.outcome = "failure"] \in Frame
    BY <1>1 DEF Frame, CallOutcomes
  <2>2. "outcome" \in PCs \ {"idle"}
    BY DEF PCs
  <2>3. policy' \in [ActionTypes -> Policy \cup {NoPolicy}]
    BY <1>1, <1>2, <1>5 DEF TrustTypeOK
  <2>4. TrustTypeOK'
    BY <1>1, <1>7, <2>1, <2>2, <2>3, EnterType DEF OutcomeRaises, TrustTypeOK
  <2>5. \A b \in ActionTypes : RowKept(b)
    BY <1>1, <1>2, <1>5 DEF RowKept, TrustTypeOK
  <2>6. PromotesOnlyEnabled'
    BY <1>1, <1>7, <2>5, OthersKept DEF Enter, TrustTypeOK
  <2> QED BY <2>4, <2>5, <2>6 DEF TrustIInv
<1> QED BY <1>6, <1>7 DEF OutcomeRaises

\* An admin's write leaves every thread where it is.
LEMMA SetLevelStep ==
  ASSUME TrustIInv, NEW a \in ActionTypes, NEW l, SetTrustLevel(a, l)
  PROVE  TrustIInv'
<1> DEFINE row == [EnsurePolicy(a) EXCEPT !.level = l]
<1>1. TrustTypeOK /\ EnsurePolicy(a) \in Policy
  BY EnsureType DEF TrustIInv
<1>2. row \in Policy /\ row.after = EnsurePolicy(a).after /\ row # NoPolicy
  BY <1>1, TrustAssumption DEF SetTrustLevel, Policy, StoredLevels
<1>3. policy' = [policy EXCEPT ![a] = row]
  BY DEF SetTrustLevel
<1> HIDE DEF row
<1>4. TrustTypeOK'
  BY <1>1, <1>2, <1>3 DEF SetTrustLevel, TrustTypeOK
<1>5. \A b \in ActionTypes : RowKept(b)
  BY <1>1, <1>2, <1>3 DEF RowKept, TrustTypeOK, EnsurePolicy
<1>6. ASSUME NEW u \in Threads, tpc[u] = "promote"
      PROVE  frame[u].type \in ActionTypes
  BY <1>1, <1>6, InCallFrame
<1>7. PromotesOnlyEnabled'
  BY <1>5, <1>6 DEF SetTrustLevel, TrustIInv, PromotesOnlyEnabled, RowKept
<1> QED BY <1>4, <1>7 DEF TrustIInv

\* A cancellation moves one row from pending to cancelled.
LEMMA CancelStep ==
  ASSUME TrustIInv, NEW a \in ActionTypes, CancelPending(a)
  PROVE  TrustIInv'
<1>1. audit' \in [ActionTypes -> [AuditOutcomes -> Nat]]
  <2>1. audit[a] \in [AuditOutcomes -> Nat]
    BY DEF TrustIInv, TrustTypeOK
  <2>2. "pending_notify" \in AuditOutcomes /\ "cancelled" \in AuditOutcomes
    BY DEF AuditOutcomes
  <2>3. [audit[a] EXCEPT !["pending_notify"] = @ - 1, !["cancelled"] = @ + 1]
          \in [AuditOutcomes -> Nat]
    BY <2>1, <2>2 DEF CancelPending
  <2>4. audit' = [audit EXCEPT ![a] =
                    [audit[a] EXCEPT !["pending_notify"] = @ - 1,
                                     !["cancelled"] = @ + 1]]
    BY DEF CancelPending, TrustIInv, TrustTypeOK
  <2> QED BY <2>3, <2>4 DEF TrustIInv, TrustTypeOK
<1>2. TrustTypeOK'
  BY <1>1 DEF CancelPending, TrustIInv, TrustTypeOK
<1>3. PromotesOnlyEnabled'
  BY DEF CancelPending, TrustIInv, PromotesOnlyEnabled
<1> QED BY <1>2, <1>3 DEF TrustIInv

LEMMA TrustInductive ==
  ASSUME TrustIInv, [TrustNext]_trustVars
  PROVE  TrustIInv'
<1>1. ASSUME NEW t \in Threads, ThreadSteps(t) PROVE TrustIInv'
  <2>1. CASE Refuse(t)        BY <2>1, RefuseStep
  <2>2. CASE RunAction(t)     BY <2>2, RunStep
  <2>3. CASE OutcomeAudit(t)  BY <2>3, AuditStep
  <2>4. CASE OutcomeCount(t)  BY <2>4, CountStep
  <2>5. CASE AutoPromote(t)   BY <2>5, AutoPromoteStep
  <2>6. CASE OutcomeRaises(t) BY <2>6, RaiseStep
  <2>7. CASE PromoteWrite(t)  BY <2>7, PromoteWriteStep
  <2> QED BY <1>1, <2>1, <2>2, <2>3, <2>4, <2>5, <2>6, <2>7
          DEF ThreadSteps, CallSteps, RecordSteps
<1>2. CASE UNCHANGED trustVars
  BY <1>2 DEF TrustIInv, trustVars, TrustTypeOK, PromotesOnlyEnabled
<1> QED BY <1>1, <1>2, CallStarts, SetLevelStep, CancelStep DEF TrustNext

\* Types: in every behaviour, whatever threads and action types there are,
\* the tables, counters and frames hold the values the code gives them.
THEOREM TrustTypeCorrect == TrustSpec => []TrustTypeOK
<1>1. TrustInit => TrustIInv
  BY TrustInitInv
<1>2. TrustIInv /\ [TrustNext]_trustVars => TrustIInv'
  BY TrustInductive
<1>3. TrustIInv => TrustTypeOK
  BY DEF TrustIInv
<1> QED BY <1>1, <1>2, <1>3, PTL DEF TrustSpec

\* No promotion is ever pending for a type whose promotion is switched off.
THEOREM PromotionsAreEnabled == TrustSpec => []PromotesOnlyEnabled
<1>1. TrustInit => TrustIInv
  BY TrustInitInv
<1>2. TrustIInv /\ [TrustNext]_trustVars => TrustIInv'
  BY TrustInductive
<1>3. TrustIInv => PromotesOnlyEnabled
  BY DEF TrustIInv
<1> QED BY <1>1, <1>2, <1>3, PTL DEF TrustSpec

-----------------------------------------------------------------------------
\* A step that is not the admin's leaves the level of a seeded type alone.
LEMMA SeededStep ==
  ASSUME TrustIInv, [TrustNext]_trustVars, NEW a \in ActionTypes,
         Seeded(a), policy'[a].level # policy[a].level
  PROVE  AdminStep
<1>1. TrustTypeOK
  BY DEF TrustIInv
<1>2. ASSUME NEW t \in Threads, OutcomeCount(t) PROVE FALSE
  <2>1. tpc[t] # "idle"
    BY <1>2 DEF OutcomeCount
  <2>2. frame[t].type \in ActionTypes
    BY <1>1, <2>1, InCallFrame
  <2>3. /\ EnsurePolicy(a) \in Policy
        /\ EnsurePolicy(a) = policy[a]
    BY <1>1, EnsureType DEF Seeded, EnsurePolicy
  <2>4. Counted(EnsurePolicy(a), frame[t].outcome).level = policy[a].level
    BY <2>3, CountedType
  <2> QED BY <1>1, <1>2, <2>2, <2>4 DEF OutcomeCount, TrustTypeOK
<1>3. ASSUME NEW t \in Threads, AutoPromote(t) PROVE FALSE
  <2>1. tpc[t] = "promote"
    BY <1>3 DEF AutoPromote
  <2>2. frame[t].type \in ActionTypes
    BY <1>1, <2>1, InCallFrame
  <2>3. policy[frame[t].type].after > 0
    BY <2>1 DEF TrustIInv, PromotesOnlyEnabled
  <2>4. frame[t].type # a
    BY <2>3 DEF Seeded
  <2> QED BY <1>1, <1>3, <2>2, <2>4 DEF AutoPromote, TrustTypeOK
<1>4. ASSUME NEW t \in Threads, OutcomeRaises(t) PROVE FALSE
  <2>1. tpc[t] # "idle"
    BY <1>4 DEF OutcomeRaises
  <2>2. frame[t].type \in ActionTypes
    BY <1>1, <2>1, InCallFrame
  <2>3. /\ EnsurePolicy(a) \in Policy
        /\ EnsurePolicy(a) = policy[a]
    BY <1>1, EnsureType DEF Seeded, EnsurePolicy
  <2>4. Counted(EnsurePolicy(a), frame[t].outcome).level = policy[a].level
    BY <2>3, CountedType
  <2>5. PICK row \in CommittedBefore(t) :
           policy' = [policy EXCEPT ![frame[t].type] = row]
    BY <1>4 DEF OutcomeRaises
  <2>6. frame[t].type = a => row.level = policy[a].level
    BY <2>3, <2>4, <2>5 DEF CommittedBefore
  <2> QED BY <1>1, <2>2, <2>5, <2>6 DEF TrustTypeOK
<1>5. ASSUME NEW t \in Threads, PromoteWrite(t) PROVE AdminStep
  BY <1>1, <1>5 DEF PromoteWrite, Return, Enter, AdminStep, TrustTypeOK
<1>6. ASSUME NEW t \in Threads, ThreadSteps(t) PROVE AdminStep
  BY <1>2, <1>3, <1>4, <1>5, <1>6
     DEF ThreadSteps, CallSteps, RecordSteps, Refuse, RunAction, OutcomeAudit
<1>7. ASSUME NEW t \in Threads, NEW b \in ActionTypes, Calls(t, b) PROVE FALSE
  BY <1>7, CallStarts
<1>8. ASSUME NEW b \in ActionTypes, NEW l, SetTrustLevel(b, l) PROVE AdminStep
  BY <1>8 DEF SetTrustLevel, AdminStep
<1>9. ASSUME NEW b \in ActionTypes, CancelPending(b) PROVE FALSE
  BY <1>9 DEF CancelPending
<1> QED BY <1>6, <1>7, <1>8, <1>9 DEF TrustNext, trustVars

\* The level of a type that the migration seeded is the admin's alone, for any
\* number of threads, successes and exceptions.
THEOREM SeededLevels == TrustSpec => SeededLevelIsAdmins
<1> DEFINE Step == \A a \in ActionTypes :
             Seeded(a) /\ policy'[a].level # policy[a].level => AdminStep
<1>1. TrustInit => TrustIInv
  BY TrustInitInv
<1>2. TrustIInv /\ [TrustNext]_trustVars => TrustIInv'
  BY TrustInductive
<1>3. TrustIInv /\ [TrustNext]_trustVars => [Step]_trustVars
  BY SeededStep
<1> QED BY <1>1, <1>2, <1>3, PTL DEF TrustSpec, SeededLevelIsAdmins

-----------------------------------------------------------------------------
\* The runs of a type that are not written down are finitely many.
LEMMA UnwrittenFinite ==
  \A a : IsFiniteSet(Unwritten(a)) /\ Cardinality(Unwritten(a)) \in Nat
<1> SUFFICES ASSUME NEW a PROVE IsFiniteSet(Unwritten(a))
                                /\ Cardinality(Unwritten(a)) \in Nat
  OBVIOUS
<1>1. Unwritten(a) \subseteq Threads /\ IsFiniteSet(Threads)
  BY TrustAssumption DEF Unwritten
<1> QED BY <1>1, FS_Subset, FS_CardinalityType

\* A step that leaves the runs, the two kinds of rows and the threads in
\* "outcome" alone keeps the books balanced.
LEMMA BooksUntouched ==
  ASSUME EveryRunAudited, UNCHANGED <<ran, raised>>,
         \A a \in ActionTypes :
           /\ audit'[a]["success"] = audit[a]["success"]
           /\ audit'[a]["failure"] = audit[a]["failure"]
           /\ Unwritten(a)' = Unwritten(a)
  PROVE  EveryRunAudited'
  BY DEF EveryRunAudited

\* A run and the thread that owes its row come together.
LEMMA RunOwesRow ==
  ASSUME TrustIInv, EveryRunAudited, NEW t \in Threads, RunAction(t)
  PROVE  EveryRunAudited'
<1> SUFFICES ASSUME ~raised', NEW a \in ActionTypes
             PROVE  ran'[a] = audit'[a]["success"] + audit'[a]["failure"]
                              + Cardinality(Unwritten(a)')
  BY DEF EveryRunAudited
<1>0. ~raised
  <2>1. raised' = raised
    BY DEF RunAction
  <2> QED BY <2>1
<1>1. /\ TrustTypeOK /\ frame[t] \in Frame /\ frame[t].type \in ActionTypes
      /\ tpc[t] = "gate"
  BY InCallFrame DEF TrustIInv, RunAction
<1>2. ran[a] = audit[a]["success"] + audit[a]["failure"]
               + Cardinality(Unwritten(a))
  BY <1>0 DEF EveryRunAudited
<1>3. PICK o \in {"success", "failure"} :
         Enter(t, "outcome", [frame[t] EXCEPT !.outcome = o])
  BY DEF RunAction
<1>4. tpc'[t] = "outcome" /\ frame'[t].type = frame[t].type
      /\ frame'[t].outcome = o
  BY <1>1, <1>3 DEF Enter, TrustTypeOK, Frame
<1>5. \A u \in Threads \ {t} : tpc'[u] = tpc[u] /\ frame'[u] = frame[u]
  BY <1>1, <1>3 DEF Enter, TrustTypeOK
<1>6. t \notin Unwritten(a)
  BY <1>1 DEF Unwritten
<1>7. /\ audit[a]["success"] \in Nat /\ audit[a]["failure"] \in Nat
      /\ audit' = audit
      /\ Cardinality(Unwritten(a)) \in Nat /\ IsFiniteSet(Unwritten(a))
  BY <1>1, UnwrittenFinite DEF RunAction, TrustTypeOK, AuditOutcomes, CallOutcomes
<1>8. CASE frame[t].type = a
  <2>1. Unwritten(a)' = Unwritten(a) \cup {t}
    BY <1>4, <1>5, <1>8 DEF Unwritten
  <2>2. Cardinality(Unwritten(a)') = Cardinality(Unwritten(a)) + 1
    BY <1>6, <1>7, <2>1, FS_AddElement
  <2>3. ran'[a] = ran[a] + 1
    BY <1>1, <1>8 DEF RunAction, TrustTypeOK
  <2> QED BY <1>2, <1>7, <2>2, <2>3
<1>9. CASE frame[t].type # a
  <2>1. Unwritten(a)' = Unwritten(a)
    BY <1>4, <1>5, <1>6, <1>9 DEF Unwritten
  <2>2. ran'[a] = ran[a]
    BY <1>1, <1>9 DEF RunAction, TrustTypeOK
  <2> QED BY <1>2, <1>7, <2>1, <2>2
<1> QED BY <1>8, <1>9

\* The success and failure rows of a type, and those that threads owe it.
Owed(a) == audit[a]["success"] + audit[a]["failure"] + Cardinality(Unwritten(a))

\* The row pays the debt.
LEMMA RowPays ==
  ASSUME TrustIInv, NEW t \in Threads, OutcomeAudit(t), NEW a \in ActionTypes
  PROVE  Owed(a)' = Owed(a)
<1> DEFINE o == frame[t].outcome
<1>1. /\ TrustTypeOK /\ frame[t] \in Frame /\ frame[t].type \in ActionTypes
      /\ tpc[t] = "outcome"
  BY InCallFrame DEF TrustIInv, OutcomeAudit
<1>2. tpc'[t] = "count"
  BY <1>1 DEF OutcomeAudit, Enter, TrustTypeOK
<1>3. \A u \in Threads \ {t} : tpc'[u] = tpc[u] /\ frame'[u] = frame[u]
  BY <1>1 DEF OutcomeAudit, Enter, TrustTypeOK
<1>4. /\ audit[a] \in [AuditOutcomes -> Nat]
      /\ audit[a]["success"] \in Nat /\ audit[a]["failure"] \in Nat
      /\ Cardinality(Unwritten(a)) \in Nat /\ IsFiniteSet(Unwritten(a))
  BY <1>1, UnwrittenFinite
     DEF TrustTypeOK, AuditOutcomes, CallOutcomes
<1>5. CASE frame[t].type # a
  <2>1. Unwritten(a)' = Unwritten(a)
    BY <1>2, <1>3, <1>5 DEF Unwritten
  <2>2. audit'[a] = audit[a]
    BY <1>1, <1>5 DEF OutcomeAudit, RecordAudit, TrustTypeOK
  <2> QED BY <2>1, <2>2 DEF Owed
<1>6. CASE frame[t].type = a /\ o \notin {"success", "failure"}
  <2>1. Unwritten(a)' = Unwritten(a)
    BY <1>2, <1>3, <1>6 DEF Unwritten
  <2>2. audit'[a] = [audit[a] EXCEPT ![o] = @ + 1]
    BY <1>1, <1>6 DEF OutcomeAudit, RecordAudit, TrustTypeOK
  <2>3. /\ audit'[a]["success"] = audit[a]["success"]
        /\ audit'[a]["failure"] = audit[a]["failure"]
    BY <1>4, <1>6, <2>2 DEF AuditOutcomes, CallOutcomes
  <2> QED BY <2>1, <2>3 DEF Owed
<1>7. CASE frame[t].type = a /\ o \in {"success", "failure"}
  <2>1. t \in Unwritten(a) /\ Unwritten(a)' = Unwritten(a) \ {t}
    BY <1>1, <1>2, <1>3, <1>7 DEF Unwritten
  <2>2. Cardinality(Unwritten(a)') = Cardinality(Unwritten(a)) - 1
    BY <1>4, <2>1, FS_RemoveElement
  <2>3. audit'[a] = [audit[a] EXCEPT ![o] = @ + 1]
    BY <1>1, <1>7 DEF OutcomeAudit, RecordAudit, TrustTypeOK
  <2>4. audit'[a]["success"] + audit'[a]["failure"]
          = audit[a]["success"] + audit[a]["failure"] + 1
    BY <1>4, <1>7, <2>3 DEF AuditOutcomes, CallOutcomes
  <2>5. Cardinality(Unwritten(a)') \in Nat
    BY <1>4, <2>1, FS_RemoveElement, FS_CardinalityType
  <2> QED BY <1>4, <2>2, <2>4, <2>5 DEF Owed
<1> QED BY <1>5, <1>6, <1>7

LEMMA RowPaysRun ==
  ASSUME TrustIInv, EveryRunAudited, NEW t \in Threads, OutcomeAudit(t)
  PROVE  EveryRunAudited'
<1>1. \A a \in ActionTypes : Owed(a)' = Owed(a)
  BY RowPays
<1>2. UNCHANGED <<ran, raised>>
  BY DEF OutcomeAudit
<1> QED BY <1>1, <1>2 DEF EveryRunAudited, Owed

\* A thread that enters or leaves a call without a run touches no book.
LEMMA NoRunNoDebt ==
  ASSUME TrustTypeOK, NEW t \in Threads, NEW pc, NEW f, Enter(t, pc, f),
         tpc[t] # "outcome",
         pc = "outcome" => f.outcome \notin {"success", "failure"},
         NEW a
  PROVE  Unwritten(a)' = Unwritten(a)
<1>1. /\ tpc'[t] = pc /\ frame'[t] = f
      /\ \A u \in Threads \ {t} : tpc'[u] = tpc[u] /\ frame'[u] = frame[u]
  BY DEF Enter, TrustTypeOK
<1> QED BY <1>1 DEF Unwritten

\* A refusal is not a run.
LEMMA RefusalBooks ==
  ASSUME TrustIInv, EveryRunAudited, NEW t \in Threads, Refuse(t)
  PROVE  EveryRunAudited'
<1> DEFINE o == RefusalOutcome[frame[t].level]
<1>1. /\ TrustTypeOK /\ frame[t].type \in ActionTypes /\ tpc[t] = "gate"
  BY InCallFrame DEF TrustIInv, Refuse
<1>2. o \in AuditOutcomes /\ o \notin {"success", "failure"}
  BY RefusalOutcomes DEF Refuse, RefusalOutcome
<1>3. ASSUME NEW a \in ActionTypes
      PROVE  /\ audit'[a]["success"] = audit[a]["success"]
             /\ audit'[a]["failure"] = audit[a]["failure"]
  <2>1. audit[a] \in [AuditOutcomes -> Nat]
    BY <1>1 DEF TrustTypeOK
  <2>2. audit'[a] = IF a = frame[t].type THEN [audit[a] EXCEPT ![o] = @ + 1]
                                         ELSE audit[a]
    BY <1>1 DEF Refuse, RecordAudit, TrustTypeOK
  <2> HIDE DEF o
  <2> QED BY <1>2, <2>1, <2>2 DEF AuditOutcomes, CallOutcomes
<1>4. \A a \in ActionTypes : Unwritten(a)' = Unwritten(a)
  BY <1>1, NoRunNoDebt DEF Refuse, Return
<1> QED BY <1>3, <1>4, BooksUntouched DEF Refuse

\* The steps that neither run nor write a row.
LEMMA SilentBooks ==
  ASSUME TrustIInv, EveryRunAudited, UNCHANGED <<audit, ran, raised>>,
         NEW t \in Threads, NEW pc, NEW f, Enter(t, pc, f),
         tpc[t] # "outcome",
         pc = "outcome" => f.outcome \notin {"success", "failure"}
  PROVE  EveryRunAudited'
<1>1. \A a \in ActionTypes : Unwritten(a)' = Unwritten(a)
  BY NoRunNoDebt DEF TrustIInv
<1> QED BY <1>1, BooksUntouched

LEMMA BooksStep ==
  ASSUME TrustIInv, EveryRunAudited, [TrustNext]_trustVars
  PROVE  EveryRunAudited'
<1>1. ASSUME NEW t \in Threads, OutcomeCount(t) PROVE EveryRunAudited'
  BY <1>1, SilentBooks DEF OutcomeCount, Return
<1>2. ASSUME NEW t \in Threads, AutoPromote(t) PROVE EveryRunAudited'
  BY <1>2, SilentBooks DEF AutoPromote, Return
<1>3. ASSUME NEW t \in Threads, PromoteWrite(t) PROVE EveryRunAudited'
  BY <1>3, SilentBooks DEF PromoteWrite, Return
<1>4. ASSUME NEW t \in Threads, OutcomeRaises(t) PROVE EveryRunAudited'
  BY <1>4 DEF OutcomeRaises, EveryRunAudited
<1>5. ASSUME NEW t \in Threads, NEW a \in ActionTypes, Calls(t, a)
      PROVE  EveryRunAudited'
  BY <1>5, SilentBooks
     DEF Calls, CheckLevel, ToolRefused, CallRecordOutcome, PromoteRead
<1>6. ASSUME NEW a \in ActionTypes, NEW l, SetTrustLevel(a, l)
      PROVE  EveryRunAudited'
  BY <1>6, BooksUntouched DEF SetTrustLevel, Unwritten
<1>7. ASSUME NEW a \in ActionTypes, CancelPending(a) PROVE EveryRunAudited'
  <2>1. ASSUME NEW b \in ActionTypes
        PROVE  /\ audit'[b]["success"] = audit[b]["success"]
               /\ audit'[b]["failure"] = audit[b]["failure"]
    <3>1. audit[b] \in [AuditOutcomes -> Nat]
      BY DEF TrustIInv, TrustTypeOK
    <3>2. audit'[b] = IF b = a
                      THEN [audit[b] EXCEPT !["pending_notify"] = @ - 1,
                                            !["cancelled"] = @ + 1]
                      ELSE audit[b]
      BY <1>7 DEF CancelPending, TrustIInv, TrustTypeOK
    <3> QED BY <3>1, <3>2 DEF AuditOutcomes, CallOutcomes
  <2> QED BY <1>7, <2>1, BooksUntouched DEF CancelPending, Unwritten
<1>8. ASSUME UNCHANGED trustVars PROVE EveryRunAudited'
  BY <1>8, BooksUntouched DEF trustVars, Unwritten
<1>9. ASSUME NEW t \in Threads, ThreadSteps(t) PROVE EveryRunAudited'
  BY <1>1, <1>2, <1>3, <1>4, <1>9, RefusalBooks, RunOwesRow, RowPaysRun
     DEF ThreadSteps, CallSteps, RecordSteps
<1> QED BY <1>5, <1>6, <1>7, <1>8, <1>9 DEF TrustNext

\* No run is lost from the audit trail and none is written twice, however
\* many threads call the gate at once, as long as SQLite does not raise.
THEOREM RunsAreAudited == TrustSpec => []EveryRunAudited
<1>1. TrustInit => TrustIInv /\ EveryRunAudited
  <2> SUFFICES ASSUME TrustInit PROVE EveryRunAudited
    BY TrustInitInv
  <2>1. \A a \in ActionTypes : Unwritten(a) = {}
    BY DEF TrustInit, Unwritten
  <2>2. \A a \in ActionTypes :
          /\ ran[a] = 0 /\ audit[a]["success"] = 0 /\ audit[a]["failure"] = 0
    BY DEF TrustInit, AuditOutcomes, CallOutcomes
  <2>3. ASSUME NEW a \in ActionTypes PROVE Cardinality(Unwritten(a)) = 0
    <3>1. Cardinality({}) = 0
      BY FS_EmptySet
    <3> QED BY <2>1, <3>1
  <2> QED BY <2>2, <2>3 DEF EveryRunAudited
<1>2. TrustIInv /\ EveryRunAudited /\ [TrustNext]_trustVars
        => (TrustIInv /\ EveryRunAudited)'
  BY TrustInductive, BooksStep
<1> QED BY <1>1, <1>2, PTL DEF TrustSpec

-----------------------------------------------------------------------------
\* The successes of a type that are written down and not yet counted.
Uncounted(a) ==
  {t \in Threads : /\ tpc[t] = "count"
                   /\ frame[t].type = a
                   /\ frame[t].outcome = "success"}

\* What the counter of a type says, 0 when there is none.
Streak(a) == IF policy[a] = NoPolicy THEN 0 ELSE policy[a].successes

\* StreakIsAudited, made inductive: it also holds of a type without a row, to
\* whose successes the row will be added.
StreakBacked(a) == Streak(a) + Cardinality(Uncounted(a)) <= audit[a]["success"]

StreakInv == \A a \in ActionTypes : StreakBacked(a)

LEMMA StreakTypes ==
  ASSUME TrustTypeOK, NEW a \in ActionTypes
  PROVE  /\ Streak(a) \in Nat /\ audit[a]["success"] \in Nat
         /\ IsFiniteSet(Uncounted(a)) /\ Cardinality(Uncounted(a)) \in Nat
<1>1. Uncounted(a) \subseteq Threads /\ IsFiniteSet(Threads)
  BY TrustAssumption DEF Uncounted
<1>2. IsFiniteSet(Uncounted(a)) /\ Cardinality(Uncounted(a)) \in Nat
  BY <1>1, FS_Subset, FS_CardinalityType
<1>3. Streak(a) \in Nat /\ audit[a]["success"] \in Nat
  BY DEF TrustTypeOK, Policy, Streak, AuditOutcomes, CallOutcomes
<1> QED BY <1>2, <1>3

\* A step that adds neither to the counter of a type nor to what is to be
\* counted leaves it backed.
LEMMA StreakEased ==
  ASSUME TrustTypeOK, TrustTypeOK', NEW a \in ActionTypes, StreakBacked(a),
         Streak(a)' <= Streak(a), Uncounted(a)' \subseteq Uncounted(a),
         audit[a]["success"] <= audit'[a]["success"]
  PROVE  StreakBacked(a)'
<1>1. /\ Streak(a) \in Nat /\ audit[a]["success"] \in Nat
      /\ IsFiniteSet(Uncounted(a)) /\ Cardinality(Uncounted(a)) \in Nat
  BY StreakTypes
<1>2. /\ Streak(a)' \in Nat /\ audit'[a]["success"] \in Nat
  BY DEF TrustTypeOK, Policy, Streak, AuditOutcomes, CallOutcomes
<1>3. /\ Cardinality(Uncounted(a)') <= Cardinality(Uncounted(a))
      /\ Cardinality(Uncounted(a)') \in Nat
  BY <1>1, FS_Subset, FS_CardinalityType
<1>4. Streak(a) + Cardinality(Uncounted(a)) <= audit[a]["success"]
  BY DEF StreakBacked
<1>5. Streak(a)' + Cardinality(Uncounted(a)') <= audit'[a]["success"]
  BY <1>1, <1>2, <1>3, <1>4
<1> QED BY <1>5 DEF StreakBacked

\* What a thread that goes somewhere else than to the counters leaves to count.
LEMMA LeavesNothingToCount ==
  ASSUME TrustTypeOK, NEW t \in Threads, NEW pc, NEW f, Enter(t, pc, f),
         pc # "count", NEW a
  PROVE  Uncounted(a)' = Uncounted(a) \ {t}
<1>1. /\ tpc'[t] = pc
      /\ \A u \in Threads \ {t} : tpc'[u] = tpc[u] /\ frame'[u] = frame[u]
  BY DEF Enter, TrustTypeOK
<1> QED BY <1>1 DEF Uncounted

\* The success row is written, and is to be counted.
LEMMA RowBacks ==
  ASSUME TrustIInv, TrustIInv', StreakInv, NEW t \in Threads, OutcomeAudit(t)
  PROVE  StreakInv'
<1> DEFINE o == frame[t].outcome
<1>1. /\ TrustTypeOK /\ TrustTypeOK'
      /\ frame[t] \in Frame /\ frame[t].type \in ActionTypes /\ tpc[t] = "outcome"
  BY InCallFrame DEF TrustIInv, OutcomeAudit
<1>2. /\ tpc'[t] = "count" /\ frame'[t] = frame[t] /\ UNCHANGED policy
      /\ \A u \in Threads \ {t} : tpc'[u] = tpc[u] /\ frame'[u] = frame[u]
  BY <1>1 DEF OutcomeAudit, Enter, TrustTypeOK
<1>3. SUFFICES ASSUME NEW a \in ActionTypes PROVE StreakBacked(a)'
  BY DEF StreakInv
<1>4. /\ Streak(a)' = Streak(a) /\ StreakBacked(a)
      /\ Streak(a) \in Nat /\ audit[a]["success"] \in Nat
      /\ IsFiniteSet(Uncounted(a)) /\ Cardinality(Uncounted(a)) \in Nat
  BY <1>1, <1>2, StreakTypes DEF Streak, StreakInv
<1>5. /\ audit[a] \in [AuditOutcomes -> Nat]
      /\ audit'[a] = IF a = frame[t].type THEN [audit[a] EXCEPT ![o] = @ + 1] ELSE audit[a]
      /\ o \in AuditOutcomes /\ "success" \in AuditOutcomes
  BY <1>1 DEF OutcomeAudit, RecordAudit, TrustTypeOK, AuditOutcomes, CallOutcomes, Frame
<1>6. CASE frame[t].type = a /\ o = "success"
  <2>1. t \notin Uncounted(a) /\ Uncounted(a)' = Uncounted(a) \cup {t}
    BY <1>1, <1>2, <1>6 DEF Uncounted
  <2>2. Cardinality(Uncounted(a)') = Cardinality(Uncounted(a)) + 1
    BY <1>4, <2>1, FS_AddElement
  <2>3. audit'[a]["success"] = audit[a]["success"] + 1
    BY <1>5, <1>6
  <2>4. Streak(a) + Cardinality(Uncounted(a)) <= audit[a]["success"]
    BY <1>4 DEF StreakBacked
  <2>5. Streak(a)' + Cardinality(Uncounted(a)') <= audit'[a]["success"]
    BY <1>4, <2>2, <2>3, <2>4
  <2> QED BY <2>5 DEF StreakBacked
<1>7. CASE ~ (frame[t].type = a /\ o = "success")
  <2>1. Uncounted(a)' \subseteq Uncounted(a)
    BY <1>1, <1>2, <1>7 DEF Uncounted
  <2>2. audit[a]["success"] <= audit'[a]["success"]
    <3>1. audit'[a]["success"] = audit[a]["success"]
      BY <1>5, <1>7
    <3> QED BY <1>4, <3>1
  <2>3. Streak(a)' <= Streak(a)
    BY <1>4
  <2> QED BY <1>1, <1>4, <2>1, <2>2, <2>3, StreakEased
<1> QED BY <1>6, <1>7

\* A thread at the counters writes a row that counts its success at most, and
\* has then nothing left to count.
LEMMA CountBacked ==
  ASSUME TrustIInv, TrustIInv', StreakInv, NEW t \in Threads, tpc[t] = "count",
         NEW row \in {policy[frame[t].type], EnsurePolicy(frame[t].type),
                      Counted(EnsurePolicy(frame[t].type), frame[t].outcome)},
         policy' = [policy EXCEPT ![frame[t].type] = row], UNCHANGED audit,
         NEW pc, NEW f, Enter(t, pc, f), pc # "count"
  PROVE  StreakInv'
<1> DEFINE b == frame[t].type
           e == EnsurePolicy(b)
<1>1. TrustTypeOK /\ TrustTypeOK' /\ b \in ActionTypes
  BY InCallFrame DEF TrustIInv
<1>2. SUFFICES ASSUME NEW a \in ActionTypes PROVE StreakBacked(a)'
  BY DEF StreakInv
<1>3. /\ StreakBacked(a) /\ Streak(a) \in Nat /\ audit[a]["success"] \in Nat
      /\ IsFiniteSet(Uncounted(a)) /\ Cardinality(Uncounted(a)) \in Nat
  BY <1>1, StreakTypes DEF StreakInv
<1>4. Uncounted(a)' = Uncounted(a) \ {t}
  BY <1>1, LeavesNothingToCount
<1>5. audit'[a]["success"] = audit[a]["success"]
  OBVIOUS
<1>6. CASE a # b
  <2>1. Streak(a)' = Streak(a)
    BY <1>1, <1>6 DEF Streak, TrustTypeOK
  <2> QED BY <1>1, <1>3, <1>4, <1>5, <2>1, StreakEased
<1>7. CASE a = b
  <2>1. e \in Policy /\ e # NoPolicy /\ e.successes = Streak(a) /\ e.successes \in Nat
    <3>1. e \in Policy /\ e # NoPolicy
      BY <1>1, EnsureType, TrustAssumption
    <3>2. e.successes = Streak(a)
      BY <1>7 DEF EnsurePolicy, Streak
    <3> QED BY <3>1, <3>2 DEF Policy
  <2>2. policy'[a] = row
    BY <1>1, <1>7 DEF TrustTypeOK
  <2> DEFINE c == Counted(e, frame[t].outcome)
  <2>3. /\ c # NoPolicy
        /\ c.successes = IF frame[t].outcome = "success" THEN Streak(a) + 1 ELSE 0
    <3>1. c \in Policy
      BY <2>1, CountedType
    <3>2. c.successes = IF frame[t].outcome = "success" THEN e.successes + 1 ELSE 0
      BY <2>1 DEF Counted, Policy
    <3> QED BY <2>1, <3>1, <3>2, TrustAssumption
  <2> HIDE DEF c, e
  <2>4. row = policy[a] \/ row = e \/ row = c
    BY <1>7 DEF c, e
  <2>5. CASE row = c /\ frame[t].outcome = "success"
    <3>1. Streak(a)' = Streak(a) + 1
      BY <2>2, <2>3, <2>5 DEF Streak
    <3>2. t \in Uncounted(a)
      BY <1>7, <2>5 DEF Uncounted
    <3>3. /\ Cardinality(Uncounted(a) \ {t}) = Cardinality(Uncounted(a)) - 1
          /\ Cardinality(Uncounted(a) \ {t}) \in Nat
      BY <1>3, <3>2, FS_RemoveElement, FS_CardinalityType
    <3>4. Streak(a) + Cardinality(Uncounted(a)) <= audit[a]["success"]
      BY <1>3 DEF StreakBacked
    <3>5. Streak(a)' + Cardinality(Uncounted(a)') <= audit'[a]["success"]
      BY <1>3, <1>4, <1>5, <3>1, <3>3, <3>4
    <3> QED BY <3>5 DEF StreakBacked
  <2>6. CASE ~ (row = c /\ frame[t].outcome = "success")
    <3>1. Streak(a)' = Streak(a) \/ Streak(a)' = 0
      BY <2>1, <2>2, <2>3, <2>4, <2>6 DEF Streak
    <3>2. Streak(a)' <= Streak(a)
      BY <1>3, <3>1
    <3> QED BY <1>1, <1>3, <1>4, <1>5, <3>2, StreakEased
  <2> QED BY <2>5, <2>6
<1> QED BY <1>6, <1>7

\* A step that adds no success and at most clears counters.
LEMMA StreakLeft ==
  ASSUME TrustIInv, TrustIInv', StreakInv,
         NEW t \in Threads, NEW pc, NEW f, Enter(t, pc, f), pc # "count",
         \A a \in ActionTypes : /\ Streak(a)' <= Streak(a)
                                /\ audit[a]["success"] <= audit'[a]["success"]
  PROVE  StreakInv'
<1>1. TrustTypeOK /\ TrustTypeOK'
  BY DEF TrustIInv
<1>2. ASSUME NEW a \in ActionTypes PROVE StreakBacked(a)'
  <2>1. Uncounted(a)' = Uncounted(a) \ {t}
    BY <1>1, LeavesNothingToCount
  <2>2. StreakBacked(a)
    BY DEF StreakInv
  <2> QED BY <1>1, <2>1, <2>2, StreakEased
<1> QED BY <1>2 DEF StreakInv

\* A promotion clears the counter of its type.
LEMMA PromotionClears ==
  ASSUME TrustIInv, NEW t \in Threads, AutoPromote(t) \/ PromoteWrite(t), NEW a \in ActionTypes
  PROVE  Streak(a)' <= Streak(a) /\ audit[a]["success"] <= audit'[a]["success"]
<1> DEFINE b == frame[t].type
<1>1. TrustTypeOK /\ b \in ActionTypes
  BY InCallFrame DEF TrustIInv, AutoPromote, PromoteWrite
<1>2. Streak(a) \in Nat /\ audit[a]["success"] \in Nat /\ audit' = audit
  BY <1>1, StreakTypes DEF AutoPromote, PromoteWrite
<1>3. a # b => policy'[a] = policy[a]
  BY <1>1 DEF AutoPromote, PromoteWrite, TrustTypeOK
<1>4. policy'[b].successes = 0
  <2>1. CASE AutoPromote(t)
    <3>1. policy[b] \in Policy
      BY <1>1, <2>1 DEF AutoPromote, TrustIInv, PromotesOnlyEnabled, TrustTypeOK
    <3> QED BY <1>1, <2>1, <3>1 DEF AutoPromote, TrustTypeOK, Policy
  <2>2. CASE PromoteWrite(t)
    <3>1. EnsurePolicy(b) \in Policy
      BY <1>1, EnsureType
    <3> QED BY <1>1, <2>2, <3>1 DEF PromoteWrite, TrustTypeOK, Policy
  <2> QED BY <2>1, <2>2
<1>5. Streak(a)' = Streak(a) \/ Streak(a)' = 0
  BY <1>3, <1>4 DEF Streak
<1> QED BY <1>2, <1>5

LEMMA StreakStep ==
  ASSUME TrustIInv, StreakInv, [TrustNext]_trustVars
  PROVE  StreakInv'
<1>1. TrustIInv' /\ TrustTypeOK /\ TrustTypeOK'
  BY TrustInductive DEF TrustIInv
<1>2. \A a \in ActionTypes : Streak(a) \in Nat /\ audit[a]["success"] \in Nat
  BY <1>1, StreakTypes
<1>3. ASSUME UNCHANGED <<policy, audit>>,
             NEW t \in Threads, NEW pc, NEW f, Enter(t, pc, f), pc # "count"
      PROVE  StreakInv'
  <2>1. \A a \in ActionTypes : /\ Streak(a)' <= Streak(a)
                               /\ audit[a]["success"] <= audit'[a]["success"]
    BY <1>2, <1>3 DEF Streak
  <2> QED BY <1>1, <1>3, <2>1, StreakLeft
<1>4. ASSUME NEW t \in Threads, Refuse(t) PROVE StreakInv'
  <2> DEFINE o == RefusalOutcome[frame[t].level]
  <2>1. o \in AuditOutcomes /\ o # "success"
    BY <1>4, RefusalOutcomes DEF Refuse, RefusalOutcome
  <2>2. frame[t].type \in ActionTypes
    BY <1>1, <1>4, InCallFrame DEF Refuse
  <2>3. ASSUME NEW a \in ActionTypes PROVE audit'[a]["success"] = audit[a]["success"]
    <3>1. audit[a] \in [AuditOutcomes -> Nat]
      BY <1>1 DEF TrustTypeOK
    <3>2. audit'[a] = IF a = frame[t].type THEN [audit[a] EXCEPT ![o] = @ + 1] ELSE audit[a]
      BY <1>1, <1>4, <2>2 DEF Refuse, RecordAudit, TrustTypeOK
    <3> HIDE DEF o
    <3> QED BY <2>1, <3>1, <3>2 DEF AuditOutcomes, CallOutcomes
  <2>4. \A a \in ActionTypes : /\ Streak(a)' <= Streak(a)
                               /\ audit[a]["success"] <= audit'[a]["success"]
    BY <1>2, <1>4, <2>3 DEF Streak, Refuse
  <2>5. Enter(t, "idle", NoCall) /\ "idle" # "count"
    BY <1>4 DEF Refuse, Return
  <2> QED BY <1>1, <2>4, <2>5, StreakLeft
<1>5. ASSUME NEW t \in Threads, RunAction(t) PROVE StreakInv'
  BY <1>3, <1>5 DEF RunAction
<1>6. ASSUME NEW t \in Threads, OutcomeAudit(t) PROVE StreakInv'
  BY <1>1, <1>6, RowBacks
<1>7. ASSUME NEW t \in Threads, OutcomeCount(t) PROVE StreakInv'
  <2> DEFINE row == Counted(EnsurePolicy(frame[t].type), frame[t].outcome)
             g == [frame[t] EXCEPT !.level = row.level]
  <2>1. tpc[t] = "count" /\ policy' = [policy EXCEPT ![frame[t].type] = row] /\ UNCHANGED audit
    BY <1>7 DEF OutcomeCount
  <2>2. Enter(t, "promote", g) \/ Enter(t, "idle", NoCall)
    BY <1>7 DEF OutcomeCount, Return
  <2> HIDE DEF g
  <2> QED BY <1>1, <2>1, <2>2, CountBacked
<1>8. ASSUME NEW t \in Threads, AutoPromote(t) \/ PromoteWrite(t) PROVE StreakInv'
  <2>1. Enter(t, "idle", NoCall) /\ "idle" # "count"
    BY <1>8 DEF AutoPromote, PromoteWrite, Return
  <2>2. \A a \in ActionTypes : /\ Streak(a)' <= Streak(a)
                               /\ audit[a]["success"] <= audit'[a]["success"]
    BY <1>8, PromotionClears
  <2> QED BY <1>1, <2>1, <2>2, StreakLeft
<1>9. ASSUME NEW t \in Threads, OutcomeRaises(t) PROVE StreakInv'
  <2> DEFINE g == [frame[t] EXCEPT !.outcome = "failure"]
  <2>1. PICK row \in CommittedBefore(t) : policy' = [policy EXCEPT ![frame[t].type] = row]
    BY <1>9 DEF OutcomeRaises
  <2>2. (Enter(t, "outcome", g) \/ Enter(t, "idle", NoCall)) /\ UNCHANGED audit
    BY <1>9 DEF OutcomeRaises, Return
  <2> HIDE DEF g
  <2>3. CASE tpc[t] = "count"
    BY <1>1, <2>1, <2>2, <2>3, CountBacked DEF CommittedBefore
  <2>4. CASE tpc[t] # "count"
    <3>1. UNCHANGED policy
      BY <1>1, <2>1, <2>4 DEF CommittedBefore, TrustTypeOK
    <3> QED BY <1>3, <2>2, <3>1
  <2> QED BY <2>3, <2>4
<1>10. ASSUME NEW t \in Threads, NEW a \in ActionTypes, Calls(t, a) PROVE StreakInv'
  BY <1>3, <1>10 DEF Calls, CheckLevel, ToolRefused, CallRecordOutcome, PromoteRead
<1>11. ASSUME \A a \in ActionTypes : /\ Streak(a)' = Streak(a)
                                     /\ audit'[a]["success"] = audit[a]["success"],
              UNCHANGED <<tpc, frame>>
       PROVE  StreakInv'
  BY <1>11 DEF StreakInv, StreakBacked, Uncounted
<1>12. ASSUME NEW a \in ActionTypes, NEW l, SetTrustLevel(a, l) PROVE StreakInv'
  <2>1. ASSUME NEW b \in ActionTypes PROVE Streak(b)' = Streak(b)
    <3>1. EnsurePolicy(a) \in Policy
      BY <1>1, EnsureType
    <3>2. policy'[a] = [EnsurePolicy(a) EXCEPT !.level = l] /\ (b # a => policy'[b] = policy[b])
      BY <1>1, <1>12 DEF SetTrustLevel, TrustTypeOK
    <3>3. policy'[a] # NoPolicy
      <4>1. policy'[a] \in Policy
        BY <1>12, <3>1, <3>2 DEF SetTrustLevel, Policy, StoredLevels
      <4> QED BY <4>1, TrustAssumption
    <3>4. policy'[a].successes = EnsurePolicy(a).successes
      BY <3>1, <3>2 DEF Policy
    <3> QED BY <3>2, <3>3, <3>4 DEF Streak, EnsurePolicy
  <2> QED BY <1>11, <1>12, <2>1 DEF SetTrustLevel
<1>13. ASSUME NEW a \in ActionTypes, CancelPending(a) PROVE StreakInv'
  <2>1. ASSUME NEW b \in ActionTypes PROVE audit'[b]["success"] = audit[b]["success"]
    <3>1. audit[b] \in [AuditOutcomes -> Nat]
      BY <1>1 DEF TrustTypeOK
    <3>2. audit'[b] = IF b = a THEN [audit[b] EXCEPT !["pending_notify"] = @ - 1,
                                                     !["cancelled"] = @ + 1]
                               ELSE audit[b]
      BY <1>1, <1>13 DEF CancelPending, TrustTypeOK
    <3> QED BY <3>1, <3>2 DEF AuditOutcomes, CallOutcomes
  <2> QED BY <1>11, <1>13, <2>1 DEF CancelPending, Streak
<1>14. ASSUME UNCHANGED trustVars PROVE StreakInv'
  BY <1>11, <1>14 DEF trustVars, Streak
<1>15. ASSUME NEW t \in Threads, ThreadSteps(t) PROVE StreakInv'
  BY <1>4, <1>5, <1>6, <1>7, <1>8, <1>9, <1>15 DEF ThreadSteps, CallSteps, RecordSteps
<1> QED BY <1>10, <1>12, <1>13, <1>14, <1>15 DEF TrustNext

\* A streak that leads to a promotion is one of rows in the audit trail,
\* however many threads record at once and wherever SQLite raises.
THEOREM StreaksAreAudited == TrustSpec => []StreakIsAudited
<1>1. TrustInit => TrustIInv /\ StreakInv
  <2> SUFFICES ASSUME TrustInit, NEW a \in ActionTypes PROVE StreakBacked(a)
    BY TrustInitInv DEF StreakInv
  <2>1. Uncounted(a) = {}
    BY DEF TrustInit, Uncounted
  <2>2. Cardinality(Uncounted(a)) = 0
    BY <2>1, FS_EmptySet
  <2>3. Streak(a) = 0 /\ audit[a]["success"] = 0
    BY DEF TrustInit, Streak, AuditOutcomes, CallOutcomes
  <2> QED BY <2>2, <2>3 DEF StreakBacked
<1>2. TrustIInv /\ StreakInv /\ [TrustNext]_trustVars => (TrustIInv /\ StreakInv)'
  BY TrustInductive, StreakStep
<1>3. StreakInv => StreakIsAudited
  BY DEF StreakInv, StreakBacked, Streak, Uncounted, StreakIsAudited
<1> QED BY <1>1, <1>2, <1>3, PTL DEF TrustSpec
=============================================================================
