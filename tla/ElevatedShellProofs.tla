------------------------ MODULE ElevatedShellProofs ------------------------
(* What TLAPS proves of ElevatedShell: for any number of admins, agents and *)
(* commands, with crashes and restarts.                                     *)
EXTENDS ElevatedShell, TrustEngineProofs

\* Consent, made inductive: what the statuses, the calls in progress and the
\* histories say of each other while a command is on its way to a run.
ConsentInv ==
  /\ GetLevel(ShellWrite) = "auto" => "auto" \in past
  /\ \A t \in Threads : spc[t] = "auto_run" => "auto" \in past
  /\ \A t \in Threads : spc[t] \in {"exec", "run"} => job[t] \in approved
  /\ \A i \in ActionIds : status[i] = "approved" => i \in approved
  /\ NoRunWithoutConsent

ShellIInv == ShellTypeOK /\ ConsentInv

LEMMA ShellInitInv == ShellInit => ShellIInv
<1> SUFFICES ASSUME ShellInit PROVE ShellIInv
  OBVIOUS
<1>1. ShellTypeOK
  <2>1. past \subseteq {"auto", "crash"}
    BY DEF ShellInit
  <2>2. "absent" \in Statuses /\ "idle" \in ShellPCs /\ "idle" \notin JobPCs
    BY DEF Statuses, ShellPCs, JobPCs
  <2> QED BY <2>1, <2>2 DEF ShellInit, ShellTypeOK
<1>2. GetLevel(ShellWrite) = "auto" => "auto" \in past
  BY DEF ShellInit
<1>3. ConsentInv
  BY <1>2 DEF ShellInit, ConsentInv, NoRunWithoutConsent
<1> QED BY <1>1, <1>3 DEF ShellIInv

\* Where a call goes next, and with which action.
LEMMA GoType ==
  ASSUME ShellTypeOK, NEW t \in Threads, NEW pc \in ShellPCs,
         NEW i \in ActionIds \cup {NoAction}, i # NoAction <=> pc \in JobPCs,
         Go(t, pc, i)
  PROVE  /\ spc' \in [Threads -> ShellPCs]
         /\ job' \in [Threads -> ActionIds \cup {NoAction}]
         /\ \A u \in Threads : job'[u] # NoAction <=> spc'[u] \in JobPCs
  BY DEF ShellTypeOK, Go

\* A thread that holds an action holds one of the table.
LEMMA JobType ==
  ASSUME ShellTypeOK, NEW t \in Threads, spc[t] \in JobPCs
  PROVE  job[t] \in ActionIds
  BY DEF ShellTypeOK

\* The policy as the shell sees it changes only with the engine's steps.
LEMMA LevelKept ==
  ASSUME UNCHANGED policy PROVE GetLevel(ShellWrite)' = GetLevel(ShellWrite)
  BY DEF GetLevel

-----------------------------------------------------------------------------
\* Requests that start a call: nothing runs and no status changes.
LEMMA RequestStep ==
  ASSUME ShellIInv, NEW t \in Threads,
         \/ ProposeBlocked(t) \/ ProposeAuto(t) \/ ProposeQueued(t)
         \/ \E i \in ActionIds :
              ApproveCheck(t, i) \/ RejectCheck(t, i) \/ ExecuteCall(t, i)
  PROVE  ShellIInv'
<1>1. ShellTypeOK /\ ConsentInv
  BY DEF ShellIInv
<1>2. /\ UNCHANGED <<status, overdue, runs, autoRuns, approved, past, policy>>
      /\ \/ UNCHANGED <<spc, job>>
         \/ Go(t, "insert", NoAction)
         \/ Go(t, "auto_run", NoAction) /\ GetLevel(ShellWrite) = "auto"
         \/ \E i \in ActionIds :
              \/ Go(t, "approve", i)
              \/ Go(t, "reject", i)
              \/ Go(t, "run", i) /\ status[i] = "approved"
  BY DEF ProposeBlocked, ProposeAuto, ProposeQueued, ApproveCheck, RejectCheck,
         ExecuteCall, Check, CallRecordOutcome, shellState, trustVars
<1>3. GetLevel(ShellWrite)' = GetLevel(ShellWrite)
  BY <1>2, LevelKept
<1>4. ShellTypeOK'
  BY <1>1, <1>2, ShellAssumption DEF ShellTypeOK, Go, ShellPCs, JobPCs
<1>5. ConsentInv'
  BY <1>1, <1>2, <1>3
     DEF ConsentInv, NoRunWithoutConsent, Go, ShellTypeOK
<1> QED BY <1>4, <1>5 DEF ShellIInv

\* The steps of a call that has begun, the engine's aside.
LEMMA CallStep ==
  ASSUME ShellIInv, NEW t \in Threads,
         \/ InsertPending(t) \/ ApproveWrite(t) \/ RejectWrite(t)
         \/ ExecuteCheck(t) \/ RunApproved(t) \/ ExecuteWrite(t)
  PROVE  ShellIInv'
<1>1. ShellTypeOK /\ ConsentInv
  BY DEF ShellIInv
<1>2. UNCHANGED <<overdue, autoRuns, past, policy>>
  BY DEF InsertPending, ApproveWrite, RejectWrite, ExecuteCheck, RunApproved,
         ExecuteWrite, trustVars
<1>3. GetLevel(ShellWrite)' = GetLevel(ShellWrite)
  BY <1>2, LevelKept
<1>4. CASE InsertPending(t)
  BY <1>1, <1>2, <1>3, <1>4
     DEF InsertPending, SetStatus, Done, Go, ShellIInv, ShellTypeOK, ConsentInv,
         NoRunWithoutConsent, Statuses, ShellPCs, JobPCs
<1>5. CASE ApproveWrite(t)
  <2>1. job[t] \in ActionIds
    BY <1>1, <1>5, JobType DEF ApproveWrite, At, JobPCs
  <2> QED BY <1>1, <1>2, <1>3, <1>5, <2>1, ShellAssumption
          DEF ApproveWrite, SetStatus, Go, ShellIInv, ShellTypeOK, ConsentInv,
              NoRunWithoutConsent, Statuses, ShellPCs, JobPCs
<1>6. CASE RejectWrite(t)
  <2>1. job[t] \in ActionIds
    BY <1>1, <1>6, JobType DEF RejectWrite, At, JobPCs
  <2> QED BY <1>1, <1>2, <1>3, <1>6, <2>1, ShellAssumption
          DEF RejectWrite, SetStatus, Done, Go, ShellIInv, ShellTypeOK, ConsentInv,
              NoRunWithoutConsent, Statuses, ShellPCs, JobPCs
<1>7. CASE ExecuteCheck(t)
  <2>1. job[t] \in ActionIds
    BY <1>1, <1>7, JobType DEF ExecuteCheck, At, JobPCs
  <2> QED BY <1>1, <1>2, <1>3, <1>7, <2>1, ShellAssumption
          DEF ExecuteCheck, Done, Go, ShellIInv, ShellTypeOK, ConsentInv,
              NoRunWithoutConsent, ShellPCs, JobPCs
<1>8. CASE RunApproved(t)
  <2>1. job[t] \in ActionIds /\ job[t] \in approved
    BY <1>1, <1>8, JobType DEF RunApproved, At, JobPCs, ConsentInv
  <2> QED BY <1>1, <1>2, <1>3, <1>8, <2>1, ShellAssumption
          DEF RunApproved, Go, ShellIInv, ShellTypeOK, ConsentInv,
              NoRunWithoutConsent, ShellPCs, JobPCs
<1>9. CASE ExecuteWrite(t)
  <2>1. job[t] \in ActionIds
    BY <1>1, <1>9, JobType DEF ExecuteWrite, At, JobPCs
  <2> QED BY <1>1, <1>2, <1>3, <1>9, <2>1, ShellAssumption
          DEF ExecuteWrite, SetStatus, Done, Go, ShellIInv, ShellTypeOK, ConsentInv,
              NoRunWithoutConsent, Statuses, ShellPCs, JobPCs
<1> QED BY <1>4, <1>5, <1>6, <1>7, <1>8, <1>9

\* The bypass runs only where the level was auto when the call looked.
LEMMA BypassStep ==
  ASSUME ShellIInv, NEW t \in Threads, AutoRun(t) \/ AutoInsert(t)
  PROVE  ShellIInv'
<1>1. ShellTypeOK /\ ConsentInv
  BY DEF ShellIInv
<1>2. UNCHANGED <<overdue, approved, past, policy>>
  BY DEF AutoRun, AutoInsert, CallRecordOutcome, trustVars
<1>3. GetLevel(ShellWrite)' = GetLevel(ShellWrite)
  BY <1>2, LevelKept
<1>4. CASE AutoRun(t)
  <2>1. "auto" \in past
    BY <1>1, <1>4 DEF AutoRun, At, ConsentInv
  <2> QED BY <1>1, <1>2, <1>3, <1>4, <2>1, ShellAssumption
          DEF AutoRun, Go, ShellIInv, ShellTypeOK, ConsentInv,
              NoRunWithoutConsent, ShellPCs, JobPCs
<1>5. CASE AutoInsert(t)
  <2>1. job[t] \in ActionIds
    BY <1>1, <1>5, JobType DEF AutoInsert, At, JobPCs
  <2> QED BY <1>1, <1>2, <1>3, <1>5, <2>1, ShellAssumption
          DEF AutoInsert, SetStatus, Done, Go, ShellIInv, ShellTypeOK, ConsentInv,
              NoRunWithoutConsent, Statuses, ShellPCs, JobPCs
<1> QED BY <1>4, <1>5

\* The engine's steps and the admin's change the policy and note it; an
\* exception of the engine ends the thread's request.
LEMMA PolicyStep ==
  ASSUME ShellIInv, UNCHANGED <<status, overdue, runs, autoRuns, approved>>,
         UNCHANGED <<spc, job>> \/ \E t \in Threads : Done(t), NoteAuto
  PROVE  ShellIInv'
<1>1. ShellTypeOK /\ ConsentInv
  BY DEF ShellIInv
<1>2. past' \subseteq {"auto", "crash"}
  BY <1>1 DEF NoteAuto, ShellTypeOK
<1>3. /\ "auto" \in past => "auto" \in past'
      /\ GetLevel(ShellWrite)' = "auto" => "auto" \in past'
  BY DEF NoteAuto
<1>4. ShellTypeOK'
  BY <1>1, <1>2 DEF ShellTypeOK, Done, Go, ShellPCs, JobPCs
<1>5. ConsentInv'
  BY <1>1, <1>3 DEF ConsentInv, NoRunWithoutConsent, ShellTypeOK, Done, Go
<1> QED BY <1>4, <1>5 DEF ShellIInv

LEMMA EnvironmentStep ==
  ASSUME ShellIInv,
         \/ \E t \in Sweepers : ExpireStale(t)
         \/ \E i \in ActionIds : TimePasses(i)
         \/ Crash
  PROVE  ShellIInv'
<1>1. ShellTypeOK /\ ConsentInv
  BY DEF ShellIInv
<1>2. UNCHANGED policy
  BY DEF ExpireStale, TimePasses, Crash, trustVars
<1>3. GetLevel(ShellWrite)' = GetLevel(ShellWrite)
  BY <1>2, LevelKept
<1>4. ASSUME NEW t \in Sweepers, ExpireStale(t) PROVE ShellIInv'
  BY <1>1, <1>3, <1>4
     DEF ExpireStale, ShellIInv, ShellTypeOK, ConsentInv, NoRunWithoutConsent,
         Statuses
<1>5. ASSUME NEW i \in ActionIds, TimePasses(i) PROVE ShellIInv'
  BY <1>1, <1>3, <1>5
     DEF TimePasses, ShellIInv, ShellTypeOK, ConsentInv, NoRunWithoutConsent
<1>6. ASSUME Crash PROVE ShellIInv'
  BY <1>1, <1>3, <1>6
     DEF Crash, ShellIInv, ShellTypeOK, ConsentInv, NoRunWithoutConsent,
         ShellPCs, JobPCs
<1> QED BY <1>4, <1>5, <1>6

LEMMA ShellInductive ==
  ASSUME ShellIInv, [ShellNext]_shellVars
  PROVE  ShellIInv'
<1>1. CASE UNCHANGED shellVars
  <2>1. GetLevel(ShellWrite)' = GetLevel(ShellWrite)
    BY <1>1, LevelKept DEF shellVars, trustVars
  <2> QED BY <1>1, <2>1
          DEF shellVars, shellState, ShellIInv, ShellTypeOK, ConsentInv,
              NoRunWithoutConsent
<1>2. ASSUME NEW t \in Threads, ShellSteps(t) \/ EngineRaises(t) PROVE ShellIInv'
  <2>1. CASE EngineStep(t)
    BY <2>1, PolicyStep DEF EngineStep, shellState
  <2>2. CASE EngineRaises(t)
    BY <2>2, PolicyStep DEF EngineRaises
  <2> QED BY <1>2, <2>1, <2>2, CallStep, BypassStep DEF ShellSteps
<1>3. ASSUME NEW t \in Threads, PromoteShell(t) PROVE ShellIInv'
  BY <1>3, PolicyStep DEF PromoteShell, shellState
<1>4. ASSUME NEW l, SetShellLevel(l) PROVE ShellIInv'
  BY <1>4, PolicyStep DEF SetShellLevel, shellState
<1>5. ASSUME Requests PROVE ShellIInv'
  BY <1>5, RequestStep, EnvironmentStep, ShellAssumption DEF Requests
<1> QED BY <1>1, <1>2, <1>3, <1>4, <1>5, EnvironmentStep DEF ShellNext

\* Types, and with them where a call may hold an action.
THEOREM ShellTypeCorrect == ShellSpec => []ShellTypeOK
<1>1. ShellInit => ShellIInv
  BY ShellInitInv
<1>2. ShellIInv /\ [ShellNext]_shellVars => ShellIInv'
  BY ShellInductive
<1>3. ShellIInv => ShellTypeOK
  BY DEF ShellIInv
<1> QED BY <1>1, <1>2, <1>3, PTL DEF ShellSpec

\* No command runs without consent: for any number of admins, agents and
\* commands, in every order of their requests, and across crashes.
THEOREM ConsentBeforeRun == ShellSpec => []NoRunWithoutConsent
<1>1. ShellInit => ShellIInv
  BY ShellInitInv
<1>2. ShellIInv /\ [ShellNext]_shellVars => ShellIInv'
  BY ShellInductive
<1>3. ShellIInv => NoRunWithoutConsent
  BY DEF ShellIInv, ConsentInv
<1> QED BY <1>1, <1>2, <1>3, PTL DEF ShellSpec

-----------------------------------------------------------------------------
\* The threads that have run a command through the bypass and are about to
\* insert its row.
Inserting == {t \in Threads : spc[t] = "auto_insert"}

\* AutoRunsAudited, made inductive: a command of the bypass is counted once,
\* and in this composition nobody goes through the gate of the engine, whose
\* runs have success and failure rows of their own.
AuditInv ==
  /\ \A t \in Threads : tpc[t] # "gate"
  /\ IsFiniteSet(autoRuns)
  /\ \A i \in autoRuns : runs[i] > 0
  /\ AutoRunsAudited

BypassInv == TrustIInv /\ ShellIInv /\ AuditInv

LEMMA InsertingFinite == IsFiniteSet(Inserting) /\ Cardinality(Inserting) \in Nat
<1>1. Inserting \subseteq Threads /\ IsFiniteSet(Threads)
  BY TrustAssumption DEF Inserting
<1> QED BY <1>1, FS_Subset, FS_CardinalityType

\* What is owed is a number.
LEMMA OwedType ==
  ASSUME TrustTypeOK, NEW a \in ActionTypes
  PROVE  /\ audit[a]["success"] \in Nat /\ audit[a]["failure"] \in Nat
         /\ Cardinality(Unwritten(a)) \in Nat /\ Owed(a) \in Nat
<1>1. audit[a]["success"] \in Nat /\ audit[a]["failure"] \in Nat
  BY DEF TrustTypeOK, AuditOutcomes, CallOutcomes
<1> QED BY <1>1, UnwrittenFinite DEF Owed

\* AutoRunsAudited, with what is owed under one name.
LEMMA AuditedMeans ==
  ASSUME TrustTypeOK
  PROVE  AutoRunsAudited <=>
           ("crash" \notin past /\ ~raised =>
              Cardinality(autoRuns) = Owed(ShellWrite) + Cardinality(Inserting))
<1>1. /\ audit[ShellWrite]["success"] \in Nat /\ audit[ShellWrite]["failure"] \in Nat
      /\ Cardinality(Unwritten(ShellWrite)) \in Nat
  BY ShellAssumption, OwedType
<1>2. Cardinality(Inserting) \in Nat
  BY InsertingFinite
<1>3. audit[ShellWrite]["success"] + audit[ShellWrite]["failure"]
        + Cardinality(Inserting) + Cardinality(Unwritten(ShellWrite))
      = Owed(ShellWrite) + Cardinality(Inserting)
  BY <1>1, <1>2 DEF Owed
<1> QED BY <1>3 DEF AutoRunsAudited, Inserting

\* A step that moves nothing between the two databases.
LEMMA AuditKept ==
  ASSUME AuditInv, TrustTypeOK, TrustTypeOK',
         \A t \in Threads : tpc'[t] # "gate",
         autoRuns' = autoRuns, \A i \in autoRuns : runs'[i] > 0,
         past \ {"auto"} \subseteq past', raised => raised',
         Inserting' = Inserting, Owed(ShellWrite)' = Owed(ShellWrite)
  PROVE  AuditInv'
<1>1. "crash" \in past => "crash" \in past'
  OBVIOUS
<1>2. "crash" \notin past /\ ~raised =>
        Cardinality(autoRuns) = Owed(ShellWrite) + Cardinality(Inserting)
  BY AuditedMeans DEF AuditInv
<1>3. AutoRunsAudited'
  <2>1. (AutoRunsAudited <=>
           ("crash" \notin past /\ ~raised =>
              Cardinality(autoRuns) = Owed(ShellWrite) + Cardinality(Inserting)))'
    BY AuditedMeans, PTL
  <2> QED BY <1>1, <1>2, <2>1
<1> QED BY <1>3 DEF AuditInv

\* Nobody is at the gate after a thread has gone elsewhere.
LEMMA NotAtGate ==
  ASSUME TrustTypeOK, \A u \in Threads : tpc[u] # "gate",
         NEW t \in Threads, NEW pc, NEW f, Enter(t, pc, f), pc # "gate"
  PROVE  \A u \in Threads : tpc'[u] # "gate"
  BY DEF Enter, TrustTypeOK

\* A call that enters or leaves with nothing to write keeps what is owed.
LEMMA OwedKept ==
  ASSUME TrustTypeOK, NEW t \in Threads, NEW pc, NEW f, Enter(t, pc, f),
         tpc[t] # "outcome",
         pc = "outcome" => f.outcome \notin {"success", "failure"},
         UNCHANGED audit, NEW a \in ActionTypes
  PROVE  Owed(a)' = Owed(a)
  BY NoRunNoDebt DEF Owed

\* The engine's steps when nobody comes through the gate.
LEMMA EngineOwes ==
  ASSUME BypassInv, NEW t \in Threads, CallSteps(t)
  PROVE  /\ Owed(ShellWrite)' = Owed(ShellWrite) /\ UNCHANGED raised
         /\ \A u \in Threads : tpc'[u] # "gate"
<1>1. /\ TrustTypeOK /\ ShellWrite \in ActionTypes
      /\ \A u \in Threads : tpc[u] # "gate"
  BY ShellAssumption DEF BypassInv, TrustIInv, AuditInv
<1>2. ~ Refuse(t) /\ ~ RunAction(t)
  BY <1>1 DEF Refuse, RunAction
<1>3. CASE OutcomeAudit(t)
  <2>1. Owed(ShellWrite)' = Owed(ShellWrite)
    BY <1>1, <1>3, RowPays DEF BypassInv
  <2>2. Enter(t, "count", frame[t]) /\ UNCHANGED raised
    BY <1>3 DEF OutcomeAudit
  <2> QED BY <1>1, <2>1, <2>2, NotAtGate
<1>4. CASE OutcomeCount(t)
  <2> DEFINE row == Counted(EnsurePolicy(frame[t].type), frame[t].outcome)
             g == [frame[t] EXCEPT !.level = row.level]
  <2>1. /\ Enter(t, "promote", g) \/ Enter(t, "idle", NoCall)
        /\ UNCHANGED <<audit, raised>> /\ tpc[t] # "outcome"
    BY <1>4 DEF OutcomeCount, Return
  <2> HIDE DEF g
  <2> QED BY <1>1, <2>1, OwedKept, NotAtGate
<1>5. CASE AutoPromote(t) \/ PromoteWrite(t)
  <2>1. Enter(t, "idle", NoCall) /\ UNCHANGED <<audit, raised>> /\ tpc[t] # "outcome"
    BY <1>5 DEF AutoPromote, PromoteWrite, Return
  <2> QED BY <1>1, <2>1, OwedKept, NotAtGate
<1> QED BY <1>2, <1>3, <1>4, <1>5 DEF CallSteps, RecordSteps

-----------------------------------------------------------------------------
\* The engine keeps its invariant as a part of the shell.
LEMMA TrustInShell ==
  ASSUME TrustIInv, [ShellNext]_shellVars
  PROVE  TrustIInv'
<1>1. ASSUME UNCHANGED trustVars PROVE TrustIInv'
  BY <1>1, TrustInductive
<1>2. ASSUME TrustNext PROVE TrustIInv'
  BY <1>2, TrustInductive
<1>3. ASSUME NEW t \in Threads, NEW o \in CallOutcomes, CallRecordOutcome(t, ShellWrite, o)
      PROVE  TrustIInv'
  <2> DEFINE f == [type |-> ShellWrite, level |-> GetLevel(ShellWrite),
                   outcome |-> o, gated |-> FALSE]
  <2>1. GetLevel(ShellWrite) \in StoredLevels /\ TrustTypeOK
    BY GetLevelType, ShellAssumption DEF TrustIInv
  <2>2. f \in Frame
    BY <2>1, ShellAssumption DEF Frame
  <2>3. Enter(t, "outcome", f) /\ UNCHANGED <<policy, audit, ran, raised>> /\ tpc[t] = "idle"
    BY <1>3 DEF CallRecordOutcome
  <2> HIDE DEF f
  <2>4. "outcome" \in PCs \ {"idle"}
    BY DEF PCs
  <2>5. TrustTypeOK'
    BY <2>1, <2>2, <2>3, <2>4, EnterType DEF TrustTypeOK
  <2>6. PromotesOnlyEnabled'
    BY <2>1, <2>3 DEF TrustIInv, PromotesOnlyEnabled, Enter, TrustTypeOK
  <2> QED BY <2>5, <2>6 DEF TrustIInv
<1>4. ASSUME Crash PROVE TrustIInv'
  <2>1. TrustTypeOK'
    BY <1>4 DEF Crash, TrustIInv, TrustTypeOK, PCs
  <2>2. PromotesOnlyEnabled'
    BY <1>4 DEF Crash, PromotesOnlyEnabled
  <2> QED BY <2>1, <2>2 DEF TrustIInv
<1>5. ASSUME NEW t \in Threads, ShellSteps(t) \/ EngineRaises(t) \/ PromoteShell(t)
      PROVE  TrustIInv'
  <2>1. CASE AutoInsert(t)
    BY <1>3, <2>1 DEF AutoInsert, CallOutcomes
  <2>2. CASE EngineStep(t)
    BY <1>2, <2>2 DEF EngineStep, TrustNext, ThreadSteps
  <2>3. CASE EngineRaises(t)
    BY <1>2, <2>3 DEF EngineRaises, TrustNext, ThreadSteps
  <2>4. CASE PromoteShell(t)
    BY <1>2, <2>4, ShellAssumption DEF PromoteShell, TrustNext, Calls
  <2>5. CASE \/ InsertPending(t) \/ AutoRun(t) \/ ApproveWrite(t) \/ RejectWrite(t)
             \/ ExecuteCheck(t) \/ RunApproved(t) \/ ExecuteWrite(t)
    BY <1>1, <2>5 DEF InsertPending, AutoRun, ApproveWrite, RejectWrite,
                      ExecuteCheck, RunApproved, ExecuteWrite
  <2> QED BY <1>5, <2>1, <2>2, <2>3, <2>4, <2>5 DEF ShellSteps
<1>6. ASSUME Requests PROVE TrustIInv'
  <2>1. ASSUME NEW t \in Threads, ProposeBlocked(t) \/ ProposeAuto(t) PROVE TrustIInv'
    BY <1>3, <2>1 DEF ProposeBlocked, ProposeAuto, CallOutcomes
  <2> QED BY <1>1, <1>6, <2>1
          DEF Requests, ProposeQueued, ApproveCheck, RejectCheck, ExecuteCall, Check, ExpireStale
<1>7. ASSUME NEW l \in Levels, SetShellLevel(l) PROVE TrustIInv'
  BY <1>2, <1>7, ShellAssumption DEF SetShellLevel, TrustNext, RequestedLevels
<1>8. ASSUME NEW i \in ActionIds, TimePasses(i) PROVE TrustIInv'
  BY <1>1, <1>8 DEF TimePasses
<1>9. ASSUME UNCHANGED shellVars PROVE TrustIInv'
  BY <1>1, <1>9 DEF shellVars
<1> QED BY <1>4, <1>5, <1>6, <1>7, <1>8, <1>9 DEF ShellNext

-----------------------------------------------------------------------------
\* Where a thread goes that does not run a command through the bypass, and
\* has none to insert, leaves the insertions alone.
LEMMA InsertingKept ==
  ASSUME ShellTypeOK, NEW t \in Threads, NEW pc, NEW i, Go(t, pc, i),
         pc # "auto_insert", spc[t] # "auto_insert"
  PROVE  Inserting' = Inserting
  BY DEF Go, ShellTypeOK, Inserting

\* A command is started through the bypass: its row is to be inserted.
LEMMA BypassRuns ==
  ASSUME BypassInv, TrustTypeOK', NEW t \in Threads, AutoRun(t)
  PROVE  AuditInv'
<1>1. TrustTypeOK /\ ShellTypeOK /\ AuditInv
  BY DEF BypassInv, TrustIInv, ShellIInv
<1>2. PICK i \in ActionIds :
        /\ Fresh(i) /\ runs' = [runs EXCEPT ![i] = @ + 1]
        /\ autoRuns' = autoRuns \cup {i} /\ Go(t, "auto_insert", i)
  BY DEF AutoRun
<1>3. /\ runs[i] = 0 /\ i \notin autoRuns /\ runs \in [ActionIds -> Nat]
      /\ autoRuns \subseteq ActionIds
  BY <1>1, <1>2 DEF Fresh, AuditInv, ShellTypeOK
<1>4. \A j \in autoRuns' : runs'[j] > 0
  BY <1>1, <1>2, <1>3 DEF AuditInv
<1>5. /\ IsFiniteSet(autoRuns') /\ Cardinality(autoRuns') = Cardinality(autoRuns) + 1
  BY <1>1, <1>2, <1>3, FS_AddElement DEF AuditInv
<1>6. t \notin Inserting /\ Inserting' = Inserting \cup {t}
  BY <1>1, <1>2 DEF AutoRun, At, Go, Inserting, ShellTypeOK
<1>7. Cardinality(Inserting') = Cardinality(Inserting) + 1
  BY <1>6, InsertingFinite, FS_AddElement
<1>8. UNCHANGED <<past, policy, audit, tpc, frame, ran, raised>>
  BY DEF AutoRun, trustVars
<1>9. Owed(ShellWrite)' = Owed(ShellWrite)
  BY <1>8 DEF Owed, Unwritten
<1>10. "crash" \notin past /\ ~raised =>
         Cardinality(autoRuns) = Owed(ShellWrite) + Cardinality(Inserting)
  BY <1>1, AuditedMeans DEF AuditInv
<1>11. Cardinality(Inserting) \in Nat /\ Owed(ShellWrite) \in Nat
  BY <1>1, InsertingFinite, OwedType, ShellAssumption
<1>12. ("crash" \notin past /\ ~raised =>
          Cardinality(autoRuns) = Owed(ShellWrite) + Cardinality(Inserting))'
  BY <1>5, <1>7, <1>8, <1>9, <1>10, <1>11
<1>13. AutoRunsAudited'
  <2>1. (AutoRunsAudited <=>
           ("crash" \notin past /\ ~raised =>
              Cardinality(autoRuns) = Owed(ShellWrite) + Cardinality(Inserting)))'
    BY AuditedMeans, PTL
  <2> QED BY <1>12, <2>1
<1> QED BY <1>1, <1>4, <1>5, <1>8, <1>13 DEF AuditInv

\* The row is inserted, and its outcome is to be recorded.
LEMMA BypassInserts ==
  ASSUME BypassInv, TrustTypeOK', NEW t \in Threads, AutoInsert(t)
  PROVE  AuditInv'
<1>1. TrustTypeOK /\ ShellTypeOK /\ AuditInv /\ ShellWrite \in ActionTypes
  BY ShellAssumption DEF BypassInv, TrustIInv, ShellIInv
<1>2. PICK o \in {"success", "failure"} : CallRecordOutcome(t, ShellWrite, o)
  BY DEF AutoInsert
<1> DEFINE f == [type |-> ShellWrite, level |-> GetLevel(ShellWrite),
                 outcome |-> o, gated |-> FALSE]
<1>3. /\ Enter(t, "outcome", f) /\ UNCHANGED <<audit, raised>> /\ tpc[t] = "idle"
      /\ f.type = ShellWrite /\ f.outcome = o
  BY <1>2 DEF CallRecordOutcome
<1> HIDE DEF f
<1>4. t \notin Unwritten(ShellWrite) /\ Unwritten(ShellWrite)' = Unwritten(ShellWrite) \cup {t}
  BY <1>1, <1>3 DEF Enter, Unwritten, TrustTypeOK
<1>5. Cardinality(Unwritten(ShellWrite)') = Cardinality(Unwritten(ShellWrite)) + 1
  BY <1>4, UnwrittenFinite, FS_AddElement
<1>6. t \in Inserting /\ Inserting' = Inserting \ {t}
  BY <1>1 DEF AutoInsert, At, Done, Go, Inserting, ShellTypeOK
<1>7. /\ Cardinality(Inserting') = Cardinality(Inserting) - 1
      /\ Cardinality(Inserting') \in Nat /\ Cardinality(Inserting) \in Nat
  BY <1>6, InsertingFinite, FS_RemoveElement, FS_CardinalityType
<1>8. Owed(ShellWrite)' = Owed(ShellWrite) + 1 /\ Owed(ShellWrite) \in Nat
  <2>1. /\ audit[ShellWrite]["success"] \in Nat /\ audit[ShellWrite]["failure"] \in Nat
        /\ Cardinality(Unwritten(ShellWrite)) \in Nat /\ Owed(ShellWrite) \in Nat
    BY <1>1, OwedType
  <2> QED BY <1>3, <1>5, <2>1 DEF Owed
<1>9. UNCHANGED <<runs, autoRuns, past>>
  BY DEF AutoInsert
<1>10. "crash" \notin past /\ ~raised =>
         Cardinality(autoRuns) = Owed(ShellWrite) + Cardinality(Inserting)
  BY <1>1, AuditedMeans DEF AuditInv
<1>11. ("crash" \notin past /\ ~raised =>
          Cardinality(autoRuns) = Owed(ShellWrite) + Cardinality(Inserting))'
  BY <1>3, <1>7, <1>8, <1>9, <1>10
<1>12. AutoRunsAudited'
  <2>1. (AutoRunsAudited <=>
           ("crash" \notin past /\ ~raised =>
              Cardinality(autoRuns) = Owed(ShellWrite) + Cardinality(Inserting)))'
    BY AuditedMeans, PTL
  <2> QED BY <1>11, <2>1
<1>13. \A u \in Threads : tpc'[u] # "gate"
  BY <1>1, <1>3, NotAtGate DEF AuditInv
<1> QED BY <1>1, <1>9, <1>12, <1>13 DEF AuditInv

\* Calls that begin, and the steps of an approved action: no bypass.
LEMMA OtherCalls ==
  ASSUME BypassInv, TrustTypeOK', NEW t \in Threads,
         \/ ProposeBlocked(t) \/ ProposeAuto(t) \/ ProposeQueued(t)
         \/ InsertPending(t) \/ ApproveWrite(t) \/ RejectWrite(t)
         \/ ExecuteCheck(t) \/ RunApproved(t) \/ ExecuteWrite(t)
         \/ \E i \in ActionIds :
              ApproveCheck(t, i) \/ RejectCheck(t, i) \/ ExecuteCall(t, i)
  PROVE  AuditInv'
<1>1. TrustTypeOK /\ ShellTypeOK /\ AuditInv /\ ShellWrite \in ActionTypes
  BY ShellAssumption DEF BypassInv, TrustIInv, ShellIInv
<1>2. /\ UNCHANGED <<autoRuns, past, audit, raised>>
      /\ \A i \in autoRuns : runs'[i] > 0
  <2>1. /\ UNCHANGED <<autoRuns, past, audit, raised>>
        /\ runs' = runs \/ (RunApproved(t) /\ runs' = [runs EXCEPT ![job[t]] = @ + 1])
    BY DEF ProposeBlocked, ProposeAuto, ProposeQueued, InsertPending, ApproveWrite,
           RejectWrite, ExecuteCheck, RunApproved, ExecuteWrite, ApproveCheck,
           RejectCheck, ExecuteCall, Check, CallRecordOutcome, shellState, trustVars
  <2>2. runs \in [ActionIds -> Nat] /\ autoRuns \subseteq ActionIds /\ \A i \in autoRuns : runs[i] > 0
    BY <1>1 DEF ShellTypeOK, AuditInv
  <2> QED BY <2>1, <2>2
<1>3. Inserting' = Inserting
  <2>1. \/ UNCHANGED spc
        \/ /\ spc[t] # "auto_insert"
           /\ \E pc \in ShellPCs \ {"auto_insert"}, i \in ActionIds \cup {NoAction, job[t]} : Go(t, pc, i)
    BY DEF ProposeBlocked, ProposeAuto, ProposeQueued, InsertPending, ApproveWrite,
           RejectWrite, ExecuteCheck, RunApproved, ExecuteWrite, ApproveCheck,
           RejectCheck, ExecuteCall, Check, shellState, Done, Idle, At, ShellPCs, JobPCs
  <2> QED BY <1>1, <2>1, InsertingKept DEF Inserting
<1>4. /\ Owed(ShellWrite)' = Owed(ShellWrite)
      /\ \A u \in Threads : tpc'[u] # "gate"
  <2>1. CASE ProposeBlocked(t) \/ ProposeAuto(t)
    <3>1. PICK o \in {"blocked", "auto_executed"} : CallRecordOutcome(t, ShellWrite, o)
      BY <2>1 DEF ProposeBlocked, ProposeAuto
    <3> DEFINE f == [type |-> ShellWrite, level |-> GetLevel(ShellWrite),
                     outcome |-> o, gated |-> FALSE]
    <3>2. Enter(t, "outcome", f) /\ tpc[t] = "idle" /\ f.outcome = o
      BY <3>1 DEF CallRecordOutcome
    <3> HIDE DEF f
    <3> QED BY <1>1, <1>2, <3>2, OwedKept, NotAtGate DEF AuditInv
  <2>2. CASE ~ (ProposeBlocked(t) \/ ProposeAuto(t))
    <3>1. UNCHANGED trustVars
      BY <2>2 DEF ProposeQueued, InsertPending, ApproveWrite, RejectWrite, ExecuteCheck,
                  RunApproved, ExecuteWrite, ApproveCheck, RejectCheck, ExecuteCall, Check
    <3> QED BY <1>1, <3>1 DEF Owed, Unwritten, trustVars, AuditInv
  <2> QED BY <2>1, <2>2
<1> QED BY <1>1, <1>2, <1>3, <1>4, AuditKept

\* The books agree after every step.
LEMMA BypassStepAudited ==
  ASSUME BypassInv, [ShellNext]_shellVars
  PROVE  BypassInv'
<1>1. /\ TrustIInv' /\ ShellIInv' /\ TrustTypeOK /\ TrustTypeOK' /\ ShellTypeOK /\ AuditInv
      /\ ShellWrite \in ActionTypes
  BY TrustInShell, ShellInductive, ShellAssumption DEF BypassInv, TrustIInv, ShellIInv
<1>2. \A i \in autoRuns : runs[i] > 0
  BY <1>1 DEF AuditInv
<1>3. ASSUME NoteAuto PROVE past \ {"auto"} \subseteq past'
  BY <1>3 DEF NoteAuto
<1>4. ASSUME NEW t \in Threads, EngineStep(t) PROVE AuditInv'
  <2>1. CallSteps(t) /\ UNCHANGED shellState /\ NoteAuto
    BY <1>4 DEF EngineStep
  <2>2. UNCHANGED <<runs, autoRuns>> /\ Inserting' = Inserting
    BY <2>1 DEF shellState, Inserting
  <2> QED BY <1>1, <1>2, <1>3, <2>1, <2>2, EngineOwes, AuditKept
<1>5. ASSUME NEW t \in Threads, EngineRaises(t) PROVE AuditInv'
  <2> DEFINE g == [frame[t] EXCEPT !.outcome = "failure"]
  <2>1. raised' /\ UNCHANGED <<runs, autoRuns>>
    BY <1>5 DEF EngineRaises, OutcomeRaises
  <2>2. Enter(t, "outcome", g) \/ Enter(t, "idle", NoCall)
    BY <1>5 DEF EngineRaises, OutcomeRaises, Return
  <2> HIDE DEF g
  <2>3. \A u \in Threads : tpc'[u] # "gate"
    BY <1>1, <2>2, NotAtGate DEF AuditInv
  <2>4. AutoRunsAudited'
    BY <2>1 DEF AutoRunsAudited
  <2> QED BY <1>1, <2>1, <2>3, <2>4 DEF AuditInv
<1>6. ASSUME NEW t \in Threads, PromoteShell(t) PROVE AuditInv'
  <2> DEFINE f == [type |-> ShellWrite, level |-> GetLevel(ShellWrite),
                   outcome |-> "success", gated |-> FALSE]
  <2>1. /\ Enter(t, "promote_write", f) /\ tpc[t] = "idle"
        /\ UNCHANGED <<audit, raised, runs, autoRuns>> /\ UNCHANGED spc /\ NoteAuto
    BY <1>6 DEF PromoteShell, PromoteRead, shellState
  <2> HIDE DEF f
  <2>2. Owed(ShellWrite)' = Owed(ShellWrite) /\ \A u \in Threads : tpc'[u] # "gate"
    BY <1>1, <2>1, OwedKept, NotAtGate DEF AuditInv
  <2>3. Inserting' = Inserting
    BY <2>1 DEF Inserting
  <2> QED BY <1>1, <1>2, <1>3, <2>1, <2>2, <2>3, AuditKept
<1>7. ASSUME NEW l \in Levels, SetShellLevel(l) PROVE AuditInv'
  <2>1. UNCHANGED <<audit, tpc, frame, raised, runs, autoRuns, spc>> /\ NoteAuto
    BY <1>7 DEF SetShellLevel, SetTrustLevel, shellState
  <2>2. Owed(ShellWrite)' = Owed(ShellWrite) /\ Inserting' = Inserting
    BY <2>1 DEF Owed, Unwritten, Inserting
  <2>3. \A u \in Threads : tpc'[u] # "gate"
    BY <1>1, <2>1 DEF AuditInv
  <2> QED BY <1>1, <1>2, <1>3, <2>1, <2>2, <2>3, AuditKept
<1>8. ASSUME Crash PROVE AuditInv'
  <2>1. "crash" \in past' /\ UNCHANGED <<runs, autoRuns>> /\ \A u \in Threads : tpc'[u] = "idle"
    BY <1>8 DEF Crash
  <2>2. AutoRunsAudited'
    BY <2>1 DEF AutoRunsAudited
  <2> QED BY <1>1, <2>1, <2>2 DEF AuditInv
<1>9. ASSUME UNCHANGED <<spc, runs, autoRuns, past, trustVars>> PROVE AuditInv'
  BY <1>1, <1>9 DEF AuditInv, AutoRunsAudited, Unwritten, trustVars
<1>10. ASSUME NEW t \in Threads, ShellSteps(t) PROVE AuditInv'
  BY <1>1, <1>4, <1>10, BypassRuns, BypassInserts, OtherCalls DEF ShellSteps
<1>11. ASSUME Requests PROVE AuditInv'
  <2>1. ASSUME NEW t \in Sweepers, ExpireStale(t) PROVE AuditInv'
    BY <1>9, <2>1 DEF ExpireStale
  <2> QED BY <1>1, <1>11, <2>1, OtherCalls, ShellAssumption DEF Requests
<1>12. ASSUME NEW i \in ActionIds, TimePasses(i) PROVE AuditInv'
  BY <1>9, <1>12 DEF TimePasses
<1>13. ASSUME UNCHANGED shellVars PROVE AuditInv'
  BY <1>9, <1>13 DEF shellVars, shellState
<1>14. AuditInv'
  BY <1>5, <1>6, <1>7, <1>8, <1>10, <1>11, <1>12, <1>13 DEF ShellNext
<1> QED BY <1>1, <1>14 DEF BypassInv

LEMMA BypassInit == ShellInit => BypassInv
<1> SUFFICES ASSUME ShellInit PROVE BypassInv
  OBVIOUS
<1>1. TrustIInv /\ ShellIInv
  BY TrustInitInv, ShellInitInv DEF ShellInit
<1>2. /\ Unwritten(ShellWrite) = {} /\ {t \in Threads : spc[t] = "auto_insert"} = {}
      /\ autoRuns = {} /\ \A t \in Threads : tpc[t] = "idle"
      /\ audit[ShellWrite]["success"] = 0 /\ audit[ShellWrite]["failure"] = 0
  BY ShellAssumption DEF ShellInit, TrustInit, Unwritten, AuditOutcomes, CallOutcomes
<1>3. Cardinality({}) = 0 /\ IsFiniteSet({})
  BY FS_EmptySet
<1>4. AutoRunsAudited
  BY <1>2, <1>3 DEF AutoRunsAudited
<1> QED BY <1>1, <1>2, <1>3, <1>4 DEF BypassInv, AuditInv

\* What the bypass ran and what the audit trail says of it agree, for any
\* number of agents, commands and admins, until SQLite raises or the process
\* dies in the middle of a request.
THEOREM AutoRunsRecorded == ShellSpec => []AutoRunsAudited
<1>1. BypassInv /\ [ShellNext]_shellVars => BypassInv'
  BY BypassStepAudited
<1>2. BypassInv => AutoRunsAudited
  BY DEF BypassInv, AuditInv
<1> QED BY BypassInit, <1>1, <1>2, PTL DEF ShellSpec

-----------------------------------------------------------------------------
(* With one admin and no crash the shell keeps the contract of               *)
(* ActionLifecycle                                                           *)

OneAdminOnly == (\A t, u \in Admins \cup Sweepers : t = u) /\ ~ MayCrash

Deciding == {"approve", "reject"}
Running == {"exec", "run", "record"}

\* What the admin has checked stays so: nobody else decides, and the commands
\* of the bypass have no row until they are inserted.
SerialInv ==
  /\ \A t \in Threads : tpc[t] # "idle" => spc[t] \in {"idle", "auto_run"}
  /\ \A t \in Threads : spc[t] \in Deciding \cup Running => t \in Admins
  /\ \A t \in Threads : spc[t] \in Deciding => status[job[t]] = "pending"
  /\ \A t \in Threads : spc[t] \in Running =>
       /\ status[job[t]] = "approved"
       /\ runs[job[t]] = IF spc[t] = "record" THEN 1 ELSE 0
  /\ \A t \in Threads : spc[t] = "auto_insert" =>
       /\ status[job[t]] = "absent" /\ runs[job[t]] = 1
       /\ \A u \in Threads : job[u] = job[t] => u = t
  /\ \A i \in ActionIds : status[i] = "pending" => runs[i] = 0
  /\ \A i \in ActionIds : status[i] = "approved" =>
       \E t \in Threads : job[t] = i /\ spc[t] \in Running

SerialIInv == TrustTypeOK /\ ShellTypeOK /\ SerialInv

LEMMA SerialInit == ShellInit => SerialInv
  BY DEF ShellInit, TrustInit, SerialInv, Deciding, Running

\* Where a thread goes that enters or leaves the engine.
LEMMA EngineMoves ==
  ASSUME SerialIInv, NEW t \in Threads, NEW pc, NEW f, Enter(t, pc, f)
  PROVE  tpc'[t] = pc /\ \A u \in Threads \ {t} : tpc'[u] = tpc[u]
  BY DEF SerialIInv, TrustTypeOK, Enter

LEMMA ShellMoves ==
  ASSUME SerialIInv, NEW t \in Threads, NEW pc, NEW i, Go(t, pc, i)
  PROVE  /\ spc'[t] = pc /\ job'[t] = i
         /\ \A u \in Threads \ {t} : spc'[u] = spc[u] /\ job'[u] = job[u]
  BY DEF SerialIInv, ShellTypeOK, Go

\* A step of one thread keeps the invariant if it does so at that thread, and
\* changes the status and the runs of no action but one nobody else is at.
LEMMA SerialStep ==
  ASSUME SerialIInv, NEW t \in Threads,
         \A u \in Threads \ {t} : tpc'[u] = tpc[u] /\ spc'[u] = spc[u] /\ job'[u] = job[u],
         NEW i \in ActionIds,
         \A k \in ActionIds \ {i} : status'[k] = status[k] /\ runs'[k] = runs[k],
         \/ status'[i] = status[i] /\ runs'[i] = runs[i]
         \/ \A u \in Threads \ {t} : job[u] # i,
         tpc'[t] # "idle" => spc'[t] \in {"idle", "auto_run"},
         spc'[t] \in Deciding \cup Running => t \in Admins,
         spc'[t] \in Deciding => status'[job'[t]] = "pending",
         spc'[t] \in Running => /\ status'[job'[t]] = "approved"
                                /\ runs'[job'[t]] = IF spc'[t] = "record" THEN 1 ELSE 0,
         spc'[t] = "auto_insert" => /\ status'[job'[t]] = "absent" /\ runs'[job'[t]] = 1
                                    /\ \A u \in Threads \ {t} : job[u] # job'[t],
         job'[t] \in {NoAction, job[t]} \/ \A u \in Threads \ {t} : spc[u] = "auto_insert" => job[u] # job'[t],
         status'[i] = "pending" => runs'[i] = 0,
         status'[i] = "approved" => \E u \in Threads : job'[u] = i /\ spc'[u] \in Running,
         spc[t] \in Running => (job'[t] = job[t] /\ spc'[t] \in Running) \/ status'[job[t]] # "approved",
         ShellTypeOK'
  PROVE  SerialInv'
<1>1. /\ \A u \in Threads : job[u] \in ActionIds \cup {NoAction} /\ job'[u] \in ActionIds \cup {NoAction}
      /\ \A u \in Threads : (job[u] # NoAction <=> spc[u] \in JobPCs) /\ (job'[u] # NoAction <=> spc'[u] \in JobPCs)
      /\ NoAction \notin ActionIds
  BY ShellAssumption DEF SerialIInv, ShellTypeOK
<1>2. ASSUME NEW u \in Threads \ {t}
      PROVE  /\ spc'[u] \in Deciding => status'[job'[u]] = "pending"
             /\ spc'[u] \in Running => /\ status'[job'[u]] = "approved"
                                       /\ runs'[job'[u]] = IF spc'[u] = "record" THEN 1 ELSE 0
             /\ spc'[u] = "auto_insert" => status'[job'[u]] = "absent" /\ runs'[job'[u]] = 1
  <2>1. spc[u] \in Deciding \cup Running \cup {"auto_insert"} => job[u] \in ActionIds
    BY <1>1 DEF Deciding, Running, JobPCs
  <2>2. job[u] \in ActionIds => status'[job[u]] = status[job[u]] /\ runs'[job[u]] = runs[job[u]]
    OBVIOUS
  <2> QED
    BY <2>1, <2>2 DEF SerialIInv, SerialInv
<1>3. ASSUME NEW u \in Threads \ {t}, spc'[u] = "auto_insert", NEW v \in Threads, job'[v] = job'[u]
      PROVE  v = u
  <2>1. job[u] # NoAction /\ spc[u] = "auto_insert" /\ \A w \in Threads : job[w] = job[u] => w = u
    BY <1>1, <1>3 DEF JobPCs, SerialIInv, SerialInv
  <2> QED
    BY <1>3, <2>1
<1>4. ASSUME NEW k \in ActionIds \ {i}, status'[k] = "approved"
      PROVE  \E u \in Threads : job'[u] = k /\ spc'[u] \in Running
  <2>1. PICK u \in Threads : job[u] = k /\ spc[u] \in Running
    BY <1>4 DEF SerialIInv, SerialInv
  <2> QED
    BY <1>4, <2>1
<1> QED
  BY <1>1, <1>2, <1>3, <1>4 DEF SerialIInv, SerialInv

\* A step of one thread that is at no action changes no status and no runs.
LEMMA SerialFrame ==
  ASSUME SerialIInv, UNCHANGED <<status, runs>>,
         \A u \in Threads : \/ tpc'[u] = tpc[u] /\ spc'[u] = spc[u] /\ job'[u] = job[u]
                           \/ /\ spc[u] \notin JobPCs /\ spc'[u] \notin JobPCs
                              /\ job'[u] = NoAction
                              /\ tpc'[u] # "idle" => spc'[u] \in {"idle", "auto_run"}
  PROVE  SerialInv'
<1>1. \A u \in Threads : spc'[u] \in JobPCs => spc'[u] = spc[u] /\ job'[u] = job[u]
  OBVIOUS
<1>2. \A u \in Threads : spc[u] \in JobPCs => spc'[u] = spc[u] /\ job'[u] = job[u]
  OBVIOUS
<1>3. \A u \in Threads : job[u] # NoAction <=> spc[u] \in JobPCs
  BY DEF SerialIInv, ShellTypeOK
<1>4. \A u \in Threads : tpc'[u] # "idle" => spc'[u] \in {"idle", "auto_run"}
  BY DEF SerialIInv, SerialInv
<1>5. ASSUME NEW u \in Threads, spc'[u] = "auto_insert", NEW v \in Threads, job'[v] = job'[u]
      PROVE  v = u
  <2>1. spc[u] = "auto_insert" /\ job'[u] = job[u] /\ job[u] # NoAction
    BY <1>1, <1>3, <1>5 DEF JobPCs
  <2>2. job'[v] = job[v]
    BY <1>5, <2>1
  <2> QED
    BY <1>5, <2>1, <2>2 DEF SerialIInv, SerialInv
<1>6. Deciding \cup Running \cup {"auto_insert"} \subseteq JobPCs
  BY DEF Deciding, Running, JobPCs
<1>7. ASSUME NEW k \in ActionIds, status'[k] = "approved"
      PROVE  \E u \in Threads : job'[u] = k /\ spc'[u] \in Running
  <2>1. PICK u \in Threads : job[u] = k /\ spc[u] \in Running
    BY <1>7 DEF SerialIInv, SerialInv
  <2> QED
    BY <1>2, <1>6, <2>1
<1> QED
  BY <1>1, <1>4, <1>5, <1>6, <1>7 DEF SerialIInv, SerialInv

\* The action of the admin's call is nobody else's.
LEMMA JobIsOwn ==
  ASSUME OneAdminOnly, SerialIInv, NEW t \in Threads, spc[t] \in Deciding \cup Running
  PROVE  /\ t \in Admins /\ job[t] \in ActionIds /\ tpc[t] = "idle"
         /\ \A u \in Threads \ {t} : job[u] # job[t]
<1>1. t \in Admins /\ job[t] \in ActionIds /\ status[job[t]] \in {"pending", "approved"}
  BY DEF SerialIInv, SerialInv, ShellTypeOK, Deciding, Running, JobPCs
<1>2. ASSUME NEW u \in Threads \ {t}, job[u] = job[t] PROVE FALSE
  <2>1. job[u] # NoAction
    BY <1>1, <1>2, ShellAssumption
  <2>2. spc[u] \in JobPCs
    BY <2>1 DEF SerialIInv, ShellTypeOK
  <2>3. CASE spc[u] \in Deciding \cup Running
    <3>1. u \in Admins
      BY <2>3 DEF SerialIInv, SerialInv
    <3> QED
      BY <1>1, <3>1 DEF OneAdminOnly
  <2>4. CASE spc[u] = "auto_insert"
    BY <1>1, <1>2, <2>4 DEF SerialIInv, SerialInv
  <2> QED
    BY <2>2, <2>3, <2>4 DEF JobPCs, Deciding, Running
<1>3. tpc[t] = "idle"
  BY DEF SerialIInv, SerialInv, Deciding, Running
<1> QED
  BY <1>1, <1>2, <1>3

\* The admin decides on one action at a time: while he is idle, no action is
\* being decided on, and none is approved.
LEMMA IdleAdmin ==
  ASSUME OneAdminOnly, SerialIInv, NEW t \in Admins \cup Sweepers, Idle(t)
  PROVE  /\ \A u \in Threads : spc[u] \notin Deciding \cup Running
         /\ \A i \in ActionIds : status[i] # "approved"
<1>1. \A u \in Threads : spc[u] \notin Deciding \cup Running
  BY DEF OneAdminOnly, SerialIInv, SerialInv, Idle, Deciding, Running
<1> QED
  BY <1>1 DEF SerialIInv, SerialInv

\* What a step means for the contract, and that it keeps the invariant.
SerialMove == SerialInv' /\ [Lifecycle!LifecycleNext]_(Lifecycle!lifecycleVars)

LEMMA MoveFrame ==
  ASSUME SerialInv', UNCHANGED <<status, runs>>
  PROVE  SerialMove
  BY DEF SerialMove, Lifecycle!lifecycleVars

-----------------------------------------------------------------------------
\* A row for a fresh id, and a command of the bypass before it has its row.
LEMMA SerialInserts ==
  ASSUME SerialIInv, ShellTypeOK', NEW t \in Threads, InsertPending(t)
  PROVE  SerialMove
<1>1. PICK i \in ActionIds : Fresh(i) /\ SetStatus(i, "pending")
  BY DEF InsertPending
<1>2. /\ spc[t] = "insert" /\ tpc[t] = "idle" /\ Go(t, "idle", NoAction)
      /\ UNCHANGED <<runs, tpc>>
  BY DEF InsertPending, At, Done, trustVars
<1>3. /\ status[i] = "absent" /\ runs[i] = 0 /\ \A u \in Threads : job[u] # i
      /\ status' = [status EXCEPT ![i] = "pending"]
  BY <1>1 DEF Fresh, SetStatus
<1>4. status \in [ActionIds -> Statuses]
  BY DEF SerialIInv, ShellTypeOK
<1>5. Lifecycle!Propose(i)
  BY <1>2, <1>3 DEF Lifecycle!Propose, Lifecycle!Becomes
<1>6. /\ spc'[t] = "idle" /\ job'[t] = NoAction
      /\ \A u \in Threads \ {t} : spc'[u] = spc[u] /\ job'[u] = job[u]
  BY <1>2, ShellMoves
<1>7. SerialInv'
  BY <1>2, <1>3, <1>4, <1>6, SerialStep DEF Deciding, Running
<1> QED
  BY <1>5, <1>7 DEF SerialMove, Lifecycle!LifecycleNext

LEMMA SerialBypassRuns ==
  ASSUME SerialIInv, ShellTypeOK', NEW t \in Threads, AutoRun(t)
  PROVE  SerialMove
<1>1. PICK i \in ActionIds : /\ Fresh(i) /\ runs' = [runs EXCEPT ![i] = @ + 1]
                             /\ Go(t, "auto_insert", i)
  BY DEF AutoRun
<1>2. /\ spc[t] = "auto_run" /\ tpc[t] = "idle" /\ UNCHANGED <<status, tpc>>
  BY DEF AutoRun, At, trustVars
<1>3. status[i] = "absent" /\ runs[i] = 0 /\ \A u \in Threads : job[u] # i
  BY <1>1 DEF Fresh
<1>4. runs \in [ActionIds -> Nat]
  BY DEF SerialIInv, ShellTypeOK
<1>5. runs' = [runs EXCEPT ![i] = 1] /\ runs'[i] = 1
  BY <1>1, <1>3, <1>4
<1>6. Lifecycle!Start(i, "absent")
  BY <1>2, <1>3, <1>5 DEF Lifecycle!Start
<1>7. /\ spc'[t] = "auto_insert" /\ job'[t] = i
      /\ \A u \in Threads \ {t} : spc'[u] = spc[u] /\ job'[u] = job[u]
  BY <1>1, ShellMoves
<1>8. SerialInv'
  <2>1. \A k \in ActionIds \ {i} : runs'[k] = runs[k]
    BY <1>4, <1>5
  <2> QED
    BY <1>2, <1>3, <1>5, <1>7, <2>1, SerialStep DEF Deciding, Running
<1> QED
  BY <1>6, <1>8 DEF SerialMove, Lifecycle!LifecycleNext

LEMMA SerialBypassInserts ==
  ASSUME SerialIInv, ShellTypeOK', NEW t \in Threads, AutoInsert(t)
  PROVE  SerialMove
<1> DEFINE i == job[t]
<1>1. /\ spc[t] = "auto_insert" /\ SetStatus(job[t], "executed") /\ Go(t, "idle", NoAction)
      /\ UNCHANGED runs
  BY DEF AutoInsert, At, Done
<1>2. /\ job[t] \in ActionIds /\ status[job[t]] = "absent" /\ runs[job[t]] = 1
      /\ \A u \in Threads \ {t} : job[u] # job[t]
  BY <1>1 DEF SerialIInv, SerialInv, ShellTypeOK, JobPCs
<1>3. PICK o : CallRecordOutcome(t, ShellWrite, o)
  BY DEF AutoInsert
<1>4. \A u \in Threads \ {t} : tpc'[u] = tpc[u]
  BY <1>3, EngineMoves DEF CallRecordOutcome
<1>5. /\ spc'[t] = "idle" /\ job'[t] = NoAction
      /\ \A u \in Threads \ {t} : spc'[u] = spc[u] /\ job'[u] = job[u]
  BY <1>1, ShellMoves
<1>6. status' = [status EXCEPT ![job[t]] = "executed"] /\ status \in [ActionIds -> Statuses]
  BY <1>1 DEF SetStatus, SerialIInv, ShellTypeOK
<1>7. status'[job[t]] = "executed" /\ \A k \in ActionIds \ {job[t]} : status'[k] = status[k]
  BY <1>2, <1>6
<1>8. SerialInv'
  <2>1. PICK k \in ActionIds : k = job[t]
    BY <1>2
  <2> QED
    BY <1>1, <1>2, <1>4, <1>5, <1>7, <2>1, SerialStep DEF Deciding, Running
<1>9. Lifecycle!Finish(job[t])
  BY <1>1, <1>2, <1>6 DEF Lifecycle!Finish, Lifecycle!Becomes
<1> QED
  BY <1>2, <1>8, <1>9 DEF SerialMove, Lifecycle!LifecycleNext

\* The admin looks at an action.
LEMMA SerialChecks ==
  ASSUME OneAdminOnly, SerialIInv, ShellTypeOK', NEW t \in Admins, NEW i \in ActionIds,
         ApproveCheck(t, i) \/ RejectCheck(t, i) \/ ExecuteCall(t, i)
  PROVE  SerialMove
<1>1. t \in Threads /\ Idle(t) /\ spc[t] = "idle" /\ UNCHANGED <<status, runs, tpc>>
  BY ShellAssumption DEF ApproveCheck, RejectCheck, ExecuteCall, Check, Idle, trustVars
<1>2. ~ ExecuteCall(t, i)
  BY <1>1, IdleAdmin DEF ExecuteCall, Check
<1>3. PICK pc \in Deciding : Go(t, pc, i) /\ status[i] = "pending"
  BY <1>2 DEF ApproveCheck, RejectCheck, Check, Deciding
<1>4. /\ spc'[t] = pc /\ job'[t] = i
      /\ \A u \in Threads \ {t} : spc'[u] = spc[u] /\ job'[u] = job[u]
  BY <1>1, <1>3, ShellMoves
<1>5. \A u \in Threads \ {t} : spc[u] = "auto_insert" => job[u] # i
  BY <1>3 DEF SerialIInv, SerialInv
<1>6. pc \notin Running /\ pc # "auto_insert" /\ spc[t] \notin Running
  BY <1>1, <1>3 DEF Deciding, Running
<1>7. tpc[t] = "idle" /\ (status[i] = "pending" => runs[i] = 0)
  BY <1>1 DEF Idle, SerialIInv, SerialInv
<1>8. SerialInv'
  BY <1>1, <1>3, <1>4, <1>5, <1>6, <1>7, SerialStep
<1> QED
  BY <1>1, <1>8, MoveFrame

\* He decides: what he has checked still holds.
LEMMA SerialDecides ==
  ASSUME OneAdminOnly, SerialIInv, ShellTypeOK', NEW t \in Threads,
         ApproveWrite(t) \/ RejectWrite(t)
  PROVE  SerialMove
<1>1. /\ spc[t] \in Deciding /\ UNCHANGED <<runs, tpc>>
      /\ \/ SetStatus(job[t], "approved") /\ Go(t, "exec", job[t])
         \/ SetStatus(job[t], "rejected") /\ Go(t, "idle", NoAction)
  BY DEF ApproveWrite, RejectWrite, At, Done, Deciding, trustVars
<1>2. /\ t \in Admins /\ job[t] \in ActionIds /\ tpc[t] = "idle"
      /\ \A u \in Threads \ {t} : job[u] # job[t]
  BY <1>1, JobIsOwn
<1>3. status[job[t]] = "pending" /\ runs[job[t]] = 0
  BY <1>1, <1>2 DEF SerialIInv, SerialInv
<1>4. PICK i \in ActionIds : i = job[t]
  BY <1>2
<1>5. status \in [ActionIds -> Statuses] /\ spc[t] \notin Running
  BY <1>1 DEF SerialIInv, ShellTypeOK, Deciding, Running
<1>6. CASE SetStatus(i, "approved") /\ Go(t, "exec", i)
  <2>1. status' = [status EXCEPT ![i] = "approved"]
    BY <1>6 DEF SetStatus
  <2>2. status'[i] = "approved" /\ \A k \in ActionIds \ {i} : status'[k] = status[k]
    BY <1>5, <2>1
  <2>3. /\ spc'[t] = "exec" /\ job'[t] = i
        /\ \A u \in Threads \ {t} : spc'[u] = spc[u] /\ job'[u] = job[u]
    BY <1>6, ShellMoves
  <2>4. SerialInv'
    BY <1>1, <1>2, <1>3, <1>4, <1>5, <2>2, <2>3, SerialStep DEF Deciding, Running
  <2>5. Lifecycle!Approve(i)
    BY <1>1, <1>3, <1>4, <2>1 DEF Lifecycle!Approve, Lifecycle!Becomes
  <2> QED
    BY <2>4, <2>5 DEF SerialMove, Lifecycle!LifecycleNext
<1>7. CASE SetStatus(i, "rejected") /\ Go(t, "idle", NoAction)
  <2>1. status' = [status EXCEPT ![i] = "rejected"]
    BY <1>7 DEF SetStatus
  <2>2. status'[i] = "rejected" /\ \A k \in ActionIds \ {i} : status'[k] = status[k]
    BY <1>5, <2>1
  <2>3. /\ spc'[t] = "idle" /\ job'[t] = NoAction
        /\ \A u \in Threads \ {t} : spc'[u] = spc[u] /\ job'[u] = job[u]
    BY <1>7, ShellMoves
  <2>4. SerialInv'
    BY <1>1, <1>2, <1>3, <1>4, <1>5, <2>2, <2>3, SerialStep DEF Deciding, Running
  <2>5. Lifecycle!Reject(i)
    BY <1>1, <1>3, <1>4, <2>1 DEF Lifecycle!Reject, Lifecycle!Becomes
  <2> QED
    BY <2>4, <2>5 DEF SerialMove, Lifecycle!LifecycleNext
<1> QED
  BY <1>1, <1>4, <1>6, <1>7

\* The approved command: the second check passes, it runs once, and the row
\* says so.
LEMMA SerialExecutes ==
  ASSUME OneAdminOnly, SerialIInv, ShellTypeOK', NEW t \in Threads,
         ExecuteCheck(t) \/ RunApproved(t) \/ ExecuteWrite(t)
  PROVE  SerialMove
<1>1. spc[t] \in Running /\ UNCHANGED tpc
  BY DEF ExecuteCheck, RunApproved, ExecuteWrite, At, Running, trustVars
<1>2. /\ t \in Admins /\ job[t] \in ActionIds /\ tpc[t] = "idle"
      /\ \A u \in Threads \ {t} : job[u] # job[t]
  BY <1>1, JobIsOwn
<1>3. status[job[t]] = "approved" /\ runs[job[t]] = IF spc[t] = "record" THEN 1 ELSE 0
  BY <1>1 DEF SerialIInv, SerialInv
<1>4. PICK i \in ActionIds : i = job[t]
  BY <1>2
<1>5. status \in [ActionIds -> Statuses] /\ runs \in [ActionIds -> Nat]
  BY DEF SerialIInv, ShellTypeOK
<1>6. CASE ExecuteCheck(t)
  <2>1. spc[t] = "exec" /\ Go(t, "run", i) /\ UNCHANGED <<status, runs>>
    BY <1>3, <1>4, <1>6 DEF ExecuteCheck, At
  <2>2. /\ spc'[t] = "run" /\ job'[t] = i
        /\ \A u \in Threads \ {t} : spc'[u] = spc[u] /\ job'[u] = job[u]
    BY <2>1, ShellMoves
  <2>3. SerialInv'
    BY <1>1, <1>2, <1>3, <1>4, <2>1, <2>2, SerialStep DEF Deciding, Running
  <2> QED
    BY <2>1, <2>3, MoveFrame
<1>7. CASE RunApproved(t)
  <2>1. /\ spc[t] = "run" /\ Go(t, "record", i) /\ UNCHANGED status
        /\ runs' = [runs EXCEPT ![i] = @ + 1]
    BY <1>4, <1>7 DEF RunApproved, At
  <2>2. runs[i] = 0 /\ runs' = [runs EXCEPT ![i] = 1]
    <3>1. runs[i] = 0
      BY <1>3, <1>4, <2>1
    <3> QED
      BY <2>1, <3>1
  <2>3. runs'[i] = 1 /\ \A k \in ActionIds \ {i} : runs'[k] = runs[k]
    BY <1>5, <2>2
  <2>4. /\ spc'[t] = "record" /\ job'[t] = i
        /\ \A u \in Threads \ {t} : spc'[u] = spc[u] /\ job'[u] = job[u]
    BY <2>1, ShellMoves
  <2>5. SerialInv'
    BY <1>1, <1>2, <1>3, <1>4, <2>1, <2>3, <2>4, SerialStep DEF Deciding, Running
  <2>6. Lifecycle!Start(i, "approved")
    BY <1>3, <1>4, <2>1, <2>2 DEF Lifecycle!Start
  <2> QED
    BY <2>5, <2>6 DEF SerialMove, Lifecycle!LifecycleNext
<1>8. CASE ExecuteWrite(t)
  <2>1. /\ spc[t] = "record" /\ Go(t, "idle", NoAction) /\ UNCHANGED runs
        /\ status' = [status EXCEPT ![i] = "executed"]
    BY <1>4, <1>8 DEF ExecuteWrite, At, Done, SetStatus
  <2>2. status'[i] = "executed" /\ \A k \in ActionIds \ {i} : status'[k] = status[k]
    BY <1>5, <2>1
  <2>3. /\ spc'[t] = "idle" /\ job'[t] = NoAction
        /\ \A u \in Threads \ {t} : spc'[u] = spc[u] /\ job'[u] = job[u]
    BY <2>1, ShellMoves
  <2>4. SerialInv'
    BY <1>1, <1>2, <1>3, <1>4, <2>1, <2>2, <2>3, SerialStep DEF Deciding, Running
  <2>5. Lifecycle!Finish(i)
    BY <1>3, <1>4, <2>1 DEF Lifecycle!Finish, Lifecycle!Becomes
  <2> QED
    BY <2>4, <2>5 DEF SerialMove, Lifecycle!LifecycleNext
<1> QED
  BY <1>6, <1>7, <1>8

\* The sweep finds the admin idle, so it takes nothing he is deciding on.
LEMMA SerialSweep ==
  ASSUME OneAdminOnly, SerialIInv, NEW t \in Sweepers, ExpireStale(t)
  PROVE  SerialMove
<1> DEFINE S == {i \in overdue : status[i] = "pending"}
<1>1. /\ Idle(t) /\ UNCHANGED <<spc, job, runs, tpc>>
      /\ status' = [i \in ActionIds |-> IF i \in S THEN "expired" ELSE status[i]]
      /\ S # {} /\ S \subseteq ActionIds /\ \A i \in S : status[i] = "pending"
  BY DEF ExpireStale, trustVars, SerialIInv, ShellTypeOK
<1>2. /\ \A u \in Threads : spc[u] \notin Deciding \cup Running
      /\ \A i \in ActionIds : status[i] # "approved"
  BY <1>1, IdleAdmin
<1>3. Lifecycle!Expire(S)
  BY <1>1 DEF Lifecycle!Expire
<1>4. \A i \in ActionIds :
        status'[i] = status[i] \/ (status'[i] = "expired" /\ status[i] = "pending")
  BY <1>1
<1> HIDE DEF S
<1>5. \A u \in Threads : spc[u] = "auto_insert" => job[u] \in ActionIds
  BY DEF SerialIInv, ShellTypeOK, JobPCs
<1>6. SerialInv'
  BY <1>1, <1>2, <1>4, <1>5 DEF SerialIInv, SerialInv
<1> QED
  BY <1>1, <1>3, <1>6 DEF SerialMove, Lifecycle!LifecycleNext

\* Agents propose, the engine works, the policy and the clock move: the
\* statuses and the runs stay.
LEMMA SerialStutters ==
  ASSUME SerialIInv, NEW t \in Threads,
         \/ ProposeBlocked(t) \/ ProposeAuto(t) \/ ProposeQueued(t)
         \/ EngineStep(t) \/ EngineRaises(t) \/ PromoteShell(t)
  PROVE  SerialMove
<1>1. UNCHANGED <<status, runs>>
  BY DEF ProposeBlocked, ProposeAuto, ProposeQueued, EngineStep, EngineRaises,
         PromoteShell, shellState
<1>2. /\ spc[t] \in {"idle", "auto_run"} /\ spc[t] \notin JobPCs
      /\ job[t] = NoAction
  <2>1. spc[t] = "idle" \/ tpc[t] # "idle"
    BY DEF ProposeBlocked, ProposeAuto, ProposeQueued, EngineStep, EngineRaises,
           PromoteShell, Idle, CallSteps, RecordSteps, Refuse, RunAction, OutcomeAudit,
           OutcomeCount, AutoPromote, PromoteWrite, OutcomeRaises
  <2>2. spc[t] \in {"idle", "auto_run"}
    BY <2>1 DEF SerialIInv, SerialInv
  <2> QED
    BY <2>2 DEF SerialIInv, ShellTypeOK, JobPCs
<1>3. \A u \in Threads \ {t} : tpc'[u] = tpc[u]
  <2>1. UNCHANGED tpc \/ \E pc, f : Enter(t, pc, f)
    BY DEF ProposeBlocked, ProposeAuto, ProposeQueued, EngineStep, EngineRaises,
           PromoteShell, CallSteps, RecordSteps, Refuse, RunAction, OutcomeAudit,
           OutcomeCount, AutoPromote, PromoteWrite, OutcomeRaises, CallRecordOutcome,
           PromoteRead, Return, trustVars
  <2> QED
    BY <2>1, EngineMoves
<1>4. /\ \A u \in Threads \ {t} : spc'[u] = spc[u] /\ job'[u] = job[u]
      /\ spc'[t] \notin JobPCs /\ job'[t] = NoAction
      /\ tpc'[t] # "idle" => spc'[t] \in {"idle", "auto_run"}
  <2>1. \/ UNCHANGED <<spc, job>>
        \/ Go(t, "idle", NoAction) \/ Go(t, "auto_run", NoAction)
        \/ Go(t, "insert", NoAction) /\ UNCHANGED tpc /\ tpc[t] = "idle"
    BY DEF ProposeBlocked, ProposeAuto, ProposeQueued, EngineStep, EngineRaises,
           PromoteShell, shellState, Done, Idle, trustVars
  <2>2. {"idle", "auto_run", "insert"} \cap JobPCs = {}
    BY DEF JobPCs
  <2> QED
    BY <1>2, <2>1, <2>2, ShellMoves
<1>5. SerialInv'
  BY <1>1, <1>2, <1>3, <1>4, SerialFrame
<1> QED
  BY <1>1, <1>5, MoveFrame

LEMMA SerialNext ==
  ASSUME OneAdminOnly, SerialIInv, ShellTypeOK', [ShellNext]_shellVars
  PROVE  SerialMove
<1>1. ASSUME UNCHANGED <<status, spc, job, runs, tpc>> PROVE SerialMove
  <2>1. SerialInv'
    BY <1>1, SerialFrame
  <2> QED
    BY <1>1, <2>1, MoveFrame
<1>2. ASSUME NEW t \in Threads, ShellSteps(t) \/ EngineRaises(t) \/ PromoteShell(t)
      PROVE  SerialMove
  BY <1>2, SerialInserts, SerialBypassRuns, SerialBypassInserts, SerialDecides,
     SerialExecutes, SerialStutters DEF ShellSteps
<1>3. ASSUME Requests PROVE SerialMove
  BY <1>3, SerialStutters, SerialChecks, SerialSweep DEF Requests
<1>4. ASSUME NEW i \in ActionIds, TimePasses(i) PROVE SerialMove
  BY <1>1, <1>4 DEF TimePasses, trustVars
<1>5. ASSUME NEW l \in Levels, SetShellLevel(l) PROVE SerialMove
  BY <1>1, <1>5 DEF SetShellLevel, SetTrustLevel, shellState
<1>6. ~ Crash
  BY DEF Crash, OneAdminOnly
<1>7. ASSUME UNCHANGED shellVars PROVE SerialMove
  BY <1>1, <1>7 DEF shellVars, shellState, trustVars
<1> QED
  BY <1>2, <1>3, <1>4, <1>5, <1>6, <1>7 DEF ShellNext

\* One admin and no crash: every step of the shell, whatever the agents and
\* the policy do meanwhile, is a step of the contract or none of it.  (That
\* what was approved is run in the end is left to LifecycleImplemented.)
THEOREM SerialContract ==
  ASSUME OneAdminOnly PROVE ShellSpec => Lifecycle!LifecycleSpec
<1> DEFINE Inv == BypassInv /\ SerialInv
<1>1. ShellInit => Inv
  BY BypassInit, SerialInit
<1>2. Inv /\ [ShellNext]_shellVars
        => Inv' /\ [Lifecycle!LifecycleNext]_(Lifecycle!lifecycleVars)
  <2> SUFFICES ASSUME BypassInv, SerialInv, [ShellNext]_shellVars
               PROVE  Inv' /\ [Lifecycle!LifecycleNext]_(Lifecycle!lifecycleVars)
    OBVIOUS
  <2>1. BypassInv'
    BY BypassStepAudited
  <2>2. SerialIInv /\ ShellTypeOK'
    BY <2>1 DEF SerialIInv, BypassInv, TrustIInv, ShellIInv
  <2> QED
    BY <2>1, <2>2, SerialNext DEF SerialMove
<1>3. ShellInit => Lifecycle!LifecycleInit
  BY DEF ShellInit, Lifecycle!LifecycleInit
<1> QED
  BY <1>1, <1>2, <1>3, PTL DEF ShellSpec, Lifecycle!LifecycleSpec
=============================================================================
