--------------------------- MODULE ElevatedShell ---------------------------
(***************************************************************************)
(* The elevated shell (src/src/bridge/elevated_shell.py): a queue of       *)
(* proposed commands that an admin approves, rejects or re-executes, with  *)
(* an expiry sweep, and a bypass that the trust engine opens.              *)
(*                                                                         *)
(* It composes with TrustEngine: a shell call that records an outcome      *)
(* enters the engine (tpc, frame) and goes on when the engine returns.     *)
(* As there, every `with _lock:` block is one step, and so is the command; *)
(* the check of a status and the write that relies on it are two blocks.   *)
(***************************************************************************)
EXTENDS TrustEngine

CONSTANTS
  ActionIds,    \* bound: the ids that uuid4 can hand out
  ShellWrite,   \* the action type "shell_write"
  Admins,       \* threads that serve approve, reject and execute requests
  Sweepers,     \* threads that serve GET /actions/pending
  MaxRuns,      \* bound: starts of one command
  MayCrash,     \* whether the bridge process may die and be restarted
  NoAction      \* the call has no action

ASSUME ShellAssumption ==
  /\ ShellWrite \in ActionTypes
  /\ Admins \subseteq Threads /\ Sweepers \subseteq Threads
  /\ MayCrash \in BOOLEAN /\ MaxRuns \in Nat
  /\ NoAction \notin ActionIds

VARIABLES
  status,     \* status column of each action; "absent": no row
  overdue,    \* actions whose expires_at has passed
  spc,        \* where each thread is inside a shell call
  job,        \* the action of that call
  runs,       \* history: how often each command was started
  autoRuns,   \* history: the actions started by _auto_execute
  approved,   \* history: the actions some approve call wrote 'approved' to
  past        \* history: "auto" if shell_write has ever been at that level,
              \* "crash" if the process has ever died

shellState == <<status, overdue, spc, job, runs, autoRuns, approved>>
shellVars == <<shellState, past, trustVars>>

Statuses == {"absent", "pending", "approved", "rejected", "expired", "executed"}

\* Places with an action: what a call has checked is what it goes on with.
JobPCs == {"approve", "reject", "exec", "run", "record", "auto_insert"}
ShellPCs == {"idle", "insert", "auto_run"} \cup JobPCs

ShellTypeOK ==
  /\ status \in [ActionIds -> Statuses]
  /\ overdue \subseteq ActionIds
  /\ spc \in [Threads -> ShellPCs]
  /\ job \in [Threads -> ActionIds \cup {NoAction}]
  /\ runs \in [ActionIds -> Nat]
  /\ autoRuns \subseteq ActionIds
  /\ approved \subseteq ActionIds
  /\ past \subseteq {"auto", "crash"}
  /\ \A t \in Threads : job[t] # NoAction <=> spc[t] \in JobPCs

ShellInit ==
  /\ TrustInit
  /\ status = [i \in ActionIds |-> "absent"]
  /\ overdue = {}
  /\ spc = [t \in Threads |-> "idle"]
  /\ job = [t \in Threads |-> NoAction]
  /\ runs = [i \in ActionIds |-> 0]
  /\ autoRuns = {} /\ approved = {}
  /\ past = IF GetLevel(ShellWrite) = "auto" THEN {"auto"} ELSE {}

-----------------------------------------------------------------------------
Idle(t) == spc[t] = "idle" /\ tpc[t] = "idle"

\* The thread is at pc and no engine call of it is under way.
At(t, pc) == spc[t] = pc /\ tpc[t] = "idle"

Go(t, pc, i) ==
  /\ spc' = [spc EXCEPT ![t] = pc]
  /\ job' = [job EXCEPT ![t] = i]

Done(t) == Go(t, "idle", NoAction)

SetStatus(i, s) == status' = [status EXCEPT ![i] = s]

\* An id nobody has used: no row, no command started under it.
Fresh(i) ==
  /\ status[i] = "absent" /\ runs[i] = 0
  /\ \A t \in Threads : job[t] # i

\* Bound: a proposal starts only if an id is left for it.
IdLeft ==
  Cardinality({t \in Threads : spc[t] \in {"insert", "auto_run"}})
    < Cardinality({i \in ActionIds : Fresh(i)})

-----------------------------------------------------------------------------
(* propose_action and _auto_execute.  A command off the allow-list changes   *)
(* nothing and is left out.                                                  *)

\* get_trust_level("shell_write") decides which way the call goes.  Levels
\* other than blocked and auto, notify_then_execute included, are queued.
ProposeBlocked(t) ==
  /\ Idle(t) /\ Room(ShellWrite)
  /\ GetLevel(ShellWrite) = "blocked"
  /\ CallRecordOutcome(t, ShellWrite, "blocked")
  /\ UNCHANGED <<shellState, past>>

ProposeAuto(t) ==
  /\ Idle(t) /\ Room(ShellWrite) /\ IdLeft
  /\ GetLevel(ShellWrite) = "auto"
  /\ CallRecordOutcome(t, ShellWrite, "auto_executed")
  /\ Go(t, "auto_run", NoAction)
  /\ UNCHANGED <<status, overdue, runs, autoRuns, approved, past>>

ProposeQueued(t) ==
  /\ Idle(t) /\ IdLeft
  /\ GetLevel(ShellWrite) \notin {"blocked", "auto"}
  /\ Go(t, "insert", NoAction)
  /\ UNCHANGED <<status, overdue, runs, autoRuns, approved, past, trustVars>>

\* Mutant of InsertPending: the row gets the name of the audit transition.
InsertProposed(t) ==
  /\ At(t, "insert")
  /\ \E i \in ActionIds : Fresh(i) /\ SetStatus(i, "proposed")
  /\ Done(t)
  /\ UNCHANGED <<overdue, runs, autoRuns, approved, past, trustVars>>

InsertPending(t) ==
  /\ At(t, "insert")
  /\ \E i \in ActionIds : Fresh(i) /\ SetStatus(i, "pending")
  /\ Done(t)
  /\ UNCHANGED <<overdue, runs, autoRuns, approved, past, trustVars>>

\* subprocess.run, after the outcome "auto_executed" has been recorded.
AutoRun(t) ==
  /\ At(t, "auto_run")
  /\ \E i \in ActionIds :
        /\ Fresh(i)
        /\ runs' = [runs EXCEPT ![i] = @ + 1]
        /\ autoRuns' = autoRuns \cup {i}
        /\ Go(t, "auto_insert", i)
  /\ UNCHANGED <<status, overdue, approved, past, trustVars>>

\* Mutant of AutoInsert: a command that timed out is not recorded.
AutoInsertSuccess(t) ==
  /\ At(t, "auto_insert")
  /\ SetStatus(job[t], "executed")
  /\ Done(t)
  /\ \/ CallRecordOutcome(t, ShellWrite, "success")
     \/ UNCHANGED trustVars
  /\ UNCHANGED <<overdue, runs, autoRuns, approved, past>>

\* The row is inserted as executed, then the outcome is recorded: a failure
\* is a timeout or a command that did not start, not a bad return code.
AutoInsert(t) ==
  /\ At(t, "auto_insert")
  /\ SetStatus(job[t], "executed")
  /\ Done(t)
  /\ \E o \in {"success", "failure"} : CallRecordOutcome(t, ShellWrite, o)
  /\ UNCHANGED <<overdue, runs, autoRuns, approved, past>>

-----------------------------------------------------------------------------
(* approve_action, reject_action, execute_approved                           *)

Check(t, i, s, pc) ==
  /\ status[i] = s
  /\ Go(t, pc, i)
  /\ UNCHANGED <<status, overdue, runs, autoRuns, approved, past, trustVars>>

\* Bound: after a crash an action can be started again and again.
RunsLeft(i) == runs[i] + Cardinality({t \in Threads : job[t] = i}) < MaxRuns

\* get_action and its status check; expires_at is not looked at.
ApproveCheck(t, i) ==
  Idle(t) /\ RunsLeft(i) /\ Check(t, i, "pending", "approve")

RejectCheck(t, i) == Idle(t) /\ Check(t, i, "pending", "reject")

\* Mutant of ExecuteCall: execute takes a pending action too.
ExecuteUndecided(t, i) ==
  \E s \in {"pending", "approved"} :
    Idle(t) /\ RunsLeft(i) /\ Check(t, i, s, "run")

\* POST /actions/{id}/execute enters execute_approved directly.
ExecuteCall(t, i) ==
  Idle(t) /\ RunsLeft(i) /\ Check(t, i, "approved", "run")

\* Mutant of ApproveWrite: the caller forgets to ask for auto_execute.
ApproveOnly(t) ==
  /\ At(t, "approve")
  /\ SetStatus(job[t], "approved")
  /\ approved' = approved \cup {job[t]}
  /\ Done(t)
  /\ UNCHANGED <<overdue, runs, autoRuns, past, trustVars>>

\* The UPDATE has no condition on the status; auto_execute is always on.
ApproveWrite(t) ==
  /\ At(t, "approve")
  /\ SetStatus(job[t], "approved")
  /\ approved' = approved \cup {job[t]}
  /\ Go(t, "exec", job[t])
  /\ UNCHANGED <<overdue, runs, autoRuns, past, trustVars>>

RejectWrite(t) ==
  /\ At(t, "reject")
  /\ SetStatus(job[t], "rejected")
  /\ Done(t)
  /\ UNCHANGED <<overdue, runs, autoRuns, approved, past, trustVars>>

\* execute_approved reads the action again, in its own block.
ExecuteCheck(t) ==
  /\ At(t, "exec")
  /\ IF status[job[t]] = "approved" THEN Go(t, "run", job[t]) ELSE Done(t)
  /\ UNCHANGED <<status, overdue, runs, autoRuns, approved, past, trustVars>>

RunApproved(t) ==
  /\ At(t, "run")
  /\ runs' = [runs EXCEPT ![job[t]] = @ + 1]
  /\ Go(t, "record", job[t])
  /\ UNCHANGED <<status, overdue, autoRuns, approved, past, trustVars>>

\* Nor has this UPDATE.  The trust engine is not told of the outcome.
ExecuteWrite(t) ==
  /\ At(t, "record")
  /\ SetStatus(job[t], "executed")
  /\ Done(t)
  /\ UNCHANGED <<overdue, runs, autoRuns, approved, past, trustVars>>

-----------------------------------------------------------------------------
(* Expiry, restart, and the trust engine's side                              *)

\* Mutant of ExpireStale: the UPDATE without "status = 'pending'".
ExpireAllOverdue(t) ==
  /\ Idle(t) /\ overdue # {}
  /\ status' = [i \in ActionIds |->
                  IF i \in overdue THEN "expired" ELSE status[i]]
  /\ UNCHANGED <<overdue, spc, job, runs, autoRuns, approved, past, trustVars>>

\* expire_stale, which list_pending calls before it answers.
ExpireStale(t) ==
  /\ Idle(t)
  /\ \E i \in overdue : status[i] = "pending"
  /\ status' = [i \in ActionIds |->
                  IF i \in overdue /\ status[i] = "pending"
                  THEN "expired" ELSE status[i]]
  /\ UNCHANGED <<overdue, spc, job, runs, autoRuns, approved, past, trustVars>>

\* ACTION_EXPIRY_MINUTES after the proposal.
TimePasses(i) ==
  /\ status[i] # "absent" /\ i \notin overdue
  /\ overdue' = overdue \cup {i}
  /\ UNCHANGED <<status, spc, job, runs, autoRuns, approved, past, trustVars>>

\* The process dies: the calls and what they have read are gone, the two
\* databases and the commands already started are not.
Crash ==
  /\ MayCrash
  /\ \E t \in Threads : ~Idle(t)
  /\ spc' = [t \in Threads |-> "idle"]
  /\ job' = [t \in Threads |-> NoAction]
  /\ tpc' = [t \in Threads |-> "idle"]
  /\ frame' = [t \in Threads |-> NoCall]
  /\ past' = past \cup {"crash"}
  /\ UNCHANGED <<status, overdue, runs, autoRuns, approved>>
  /\ UNCHANGED <<policy, audit, ran, raised>>

\* The engine's steps are the ones that can change the policy.
NoteAuto ==
  past' = IF GetLevel(ShellWrite)' = "auto" THEN past \cup {"auto"} ELSE past

EngineStep(t) == CallSteps(t) /\ UNCHANGED shellState /\ NoteAuto

\* The exception ends the request: _auto_execute is not reached when the
\* record of "auto_executed" raises.
EngineRaises(t) ==
  /\ OutcomeRaises(t)
  /\ Done(t)
  /\ UNCHANGED <<status, overdue, runs, autoRuns, approved>>
  /\ NoteAuto

SetShellLevel(l) ==
  SetTrustLevel(ShellWrite, l) /\ UNCHANGED shellState /\ NoteAuto

PromoteShell(t) ==
  /\ Idle(t) /\ PromoteRead(t, ShellWrite)
  /\ UNCHANGED shellState /\ NoteAuto

-----------------------------------------------------------------------------
\* What a thread does once its call has begun.
ShellSteps(t) ==
  \/ InsertPending(t) \/ AutoRun(t) \/ AutoInsert(t)
  \/ ApproveWrite(t) \/ RejectWrite(t)
  \/ ExecuteCheck(t) \/ RunApproved(t) \/ ExecuteWrite(t)
  \/ EngineStep(t)

Requests ==
  \/ \E t \in Threads : ProposeBlocked(t) \/ ProposeAuto(t) \/ ProposeQueued(t)
  \/ \E t \in Admins, i \in ActionIds :
        ApproveCheck(t, i) \/ RejectCheck(t, i) \/ ExecuteCall(t, i)
  \/ \E t \in Sweepers : ExpireStale(t)

ShellNext ==
  \/ \E t \in Threads : ShellSteps(t) \/ EngineRaises(t) \/ PromoteShell(t)
  \/ Requests
  \/ \E i \in ActionIds : TimePasses(i)
  \/ \E l \in Levels : SetShellLevel(l)
  \/ Crash

\* A request that has begun is served to its end: a command is killed after
\* ELEVATED_TIMEOUT, and no block waits for anything but the lock.
ShellFairness == \A t \in Threads : WF_shellVars(ShellSteps(t))

ShellSpec == ShellInit /\ [][ShellNext]_shellVars
FairShellSpec == ShellSpec /\ ShellFairness

-----------------------------------------------------------------------------
(* Properties                                                                *)

\* The elevated shell's contract, for the statuses and runs of this module.
Lifecycle == INSTANCE ActionLifecycle WITH
  ActionIds <- ActionIds, status <- status, runs <- runs

\* When one admin works alone and the process does not die, the shell keeps
\* the contract of ActionLifecycle, its liveness included, although agents
\* propose commands and the policy changes while the admin decides.
LifecycleImplemented == Lifecycle!LifecycleFairSpec

\* README.md: "system-modifying commands require explicit user approval
\* before execution".  A command runs only if an approve call took it, or if
\* it went through the bypass and shell_write has been at level auto: no
\* race, crash or repeated request runs a command nobody has let through.
NoRunWithoutConsent ==
  \A i \in ActionIds :
    runs[i] > 0 => i \in approved \/ (i \in autoRuns /\ "auto" \in past)

\* The two databases agree on what the bypass did: each command it started
\* has one success or failure row in the trust engine's audit trail, except
\* those whose thread has not got to it (until a crash or an exception of
\* SQLite cuts a request short).
AutoRunsAudited ==
  "crash" \notin past /\ ~raised =>
    Cardinality(autoRuns) =
      audit[ShellWrite]["success"] + audit[ShellWrite]["failure"]
      + Cardinality({t \in Threads : spc[t] = "auto_insert"})
      + Cardinality(Unwritten(ShellWrite))

\* An approval is acted upon: unless the process dies, an approved action is
\* executed in the end, or somebody's rejection has overtaken the approval.
ApprovedIsHandled ==
  \A i \in ActionIds :
    status[i] = "approved"
      ~> status[i] \in {"executed", "rejected"} \/ "crash" \in past

\* execute_approved: "action status is '...', expected 'approved'".  Only an
\* action that is approved is started (a row exists for every other start).
RunsOnlyApproved ==
  [][\A i \in ActionIds :
       runs'[i] # runs[i] /\ status[i] # "absent" =>
         status[i] = "approved"]_shellVars
=============================================================================
