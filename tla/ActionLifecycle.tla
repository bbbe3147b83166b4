-------------------------- MODULE ActionLifecycle --------------------------
(***************************************************************************)
(* What the elevated shell promises about one proposed command, whoever    *)
(* handles it: it waits for a decision, is decided once, and runs at most  *)
(* once, either because a user approved it or because the policy lets      *)
(* commands of its kind run at once.                                       *)
(*                                                                         *)
(* This is the contract behind the statuses and the error messages of      *)
(* src/src/bridge/elevated_shell.py; ElevatedShell is checked against it.  *)
(***************************************************************************)
EXTENDS Integers

CONSTANT ActionIds   \* ids of actions

VARIABLES
  status,   \* status column of each action; "absent": no row yet
  runs      \* how often its command has been started

lifecycleVars == <<status, runs>>

Statuses == {"absent", "pending", "approved", "rejected", "expired", "executed"}

LifecycleTypeOK ==
  /\ status \in [ActionIds -> Statuses]
  /\ runs \in [ActionIds -> {0, 1}]

LifecycleInit ==
  /\ status = [i \in ActionIds |-> "absent"]
  /\ runs = [i \in ActionIds |-> 0]

\* The transition of one action whose command is not touched.
Becomes(i, from, to) ==
  /\ status[i] = from
  /\ status' = [status EXCEPT ![i] = to]
  /\ UNCHANGED runs

Propose(i) == runs[i] = 0 /\ Becomes(i, "absent", "pending")
Approve(i) == Becomes(i, "pending", "approved")
Reject(i)  == Becomes(i, "pending", "rejected")

\* The sweep of stale actions takes any number of pending ones at once.
Expire(S) ==
  /\ S # {} /\ \A i \in S : status[i] = "pending"
  /\ status' = [i \in ActionIds |-> IF i \in S THEN "expired" ELSE status[i]]
  /\ UNCHANGED runs

\* An approved command is started; an automatic one has no row yet.
Start(i, from) ==
  /\ status[i] = from /\ runs[i] = 0
  /\ runs' = [runs EXCEPT ![i] = 1]
  /\ UNCHANGED status

Finish(i) ==
  /\ runs[i] = 1
  /\ \E from \in {"approved", "absent"} : Becomes(i, from, "executed")

LifecycleNext ==
  \/ \E i \in ActionIds :
       \/ Propose(i) \/ Approve(i) \/ Reject(i)
       \/ Start(i, "approved") \/ Start(i, "absent")
       \/ Finish(i)
  \/ \E S \in SUBSET ActionIds : Expire(S)

\* What was approved is run, and what was started is finished.
LifecycleFairness ==
  \A i \in ActionIds :
    WF_lifecycleVars(Start(i, "approved")) /\ WF_lifecycleVars(Finish(i))

LifecycleSpec == LifecycleInit /\ [][LifecycleNext]_lifecycleVars
LifecycleFairSpec == LifecycleSpec /\ LifecycleFairness

=============================================================================
