-------------------------------- MODULE Plans --------------------------------
(***************************************************************************)
(* The execution of a plan whose steps depend on each other: by a pool of  *)
(* threads or in the order of the list (planner.py), and of the subtasks   *)
(* of the orchestrator in topological order (agents/orchestrator.py).      *)
(*                                                                         *)
(* The plan comes from a language model: it may have cycles and may depend *)
(* on steps that are not in it.  Of two steps with one id the later stands *)
(* for both, in steps_by_id and in by_id.  A step is one call to a tool or *)
(* the model; what it raises becomes its result.                           *)
(***************************************************************************)
EXTENDS Integers, FiniteSets, SequencesExt

CONSTANTS
  Steps,          \* ids of the steps, a set of numbers: their order in the plan
  Absent,         \* ids that are depended on and are in no step
  MaxWorkers,     \* PLANNER_MAX_WORKERS
  MaxDeps         \* bound: what one step depends on

ASSUME PlansAssumption ==
  /\ Steps \subseteq Nat /\ IsFiniteSet(Steps)
  /\ Absent \cap Steps = {}
  /\ MaxWorkers \in Nat \ {0} /\ MaxDeps \in Nat

VARIABLES
  deps,           \* depends_on of each step
  mode,           \* which of the three executors it is, or that there is no plan
  remaining,      \* steps that are not completed
  order,          \* the order that the list or the sort gives, empty: any
  queue,          \* steps given to an executor and not started
  workers,        \* how many of them run at once; 0: nothing is executed
  running,        \* steps that run
  returned,       \* steps that have returned and are not collected
  seen            \* history: by step that was started, the results it has got

planVars == <<deps, mode, remaining, order, queue, workers, running, returned, seen>>

Modes == {"parallel", "sequential", "orchestrator"}
Completed == Steps \ remaining
Started == DOMAIN seen

PlanTypeOK ==
  /\ deps \in [Steps -> SUBSET (Steps \cup Absent)]
  /\ mode \in Modes \cup {"none"}
  /\ remaining \subseteq Steps
  /\ order \in Seq(Steps) /\ queue \subseteq remaining
  /\ workers \in 0..MaxWorkers /\ Cardinality(running) <= workers
  /\ running \cup returned \subseteq remaining \cap Started
  /\ running \cap returned = {} /\ (running \cup returned) \cap queue = {}
  /\ Started \subseteq Steps /\ \A s \in Started : seen[s] \subseteq deps[s]

PlanInit ==
  /\ deps = [s \in Steps |-> {}]
  /\ mode = "none"
  /\ remaining = Steps
  /\ order = <<>> /\ queue = {} /\ workers = 0
  /\ running = {} /\ returned = {} /\ seen = <<>>

-----------------------------------------------------------------------------
(* The orders. *)

Ascending(S) == SetToSortSeq(S, <)

\* A sort in progress.
Sorting == [visited : SUBSET (Steps \cup Absent), order : Seq(Steps)]

\* For the mutant of TopoSort: a step is put before its dependencies.
VisitPreorder[acc \in Sorting, s \in Steps \cup Absent] ==
  IF s \in acc.visited THEN acc
  ELSE IF s \in Absent THEN [acc EXCEPT !.visited = @ \cup {s}]
  ELSE FoldLeft(LAMBDA a, d : VisitPreorder[a, d],
                [visited |-> acc.visited \cup {s}, order |-> Append(acc.order, s)],
                Ascending(deps[s]))

\* visit of _topo_sort: marked first, added to the result after its dependencies.
Visit[acc \in Sorting, s \in Steps \cup Absent] ==
  IF s \in acc.visited THEN acc
  ELSE LET marked == [acc EXCEPT !.visited = @ \cup {s}]
       IN  IF s \in Absent THEN marked
           ELSE [FoldLeft(LAMBDA a, d : Visit[a, d], marked, Ascending(deps[s]))
                   EXCEPT !.order = Append(@, s)]

Unsorted == [visited |-> {}, order |-> <<>>]

TopoSort == FoldLeft(LAMBDA a, s : Visit[a, s], Unsorted, Ascending(Steps)).order

-----------------------------------------------------------------------------
(* The execution. *)

\* create_plan, _decompose: whatever the model answers.
MakePlan ==
  /\ mode = "none"
  /\ deps' \in [Steps -> {D \in SUBSET (Steps \cup Absent) : Cardinality(D) <= MaxDeps}]
  /\ mode' \in Modes
  /\ UNCHANGED <<remaining, order, queue, workers, running, returned, seen>>

Idle == workers = 0 /\ remaining # {}

\* Mutant of Ready: one dependency is enough.
ReadySome == {s \in remaining : deps[s] = {} \/ deps[s] \cap Completed # {}}

Ready == {s \in remaining : deps[s] \subseteq Completed}

Execute(S, n) ==
  /\ queue' = S /\ workers' = n
  /\ UNCHANGED <<deps, mode, remaining, running, returned, seen>>

Fewer(a, b) == IF a < b THEN a ELSE b

\* execute_plan_parallel: one ready step is run directly, more are given to a
\* pool that lives until all of them have been collected.
RunReady ==
  /\ mode = "parallel" /\ Idle /\ Ready # {}
  /\ Execute(Ready, Fewer(Cardinality(Ready), MaxWorkers)) /\ UNCHANGED order

\* "Deadlock": the remaining steps one after the other.
RunStuck ==
  /\ mode = "parallel" /\ Idle /\ Ready = {}
  /\ Execute(remaining, 1) /\ UNCHANGED order

\* execute_plan, and run of the orchestrator.
RunInOrder ==
  /\ mode \in {"sequential", "orchestrator"} /\ Idle
  /\ Execute(Steps, 1)
  /\ order' = IF mode = "sequential" THEN Ascending(Steps) ELSE TopoSort

\* What of the queue starts next.  The order of a pool, and of the steps of a
\* deadlock, is the iteration order of a Python set: any.
NextOf(Q) ==
  IF order = <<>> THEN Q ELSE {SelectSeq(order, LAMBDA s : s \in Q)[1]}

\* execute_step begins: it reads the results of its dependencies.  Without a
\* pool one call does not begin before the result of the one before is stored.
StartStep ==
  /\ queue # {} /\ Cardinality(running) < workers
  /\ workers = 1 => returned = {}
  /\ \E s \in NextOf(queue) :
       /\ running' = running \cup {s} /\ queue' = queue \ {s}
       /\ seen' = [t \in Started \cup {s} |-> IF t = s THEN deps[s] \cap Completed ELSE seen[t]]
  /\ UNCHANGED <<deps, mode, remaining, order, workers, returned>>

\* It returns: a result or an error, which is the result then.
StepReturns(s) ==
  /\ s \in running
  /\ running' = running \ {s} /\ returned' = returned \cup {s}
  /\ UNCHANGED <<deps, mode, remaining, order, queue, workers, seen>>

\* Its result is stored; after the last one the executor looks for ready steps.
CollectStep(s) ==
  /\ s \in returned
  /\ returned' = returned \ {s} /\ remaining' = remaining \ {s}
  /\ workers' = IF queue = {} /\ running = {} /\ returned = {s} THEN 0 ELSE workers
  /\ UNCHANGED <<deps, mode, order, queue, running, seen>>

PlanNext ==
  \/ MakePlan \/ RunReady \/ RunStuck \/ RunInOrder \/ StartStep
  \/ \E s \in Steps : StepReturns(s) \/ CollectStep(s)

PlanSpec == PlanInit /\ [][PlanNext]_planVars

\* The thread of the request goes on, and every call that a step makes has a
\* timeout.
PlanFairness == WF_planVars(PlanNext)
FairPlanSpec == PlanSpec /\ PlanFairness

-----------------------------------------------------------------------------
(* Properties. *)

\* What a step depends on, through others too: the least set that holds S and
\* the dependencies of what it holds.
Closed == {C \in SUBSET (Steps \cup Absent) : \A s \in C \cap Steps : deps[s] \subseteq C}
Closure(S) == {x \in Steps \cup Absent : \A C \in Closed : S \subseteq C => x \in C}

Needs == [s \in Steps |-> Closure(deps[s])]

\* Steps that an order exists for: no cycle and no absent step is reached.
Orderable ==
  LET needs == Needs
  IN  {s \in Steps : \A t \in needs[s] : t \in Steps /\ t \notin needs[t]}

\* execute_plan_parallel "whose dependencies are already complete": a step that
\* can be ordered gets the results of all its dependencies, whatever the rest
\* of the plan is, and the steps that cannot wait for all that can.
ParallelRespectsOrder ==
  mode = "parallel" =>
    LET orderable == Orderable IN
    /\ \A s \in Started \cap orderable : seen[s] = deps[s]
    /\ Started \subseteq orderable \/ orderable \subseteq Completed

\* Steps that run at the same time do not depend on each other.
ParallelAreIndependent ==
  \A s, t \in running \cup returned : s # t => s \notin Needs[t]

\* _topo_sort: a subtask lacks the result of a dependency only if this
\* dependency is absent or depends on the subtask.
TopoRespectsOrder ==
  mode = "orchestrator" =>
    \A s \in Started : \A d \in deps[s] \ seen[s] : d \in Absent \/ s \in Needs[d]

\* Every plan ends, with every step executed, deadlocked or not.
PlanEnded == remaining = {} /\ Started = Steps
PlanEnds == []<>PlanEnded

\* Whatever the plan: each executor keeps the order that there is, the parallel
\* one by waiting and the orchestrator by sorting (planner.py, orchestrator.py).
ParallelSafe == ParallelRespectsOrder /\ ParallelAreIndependent
PlanSorted == PlanTypeOK /\ TopoRespectsOrder
=============================================================================
