------------------------------ MODULE Delegation ------------------------------
(***************************************************************************)
(* The orchestrator's delegation of subtasks (agents/orchestrator.py) to   *)
(* agents that users define and switch on and off meanwhile                *)
(* (custom_agents.py, extensions.py), to built-in ones, or to itself. The  *)
(* subtasks come from a language model, with ids of its own or none.       *)
(***************************************************************************)
EXTENDS Naturals, SequencesExt

CONSTANTS
  SubIds, NoId,   \* ids that the model gives, numbers, or leaves out
  Custom,         \* names of agents that users define
  BuiltIn,        \* and those of the registry, but for the orchestrator
  MaxSubtasks, MaxOperations, \* bounds
  Operators       \* threads of requests about custom agents

ASSUME DelegationAssumption == "none" \notin Custom

VARIABLES
  agents,      \* custom_agents, by name: "on", "off" or "none"
  toggling,    \* what each request will write
  operations,  \* bound and history: requests that have begun
  switched,    \* history: by name, the toggles of the row that is there
  crossed,     \* history: names whose toggle has met another request
  subtasks,    \* of the plan
  plan,        \* those still to be executed, in order
  current,     \* the one that is, with what it was told and who executes it
  completed,   \* by id, whose output is given to those that depend on it
  executed     \* history: those executed, as current was

tableVars == <<agents, toggling, operations, switched, crossed>>
delegationVars == <<tableVars, subtasks, plan, current, completed, executed>>

NoToggle == [name |-> "none", to |-> "none"]
NoSubtask == [index |-> 0, told |-> <<>>, by |-> "none"]
Subtask == [id : SubIds \cup {NoId}, deps : SUBSET SubIds]

DelegationInit ==
  /\ agents = [n \in Custom |-> "on"] /\ toggling = [o \in Operators |-> NoToggle]
  /\ operations = 0 /\ switched = [n \in Custom |-> 0] /\ crossed = {}
  /\ subtasks = <<>> /\ plan = <<>> /\ current = NoSubtask
  /\ completed = <<>> /\ executed = <<>>

-------------------------------------------------------------------------------
(* The table of custom agents: name is UNIQUE, what is edited is not the switch. *)

RequestComes == operations < MaxOperations /\ operations' = operations + 1
TogglesOf(n) == {o \in Operators: toggling[o].name = n}

CreateAgent(n) ==
  /\ RequestComes /\ agents[n] = "none"
  /\ agents' = [agents EXCEPT ![n] = "on"] /\ switched' = [switched EXCEPT ![n] = 0]
  /\ crossed' = IF TogglesOf(n) = {} THEN crossed \ {n} ELSE crossed
  /\ UNCHANGED <<toggling, subtasks, plan, current, completed, executed>>

DeleteAgent(n) ==
  /\ RequestComes /\ agents' = [agents EXCEPT ![n] = "none"]
  /\ crossed' = IF TogglesOf(n) = {} THEN crossed ELSE crossed \cup {n}
  /\ UNCHANGED <<toggling, switched, subtasks, plan, current, completed, executed>>

\* A toggle reads the row under one hold of the lock and writes under another.
ToggleReads(o, n) ==
  /\ toggling[o] = NoToggle /\ RequestComes /\ agents[n] # "none"
  /\ toggling' = [toggling EXCEPT ![o] = [name |-> n, to |-> IF agents[n] = "on" THEN "off" ELSE "on"]]
  /\ crossed' = IF TogglesOf(n) = {} THEN crossed ELSE crossed \cup {n}
  /\ UNCHANGED <<agents, switched, subtasks, plan, current, completed, executed>>

ToggleWrites(o) ==
  LET n == toggling[o].name
  IN /\ toggling[o] # NoToggle
     /\ agents' = IF agents[n] = "none" THEN agents ELSE [agents EXCEPT ![n] = toggling[o].to]
     /\ switched' = [switched EXCEPT ![n] = @ + 1]
     /\ toggling' = [toggling EXCEPT ![o] = NoToggle]
     /\ UNCHANGED <<operations, crossed, subtasks, plan, current, completed, executed>>

-------------------------------------------------------------------------------
(* The execution of a plan. *)

\* A subtask without an id is sorted by its place in the list, counted from 0,
\* and its output is kept under 0.
SortedAs(p, i) == IF p[i].id = NoId THEN i - 1 ELSE p[i].id

\* Mutant of KeptAs: the output is kept under the place in the list.
KeptByPlace(p, i) == i - 1

KeptAs(p, i) == IF p[i].id = NoId THEN 0 ELSE p[i].id

\* by_id: of those with one id the last one, at the place of the first.
KeysOf(p) ==
  FoldLeft(LAMBDA keys, i: IF Contains(keys, SortedAs(p, i)) THEN keys ELSE Append(keys, SortedAs(p, i)),
           <<>>, [i \in DOMAIN p |-> i])
ByKey(p, k) == CHOOSE i \in DOMAIN p: SortedAs(p, i) = k /\ \A j \in DOMAIN p: SortedAs(p, j) = k => j <= i

SortSubtasks(p) ==
  LET keys == ToSet(KeysOf(p))
      ids == keys \cup SubIds
      VisitKey[a \in [visited : SUBSET ids, sorted : Seq(DOMAIN p)], k \in ids] ==
        IF k \in a.visited THEN a
        ELSE LET marked == [a EXCEPT !.visited = @ \cup {k}]
             IN IF k \notin keys THEN marked
                ELSE [FoldLeft(LAMBDA b, d: VisitKey[b, d], marked,
                               SetToSortSeq(p[ByKey(p, k)].deps, LAMBDA x, y: x < y))
                        EXCEPT !.sorted = Append(@, ByKey(p, k))]
  IN FoldLeft(LAMBDA a, k: VisitKey[a, k], [visited |-> {}, sorted |-> <<>>], KeysOf(p)).sorted

Decompose ==
  /\ subtasks = <<>>
  /\ \E n \in 1..MaxSubtasks: subtasks' \in [1..n -> Subtask]
  /\ plan' = SortSubtasks(subtasks')
  /\ UNCHANGED <<tableVars, current, completed, executed>>

\* A custom agent that is on goes before a built-in one of the same name.
AgentFor(name) ==
  IF name \in Custom /\ agents[name] = "on" THEN "custom"
  ELSE IF name \in BuiltIn THEN "built-in" ELSE "self"

Delegate ==
  /\ current = NoSubtask /\ plan # <<>>
  /\ LET i == Head(plan)
         told == [d \in subtasks[i].deps \cap DOMAIN completed |-> completed[d]]
     IN \E name \in Custom \cup BuiltIn \cup {"self"}:
          current' = [index |-> i, told |-> told, by |-> AgentFor(name)]
  /\ plan' = Tail(plan)
  /\ UNCHANGED <<tableVars, subtasks, completed, executed>>

\* What fails is a text like what succeeds.
SubtaskReturns ==
  /\ current # NoSubtask
  /\ LET id == KeptAs(subtasks, current.index)
     IN completed' = [d \in DOMAIN completed \cup {id} |-> IF d = id THEN current.index ELSE completed[d]]
  /\ executed' = Append(executed, [index |-> current.index, told |-> current.told])
  /\ current' = NoSubtask
  /\ UNCHANGED <<tableVars, subtasks, plan>>

DelegationNext ==
  \/ \E n \in Custom: CreateAgent(n) \/ DeleteAgent(n) \/ \E o \in Operators: ToggleReads(o, n)
  \/ \E o \in Operators: ToggleWrites(o)
  \/ Decompose \/ Delegate \/ SubtaskReturns

DelegationSpec == DelegationInit /\ [][DelegationNext]_delegationVars

-------------------------------------------------------------------------------
(* Properties. *)

DelegationTypeOK ==
  /\ agents \in [Custom -> {"on", "off", "none"}] /\ operations \in 0..MaxOperations
  /\ \A i \in DOMAIN subtasks: subtasks[i] \in Subtask
  /\ ToSet(plan) \cup {executed[i].index: i \in DOMAIN executed} \subseteq DOMAIN subtasks
  /\ current.by \in {"custom", "built-in", "self", "none"}

\* An agent is on after an even number of toggles, unless another request was
\* served between the two holds of the lock of one.
SwitchFollowsToggles ==
  \A n \in Custom:
    n \notin crossed /\ agents[n] # "none" =>
      (agents[n] = "on") = (switched[n] % 2 = 0)

\* A plan is executed to its end, each subtask once, but of those whose ids (or
\* places, without an id) are the same only the last.
StandsIn(i) == \A j \in DOMAIN subtasks: SortedAs(subtasks, j) = SortedAs(subtasks, i) => j <= i
EachSubtaskOnce ==
  subtasks # <<>> /\ plan = <<>> /\ current = NoSubtask =>
    \A i \in DOMAIN subtasks:
      Len(SelectSeq(executed, LAMBDA e: e.index = i)) = IF StandsIn(i) THEN 1 ELSE 0

\* What a subtask is told as the result of another is the result of that one,
\* unless the model has left out an id.
ToldTheRightResult ==
  \A i \in DOMAIN executed: \A d \in DOMAIN executed[i].told:
    \/ \E j \in DOMAIN subtasks: subtasks[j].id = NoId
    \/ subtasks[executed[i].told[d]].id = d

\* And it is told the results of all it depends on that have been executed.
ToldAllThereIs ==
  (\A j \in DOMAIN subtasks: subtasks[j].id # NoId) =>
    \A i \in DOMAIN executed: \A d \in subtasks[executed[i].index].deps:
      (\E j \in 1..(i - 1): subtasks[executed[j].index].id = d) => d \in DOMAIN executed[i].told

\* What holds of a plan by the sort of its subtasks.
DelegationSorted ==
  DelegationTypeOK /\ EachSubtaskOnce /\ ToldTheRightResult /\ ToldAllThereIs
===============================================================================
