--------------------------- MODULE CircuitBreaker ---------------------------
(***************************************************************************)
(* The fallback chains of the bridge: run_chat_task and _raw_embed          *)
(* (src/src/bridge/app.py) walk a chain of provider profiles, each behind   *)
(* the circuit breaker of its name (src/src/bridge/circuit_breaker.py).     *)
(*                                                                         *)
(* A breaker's own lock makes each of its methods one step.  The provider   *)
(* call between is_available and record_success / record_failure is not     *)
(* locked: any number of request threads can be inside it, and the breaker  *)
(* can change many times before the answer is recorded.                     *)
(***************************************************************************)
EXTENDS Integers, Sequences, Functions

CONSTANTS
  Profiles,          \* profile names of model_router.json
  Model,             \* the model each profile names; two may name the same
  Configured,        \* the profiles whose API key is set (or not needed)
  Route,             \* task -> the chain model_router.json gives it
  Threads,           \* request threads
  NoJob,             \* the thread runs no task
  FailureThreshold,  \* CB_FAILURE_THRESHOLD
  RecoveryTimeout    \* CB_RECOVERY_TIMEOUT, in ticks of the clock

Tasks == {"chat", "embeddings"}
States == {"closed", "open", "half_open"}

\* The locals of run_chat_task or _raw_embed: pos is the place in the chain,
\* attempts the profiles listed in the error that ends a task without answer.
Job == [task : Tasks, chain : Seq(Profiles), pos : Nat,
        attempts : SUBSET Profiles]

ASSUME BreakerAssumption ==
  /\ Configured \subseteq Profiles
  /\ Route \in [Tasks -> Seq(Profiles)]
  /\ FailureThreshold \in Nat \ {0}
  /\ RecoveryTimeout \in Nat
  /\ NoJob \notin Job

VARIABLES
  state,      \* _state of each breaker
  failures,   \* _failure_count, which only matters up to FailureThreshold
  cooldown,   \* ticks left until recovery_timeout after _last_failure_time
  bpc,        \* where each thread is: "idle", "check" or "call"
  job         \* the locals of its task

breakers == <<state, failures, cooldown>>
breakerVars == <<state, failures, cooldown, bpc, job>>

InChain(t) == job[t].pos \in DOMAIN job[t].chain

BreakerTypeOK ==
  /\ state \in [Profiles -> States]
  /\ failures \in [Profiles -> 0..FailureThreshold]
  /\ cooldown \in [Profiles -> 0..RecoveryTimeout]
  /\ bpc \in [Threads -> {"idle", "check", "call"}]
  /\ job \in [Threads -> Job \cup {NoJob}]
  /\ \A t \in Threads :
       /\ job[t] = NoJob <=> bpc[t] = "idle"
       /\ bpc[t] # "idle" => job[t].pos \in 1..Len(job[t].chain) + 1
       /\ bpc[t] = "call" => InChain(t)

BreakerInit ==
  /\ state = [p \in Profiles |-> "closed"]
  /\ failures = [p \in Profiles |-> 0]
  /\ cooldown = [p \in Profiles |-> 0]
  /\ bpc = [t \in Threads |-> "idle"]
  /\ job = [t \in Threads |-> NoJob]

-----------------------------------------------------------------------------
(* The methods of a breaker                                                  *)

\* The state property: an open breaker whose cooldown is over is half open.
StateRead(p) ==
  IF state[p] = "open" /\ cooldown[p] = 0 THEN "half_open" ELSE state[p]

\* Mutant of Available: every profile may be called.
AvailableAlways(p) == StateRead(p) \in States

Available(p) == StateRead(p) \in {"closed", "half_open"}

\* Mutant of RecordSuccess: the breaker is closed, the count is kept.
RecordSuccessKeepsCount(p) ==
  /\ state' = [state EXCEPT ![p] = "closed"]
  /\ UNCHANGED <<failures, cooldown>>

RecordSuccess(p) ==
  /\ state' = [state EXCEPT ![p] = "closed"]
  /\ failures' = [failures EXCEPT ![p] = 0]
  /\ UNCHANGED cooldown

RecordFailure(p) ==
  /\ failures' = [failures EXCEPT ![p] =
                    IF @ = FailureThreshold THEN @ ELSE @ + 1]
  /\ state' = [state EXCEPT ![p] =
                 IF @ = "half_open" \/ failures[p] + 1 >= FailureThreshold
                 THEN "open" ELSE @]
  /\ cooldown' = [cooldown EXCEPT ![p] = RecoveryTimeout]

\* GET /circuit-breakers reads the state, which may make it half open.
ReadStatus(p) ==
  /\ state[p] # StateRead(p)
  /\ state' = [state EXCEPT ![p] = StateRead(p)]
  /\ UNCHANGED <<failures, cooldown, bpc, job>>

\* Time passes.
Tick ==
  /\ \E p \in Profiles : cooldown[p] > 0
  /\ cooldown' = [p \in Profiles |->
                    IF cooldown[p] > 0 THEN cooldown[p] - 1 ELSE 0]
  /\ UNCHANGED <<state, failures, bpc, job>>

-----------------------------------------------------------------------------
(* Adaptive routing                                                          *)

Chat == Route["chat"]
ChatModel(i) == Model[Chat[i]]

\* get_model_ranking is a stable sort of the chain's models by a score, the
\* models without one last; a preference for local models is such a sort
\* too.  f[k] is the position in the chain of the k-th model of the ranking.
Rankings ==
  {f \in Bijection(DOMAIN Chat, DOMAIN Chat) :
     \E score \in [{ChatModel(i) : i \in DOMAIN Chat} -> 0..Len(Chat)] :
       \A j, k \in DOMAIN Chat :
         j < k =>
           \/ score[ChatModel(f[j])] > score[ChatModel(f[k])]
           \/ /\ score[ChatModel(f[j])] = score[ChatModel(f[k])]
              /\ f[j] < f[k]}

\* model_to_profile: of the profiles with the same model the last one wins.
LastWithModel(i) ==
  CHOOSE j \in DOMAIN Chat :
    /\ ChatModel(j) = ChatModel(i)
    /\ \A k \in DOMAIN Chat : ChatModel(k) = ChatModel(i) => k <= j

\* Mutant of Reordered: the worst model of the ranking is dropped.
ReorderedBest(f) ==
  IF \A k \in DOMAIN Chat : ChatModel(f[k]) = ChatModel(k)
  THEN Chat
  ELSE [k \in 1..Len(Chat) - 1 |-> Chat[LastWithModel(f[k])]]

\* A ranking that changes the list of models is mapped back to profiles.
Reordered(f) ==
  IF \A k \in DOMAIN Chat : ChatModel(f[k]) = ChatModel(k)
  THEN Chat
  ELSE [k \in 1..Len(Chat) |-> Chat[LastWithModel(f[k])]]

Chains(task) ==
  IF task = "chat" THEN {Reordered(f) : f \in Rankings} ELSE {Route[task]}

-----------------------------------------------------------------------------
(* run_chat_task and _raw_embed                                              *)

\* The LLM cache, or the embedding cache, has no answer; an empty chain of a
\* chat task raises at once.
StartTask(t, task, chain) ==
  /\ bpc[t] = "idle" /\ chain # <<>>
  /\ bpc' = [bpc EXCEPT ![t] = "check"]
  /\ job' = [job EXCEPT ![t] = [task |-> task, chain |-> chain, pos |-> 1,
                                attempts |-> {}]]
  /\ UNCHANGED breakers

Current(t) == job[t].chain[job[t].pos]

AtProfile(t, pc) == bpc[t] = pc /\ InChain(t)

\* Mutant of Advance: a profile is jumped over.
AdvanceTwice(t) ==
  /\ bpc' = [bpc EXCEPT ![t] = "check"]
  /\ job' = [job EXCEPT ![t].pos = @ + 2,
                          ![t].attempts = @ \cup {Current(t)}]

\* attempts.append(...), and the loop goes on to the next profile.
Advance(t) ==
  /\ bpc' = [bpc EXCEPT ![t] = "check"]
  /\ job' = [job EXCEPT ![t].pos = @ + 1,
                          ![t].attempts = @ \cup {Current(t)}]

\* if not cb.is_available: the profile is skipped.
SkipOpen(t) ==
  /\ AtProfile(t, "check")
  /\ ~Available(Current(t))
  /\ Advance(t)
  /\ UNCHANGED breakers

\* Mutant of SkipUnconfigured: the missing key is an error like another.
SkipUnconfiguredFails(t) ==
  /\ AtProfile(t, "check")
  /\ Available(Current(t)) /\ Current(t) \notin Configured
  /\ Advance(t)
  /\ RecordFailure(Current(t))

\* The breaker lets the profile through, but it has no API key.
SkipUnconfigured(t) ==
  /\ AtProfile(t, "check")
  /\ Available(Current(t)) /\ Current(t) \notin Configured
  /\ state' = [state EXCEPT ![Current(t)] = StateRead(Current(t))]
  /\ Advance(t)
  /\ UNCHANGED <<failures, cooldown>>

\* is_available, and the provider is called.
CallProvider(t) ==
  /\ AtProfile(t, "check")
  /\ Available(Current(t)) /\ Current(t) \in Configured
  /\ state' = [state EXCEPT ![Current(t)] = StateRead(Current(t))]
  /\ bpc' = [bpc EXCEPT ![t] = "call"]
  /\ UNCHANGED <<failures, cooldown, job>>

\* The provider answers: the task returns.
Answer(t) ==
  /\ AtProfile(t, "call")
  /\ RecordSuccess(Current(t))
  /\ bpc' = [bpc EXCEPT ![t] = "idle"]
  /\ job' = [job EXCEPT ![t] = NoJob]

\* The provider raises, or its timeout does.
CallFails(t) ==
  /\ AtProfile(t, "call")
  /\ RecordFailure(Current(t))
  /\ Advance(t)

\* No profile is left.
Exhausted(t) == bpc[t] = "check" /\ ~InChain(t)

RaiseExhausted(t) ==
  /\ Exhausted(t)
  /\ bpc' = [bpc EXCEPT ![t] = "idle"]
  /\ job' = [job EXCEPT ![t] = NoJob]
  /\ UNCHANGED breakers

-----------------------------------------------------------------------------
TaskSteps(t) ==
  \/ SkipOpen(t) \/ SkipUnconfigured(t) \/ CallProvider(t)
  \/ Answer(t) \/ CallFails(t) \/ RaiseExhausted(t)

BreakerNext ==
  \/ \E t \in Threads, task \in Tasks :
       \E chain \in Chains(task) : StartTask(t, task, chain)
  \/ \E t \in Threads : TaskSteps(t)
  \/ \E p \in Profiles : ReadStatus(p)
  \/ Tick

\* Every provider call has a timeout, a task in progress goes on, and time
\* passes.  That a request arrives is not assumed.
BreakerFairness ==
  /\ \A t \in Threads : WF_breakerVars(TaskSteps(t))
  /\ WF_breakerVars(Tick)

BreakerSpec == BreakerInit /\ [][BreakerNext]_breakerVars
FairBreakerSpec == BreakerSpec /\ BreakerFairness

-----------------------------------------------------------------------------
(* Properties                                                                *)

\* The state of a breaker agrees with its count, whatever order the answers
\* of overlapping calls come in: it is closed exactly when fewer than
\* FailureThreshold failures in a row have been recorded.  No order of
\* record_success and record_failure leaves a breaker closed at the limit,
\* or open with its count reset.
BreakerCounts ==
  \A p \in Profiles : state[p] = "closed" <=> failures[p] < FailureThreshold

\* run_chat_task skips a profile without an API key "without tripping the
\* circuit breaker": its breaker stays closed, through all tasks.
UnconfiguredStaysClosed ==
  \A p \in Profiles \ Configured : state[p] = "closed"

\* A task fails only when every profile of its route has been given its
\* chance: each one failed, had no API key, or was skipped by its breaker.
\* Reordering the chain for quality loses no fallback.  It holds when no two
\* profiles of the chain name the same model; see the run MCBreakerShared.
EveryProfileTried ==
  \A t \in Threads :
    Exhausted(t) =>
      job[t].attempts = Range(Route[job[t].task])

\* An open breaker cools down: the failures of calls that were under way
\* when it opened can push its recovery back, but only finitely often, for
\* no new call is let through.
CoolsDown ==
  \A p \in Profiles :
    state[p] = "open" ~> cooldown[p] = 0 \/ state[p] # "open"
=============================================================================
