------------------------ MODULE CircuitBreakerProofs ------------------------
(***************************************************************************)
(* Theorems of CircuitBreaker for every set of profiles and threads, every  *)
(* route, threshold and timeout: the type invariant, the agreement of each  *)
(* breaker's state with its count, the breakers of profiles without a key,  *)
(* and, when the profiles of the chat chain name different models, that no  *)
(* task fails before every profile of its route had its chance.             *)
(***************************************************************************)
EXTENDS CircuitBreaker, WellFoundedInduction, TLAPS

-----------------------------------------------------------------------------
(* The chains                                                                *)

LEMMA ChatType ==
  /\ Chat \in Seq(Profiles)
  /\ DOMAIN Chat = 1..Len(Chat)
  /\ Len(Chat) \in Nat
  BY BreakerAssumption DEF Chat, Tasks

\* A set of positions of the chain has a last one.
LEMMA LastPosition ==
  ASSUME NEW S, S \subseteq DOMAIN Chat, S # {}
  PROVE  \E j \in S : \A k \in S : k <= j
<1> DEFINE T == {Len(Chat) - j : j \in S}
           Less == OpToRel(<, Nat)
<1>1. T \subseteq Nat /\ T # {}
  BY ChatType
<1>2. IsWellFoundedOn(Less, Nat)
  BY NatLessThanWellFounded
<1>3. PICK x \in T : \A y \in T : ~(<<y, x>> \in Less)
  <2> HIDE DEF T, Less
  <2> QED BY <1>1, <1>2, WFMin
<1>4. ASSUME NEW y \in T
      PROVE  x <= y
  <2>1. x \in Nat /\ y \in Nat
    BY <1>1
  <2>2. Less = {ss \in Nat \X Nat : ss[1] < ss[2]}
    BY DEF OpToRel
  <2>3. <<y, x>> \notin Less
    BY <1>3
  <2> HIDE DEF T, Less
  <2>4. ~(y < x)
    BY <2>1, <2>2, <2>3
  <2>5. QED
    BY <2>1, <2>4
<1>5. PICK j \in S : x = Len(Chat) - j
  BY <1>3
<1>6. ASSUME NEW k \in S
      PROVE  k <= j
  <2>1. Len(Chat) - k \in T
    OBVIOUS
  <2>2. x <= Len(Chat) - k
    BY <1>4, <2>1
  <2>3. j \in Int /\ k \in Int /\ Len(Chat) \in Int
    BY ChatType
  <2> HIDE DEF T
  <2>4. QED
    BY <1>5, <2>2, <2>3
<1>7. QED
  BY <1>6

\* The last profile that names a model is a profile of the chain, and names
\* the same model.
LEMMA LastWithModelType ==
  ASSUME NEW i \in DOMAIN Chat
  PROVE  /\ LastWithModel(i) \in DOMAIN Chat
         /\ ChatModel(LastWithModel(i)) = ChatModel(i)
<1> DEFINE S == {j \in DOMAIN Chat : ChatModel(j) = ChatModel(i)}
<1>1. \E j \in S : \A k \in S : k <= j
  BY LastPosition
<1>2. \E j \in DOMAIN Chat :
         /\ ChatModel(j) = ChatModel(i)
         /\ \A k \in DOMAIN Chat : ChatModel(k) = ChatModel(i) => k <= j
  BY <1>1
<1>3. QED
  BY <1>2 DEF LastWithModel

\* Every chain a task may walk is a sequence of profiles.
LEMMA ChainsType ==
  ASSUME NEW task \in Tasks, NEW chain \in Chains(task)
  PROVE  chain \in Seq(Profiles)
<1>1. CASE task # "chat"
  BY <1>1, BreakerAssumption DEF Chains
<1>2. CASE task = "chat"
  <2>1. PICK f \in Rankings : chain = Reordered(f)
    BY <1>2 DEF Chains
  <2>2. f \in [DOMAIN Chat -> DOMAIN Chat]
    BY DEF Rankings, Bijection, Injection
  <2>3. \A k \in 1..Len(Chat) : Chat[LastWithModel(f[k])] \in Profiles
    BY <2>2, ChatType, LastWithModelType
  <2>4. QED
    BY <2>1, <2>3, ChatType DEF Reordered
<1>3. QED
  BY <1>1, <1>2

-----------------------------------------------------------------------------
(* Type correctness                                                          *)

\* What the state property returns is a state.
LEMMA StateReadType ==
  ASSUME BreakerTypeOK, NEW p \in Profiles
  PROVE  StateRead(p) \in States
  BY DEF BreakerTypeOK, StateRead, States

\* A thread inside a task has a job, and its position names a profile.
LEMMA JobOfThread ==
  ASSUME BreakerTypeOK, NEW t \in Threads, bpc[t] # "idle"
  PROVE  /\ job[t] \in Job
         /\ job[t].pos \in 1..Len(job[t].chain) + 1
         /\ job[t].chain \in Seq(Profiles)
         /\ Len(job[t].chain) \in Nat
         /\ InChain(t) => /\ job[t].pos + 1 \in 1..Len(job[t].chain) + 1
                          /\ Current(t) \in Profiles
<1>1. job[t] \in Job
  BY DEF BreakerTypeOK
<1>2. job[t].chain \in Seq(Profiles)
  BY <1>1 DEF Job
<1>3. job[t].pos \in 1..Len(job[t].chain) + 1
  BY DEF BreakerTypeOK
<1>4. ASSUME InChain(t)
      PROVE  /\ job[t].pos + 1 \in 1..Len(job[t].chain) + 1
             /\ Current(t) \in Profiles
  <2>1. job[t].pos \in 1..Len(job[t].chain)
    BY <1>2, <1>4 DEF InChain
  <2>2. QED
    BY <1>2, <2>1 DEF Current
<1>5. QED
  BY <1>1, <1>2, <1>3, <1>4

\* Going on to the next profile keeps the type of the thread's locals.
LEMMA AdvanceType ==
  ASSUME BreakerTypeOK, NEW t \in Threads, bpc[t] # "idle", InChain(t),
         Advance(t)
  PROVE  /\ bpc' \in [Threads -> {"idle", "check", "call"}]
         /\ job' \in [Threads -> Job \cup {NoJob}]
         /\ \A u \in Threads :
              /\ job'[u] = NoJob <=> bpc'[u] = "idle"
              /\ bpc'[u] # "idle" => job'[u].pos \in 1..Len(job'[u].chain) + 1
              /\ bpc'[u] = "call" => job'[u].pos \in DOMAIN job'[u].chain
<1> DEFINE new == [job[t] EXCEPT !.pos = @ + 1,
                                 !.attempts = @ \cup {Current(t)}]
<1>1. job[t] \in Job /\ Current(t) \in Profiles
  BY JobOfThread
<1>2. job' = [job EXCEPT ![t] = new]
  BY DEF Advance
<1>3. new \in Job /\ new.chain = job[t].chain /\ new.pos = job[t].pos + 1
  <2>1. job[t].attempts \cup {Current(t)} \in SUBSET Profiles
    BY <1>1 DEF Job
  <2>2. job[t].pos + 1 \in Nat
    BY <1>1 DEF Job
  <2>3. QED
    BY <1>1, <2>1, <2>2 DEF Job
<1>4. new.pos \in 1..Len(new.chain) + 1
  BY <1>3, JobOfThread
<1>5. bpc' = [bpc EXCEPT ![t] = "check"]
  BY DEF Advance
<1>6. new # NoJob
  BY <1>3, BreakerAssumption
<1> HIDE DEF new
<1>7. QED
  BY <1>2, <1>3, <1>4, <1>5, <1>6 DEF BreakerTypeOK, InChain

LEMMA BreakerInitType == BreakerInit => BreakerTypeOK
  BY BreakerAssumption DEF BreakerInit, BreakerTypeOK, States

\* Recording a failure, or a success, keeps the type of the breakers.
LEMMA RecordType ==
  ASSUME BreakerTypeOK, NEW p \in Profiles,
         RecordFailure(p) \/ RecordSuccess(p)
  PROVE  /\ state' \in [Profiles -> States]
         /\ failures' \in [Profiles -> 0..FailureThreshold]
         /\ cooldown' \in [Profiles -> 0..RecoveryTimeout]
<1>1. CASE RecordFailure(p)
  BY <1>1, BreakerAssumption DEF BreakerTypeOK, RecordFailure, States
<1>2. CASE RecordSuccess(p)
  BY <1>2, BreakerAssumption DEF BreakerTypeOK, RecordSuccess, States
<1>3. QED
  BY <1>1, <1>2

LEMMA BreakerNextType ==
  ASSUME BreakerTypeOK, [BreakerNext]_breakerVars
  PROVE  BreakerTypeOK'
<1>1. ASSUME NEW t \in Threads, NEW task \in Tasks,
             NEW chain \in Chains(task), StartTask(t, task, chain)
      PROVE  BreakerTypeOK'
  <2> DEFINE new == [task |-> task, chain |-> chain, pos |-> 1,
                     attempts |-> {}]
  <2>1. chain \in Seq(Profiles)
    BY ChainsType
  <2>2. new \in Job /\ new.pos = 1 /\ new.chain = chain
    BY <2>1 DEF Job, States
  <2>3. 1 \in 1..Len(chain) + 1
    BY <2>1
  <2>4. new # NoJob
    BY <2>2, BreakerAssumption
  <2>5. /\ bpc' = [bpc EXCEPT ![t] = "check"]
        /\ job' = [job EXCEPT ![t] = new]
        /\ UNCHANGED breakers
    BY <1>1 DEF StartTask
  <2> HIDE DEF new
  <2>6. QED
    BY <2>2, <2>3, <2>4, <2>5 DEF BreakerTypeOK, breakers, InChain
<1>2. ASSUME NEW t \in Threads, SkipOpen(t)
      PROVE  BreakerTypeOK'
  BY <1>2, AdvanceType DEF SkipOpen, AtProfile, BreakerTypeOK, breakers, InChain
<1>3. ASSUME NEW t \in Threads, SkipUnconfigured(t)
      PROVE  BreakerTypeOK'
  <2>1. StateRead(Current(t)) \in States
    BY <1>3, JobOfThread, StateReadType DEF SkipUnconfigured, AtProfile
  <2>2. state' \in [Profiles -> States]
    BY <1>3, <2>1 DEF SkipUnconfigured, BreakerTypeOK
  <2>3. QED
    BY <1>3, <2>2, AdvanceType
    DEF SkipUnconfigured, AtProfile, BreakerTypeOK, InChain
<1>4. ASSUME NEW t \in Threads, CallProvider(t)
      PROVE  BreakerTypeOK'
  <2>1. StateRead(Current(t)) \in States
    BY <1>4, JobOfThread, StateReadType DEF CallProvider, AtProfile
  <2>2. state' \in [Profiles -> States]
    BY <1>4, <2>1 DEF CallProvider, BreakerTypeOK
  <2>3. QED
    BY <1>4, <2>2 DEF CallProvider, AtProfile, BreakerTypeOK, InChain
<1>5. ASSUME NEW t \in Threads, Answer(t)
      PROVE  BreakerTypeOK'
  <2>1. Current(t) \in Profiles
    BY <1>5, JobOfThread DEF Answer, AtProfile
  <2>2. QED
    BY <1>5, <2>1, RecordType DEF Answer, BreakerTypeOK, InChain
<1>6. ASSUME NEW t \in Threads, CallFails(t)
      PROVE  BreakerTypeOK'
  <2>1. Current(t) \in Profiles
    BY <1>6, JobOfThread DEF CallFails, AtProfile
  <2>2. QED
    BY <1>6, <2>1, RecordType, AdvanceType
    DEF CallFails, AtProfile, BreakerTypeOK, InChain
<1>7. ASSUME NEW t \in Threads, RaiseExhausted(t)
      PROVE  BreakerTypeOK'
  BY <1>7 DEF RaiseExhausted, BreakerTypeOK, breakers, InChain
<1>8. ASSUME NEW p \in Profiles, ReadStatus(p)
      PROVE  BreakerTypeOK'
  BY <1>8, StateReadType DEF ReadStatus, BreakerTypeOK, InChain
<1>9. CASE Tick
  <2>1. cooldown' \in [Profiles -> 0..RecoveryTimeout]
    BY <1>9, BreakerAssumption DEF Tick, BreakerTypeOK
  <2>2. QED
    BY <1>9, <2>1 DEF Tick, BreakerTypeOK, InChain
<1>10. CASE UNCHANGED breakerVars
  BY <1>10 DEF breakerVars, BreakerTypeOK, InChain
<1>11. QED
  BY <1>1, <1>2, <1>3, <1>4, <1>5, <1>6, <1>7, <1>8, <1>9, <1>10
  DEF BreakerNext, TaskSteps

\* Type correctness of the breakers and of every task in progress; a task
\* never moves past the end of its chain, and never calls a provider there.
THEOREM BreakerTypeCorrect == BreakerSpec => []BreakerTypeOK
<1>1. QED
  BY BreakerInitType, BreakerNextType, PTL DEF BreakerSpec

-----------------------------------------------------------------------------
(* The state of a breaker and its count                                      *)

\* Each method of a breaker keeps the agreement.
LEMMA MethodsKeepCounts ==
  ASSUME BreakerTypeOK, BreakerCounts, NEW p \in Profiles,
         \/ RecordFailure(p)
         \/ RecordSuccess(p)
         \/ /\ state' = [state EXCEPT ![p] = StateRead(p)]
            /\ UNCHANGED failures
  PROVE  BreakerCounts'
<1>1. CASE RecordFailure(p)
  BY <1>1, BreakerAssumption
  DEF RecordFailure, BreakerCounts, BreakerTypeOK, States
<1>2. CASE RecordSuccess(p)
  BY <1>2, BreakerAssumption
  DEF RecordSuccess, BreakerCounts, BreakerTypeOK
<1>3. CASE /\ state' = [state EXCEPT ![p] = StateRead(p)]
           /\ UNCHANGED failures
  BY <1>3 DEF StateRead, BreakerCounts, BreakerTypeOK
<1>4. QED
  BY <1>1, <1>2, <1>3

LEMMA BreakerCountsStep ==
  ASSUME BreakerTypeOK, BreakerCounts, [BreakerNext]_breakerVars
  PROVE  BreakerCounts'
<1>1. ASSUME UNCHANGED <<state, failures>>
      PROVE  BreakerCounts'
  BY <1>1 DEF BreakerCounts
<1>2. ASSUME NEW t \in Threads, TaskSteps(t)
      PROVE  BreakerCounts'
  <2>1. CASE SkipOpen(t) \/ RaiseExhausted(t)
    BY <1>1, <2>1 DEF SkipOpen, RaiseExhausted, breakers
  <2>2. CASE SkipUnconfigured(t)
    BY <2>2, JobOfThread, MethodsKeepCounts DEF SkipUnconfigured, AtProfile
  <2>3. CASE CallProvider(t)
    BY <2>3, JobOfThread, MethodsKeepCounts DEF CallProvider, AtProfile
  <2>4. CASE Answer(t)
    BY <2>4, JobOfThread, MethodsKeepCounts DEF Answer, AtProfile
  <2>5. CASE CallFails(t)
    BY <2>5, JobOfThread, MethodsKeepCounts DEF CallFails, AtProfile
  <2>6. QED
    BY <1>2, <2>1, <2>2, <2>3, <2>4, <2>5 DEF TaskSteps
<1>3. ASSUME NEW p \in Profiles, ReadStatus(p)
      PROVE  BreakerCounts'
  BY <1>3, MethodsKeepCounts DEF ReadStatus
<1>4. ASSUME NEW t \in Threads, NEW task \in Tasks,
             NEW chain \in Chains(task), StartTask(t, task, chain)
      PROVE  BreakerCounts'
  BY <1>1, <1>4 DEF StartTask, breakers
<1>5. CASE Tick \/ UNCHANGED breakerVars
  BY <1>1, <1>5 DEF Tick, breakerVars
<1>6. QED
  BY <1>2, <1>3, <1>4, <1>5 DEF BreakerNext

\* However the answers of overlapping calls are ordered, a breaker is closed
\* exactly when fewer than FailureThreshold failures in a row are recorded.
THEOREM StateMatchesCount == BreakerSpec => []BreakerCounts
<1>1. BreakerInit => BreakerCounts
  BY BreakerAssumption DEF BreakerInit, BreakerCounts
<1>2. QED
  BY <1>1, BreakerCountsStep, BreakerTypeCorrect, PTL DEF BreakerSpec

-----------------------------------------------------------------------------
(* Profiles without an API key                                               *)

\* UnconfiguredStaysClosed is not inductive: that no call of such a profile
\* is under way must be part of the invariant.
ConfiguredCalls ==
  \A t \in Threads : bpc[t] = "call" => Current(t) \in Configured

UnconfiguredInv == UnconfiguredStaysClosed /\ ConfiguredCalls

\* A step of one thread leaves the calls of the others alone.
LEMMA OtherCalls ==
  ASSUME BreakerTypeOK, ConfiguredCalls, NEW t \in Threads, NEW j, NEW pc,
         job' = [job EXCEPT ![t] = j], bpc' = [bpc EXCEPT ![t] = pc],
         pc = "call" => j.chain[j.pos] \in Configured
  PROVE  ConfiguredCalls'
  BY DEF ConfiguredCalls, Current, BreakerTypeOK

LEMMA UnconfiguredStep ==
  ASSUME BreakerTypeOK, UnconfiguredInv, [BreakerNext]_breakerVars
  PROVE  UnconfiguredInv'
<1> USE DEF UnconfiguredInv
<1>1. ASSUME NEW t \in Threads, Advance(t)
      PROVE  ConfiguredCalls'
  BY <1>1 DEF Advance, ConfiguredCalls, Current, BreakerTypeOK
<1>2. ASSUME NEW p \in Profiles, p \in Configured,
             \/ RecordFailure(p) \/ RecordSuccess(p)
      PROVE  UnconfiguredStaysClosed'
  BY <1>2 DEF RecordFailure, RecordSuccess, UnconfiguredStaysClosed,
              BreakerTypeOK
<1>3. ASSUME NEW p \in Profiles, state' = [state EXCEPT ![p] = StateRead(p)]
      PROVE  UnconfiguredStaysClosed'
  BY <1>3 DEF StateRead, UnconfiguredStaysClosed, BreakerTypeOK
<1>4. ASSUME NEW t \in Threads, SkipOpen(t)
      PROVE  UnconfiguredInv'
  BY <1>1, <1>4 DEF SkipOpen, UnconfiguredStaysClosed, breakers
<1>5. ASSUME NEW t \in Threads, SkipUnconfigured(t)
      PROVE  UnconfiguredInv'
  <2>1. Current(t) \in Profiles
    BY <1>5, JobOfThread DEF SkipUnconfigured, AtProfile
  <2>2. QED
    BY <1>1, <1>3, <1>5, <2>1 DEF SkipUnconfigured
<1>6. ASSUME NEW t \in Threads, CallProvider(t)
      PROVE  UnconfiguredInv'
  <2>1. Current(t) \in Profiles
    BY <1>6, JobOfThread DEF CallProvider, AtProfile
  <2>2. UnconfiguredStaysClosed'
    BY <1>3, <1>6, <2>1 DEF CallProvider
  <2>3. ConfiguredCalls'
    BY <1>6 DEF CallProvider, ConfiguredCalls, Current, BreakerTypeOK
  <2>4. QED
    BY <2>2, <2>3
<1>7. ASSUME NEW t \in Threads, Answer(t)
      PROVE  UnconfiguredInv'
  <2>1. Current(t) \in Profiles /\ Current(t) \in Configured
    BY <1>7, JobOfThread DEF Answer, AtProfile, ConfiguredCalls
  <2>2. ConfiguredCalls'
    BY <1>7, OtherCalls DEF Answer
  <2>3. QED
    BY <1>2, <1>7, <2>1, <2>2 DEF Answer
<1>8. ASSUME NEW t \in Threads, CallFails(t)
      PROVE  UnconfiguredInv'
  <2>1. Current(t) \in Profiles /\ Current(t) \in Configured
    BY <1>8, JobOfThread DEF CallFails, AtProfile, ConfiguredCalls
  <2>2. QED
    BY <1>1, <1>2, <1>8, <2>1 DEF CallFails
<1>9. ASSUME NEW t \in Threads, RaiseExhausted(t)
      PROVE  UnconfiguredInv'
  BY <1>9, OtherCalls DEF RaiseExhausted, breakers, UnconfiguredStaysClosed
<1>10. ASSUME NEW t \in Threads, NEW task \in Tasks,
              NEW chain \in Chains(task), StartTask(t, task, chain)
       PROVE  UnconfiguredInv'
  BY <1>10, OtherCalls DEF StartTask, breakers, UnconfiguredStaysClosed
<1>11. ASSUME UNCHANGED <<bpc, job>>
       PROVE  ConfiguredCalls'
  BY <1>11 DEF ConfiguredCalls, Current
<1>12. ASSUME NEW p \in Profiles, ReadStatus(p)
       PROVE  UnconfiguredInv'
  BY <1>3, <1>11, <1>12 DEF ReadStatus
<1>13. CASE Tick \/ UNCHANGED breakerVars
  BY <1>11, <1>13 DEF Tick, breakerVars, UnconfiguredStaysClosed
<1>14. QED
  BY <1>4, <1>5, <1>6, <1>7, <1>8, <1>9, <1>10, <1>12, <1>13
  DEF BreakerNext, TaskSteps

\* The missing key of a profile never trips its breaker, however many tasks
\* meet the profile.
THEOREM UnconfiguredNeverTrips == BreakerSpec => []UnconfiguredStaysClosed
<1>1. BreakerInit => UnconfiguredInv
  BY DEF BreakerInit, UnconfiguredInv, UnconfiguredStaysClosed, ConfiguredCalls
<1>2. UnconfiguredInv => UnconfiguredStaysClosed
  BY DEF UnconfiguredInv
<1>3. QED
  BY <1>1, <1>2, UnconfiguredStep, BreakerTypeCorrect, PTL DEF BreakerSpec

-----------------------------------------------------------------------------
(* Every profile of the route is tried                                       *)

\* The models of the chat chain are all different.
OwnModel == \A i, j \in DOMAIN Chat : ChatModel(i) = ChatModel(j) => i = j

\* The attempts are the profiles that the task has left behind, and its chain
\* is made of the profiles of its route.
Tried(j) ==
  /\ j.attempts = {j.chain[i] : i \in 1..j.pos - 1}
  /\ Range(j.chain) = Range(Route[j.task])

TriedInv == \A t \in Threads : bpc[t] # "idle" => Tried(job[t])

\* A ranking of different models, mapped back, is the chain in another order.
LEMMA ReorderedCovers ==
  ASSUME OwnModel, NEW f \in Rankings
  PROVE  Range(Reordered(f)) = Range(Chat)
<1>1. \A i \in DOMAIN Chat : LastWithModel(i) = i
  BY LastWithModelType DEF OwnModel
<1>2. /\ f \in [DOMAIN Chat -> DOMAIN Chat]
      /\ \A j \in DOMAIN Chat : \E k \in DOMAIN Chat : f[k] = j
  BY DEF Rankings, Bijection, Injection, Surjection
<1>3. \A k \in 1..Len(Chat) : Chat[LastWithModel(f[k])] = Chat[f[k]]
  BY <1>1, <1>2, ChatType
<1>4. Reordered(f) = Chat \/ Reordered(f) = [k \in 1..Len(Chat) |-> Chat[f[k]]]
  BY <1>3 DEF Reordered
<1>5. CASE Reordered(f) = Chat
  BY <1>5
<1>6. CASE Reordered(f) = [k \in 1..Len(Chat) |-> Chat[f[k]]]
  BY <1>2, <1>6, ChatType DEF Range
<1>7. QED
  BY <1>4, <1>5, <1>6

LEMMA ChainsCover ==
  ASSUME OwnModel, NEW task \in Tasks, NEW chain \in Chains(task)
  PROVE  Range(chain) = Range(Route[task])
  BY ReorderedCovers DEF Chains, Chat

\* A step of one thread that keeps its own job in order keeps them all.
LEMMA TriedLocal ==
  ASSUME BreakerTypeOK, TriedInv, NEW t \in Threads, NEW j, NEW pc,
         job' = [job EXCEPT ![t] = j], bpc' = [bpc EXCEPT ![t] = pc],
         pc # "idle" => Tried(j)
  PROVE  TriedInv'
  BY DEF TriedInv, BreakerTypeOK

\* Going on to the next profile records the one left behind.
LEMMA AdvanceTried ==
  ASSUME BreakerTypeOK, TriedInv, NEW t \in Threads, bpc[t] # "idle",
         InChain(t), Advance(t)
  PROVE  TriedInv'
<1> DEFINE new == [job[t] EXCEPT !.pos = @ + 1,
                                 !.attempts = @ \cup {Current(t)}]
<1>1. /\ job[t] \in Job /\ job[t].pos \in 1..Len(job[t].chain) + 1
      /\ Len(job[t].chain) \in Nat
  BY JobOfThread
<1>2. /\ new.chain = job[t].chain /\ new.task = job[t].task
      /\ new.pos = job[t].pos + 1
      /\ new.attempts = job[t].attempts \cup {Current(t)}
  BY <1>1 DEF Job
<1>4. /\ bpc' = [bpc EXCEPT ![t] = "check"]
      /\ job' = [job EXCEPT ![t] = new]
  BY DEF Advance
<1> HIDE DEF new
<1>6. 1..new.pos - 1 = (1..job[t].pos - 1) \cup {job[t].pos}
  BY <1>1, <1>2
<1>7. {new.chain[i] : i \in 1..new.pos - 1}
        = {job[t].chain[i] : i \in 1..job[t].pos - 1} \cup {Current(t)}
  BY <1>2, <1>6 DEF Current
<1>8. Tried(new)
  BY <1>2, <1>7 DEF TriedInv, Tried
<1>9. QED
  BY <1>4, <1>8, TriedLocal

LEMMA TriedStep ==
  ASSUME OwnModel, BreakerTypeOK, TriedInv, [BreakerNext]_breakerVars
  PROVE  TriedInv'
<1>1. ASSUME NEW t \in Threads, NEW task \in Tasks,
             NEW chain \in Chains(task), StartTask(t, task, chain)
      PROVE  TriedInv'
  <2> DEFINE new == [task |-> task, chain |-> chain, pos |-> 1,
                     attempts |-> {}]
  <2>1. Range(chain) = Range(Route[task])
    BY ChainsCover
  <2>2. /\ new.chain = chain /\ new.task = task
        /\ new.attempts = {}
        /\ {new.chain[i] : i \in 1..new.pos - 1} = {}
    OBVIOUS
  <2>3. /\ bpc' = [bpc EXCEPT ![t] = "check"]
        /\ job' = [job EXCEPT ![t] = new]
    BY <1>1 DEF StartTask
  <2> HIDE DEF new
  <2>4. Tried(new)
    BY <2>1, <2>2 DEF Tried
  <2>5. QED
    BY <2>3, <2>4, TriedLocal
<1>2. ASSUME NEW t \in Threads, SkipOpen(t) \/ SkipUnconfigured(t) \/ CallFails(t)
      PROVE  TriedInv'
  BY <1>2, AdvanceTried DEF SkipOpen, SkipUnconfigured, CallFails, AtProfile
<1>3. ASSUME NEW t \in Threads, CallProvider(t)
      PROVE  TriedInv'
  BY <1>3 DEF CallProvider, AtProfile, TriedInv, BreakerTypeOK
<1>4. ASSUME NEW t \in Threads, Answer(t) \/ RaiseExhausted(t)
      PROVE  TriedInv'
  <2>1. /\ bpc' = [bpc EXCEPT ![t] = "idle"]
        /\ job' = [job EXCEPT ![t] = NoJob]
    BY <1>4 DEF Answer, RaiseExhausted
  <2>2. QED
    BY <2>1, TriedLocal
<1>5. ASSUME UNCHANGED <<bpc, job>>
      PROVE  TriedInv'
  BY <1>5 DEF TriedInv
<1>6. QED
  BY <1>1, <1>2, <1>3, <1>4, <1>5
  DEF BreakerNext, TaskSteps, ReadStatus, Tick, breakerVars

LEMMA TriedInvariant ==
  ASSUME BreakerTypeOK, TriedInv
  PROVE  EveryProfileTried
<1>1. ASSUME NEW t \in Threads, Exhausted(t)
      PROVE  job[t].attempts = Range(Route[job[t].task])
  <2>1. /\ job[t].chain \in Seq(Profiles) /\ Len(job[t].chain) \in Nat
        /\ job[t].pos \in 1..Len(job[t].chain) + 1
    BY <1>1, JobOfThread DEF Exhausted
  <2>2. job[t].pos \notin 1..Len(job[t].chain)
    BY <1>1, <2>1 DEF Exhausted, InChain
  <2>3. 1..job[t].pos - 1 = DOMAIN job[t].chain
    BY <2>1, <2>2
  <2>4. {job[t].chain[i] : i \in 1..job[t].pos - 1} = Range(job[t].chain)
    BY <2>3 DEF Range
  <2>5. QED
    BY <1>1, <2>4 DEF TriedInv, Tried, Exhausted
<1>2. QED
  BY <1>1 DEF EveryProfileTried

\* When the profiles of the chat chain name different models, no reordering
\* loses a fallback: a task fails only after its whole route.
THEOREM NoFallbackLost ==
  ASSUME OwnModel
  PROVE  BreakerSpec => []EveryProfileTried
<1>1. BreakerInit => TriedInv
  BY DEF BreakerInit, TriedInv
<1>2. BreakerTypeOK /\ TriedInv /\ [BreakerNext]_breakerVars => TriedInv'
  BY TriedStep
<1>3. BreakerTypeOK /\ TriedInv => EveryProfileTried
  BY TriedInvariant
<1>4. QED
  BY <1>1, <1>2, <1>3, BreakerTypeCorrect, PTL DEF BreakerSpec
=============================================================================
