------------------------------ MODULE Memories ------------------------------
(***************************************************************************)
(* The fading of memories (memory_decay.py, memory_api.py, the end of        *)
(* search in app.py) over one collection.  A score e^(-lambda * d) is kept   *)
(* as d, what the memory has faded by, in days; it is below the threshold    *)
(* when d is above Limit.  Scans, searches that confirm a memory and         *)
(* requests to forget one run in threads, and each call of Qdrant and of the *)
(* log is a step; any of them may fail.                                     *)
(***************************************************************************)
EXTENDS Naturals, FiniteSets

CONSTANTS
  Memory,         \* ids, numbers: the order in which scroll returns them
  Limit,          \* days until a score is below MEMORY_DECAY_THRESHOLD
  OneIn,          \* 5: a scan deletes one in five at most
  Callers,        \* threads, numbers: the first that is free takes a call
  MaxDay,         \* bound: the clock
  MaxCalls,       \* bound: scans, confirmations and requests to forget
  MaxBreaks       \* bound: failures and crashes

ASSUME MemoriesAssumption ==
  /\ Memory \subseteq Nat /\ Callers \subseteq Nat
  /\ Limit \in Nat /\ OneIn \in Nat /\ MaxDay \in Nat \ {0} /\ MaxCalls \in Nat /\ MaxBreaks \in Nat

VARIABLES
  day,            \* the clock
  memories,       \* Qdrant: how far each has faded, the day of last_accessed
  decayLog,       \* memory_decay_log: memory and reason
  caller,         \* each thread: where it is and what it has read
  calls, breaks,  \* history: calls and failures so far
  born,           \* history: ids given out
  confirmedOn,      \* history: the day each memory was last confirmed, 0: never
  late            \* history: memories changed after a scan had read them

memoryVars == <<day, memories, decayLog, caller, calls, breaks, born, confirmedOn, late>>

Rest == [at |-> "rest", memory |-> 0, scanned |-> 0, delete |-> {}, update |-> {}]
AtWork == {c \in Callers : caller[c].at # "rest"}
Stands(id) == id \in DOMAIN memories
WithMemory(id, fields) == [m \in DOMAIN memories \cup {id} |-> IF m = id THEN fields ELSE memories[m]]
LessMemory(id) == [m \in DOMAIN memories \ {id} |-> memories[m]]
MoveTo(c, place) == caller' = [caller EXCEPT ![c].at = place]
Break == breaks < MaxBreaks /\ breaks' = breaks + 1

\* Another thread's scan has read the memory and will write or delete it.
Overtaken(c, id) ==
  \E o \in Callers \ {c} : id \in caller[o].delete \/ \E u \in caller[o].update : u.id = id

MemoriesTypeOK ==
  /\ day \in 1..MaxDay
  /\ DOMAIN memories \subseteq born /\ born \subseteq Memory
  /\ \A id \in DOMAIN memories : memories[id].faded \in 0..Limit /\ memories[id].accessed \in 1..day
  /\ decayLog \subseteq Memory \X {"threshold_delete", "confirm", "explicit_forget"}
  /\ \A c \in Callers :
       /\ caller[c].at \in {"rest", "scroll", "log", "delete", "update",
                            "logConfirm", "raise", "logForget", "drop"}
       /\ \A u \in caller[c].update : u.faded <= Limit
  /\ calls \in 0..MaxCalls /\ breaks \in 0..MaxBreaks
  /\ confirmedOn \in [Memory -> 0..MaxDay] /\ late \subseteq born

MemoriesInit ==
  /\ day = 1 /\ memories = [m \in {} |-> 0] /\ decayLog = {}
  /\ caller = [c \in Callers |-> Rest]
  /\ calls = 0 /\ breaks = 0 /\ born = {}
  /\ confirmedOn = [m \in Memory |-> 0] /\ late = {}

NextDay ==
  /\ day < MaxDay
  /\ day' = day + 1
  /\ UNCHANGED <<memories, decayLog, caller, calls, breaks, born, confirmedOn, late>>

\* A new point has no confidence_score: 1.0, as old as it is.
RememberMemory ==
  /\ \E id \in Memory \ born :
       /\ \A m \in Memory \ born : id <= m
       /\ born' = born \cup {id}
       /\ memories' = WithMemory(id, [faded |-> 0, accessed |-> day])
  /\ UNCHANGED <<day, decayLog, caller, calls, breaks, confirmedOn, late>>

Call(c, place, id) ==
  /\ calls < MaxCalls /\ calls' = calls + 1
  /\ caller[c].at = "rest" /\ \A o \in Callers : o < c => o \in AtWork
  /\ caller' = [caller EXCEPT ![c] = [Rest EXCEPT !.at = place, !.memory = id]]
  /\ UNCHANGED <<day, memories, decayLog, breaks, born, confirmedOn, late>>

\* POST /decay/run; a search returns the memory; POST /forget.
CallScan(c) == Call(c, "scroll", 0)
CallConfirm(c) == \E id \in DOMAIN memories : Call(c, "logConfirm", id)
CallForget(c) == \E id \in DOMAIN memories : Call(c, "logForget", id)

-----------------------------------------------------------------------------
(* run_decay_scan *)

\* The whole time since the last access is taken off at every scan.
Faded(id) == memories[id].faded + (day - memories[id].accessed)

\* One point of scroll: skipped when it has not faded, else to delete or update.
ScrollPoint(c) ==
  /\ caller[c].at = "scroll"
  /\ \E id \in DOMAIN memories :
       /\ id > caller[c].memory
       /\ \A m \in DOMAIN memories : m > caller[c].memory => id <= m
       /\ LET scan == caller[c]
              below == Faded(id) > Limit
              read == [id |-> id, faded |-> Faded(id), accessed |-> memories[id].accessed]
          IN caller' = [caller EXCEPT ![c] =
               [scan EXCEPT !.memory = id, !.scanned = scan.scanned + 1,
                  !.delete = IF below THEN scan.delete \cup {id} ELSE scan.delete,
                  !.update = IF day = memories[id].accessed \/ below THEN scan.update
                             ELSE scan.update \cup {read}]]
  /\ UNCHANGED <<day, memories, decayLog, calls, breaks, born, confirmedOn, late>>

\* bulk_delete_guard
TooMany(c) == Cardinality(caller[c].delete) * OneIn > caller[c].scanned

\* The last page, or scroll raises: what was read so far is gone on with.
ScrollEnds(c) ==
  /\ caller[c].at = "scroll"
  /\ \/ (\A m \in DOMAIN memories : m <= caller[c].memory) /\ UNCHANGED breaks
     \/ Break
  /\ caller' = [caller EXCEPT ![c] = IF TooMany(c) THEN Rest ELSE [@ EXCEPT !.at = "log"]]
  /\ UNCHANGED <<day, memories, decayLog, calls, born, confirmedOn, late>>

\* The rows are committed before anything is deleted; those of what only fades,
\* written beyond a step of 0.05 and read by nothing, are left out.
LogScan(c) ==
  /\ caller[c].at = "log"
  /\ decayLog' = decayLog \cup (caller[c].delete \X {"threshold_delete"})
  /\ MoveTo(c, "delete")
  /\ UNCHANGED <<day, memories, calls, breaks, born, confirmedOn, late>>

DeletePoint(c) ==
  /\ caller[c].at = "delete"
  /\ \/ \E id \in caller[c].delete :
          /\ \/ memories' = LessMemory(id) /\ UNCHANGED breaks
             \/ Break /\ UNCHANGED memories
          /\ caller' = [caller EXCEPT ![c].delete = @ \ {id}]
     \/ caller[c].delete = {} /\ MoveTo(c, "update") /\ UNCHANGED <<memories, breaks>>
  /\ UNCHANGED <<day, decayLog, calls, born, confirmedOn, late>>

\* The score, and last_accessed as it was read.
SetPayload(c) ==
  /\ caller[c].at = "update"
  /\ \/ \E u \in caller[c].update :
          /\ \/ /\ memories' = IF Stands(u.id) THEN WithMemory(u.id, [faded |-> u.faded, accessed |-> u.accessed])
                               ELSE memories
                /\ UNCHANGED breaks
             \/ Break /\ UNCHANGED memories
          /\ late' = IF Overtaken(c, u.id) THEN late \cup {u.id} ELSE late
          /\ caller' = [caller EXCEPT ![c].update = @ \ {u}]
     \/ /\ caller[c].update = {} /\ caller' = [caller EXCEPT ![c] = Rest]
        /\ UNCHANGED <<memories, breaks, late>>
  /\ UNCHANGED <<day, decayLog, calls, born, confirmedOn>>

-----------------------------------------------------------------------------
(* confirm_access *)

\* What retrieve returns is only for the log.
LogConfirm(c) ==
  /\ caller[c].at = "logConfirm"
  /\ decayLog' = decayLog \cup {<<caller[c].memory, "confirm">>}
  /\ MoveTo(c, "raise")
  /\ UNCHANGED <<day, memories, calls, breaks, born, confirmedOn, late>>

\* Mutant of RaiseScore: the score alone.
RaiseScoreOnly(c) ==
  /\ caller[c].at = "raise"
  /\ LET id == caller[c].memory IN
       IF Stands(id)
         THEN /\ memories' = WithMemory(id, [faded |-> 0, accessed |-> memories[id].accessed])
              /\ confirmedOn' = [confirmedOn EXCEPT ![id] = day]
              /\ late' = IF Overtaken(c, id) THEN late \cup {id} ELSE late
         ELSE UNCHANGED <<memories, confirmedOn, late>>
  /\ caller' = [caller EXCEPT ![c] = Rest]
  /\ UNCHANGED <<day, decayLog, calls, breaks, born>>

\* A memory that is gone stays so.
RaiseScore(c) ==
  /\ caller[c].at = "raise"
  /\ LET id == caller[c].memory IN
       IF Stands(id)
         THEN /\ memories' = WithMemory(id, [faded |-> 0, accessed |-> day])
              /\ confirmedOn' = [confirmedOn EXCEPT ![id] = day]
              /\ late' = IF Overtaken(c, id) THEN late \cup {id} ELSE late
         ELSE UNCHANGED <<memories, confirmedOn, late>>
  /\ caller' = [caller EXCEPT ![c] = Rest]
  /\ UNCHANGED <<day, decayLog, calls, breaks, born>>

(* forget *)

LogForget(c) ==
  /\ caller[c].at = "logForget"
  /\ decayLog' = decayLog \cup {<<caller[c].memory, "explicit_forget">>}
  /\ MoveTo(c, "drop")
  /\ UNCHANGED <<day, memories, calls, breaks, born, confirmedOn, late>>

DropPoint(c) ==
  /\ caller[c].at = "drop"
  /\ memories' = LessMemory(caller[c].memory)
  /\ caller' = [caller EXCEPT ![c] = Rest]
  /\ UNCHANGED <<day, decayLog, calls, breaks, born, confirmedOn, late>>

\* The log cannot be written, retrieve, set_payload or delete raise: the search
\* and forget swallow it, a scan ends with an error.
CallFails(c) ==
  /\ caller[c].at \in {"log", "logConfirm", "raise", "logForget", "drop"}
  /\ Break
  /\ caller' = [caller EXCEPT ![c] = Rest]
  /\ UNCHANGED <<day, memories, decayLog, calls, born, confirmedOn, late>>

CrashMemories ==
  /\ AtWork # {} /\ Break
  /\ caller' = [c \in Callers |-> Rest]
  /\ UNCHANGED <<day, memories, decayLog, calls, born, confirmedOn, late>>

MemoriesNext ==
  \/ NextDay \/ RememberMemory \/ CrashMemories
  \/ \E c \in Callers :
       \/ CallScan(c) \/ CallConfirm(c) \/ CallForget(c)
       \/ ScrollPoint(c) \/ ScrollEnds(c) \/ LogScan(c) \/ DeletePoint(c) \/ SetPayload(c)
       \/ LogConfirm(c) \/ RaiseScore(c) \/ LogForget(c) \/ DropPoint(c) \/ CallFails(c)

MemoriesSpec == MemoriesInit /\ [][MemoriesNext]_memoryVars

-----------------------------------------------------------------------------
(* Properties. *)

\* memory_decay.py:187 "Write audit log BEFORE deletions": what is gone has
\* a row that says why, also when the thread did not come to its end.
DeletedIsLogged ==
  \A id \in born \ DOMAIN memories :
    {<<id, "threshold_delete">>, <<id, "explicit_forget">>} \cap decayLog # {}

\* A scan deletes, one after the other, only what has faded, and one in five
\* at most; unless another thread changed it after the scan had read it.
OnlyFadedIsDeleted ==
  \A c \in Callers : caller[c].at \in {"log", "delete"} =>
    /\ Cardinality(caller[c].delete) * OneIn <= caller[c].scanned
    /\ \A id \in (caller[c].delete \cap DOMAIN memories) \ late : Faded(id) > Limit

\* A memory that was confirmed fades from that day on, unless a scan had read
\* it before: then the scan writes over the confirmation.
ConfirmCounts ==
  \A id \in DOMAIN memories \ late :
    confirmedOn[id] > 0 => memories[id].accessed = confirmedOn[id]

\* Whatever searches, scans and requests do to it meanwhile.
MemorySafe == MemoriesTypeOK /\ DeletedIsLogged /\ OnlyFadedIsDeleted /\ ConfirmCounts
=============================================================================
