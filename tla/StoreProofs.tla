---------------------------- MODULE StoreProofs -----------------------------
(***************************************************************************)
(* What TLAPS proves of the services that keep data: for each of them an   *)
(* inductive invariant that implies what is promised of it, for all values *)
(* of the constants.  ServicesProofs puts them together.                   *)
(*                                                                         *)
(* A_Inv says that the action A keeps the invariant of its module.         *)
(***************************************************************************)
EXTENDS Memories, Feedback, Feeds, GithubSync, Ingest, Mailbox, KeyRotation, Vault,
        LocalDocs, Integers,
        FiniteSetTheorems, SequenceTheorems, WellFoundedInduction, TLAPS

-----------------------------------------------------------------------------
(* The memories (Memories)                                                 *)

\* What a thread holds of what it has read.
Fading == [id : Memory, faded : 0..Limit, accessed : 1..MaxDay]
MemoryCall ==
  [at : {"rest", "scroll", "log", "delete", "update", "logConfirm", "raise", "logForget", "drop"},
   memory : Nat, scanned : Nat, delete : SUBSET Memory, update : SUBSET Fading]

MemoriesTyped ==
  /\ MemoriesTypeOK
  /\ caller \in [Callers -> MemoryCall]
  /\ \A id \in Memory : confirmedOn[id] > 0 => id \in born

\* Of the memories in its hands: nothing but a scan has any; those that it will
\* delete are few, logged before the first goes, and faded; what it will write of
\* one is as old as the memory, unless that has changed since.
HandsHold(c) ==
  LET k == caller[c] IN
  /\ IsFiniteSet(k.delete) /\ k.delete \subseteq born
  /\ \A u \in k.update : u.id \in born /\ u.accessed <= day
  /\ k.at \notin {"scroll", "log", "delete", "update"} => k.delete = {} /\ k.update = {}
  /\ k.at = "update" => k.delete = {}
  /\ k.at \in {"log", "delete"} => Cardinality(k.delete) * OneIn <= k.scanned
  /\ k.at = "delete" => \A id \in k.delete : <<id, "threshold_delete">> \in decayLog
  /\ k.at \in {"logConfirm", "raise", "logForget", "drop"} => k.memory \in Memory
  /\ k.at = "drop" => <<k.memory, "explicit_forget">> \in decayLog
  /\ \A id \in (k.delete \cap DOMAIN memories) \ late : Faded(id) > Limit
  /\ \A u \in k.update : u.id \in DOMAIN memories \ late => u.accessed = memories[u.id].accessed

MemoriesInv ==
  MemoriesTyped /\ DeletedIsLogged /\ ConfirmCounts /\ \A c \in Callers : HandsHold(c)

-----------------------------------------------------------------------------

\* A thread keeps its hands on what it holds when others change a memory: that
\* is older then, or has been changed too late for it.
LEMMA OthersHold ==
  ASSUME NEW c \in Callers, MemoriesTyped, HandsHold(c), caller'[c] = caller[c],
         day \in Nat, day' \in Nat, day <= day', born \subseteq born', late \subseteq late', decayLog \subseteq decayLog',
         \A m \in DOMAIN memories' \ late' :
            (m \in caller[c].delete \/ \E u \in caller[c].update : u.id = m) =>
               m \in DOMAIN memories /\ memories'[m] = memories[m]
  PROVE  HandsHold(c)'
<1> DEFINE k == caller[c]
<1>1. k \in MemoryCall
  BY DEF MemoriesTyped
<1>2. ASSUME NEW id \in (k.delete \cap DOMAIN memories') \ late'
      PROVE  memories'[id].faded + (day' - memories'[id].accessed) > Limit
  <2>1. id \in (k.delete \cap DOMAIN memories) \ late /\ memories'[id] = memories[id]
    BY <1>2
  <2>2. /\ memories[id].faded \in Nat /\ memories[id].accessed \in Nat /\ Limit \in Nat
        /\ memories[id].faded + (day - memories[id].accessed) > Limit
    BY <2>1, MemoriesAssumption DEF HandsHold, Faded, MemoriesTyped, MemoriesTypeOK
  <2> QED
    BY <2>1, <2>2
<1>3. ASSUME NEW u \in k.update
      PROVE  /\ u.id \in born' /\ u.accessed <= day'
             /\ u.id \in DOMAIN memories' \ late' => u.accessed = memories'[u.id].accessed
  <2>1. u.accessed \in Nat
    BY <1>1, MemoriesAssumption DEF MemoryCall, Fading
  <2> QED
    BY <1>3, <2>1 DEF HandsHold
<1>4. caller'[c] = k
  OBVIOUS
<1> QED
  BY <1>2, <1>3, <1>4 DEF HandsHold, Faded

\* It holds at the start, and each action of the module keeps it.
LEMMA MemoriesInit_Inv == ASSUME MemoriesInit PROVE MemoriesInv
<1>1. Rest \in MemoryCall
  BY DEF Rest, MemoryCall
<1>2. \A c \in Callers : caller[c] = Rest
  BY DEF MemoriesInit
<1>3. MemoriesTyped
  BY <1>1, <1>2, MemoriesAssumption DEF MemoriesInit, MemoriesTyped, MemoriesTypeOK, Rest
<1>4. ASSUME NEW c \in Callers PROVE HandsHold(c)
  BY <1>2, FS_EmptySet DEF HandsHold, Rest
<1> QED
  BY <1>3, <1>4 DEF MemoriesInv, MemoriesInit, DeletedIsLogged, ConfirmCounts

LEMMA NextDay_Inv == ASSUME MemoriesInv, NextDay PROVE MemoriesInv'
<1>1. MemoriesTyped /\ day \in Nat /\ day' = day + 1
  <2>1. MemoriesTyped /\ day' = day + 1
    BY DEF MemoriesInv, NextDay
  <2> QED
    BY <2>1, MemoriesAssumption DEF MemoriesTyped, MemoriesTypeOK
<1>2. MemoriesTyped'
  BY <1>1, MemoriesAssumption DEF NextDay, MemoriesTyped, MemoriesTypeOK
<1>3. ASSUME NEW c \in Callers PROVE HandsHold(c)'
  <2>1. HandsHold(c) /\ UNCHANGED <<memories, decayLog, caller, born, late>>
    BY DEF MemoriesInv, NextDay
  <2> QED
    BY <1>1, <2>1, OthersHold
<1> QED
  BY <1>2, <1>3 DEF MemoriesInv, NextDay, DeletedIsLogged, ConfirmCounts

LEMMA RememberMemory_Inv == ASSUME MemoriesInv, RememberMemory PROVE MemoriesInv'
<1> PICK id \in Memory \ born :
       /\ born' = born \cup {id}
       /\ memories' = WithMemory(id, [faded |-> 0, accessed |-> day])
  BY DEF RememberMemory
<1>1. MemoriesTyped /\ day \in 1..MaxDay /\ day \in Nat /\ id \notin DOMAIN memories
      /\ UNCHANGED <<day, decayLog, caller, calls, breaks, confirmedOn, late>>
  BY MemoriesAssumption DEF MemoriesInv, MemoriesTyped, MemoriesTypeOK, RememberMemory
<1>2. /\ DOMAIN memories' = DOMAIN memories \cup {id}
      /\ memories'[id] = [faded |-> 0, accessed |-> day]
      /\ \A m \in DOMAIN memories : memories'[m] = memories[m]
  BY <1>1 DEF WithMemory
<1>3. MemoriesTyped'
  <2>1. ASSUME NEW m \in DOMAIN memories'
        PROVE  memories'[m].faded \in 0..Limit /\ memories'[m].accessed \in 1..day
    BY <1>1, <1>2, MemoriesAssumption DEF MemoriesTyped, MemoriesTypeOK
  <2>2. DOMAIN memories' \subseteq born' /\ born' \subseteq Memory /\ late \subseteq born'
    BY <1>1, <1>2 DEF MemoriesTyped, MemoriesTypeOK
  <2>3. \A m \in Memory : confirmedOn[m] > 0 => m \in born'
    BY <1>1 DEF MemoriesTyped
  <2> QED
    BY <1>1, <2>1, <2>2, <2>3 DEF MemoriesTyped, MemoriesTypeOK
<1>4. ASSUME NEW c \in Callers PROVE HandsHold(c)'
  <2>1. HandsHold(c)
    BY DEF MemoriesInv
  <2>2. id \notin caller[c].delete /\ ~ \E u \in caller[c].update : u.id = id
    BY <2>1 DEF HandsHold
  <2> QED
    BY <1>1, <1>2, <2>1, <2>2, OthersHold
<1>5. confirmedOn[id] = 0
  BY DEF MemoriesInv, MemoriesTyped, MemoriesTypeOK
<1> QED
  BY <1>1, <1>2, <1>3, <1>4, <1>5 DEF MemoriesInv, DeletedIsLogged, ConfirmCounts

\* One thread goes on, and may leave a row in the log.
LEMMA ThreadMoves ==
  ASSUME MemoriesInv, NEW c \in Callers, NEW k \in MemoryCall, caller' = [caller EXCEPT ![c] = k],
         UNCHANGED <<day, memories, born, confirmedOn, late>>, decayLog \subseteq decayLog',
         decayLog' \subseteq Memory \X {"threshold_delete", "confirm", "explicit_forget"},
         calls' \in 0..MaxCalls, breaks' \in 0..MaxBreaks, HandsHold(c)'
  PROVE  MemoriesInv'
<1>1. MemoriesTyped /\ day \in Nat
  BY MemoriesAssumption DEF MemoriesInv, MemoriesTyped, MemoriesTypeOK
<1>2. caller' \in [Callers -> MemoryCall] /\ \A o \in Callers \ {c} : caller'[o] = caller[o]
  BY DEF MemoriesInv, MemoriesTyped
<1>3. ASSUME NEW o \in Callers
      PROVE  /\ caller'[o].at \in {"rest", "scroll", "log", "delete", "update",
                                   "logConfirm", "raise", "logForget", "drop"}
             /\ \A u \in caller'[o].update : u.faded <= Limit
  BY <1>2, MemoriesAssumption DEF MemoryCall, Fading
<1>4. MemoriesTyped'
  BY <1>1, <1>2, <1>3 DEF MemoriesTyped, MemoriesTypeOK
<1>5. ASSUME NEW o \in Callers, o # c PROVE HandsHold(o)'
  <2>1. HandsHold(o) /\ caller'[o] = caller[o]
    BY <1>2, <1>5 DEF MemoriesInv
  <2> QED
    BY <1>1, <2>1, OthersHold
<1> QED
  BY <1>4, <1>5 DEF MemoriesInv, DeletedIsLogged, ConfirmCounts

LEMMA Call_Inv ==
  ASSUME MemoriesInv, NEW c \in Callers, CallScan(c) \/ CallConfirm(c) \/ CallForget(c)
  PROVE  MemoriesInv'
<1>1. MemoriesTyped /\ \A id \in DOMAIN memories : id \in Memory
  BY DEF MemoriesInv, MemoriesTyped, MemoriesTypeOK
<1>2. PICK place \in {"scroll", "logConfirm", "logForget"}, id \in Nat :
         Call(c, place, id) /\ (place # "scroll" => id \in Memory)
  <2>1. 0 \in Nat /\ Memory \subseteq Nat
    BY MemoriesAssumption
  <2> QED
    BY <1>1, <2>1 DEF CallScan, CallConfirm, CallForget
<1> DEFINE k == [Rest EXCEPT !.at = place, !.memory = id]
<1>3. /\ k \in MemoryCall /\ k.at = place /\ k.memory = id /\ k.delete = {} /\ k.update = {}
  BY <1>2 DEF Rest, MemoryCall
<1>4. caller' = [caller EXCEPT ![c] = k] /\ caller'[c] = k
  BY <1>1, <1>2 DEF Call, MemoriesTyped
<1>5. /\ UNCHANGED <<day, memories, decayLog, breaks, born, confirmedOn, late>>
      /\ calls' \in 0..MaxCalls
  BY <1>1, <1>2, MemoriesAssumption DEF Call, MemoriesTyped, MemoriesTypeOK
<1> HIDE DEF k
<1>6. HandsHold(c)'
  BY <1>2, <1>3, <1>4, FS_EmptySet DEF HandsHold
<1> QED
  BY <1>1, <1>3, <1>4, <1>5, <1>6, ThreadMoves DEF MemoriesTyped, MemoriesTypeOK

LEMMA ScrollPoint_Inv ==
  ASSUME MemoriesInv, NEW c \in Callers, ScrollPoint(c)
  PROVE  MemoriesInv'
<1>1. MemoriesTyped /\ HandsHold(c) /\ caller[c] \in MemoryCall /\ caller[c].at = "scroll"
  BY DEF MemoriesInv, MemoriesTyped, ScrollPoint
<1> DEFINE scan == caller[c]
           below(id) == Faded(id) > Limit
           read(id) == [id |-> id, faded |-> Faded(id), accessed |-> memories[id].accessed]
           k(id) == [scan EXCEPT !.memory = id, !.scanned = scan.scanned + 1,
                       !.delete = IF below(id) THEN scan.delete \cup {id} ELSE scan.delete,
                       !.update = IF day = memories[id].accessed \/ below(id) THEN scan.update
                                  ELSE scan.update \cup {read(id)}]
<1>2. PICK id \in DOMAIN memories : caller' = [caller EXCEPT ![c] = k(id)]
  BY DEF ScrollPoint
<1>3. UNCHANGED <<day, memories, decayLog, calls, breaks, born, confirmedOn, late>>
  BY DEF ScrollPoint
<1>4. /\ id \in Memory /\ id \in Nat /\ id \in born
      /\ memories[id].faded \in Nat /\ memories[id].accessed \in 1..MaxDay
      /\ memories[id].accessed <= day
      /\ day \in Nat /\ Limit \in Nat
  <2>1. /\ memories[id].faded \in 0..Limit /\ memories[id].accessed \in 1..day /\ day \in 1..MaxDay
        /\ id \in born /\ born \subseteq Memory
    BY <1>1 DEF MemoriesTyped, MemoriesTypeOK
  <2>2. Limit \in Nat /\ MaxDay \in Nat /\ id \in Memory /\ id \in Nat
    BY <2>1, MemoriesAssumption
  <2> HIDE DEF scan
  <2> QED
    BY <2>1, <2>2
<1>5. Faded(id) \in Nat
  BY <1>4 DEF Faded
<1>6. ~ below(id) => read(id) \in Fading
  BY <1>4, <1>5 DEF Fading
<1> HIDE DEF read, below
<1>7. /\ k(id) \in MemoryCall /\ k(id).at = "scroll"
      /\ k(id).delete = IF below(id) THEN scan.delete \cup {id} ELSE scan.delete
      /\ k(id).update \subseteq scan.update \cup {read(id)}
  <2> DEFINE d == IF below(id) THEN scan.delete \cup {id} ELSE scan.delete
             u == IF day = memories[id].accessed \/ below(id) THEN scan.update
                  ELSE scan.update \cup {read(id)}
  <2>1. d \in SUBSET Memory /\ scan.scanned + 1 \in Nat
    BY <1>1, <1>4 DEF MemoryCall
  <2>2. u \in SUBSET Fading /\ u \subseteq scan.update \cup {read(id)}
    BY <1>1, <1>6 DEF MemoryCall
  <2>3. k(id) = [scan EXCEPT !.memory = id, !.scanned = scan.scanned + 1, !.delete = d, !.update = u]
    OBVIOUS
  <2> HIDE DEF d, u
  <2>4. /\ k(id) \in MemoryCall /\ k(id).at = "scroll" /\ k(id).delete = d /\ k(id).update = u
    BY <1>1, <1>4, <2>1, <2>2, <2>3 DEF MemoryCall
  <2> QED
    BY <2>2, <2>4 DEF d
<1>8. read(id).id = id /\ read(id).accessed = memories[id].accessed
  BY DEF read
<1> HIDE DEF k
<1>9. caller'[c] = k(id)
  BY <1>1, <1>2 DEF MemoriesTyped
<1>10. HandsHold(c)'
  <2>1. IsFiniteSet(k(id).delete) /\ k(id).delete \subseteq born
    BY <1>1, <1>4, <1>7, FS_AddElement DEF HandsHold
  <2>2. \A m \in (k(id).delete \cap DOMAIN memories) \ late : Faded(m) > Limit
    BY <1>1, <1>7 DEF HandsHold, below
  <2>3. \A u \in k(id).update :
           /\ u.id \in born /\ u.accessed <= day
           /\ u.id \in DOMAIN memories \ late => u.accessed = memories[u.id].accessed
    BY <1>1, <1>4, <1>7, <1>8 DEF HandsHold
  <2> QED
    BY <1>3, <1>7, <1>9, <2>1, <2>2, <2>3 DEF HandsHold, Faded
<1> QED
  BY <1>1, <1>2, <1>3, <1>7, <1>10, ThreadMoves DEF MemoriesTyped, MemoriesTypeOK

\* A thread that has nothing in its hands.
LEMMA RestHolds ==
  ASSUME NEW c \in Callers, caller'[c] = Rest
  PROVE  HandsHold(c)'
BY FS_EmptySet DEF HandsHold, Rest

\* A caller at rest is typed.
LEMMA RestIsCall == Rest \in MemoryCall
BY DEF Rest, MemoryCall

LEMMA ScrollEnds_Inv ==
  ASSUME MemoriesInv, NEW c \in Callers, ScrollEnds(c)
  PROVE  MemoriesInv'
<1>1. MemoriesTyped /\ HandsHold(c) /\ caller[c] \in MemoryCall /\ caller[c].at = "scroll"
  BY DEF MemoriesInv, MemoriesTyped, ScrollEnds
<1>2. /\ UNCHANGED <<day, memories, decayLog, calls, born, confirmedOn, late>>
      /\ breaks' \in 0..MaxBreaks
  BY <1>1, MemoriesAssumption DEF ScrollEnds, Break, MemoriesTyped, MemoriesTypeOK
<1>3. CASE TooMany(c)
  <2>1. caller' = [caller EXCEPT ![c] = Rest] /\ caller'[c] = Rest
    BY <1>1, <1>3 DEF ScrollEnds, MemoriesTyped
  <2> QED
    BY <1>1, <1>2, <2>1, RestHolds, RestIsCall, ThreadMoves DEF MemoriesTyped, MemoriesTypeOK
<1>4. CASE ~ TooMany(c)
  <2> DEFINE k == [caller[c] EXCEPT !.at = "log"]
  <2>1. caller' = [caller EXCEPT ![c] = k] /\ caller'[c] = k
    BY <1>1, <1>4 DEF ScrollEnds, MemoriesTyped
  <2>2. /\ k \in MemoryCall /\ k.at = "log" /\ k.delete = caller[c].delete
        /\ k.update = caller[c].update
        /\ k.scanned = caller[c].scanned
    BY <1>1 DEF MemoryCall
  <2> HIDE DEF k
  <2>3. Cardinality(k.delete) * OneIn <= k.scanned
    <3>1. Cardinality(k.delete) \in Nat /\ OneIn \in Nat /\ k.scanned \in Nat
      BY <1>1, <2>2, FS_CardinalityType, MemoriesAssumption DEF HandsHold, MemoryCall
    <3>2. Cardinality(k.delete) * OneIn \in Nat
      BY <3>1
    <3> QED
      BY <1>4, <2>2, <3>1, <3>2 DEF TooMany
  <2>4. HandsHold(c)'
    BY <1>1, <1>2, <2>1, <2>2, <2>3 DEF HandsHold, Faded
  <2> QED
    BY <1>1, <1>2, <2>1, <2>2, <2>4, ThreadMoves DEF MemoriesTyped, MemoriesTypeOK
<1> QED
  BY <1>3, <1>4

LEMMA LogScan_Inv ==
  ASSUME MemoriesInv, NEW c \in Callers, LogScan(c)
  PROVE  MemoriesInv'
<1> DEFINE k == [caller[c] EXCEPT !.at = "delete"]
<1>1. /\ MemoriesTyped /\ HandsHold(c) /\ caller[c] \in MemoryCall /\ caller[c].at = "log"
      /\ UNCHANGED <<day, memories, calls, breaks, born, confirmedOn, late>>
      /\ decayLog' = decayLog \cup (caller[c].delete \X {"threshold_delete"})
  BY DEF MemoriesInv, MemoriesTyped, LogScan
<1>2. caller' = [caller EXCEPT ![c] = k] /\ caller'[c] = k
  BY <1>1 DEF LogScan, MoveTo, MemoriesTyped
<1>3. /\ k \in MemoryCall /\ k.at = "delete" /\ k.delete = caller[c].delete
      /\ k.update = caller[c].update
      /\ k.scanned = caller[c].scanned
  BY <1>1 DEF MemoryCall
<1> HIDE DEF k
<1>4. HandsHold(c)'
  BY <1>1, <1>2, <1>3 DEF HandsHold, Faded
<1>5. caller[c].delete \X {"threshold_delete"}
        \subseteq Memory \X {"threshold_delete", "confirm", "explicit_forget"}
  BY <1>1 DEF MemoryCall
<1>6. decayLog' \subseteq Memory \X {"threshold_delete", "confirm", "explicit_forget"}
  BY <1>1, <1>5 DEF MemoriesTyped, MemoriesTypeOK
<1> QED
  BY <1>1, <1>2, <1>3, <1>4, <1>6, ThreadMoves DEF MemoriesTyped, MemoriesTypeOK

LEMMA LogConfirm_Inv ==
  ASSUME MemoriesInv, NEW c \in Callers, LogConfirm(c) \/ LogForget(c)
  PROVE  MemoriesInv'
<1>1. /\ MemoriesTyped /\ HandsHold(c) /\ caller[c] \in MemoryCall
      /\ caller[c].at \in {"logConfirm", "logForget"}
      /\ UNCHANGED <<day, memories, calls, breaks, born, confirmedOn, late>>
  BY DEF MemoriesInv, MemoriesTyped, LogConfirm, LogForget
<1>2. PICK place \in {"raise", "drop"}, reason \in {"confirm", "explicit_forget"} :
         /\ decayLog' = decayLog \cup {<<caller[c].memory, reason>>}
         /\ caller' = [caller EXCEPT ![c].at = place]
         /\ place = "drop" => reason = "explicit_forget"
  BY DEF LogConfirm, LogForget, MoveTo
<1> DEFINE k == [caller[c] EXCEPT !.at = place]
<1>3. caller' = [caller EXCEPT ![c] = k] /\ caller'[c] = k
  BY <1>1, <1>2 DEF MemoriesTyped
<1>4. /\ k \in MemoryCall /\ k.at = place /\ k.delete = caller[c].delete
      /\ k.update = caller[c].update
      /\ k.memory = caller[c].memory
  BY <1>1 DEF MemoryCall
<1> HIDE DEF k
<1>5. caller[c].memory \in Memory /\ caller[c].delete = {} /\ caller[c].update = {}
  BY <1>1 DEF HandsHold
<1>6. HandsHold(c)'
  BY <1>2, <1>3, <1>4, <1>5, FS_EmptySet DEF HandsHold
<1>7. decayLog' \subseteq Memory \X {"threshold_delete", "confirm", "explicit_forget"}
  BY <1>1, <1>2, <1>5 DEF MemoriesTyped, MemoriesTypeOK
<1> QED
  BY <1>1, <1>2, <1>3, <1>4, <1>6, <1>7, ThreadMoves DEF MemoriesTyped, MemoriesTypeOK

LEMMA CallFails_Inv ==
  ASSUME MemoriesInv, NEW c \in Callers, CallFails(c)
  PROVE  MemoriesInv'
<1>1. /\ MemoriesTyped /\ caller' = [caller EXCEPT ![c] = Rest]
      /\ UNCHANGED <<day, memories, decayLog, calls, born, confirmedOn, late>>
  BY DEF MemoriesInv, CallFails
<1>2. breaks' \in 0..MaxBreaks
  BY <1>1, MemoriesAssumption DEF CallFails, Break, MemoriesTyped, MemoriesTypeOK
<1>3. caller'[c] = Rest
  BY <1>1 DEF MemoriesTyped
<1> QED
  BY <1>1, <1>2, <1>3, RestHolds, RestIsCall, ThreadMoves DEF MemoriesTyped, MemoriesTypeOK

LEMMA CrashMemories_Inv == ASSUME MemoriesInv, CrashMemories PROVE MemoriesInv'
<1>1. /\ MemoriesTyped /\ caller' = [c \in Callers |-> Rest]
      /\ UNCHANGED <<day, memories, decayLog, calls, born, confirmedOn, late>>
  BY DEF MemoriesInv, CrashMemories
<1>2. breaks' \in 0..MaxBreaks
  BY <1>1, MemoriesAssumption DEF CrashMemories, Break, MemoriesTyped, MemoriesTypeOK
<1>3. \A c \in Callers : caller'[c] = Rest
  BY <1>1
<1>4. caller' \in [Callers -> MemoryCall]
  BY <1>1, RestIsCall
<1>5. MemoriesTyped'
  BY <1>1, <1>2, <1>3, <1>4 DEF MemoriesTyped, MemoriesTypeOK, Rest
<1> QED
  BY <1>1, <1>3, <1>5, RestHolds DEF MemoriesInv, DeletedIsLogged, ConfirmCounts

\* A thread takes a memory away, for which there is a row.
LEMMA MemoryGoes ==
  ASSUME MemoriesInv, NEW c \in Callers, NEW k \in MemoryCall, NEW id,
         caller' = [caller EXCEPT ![c] = k], memories' = LessMemory(id),
         {<<id, "threshold_delete">>, <<id, "explicit_forget">>} \cap decayLog # {},
         UNCHANGED <<day, decayLog, calls, breaks, born, confirmedOn, late>>, HandsHold(c)'
  PROVE  MemoriesInv'
<1>1. MemoriesTyped /\ day \in Nat
  BY MemoriesAssumption DEF MemoriesInv, MemoriesTyped, MemoriesTypeOK
<1>2. /\ DOMAIN memories' = DOMAIN memories \ {id}
      /\ \A m \in DOMAIN memories' : memories'[m] = memories[m]
  BY DEF LessMemory
<1>3. caller' \in [Callers -> MemoryCall] /\ \A o \in Callers \ {c} : caller'[o] = caller[o]
  BY <1>1 DEF MemoriesTyped
<1>4. ASSUME NEW o \in Callers
      PROVE  /\ caller'[o].at \in {"rest", "scroll", "log", "delete", "update",
                                   "logConfirm", "raise", "logForget", "drop"}
             /\ \A u \in caller'[o].update : u.faded <= Limit
  BY <1>3, MemoriesAssumption DEF MemoryCall, Fading
<1>5. MemoriesTyped'
  BY <1>1, <1>2, <1>3, <1>4 DEF MemoriesTyped, MemoriesTypeOK
<1>6. ASSUME NEW o \in Callers, o # c PROVE HandsHold(o)'
  <2>1. HandsHold(o) /\ caller'[o] = caller[o]
    BY <1>3, <1>6 DEF MemoriesInv
  <2> QED
    BY <1>1, <1>2, <2>1, OthersHold
<1>7. DeletedIsLogged' /\ ConfirmCounts'
  BY <1>2 DEF MemoriesInv, DeletedIsLogged, ConfirmCounts
<1> QED
  BY <1>5, <1>6, <1>7 DEF MemoriesInv

LEMMA DeletePoint_Inv ==
  ASSUME MemoriesInv, NEW c \in Callers, DeletePoint(c)
  PROVE  MemoriesInv'
<1>1. /\ MemoriesTyped /\ HandsHold(c) /\ caller[c] \in MemoryCall /\ caller[c].at = "delete"
      /\ UNCHANGED <<day, decayLog, calls, born, confirmedOn, late>>
  BY DEF MemoriesInv, MemoriesTyped, DeletePoint
<1>2. ASSUME NEW id \in caller[c].delete, caller' = [caller EXCEPT ![c].delete = @ \ {id}],
             \A m \in DOMAIN memories' : m \in DOMAIN memories /\ memories'[m] = memories[m]
      PROVE  /\ [caller[c] EXCEPT !.delete = @ \ {id}] \in MemoryCall
             /\ caller' = [caller EXCEPT ![c] = [caller[c] EXCEPT !.delete = @ \ {id}]]
             /\ HandsHold(c)'
  <2> DEFINE less == caller[c].delete \ {id}
             k == [caller[c] EXCEPT !.delete = less]
  <2>1. caller' = [caller EXCEPT ![c] = k] /\ caller'[c] = k
    BY <1>1, <1>2 DEF MemoriesTyped
  <2>2. /\ k \in MemoryCall /\ k.at = "delete" /\ k.delete = less /\ k.update = caller[c].update
        /\ k.scanned = caller[c].scanned
    BY <1>1 DEF MemoryCall
  <2>3. IsFiniteSet(less) /\ Cardinality(less) = Cardinality(caller[c].delete) - 1
        /\ Cardinality(less) \in Nat /\ Cardinality(caller[c].delete) \in Nat
    BY <1>1, <1>2, FS_RemoveElement, FS_CardinalityType DEF HandsHold
  <2>4. Cardinality(less) * OneIn <= caller[c].scanned
    <3> DEFINE n == Cardinality(caller[c].delete)
    <3>1. /\ n \in Nat /\ n - 1 \in Nat /\ OneIn \in Nat /\ caller[c].scanned \in Nat
          /\ n * OneIn <= caller[c].scanned
      BY <1>1, <2>3, MemoriesAssumption DEF HandsHold, MemoryCall
    <3> HIDE DEF n
    <3>2. (n - 1) * OneIn = n * OneIn - OneIn /\ n * OneIn \in Nat
      BY <3>1
    <3>3. (n - 1) * OneIn <= caller[c].scanned
      BY <3>1, <3>2
    <3> QED
      BY <2>3, <3>3 DEF n
  <2> HIDE DEF k
  <2>5. HandsHold(c)'
    <3>1. ASSUME NEW m \in (k.delete \cap DOMAIN memories') \ late'
          PROVE  memories'[m].faded + (day' - memories'[m].accessed) > Limit
      BY <1>1, <1>2, <2>2, <3>1 DEF HandsHold, Faded
    <3>2. \A u \in k.update :
            u.id \in DOMAIN memories' \ late' => u.accessed = memories'[u.id].accessed
      BY <1>1, <1>2, <2>2 DEF HandsHold
    <3> QED
      BY <1>1, <2>1, <2>2, <2>3, <2>4, <3>1, <3>2 DEF HandsHold, Faded
  <2> QED
    BY <2>1, <2>2, <2>5 DEF k
<1>3. CASE \E id \in caller[c].delete :
             /\ memories' = LessMemory(id) /\ UNCHANGED breaks
             /\ caller' = [caller EXCEPT ![c].delete = @ \ {id}]
  <2> PICK id \in caller[c].delete :
         /\ memories' = LessMemory(id) /\ UNCHANGED breaks
         /\ caller' = [caller EXCEPT ![c].delete = @ \ {id}]
    BY <1>3
  <2> DEFINE k == [caller[c] EXCEPT !.delete = @ \ {id}]
  <2>1. \A m \in DOMAIN memories' : m \in DOMAIN memories /\ memories'[m] = memories[m]
    BY DEF LessMemory
  <2>2. k \in MemoryCall /\ caller' = [caller EXCEPT ![c] = k] /\ HandsHold(c)'
    BY <1>2, <2>1
  <2>3. <<id, "threshold_delete">> \in decayLog
    BY <1>1 DEF HandsHold
  <2> HIDE DEF k
  <2> QED
    BY <1>1, <2>2, <2>3, MemoryGoes
<1>4. CASE \E id \in caller[c].delete :
             /\ Break /\ UNCHANGED memories
             /\ caller' = [caller EXCEPT ![c].delete = @ \ {id}]
  <2> PICK id \in caller[c].delete :
         /\ Break /\ UNCHANGED memories
         /\ caller' = [caller EXCEPT ![c].delete = @ \ {id}]
    BY <1>4
  <2> DEFINE k == [caller[c] EXCEPT !.delete = @ \ {id}]
  <2>1. k \in MemoryCall /\ caller' = [caller EXCEPT ![c] = k] /\ HandsHold(c)'
    BY <1>2
  <2>2. breaks' \in 0..MaxBreaks
    BY <1>1, MemoriesAssumption DEF Break, MemoriesTyped, MemoriesTypeOK
  <2> HIDE DEF k
  <2> QED
    BY <1>1, <2>1, <2>2, ThreadMoves DEF MemoriesTyped, MemoriesTypeOK
<1>5. CASE caller[c].delete = {} /\ MoveTo(c, "update") /\ UNCHANGED <<memories, breaks>>
  <2> DEFINE k == [caller[c] EXCEPT !.at = "update"]
  <2>1. caller' = [caller EXCEPT ![c] = k] /\ caller'[c] = k
    BY <1>1, <1>5 DEF MoveTo, MemoriesTyped
  <2>2. /\ k \in MemoryCall /\ k.at = "update" /\ k.delete = {} /\ k.update = caller[c].update
    BY <1>1, <1>5 DEF MemoryCall
  <2> HIDE DEF k
  <2>3. HandsHold(c)'
    BY <1>1, <1>5, <2>1, <2>2, FS_EmptySet DEF HandsHold
  <2> QED
    BY <1>1, <1>5, <2>1, <2>2, <2>3, ThreadMoves DEF MemoriesTyped, MemoriesTypeOK
<1> QED
  BY <1>3, <1>4, <1>5 DEF DeletePoint

LEMMA DropPoint_Inv ==
  ASSUME MemoriesInv, NEW c \in Callers, DropPoint(c)
  PROVE  MemoriesInv'
<1>1. /\ MemoriesTyped /\ HandsHold(c) /\ caller[c].at = "drop"
      /\ caller' = [caller EXCEPT ![c] = Rest] /\ memories' = LessMemory(caller[c].memory)
      /\ UNCHANGED <<day, decayLog, calls, breaks, born, confirmedOn, late>>
  BY DEF MemoriesInv, DropPoint
<1>2. caller'[c] = Rest /\ <<caller[c].memory, "explicit_forget">> \in decayLog
  BY <1>1 DEF HandsHold, MemoriesTyped
<1> QED
  BY <1>1, <1>2, RestHolds, RestIsCall, MemoryGoes

\* A thread changes a memory that is there; whoever has it in hand is late.
LEMMA MemoryChanges ==
  ASSUME MemoriesInv, NEW c \in Callers, NEW k \in MemoryCall, NEW id \in DOMAIN memories,
         NEW f \in 0..Limit, NEW a \in 1..day,
         caller' = [caller EXCEPT ![c] = k],
         memories' = WithMemory(id, [faded |-> f, accessed |-> a]),
         late' = IF Overtaken(c, id) THEN late \cup {id} ELSE late,
         confirmedOn' \in [Memory -> 0..MaxDay],
         \A m \in Memory \ {id} : confirmedOn'[m] = confirmedOn[m],
         id \notin late' /\ confirmedOn'[id] > 0 => a = confirmedOn'[id],
         UNCHANGED <<day, decayLog, calls, breaks, born>>, HandsHold(c)'
  PROVE  MemoriesInv'
<1>1. MemoriesTyped /\ day \in Nat /\ id \in born
  BY MemoriesAssumption DEF MemoriesInv, MemoriesTyped, MemoriesTypeOK
<1> DEFINE new == [faded |-> f, accessed |-> a]
<1>2. new.faded = f /\ new.accessed = a /\ memories' = WithMemory(id, new)
  OBVIOUS
<1> HIDE DEF new
<1>3. /\ DOMAIN memories' = DOMAIN memories /\ memories'[id] = new
      /\ \A m \in DOMAIN memories \ {id} : memories'[m] = memories[m]
  BY <1>2 DEF WithMemory
<1>4. caller' \in [Callers -> MemoryCall] /\ \A o \in Callers \ {c} : caller'[o] = caller[o]
  BY <1>1 DEF MemoriesTyped
<1>5. ASSUME NEW o \in Callers
      PROVE  /\ caller'[o].at \in {"rest", "scroll", "log", "delete", "update",
                                   "logConfirm", "raise", "logForget", "drop"}
             /\ \A u \in caller'[o].update : u.faded <= Limit
  BY <1>4, MemoriesAssumption DEF MemoryCall, Fading
<1>6. MemoriesTyped'
  <2>1. ASSUME NEW m \in DOMAIN memories'
        PROVE  memories'[m].faded \in 0..Limit /\ memories'[m].accessed \in 1..day'
    BY <1>1, <1>2, <1>3 DEF MemoriesTyped, MemoriesTypeOK
  <2>2. late' \subseteq born'
    BY <1>1 DEF MemoriesTyped, MemoriesTypeOK
  <2>3. \A m \in Memory : confirmedOn'[m] > 0 => m \in born'
    BY <1>1 DEF MemoriesTyped
  <2> QED
    BY <1>1, <1>3, <1>4, <1>5, <2>1, <2>2, <2>3 DEF MemoriesTyped, MemoriesTypeOK
<1>7. ASSUME NEW o \in Callers, o # c PROVE HandsHold(o)'
  <2>1. HandsHold(o) /\ caller'[o] = caller[o]
    BY <1>4, <1>7 DEF MemoriesInv
  <2>2. id \in caller[o].delete \/ (\E u \in caller[o].update : u.id = id) => id \in late'
    BY <1>7 DEF Overtaken
  <2>3. \A m \in DOMAIN memories' \ late' :
            (m \in caller[o].delete \/ \E u \in caller[o].update : u.id = m) =>
               m \in DOMAIN memories /\ memories'[m] = memories[m]
    BY <1>3, <2>2
  <2> QED
    BY <1>1, <2>1, <2>3, OthersHold
<1>8. DeletedIsLogged'
  BY <1>3 DEF MemoriesInv, DeletedIsLogged
<1>9. ConfirmCounts'
  <2> SUFFICES ASSUME NEW m \in DOMAIN memories' \ late', confirmedOn'[m] > 0
               PROVE  memories'[m].accessed = confirmedOn'[m]
    BY DEF ConfirmCounts
  <2>1. CASE m = id
    BY <1>2, <1>3, <2>1
  <2>2. CASE m # id
    <3>1. m \in DOMAIN memories \ late /\ m \in Memory
      BY <1>1, <1>3 DEF MemoriesTyped, MemoriesTypeOK
    <3>2. confirmedOn'[m] = confirmedOn[m] /\ memories'[m] = memories[m]
      BY <1>3, <2>2, <3>1
    <3> QED
      BY <3>1, <3>2 DEF MemoriesInv, ConfirmCounts
  <2> QED
    BY <2>1, <2>2
<1> QED
  BY <1>6, <1>7, <1>8, <1>9 DEF MemoriesInv

LEMMA SetPayload_Inv ==
  ASSUME MemoriesInv, NEW c \in Callers, SetPayload(c)
  PROVE  MemoriesInv'
<1>1. /\ MemoriesTyped /\ HandsHold(c) /\ caller[c] \in MemoryCall /\ caller[c].at = "update"
      /\ UNCHANGED <<day, decayLog, calls, born, confirmedOn>>
  BY DEF MemoriesInv, MemoriesTyped, SetPayload
<1>2. CASE caller[c].update = {} /\ caller' = [caller EXCEPT ![c] = Rest] /\ UNCHANGED <<memories, breaks, late>>
  <2>1. caller'[c] = Rest
    BY <1>1, <1>2 DEF MemoriesTyped
  <2> QED
    BY <1>1, <1>2, <2>1, RestHolds, RestIsCall, ThreadMoves DEF MemoriesTyped, MemoriesTypeOK
<1>3. ASSUME NEW u \in caller[c].update, caller' = [caller EXCEPT ![c].update = @ \ {u}],
             late' = IF Overtaken(c, u.id) THEN late \cup {u.id} ELSE late,
             \/ /\ memories' = IF Stands(u.id)
                              THEN WithMemory(u.id, [faded |-> u.faded, accessed |-> u.accessed])
                              ELSE memories
                /\ UNCHANGED breaks
             \/ Break /\ UNCHANGED memories
      PROVE  MemoriesInv'
  <2> DEFINE id == u.id
             k == [caller[c] EXCEPT !.update = caller[c].update \ {u}]
  <2>1. caller' = [caller EXCEPT ![c] = k] /\ caller'[c] = k
    BY <1>1, <1>3 DEF MemoriesTyped
  <2>2. /\ k \in MemoryCall /\ k.at = "update" /\ k.delete = {} /\ k.update = caller[c].update \ {u}
    BY <1>1 DEF MemoryCall, HandsHold
  <2>3. u \in Fading /\ id \in born /\ u.accessed <= day
    BY <1>1 DEF MemoryCall, HandsHold
  <2>4. /\ u.faded \in 0..Limit /\ u.accessed \in 1..day /\ id \in Memory /\ day \in Nat
    <3>1. day \in 1..MaxDay /\ u.faded \in 0..Limit /\ u.accessed \in 1..MaxDay /\ id \in Memory
      BY <1>1, <2>3 DEF Fading, MemoriesTyped, MemoriesTypeOK
    <3> QED
      BY <2>3, <3>1, MemoriesAssumption
  <2> HIDE DEF k
  <2>5. CASE memories' = memories
    <3>1. HandsHold(c)'
      BY <1>1, <1>3, <2>1, <2>2, <2>5, FS_EmptySet DEF HandsHold
    <3>2. breaks' \in 0..MaxBreaks
      BY <1>1, <1>3, MemoriesAssumption DEF Break, MemoriesTyped, MemoriesTypeOK
    <3>3. MemoriesTyped'
      <4>1. caller' \in [Callers -> MemoryCall]
        BY <1>1, <2>1, <2>2 DEF MemoriesTyped
      <4>2. ASSUME NEW o \in Callers
            PROVE  /\ caller'[o].at \in {"rest", "scroll", "log", "delete", "update",
                                         "logConfirm", "raise", "logForget", "drop"}
                   /\ \A w \in caller'[o].update : w.faded <= Limit
        BY <4>1, MemoriesAssumption DEF MemoryCall, Fading
      <4>3. late' \subseteq born'
        BY <1>1, <1>3, <2>3 DEF MemoriesTyped, MemoriesTypeOK
      <4> QED
        BY <1>1, <2>5, <3>2, <4>1, <4>2, <4>3 DEF MemoriesTyped, MemoriesTypeOK
    <3>4. ASSUME NEW o \in Callers, o # c PROVE HandsHold(o)'
      <4>1. HandsHold(o) /\ caller'[o] = caller[o] /\ late \subseteq late'
        BY <1>1, <1>3, <2>1, <3>4 DEF MemoriesInv, MemoriesTyped
      <4> QED
        BY <1>1, <2>4, <2>5, <4>1, OthersHold
    <3>5. DeletedIsLogged' /\ ConfirmCounts'
      BY <1>1, <1>3, <2>5 DEF MemoriesInv, DeletedIsLogged, ConfirmCounts
    <3> QED
      BY <3>1, <3>3, <3>4, <3>5 DEF MemoriesInv
  <2>6. CASE /\ Stands(id) /\ UNCHANGED breaks
             /\ memories' = WithMemory(id, [faded |-> u.faded, accessed |-> u.accessed])
    <3>1. id \in DOMAIN memories
      BY <2>6 DEF Stands
    <3>2. id \notin late => u.accessed = memories[id].accessed
      BY <1>1, <3>1 DEF HandsHold
    <3>3. id \notin late' /\ confirmedOn'[id] > 0 => u.accessed = confirmedOn'[id]
      <4>1. id \notin late' => id \notin late
        BY <1>3
      <4>2. id \notin late /\ confirmedOn[id] > 0 => memories[id].accessed = confirmedOn[id]
        BY <3>1 DEF MemoriesInv, ConfirmCounts
      <4> QED
        BY <1>1, <3>2, <4>1, <4>2
    <3>4. HandsHold(c)'
      <4>1. ASSUME NEW w \in k.update, w.id \in DOMAIN memories' \ late'
            PROVE  w.accessed = memories'[w.id].accessed
        <5>1. w \in caller[c].update /\ w.id \in DOMAIN memories \ late
          BY <1>3, <2>2, <2>6, <3>1, <4>1 DEF WithMemory
        <5>2. w.accessed = memories[w.id].accessed
          BY <1>1, <5>1 DEF HandsHold
        <5>3. memories'[w.id].accessed = memories[w.id].accessed
          BY <2>6, <3>1, <3>2, <5>1 DEF WithMemory
        <5> QED
          BY <5>2, <5>3
      <4> QED
        BY <1>1, <2>1, <2>2, <4>1, FS_EmptySet DEF HandsHold
    <3>5. confirmedOn' \in [Memory -> 0..MaxDay]
      BY <1>1 DEF MemoriesTyped, MemoriesTypeOK
    <3> HIDE DEF id
    <3> QED
      <4>1. late' = IF Overtaken(c, id) THEN late \cup {id} ELSE late
        BY <1>3 DEF id
      <4> QED
        BY <1>1, <2>1, <2>2, <2>4, <2>6, <3>1, <3>3, <3>4, <3>5, <4>1, MemoryChanges
  <2> QED
    BY <1>3, <2>5, <2>6
<1> QED
  BY <1>2, <1>3 DEF SetPayload

LEMMA RaiseScore_Inv ==
  ASSUME MemoriesInv, NEW c \in Callers, RaiseScore(c)
  PROVE  MemoriesInv'
<1> DEFINE id == caller[c].memory
<1>1. /\ MemoriesTyped /\ HandsHold(c) /\ caller[c].at = "raise"
      /\ caller' = [caller EXCEPT ![c] = Rest]
      /\ UNCHANGED <<day, decayLog, calls, breaks, born>>
  BY DEF MemoriesInv, RaiseScore
<1>2. caller'[c] = Rest
  BY <1>1 DEF MemoriesTyped
<1>3. CASE ~ Stands(id)
  <2>1. UNCHANGED <<memories, confirmedOn, late>>
    BY <1>3 DEF RaiseScore
  <2> QED
    BY <1>1, <1>2, <2>1, RestHolds, RestIsCall, ThreadMoves DEF MemoriesTyped, MemoriesTypeOK
<1>4. CASE Stands(id)
  <2>1. /\ memories' = WithMemory(id, [faded |-> 0, accessed |-> day])
        /\ confirmedOn' = [confirmedOn EXCEPT ![id] = day]
        /\ late' = IF Overtaken(c, id) THEN late \cup {id} ELSE late
    BY <1>4 DEF RaiseScore
  <2>2. id \in DOMAIN memories /\ id \in Memory
    BY <1>1, <1>4 DEF Stands, MemoriesTyped, MemoriesTypeOK
  <2>3. /\ day \in 1..MaxDay /\ MaxDay \in Nat /\ confirmedOn \in [Memory -> 0..MaxDay]
        /\ Limit \in Nat
    BY <1>1, MemoriesAssumption DEF MemoriesTyped, MemoriesTypeOK
  <2>4. day \in 1..day /\ 0 \in 0..Limit /\ day \in 0..MaxDay
    BY <2>3
  <2>5. /\ confirmedOn' \in [Memory -> 0..MaxDay] /\ confirmedOn'[id] = day
        /\ \A m \in Memory \ {id} : confirmedOn'[m] = confirmedOn[m]
    BY <2>1, <2>2, <2>3, <2>4
  <2> HIDE DEF id
  <2> QED
    BY <1>1, <1>2, <2>1, <2>2, <2>4, <2>5, RestHolds, RestIsCall, MemoryChanges
<1> QED
  BY <1>3, <1>4

-----------------------------------------------------------------------------

\* So every step keeps it.
LEMMA MemoriesNext_Inv == ASSUME MemoriesInv, [MemoriesNext]_memoryVars PROVE MemoriesInv'
<1>1. CASE NextDay
  BY <1>1, NextDay_Inv
<1>2. CASE RememberMemory
  BY <1>2, RememberMemory_Inv
<1>3. CASE CrashMemories
  BY <1>3, CrashMemories_Inv
<1>4. ASSUME NEW c \in Callers, CallScan(c) \/ CallConfirm(c) \/ CallForget(c) PROVE MemoriesInv'
  BY <1>4, Call_Inv
<1>5. ASSUME NEW c \in Callers, ScrollPoint(c) PROVE MemoriesInv'
  BY <1>5, ScrollPoint_Inv
<1>6. ASSUME NEW c \in Callers, ScrollEnds(c) PROVE MemoriesInv'
  BY <1>6, ScrollEnds_Inv
<1>7. ASSUME NEW c \in Callers, LogScan(c) PROVE MemoriesInv'
  BY <1>7, LogScan_Inv
<1>8. ASSUME NEW c \in Callers, DeletePoint(c) PROVE MemoriesInv'
  BY <1>8, DeletePoint_Inv
<1>9. ASSUME NEW c \in Callers, SetPayload(c) PROVE MemoriesInv'
  BY <1>9, SetPayload_Inv
<1>10. ASSUME NEW c \in Callers, LogConfirm(c) \/ LogForget(c) PROVE MemoriesInv'
  BY <1>10, LogConfirm_Inv
<1>11. ASSUME NEW c \in Callers, RaiseScore(c) PROVE MemoriesInv'
  BY <1>11, RaiseScore_Inv
<1>12. ASSUME NEW c \in Callers, DropPoint(c) PROVE MemoriesInv'
  BY <1>12, DropPoint_Inv
<1>13. ASSUME NEW c \in Callers, CallFails(c) PROVE MemoriesInv'
  BY <1>13, CallFails_Inv
<1>14. CASE UNCHANGED memoryVars
  BY <1>14 DEF memoryVars, MemoriesInv, MemoriesTyped, MemoriesTypeOK, DeletedIsLogged,
     ConfirmCounts,
               HandsHold, Faded
<1> QED
  BY <1>1, <1>2, <1>3, <1>4, <1>5, <1>6, <1>7, <1>8, <1>9, <1>10, <1>11, <1>12, <1>13, <1>14
     DEF MemoriesNext

\* And it implies what is promised.
LEMMA MemoriesInv_Safe == ASSUME MemoriesInv PROVE MemorySafe
<1>1. OnlyFadedIsDeleted
  BY DEF MemoriesInv, HandsHold, OnlyFadedIsDeleted
<1> QED
  BY <1>1 DEF MemoriesInv, MemoriesTyped, MemorySafe

-----------------------------------------------------------------------------
(* The feedback (Feedback)                                                 *)

FeedbackRow ==
  [passage : Passages, signal : {Up, Down}, route : Routes \cup {NoRoute}, helpful : BOOLEAN,
   recent : BOOLEAN, late : BOOLEAN]
Vote == [passage : Passages, signal : {Up, Down}, route : Routes, helpful : BOOLEAN]
Learning ==
  [at : {"idle", "analyze", "current", "apply", "invalidate"},
   counts : SUBSET [route : Routes, down : Nat, up : Nat],
   found : SUBSET [route : Routes, weight : Floor..Ceiling]]

FeedbackTyped ==
  /\ upgraded \in BOOLEAN
  /\ thumbs \subseteq FeedbackRow
  /\ boosts \in [Passages -> [up : Nat, down : Nat]]
  /\ weights \in [Routes -> {0} \cup Floor..Ceiling]
  /\ voter \in [Voters -> Learning]
  /\ lookup.at = "read" => lookup.route \in Routes /\ (lookup.failed => lookup.weight = Neutral)
  /\ DOMAIN cachedWeight = Routes
  /\ voted \subseteq Vote /\ IsFiniteSet(voted)

\* The votes that a route ever had, and a weight that they allow.
Ups(r) == {x \in voted : x.route = r /\ x.helpful = TRUE}
Downs(r) == {x \in voted : x.route = r /\ x.helpful = FALSE}
Earned(r, w) ==
  /\ w \in Floor..Ceiling
  /\ w < Neutral => Cardinality(Downs(r)) >= MinSamples
  /\ w > Neutral => Cardinality(Ups(r)) >= MinSamples

\* A passage has one row of each signal, and the vote in it is one it had.
RowsAreVotes ==
  /\ \A t, u \in thumbs : t.passage = u.passage /\ t.signal = u.signal => t = u
  /\ \A t \in thumbs : t.route # NoRoute =>
       [passage |-> t.passage, signal |-> t.signal, route |-> t.route, helpful |-> t.helpful] \in voted

\* What a request has counted are no more votes than there ever were, and what it
\* has found out is earned.
LearnsFromVotes(v) ==
  /\ \A c \in voter[v].counts :
       /\ c.down <= Cardinality(Downs(c.route))
       /\ c.up <= Cardinality(Ups(c.route))
  /\ \A f \in voter[v].found : Earned(f.route, f.weight)

LateRowsStay ==
  /\ ~ upgraded \/ table = "extended" => \A t \in thumbs : ~ t.late
  /\ OnlyOldThumbsTeach

FeedbackInv ==
  /\ FeedbackTyped /\ RowsAreVotes /\ LateRowsStay
  /\ \A v \in Voters : LearnsFromVotes(v)
  /\ \A r \in Routes : Earned(r, Weight(r))
  /\ ThumbsAreCounted /\ CacheFollowsWeights

-----------------------------------------------------------------------------

\* Votes are only added.
LEMMA VotesGrow ==
  ASSUME voted \subseteq voted', IsFiniteSet(voted'), NEW r
  PROVE  /\ Cardinality(Ups(r)) \in Nat /\ Cardinality(Ups(r)') \in Nat
         /\ Cardinality(Ups(r)) <= Cardinality(Ups(r)')
         /\ Cardinality(Downs(r)) \in Nat /\ Cardinality(Downs(r)') \in Nat
         /\ Cardinality(Downs(r)) <= Cardinality(Downs(r)')
<1>1. ASSUME NEW S, NEW T, S \subseteq T, T \subseteq voted'
      PROVE  Cardinality(S) \in Nat /\ Cardinality(T) \in Nat /\ Cardinality(S) <= Cardinality(T)
  BY <1>1, FS_Subset, FS_CardinalityType
<1>2. Ups(r) \subseteq Ups(r)' /\ Ups(r)' \subseteq voted'
  BY DEF Ups
<1>3. Downs(r) \subseteq Downs(r)' /\ Downs(r)' \subseteq voted'
  BY DEF Downs
<1> QED
  BY <1>1, <1>2, <1>3

\* A weight that was earned stays so.
LEMMA EarnedStays ==
  ASSUME voted \subseteq voted', IsFiniteSet(voted'), NEW r, NEW w, Earned(r, w)
  PROVE  Earned(r, w)'
<1>1. /\ Cardinality(Downs(r)) \in Nat /\ Cardinality(Downs(r)') \in Nat
      /\ Cardinality(Downs(r)) <= Cardinality(Downs(r)')
      /\ Cardinality(Ups(r)) \in Nat /\ Cardinality(Ups(r)') \in Nat
      /\ Cardinality(Ups(r)) <= Cardinality(Ups(r)')
  BY VotesGrow
<1>2. MinSamples \in Nat
  BY FeedbackAssumption
<1> QED
  BY <1>1, <1>2 DEF Earned

\* What learning has found stays true while votes are added.
LEMMA LearningStays ==
  ASSUME FeedbackTyped, voted \subseteq voted', IsFiniteSet(voted'),
         NEW v \in Voters, LearnsFromVotes(v),
         voter'[v].counts = voter[v].counts \/ voter'[v].counts = {},
         voter'[v].found = voter[v].found \/ voter'[v].found = {}
  PROVE  LearnsFromVotes(v)'
<1>1. voter[v] \in Learning
  BY DEF FeedbackTyped
<1>2. ASSUME NEW c \in voter'[v].counts
      PROVE  /\ c.down <= Cardinality(Downs(c.route)')
             /\ c.up <= Cardinality(Ups(c.route)')
  <2>1. c \in voter[v].counts /\ c.down \in Nat /\ c.up \in Nat
    BY <1>1, <1>2 DEF Learning
  <2>2. /\ c.down <= Cardinality(Downs(c.route))
        /\ c.up <= Cardinality(Ups(c.route))
    BY <2>1 DEF LearnsFromVotes
  <2>3. /\ Cardinality(Downs(c.route)) \in Nat
        /\ Cardinality(Downs(c.route)') \in Nat
        /\ Cardinality(Downs(c.route)) <= Cardinality(Downs(c.route)')
        /\ Cardinality(Ups(c.route)) \in Nat
        /\ Cardinality(Ups(c.route)') \in Nat
        /\ Cardinality(Ups(c.route)) <= Cardinality(Ups(c.route)')
    BY VotesGrow
  <2> QED
    BY <2>1, <2>2, <2>3
<1>3. ASSUME NEW f \in voter'[v].found
      PROVE  Earned(f.route, f.weight)'
  <2>1. Earned(f.route, f.weight)
    BY <1>3 DEF LearnsFromVotes
  <2> QED
    BY <2>1, EarnedStays
<1> QED
  BY <1>2, <1>3 DEF LearnsFromVotes, Ups, Downs, Earned

\* It holds at the start, and each action of the module keeps it.
LEMMA FeedbackInit_Inv == ASSUME FeedbackInit PROVE FeedbackInv
<1>1. NoVote \in Learning /\ NoVote.counts = {} /\ NoVote.found = {} /\ NoWeight \in [weight : Int, at : Int]
  BY DEF NoVote, NoWeight, Learning
<1>2. /\ thumbs = {} /\ voted = {} /\ upgraded = FALSE /\ voter = [v \in Voters |-> NoVote]
      /\ boosts = [p \in Passages |-> [up |-> 0, down |-> 0]]
      /\ weights = [r \in Routes |-> 0] /\ lookup.at = "idle"
      /\ cachedWeight = [r \in Routes |-> NoWeight]
  BY DEF FeedbackInit, NoLookup
<1>3. FeedbackTyped
  BY <1>1, <1>2, FS_EmptySet DEF FeedbackTyped
<1>4. RowsAreVotes /\ LateRowsStay
  BY <1>2 DEF RowsAreVotes, LateRowsStay, OnlyOldThumbsTeach
<1>5. \A v \in Voters : LearnsFromVotes(v)
  BY <1>1, <1>2 DEF LearnsFromVotes
<1>6. \A r \in Routes : Earned(r, Weight(r))
  BY <1>2 DEF Earned, Weight, Neutral, Floor, Ceiling
<1>7. ThumbsAreCounted
  BY <1>2 DEF ThumbsAreCounted
<1>8. CacheFollowsWeights
  BY <1>2 DEF CacheFollowsWeights, NoWeight
<1> QED
  BY <1>3, <1>4, <1>5, <1>6, <1>7, <1>8 DEF FeedbackInv

\* Steps that change no row, no vote and no weight.
LEMMA LearningGoesOn ==
  ASSUME FeedbackInv, UNCHANGED <<table, upgraded, thumbs, boosts, weights, voted>>,
         voter' \in [Voters -> Learning], \A v \in Voters : LearnsFromVotes(v)',
         lookup'.at = "read" => lookup'.route \in Routes /\ (lookup'.failed => lookup'.weight = Neutral),
         DOMAIN cachedWeight' = Routes, CacheFollowsWeights'
  PROVE  FeedbackInv'
<1>1. FeedbackTyped'
  BY DEF FeedbackInv, FeedbackTyped
<1>2. RowsAreVotes' /\ LateRowsStay' /\ ThumbsAreCounted'
  BY DEF FeedbackInv, RowsAreVotes, LateRowsStay, OnlyOldThumbsTeach, ThumbsAreCounted
<1>3. \A r \in Routes : Earned(r, Weight(r))'
  BY DEF FeedbackInv, Earned, Ups, Downs, Weight
<1> QED
  BY <1>1, <1>2, <1>3 DEF FeedbackInv

LEMMA Thumb_Inv ==
  ASSUME FeedbackInv, NEW p \in Passages, NEW signal \in {Up, Down}, Thumb(p, signal)
  PROVE  FeedbackInv'
<1> DEFINE row == [passage |-> p, signal |-> signal, route |-> NoRoute,
                   helpful |-> FALSE, recent |-> TRUE, late |-> upgraded]
<1>1. /\ FeedbackTyped /\ table # "extended" /\ table' = "plain"
      /\ thumbs' = IF \E t \in thumbs : t.passage = p /\ t.signal = signal THEN thumbs ELSE thumbs \cup {row}
      /\ boosts' = [boosts EXCEPT ![p] = [up |-> boosts[p].up + (IF signal = Up THEN 1 ELSE 0),
                                         down |-> boosts[p].down + (IF signal = Down THEN 1 ELSE 0)]]
      /\ UNCHANGED <<upgraded, weights, voter, lookup, cachedWeight, voted, overtaken, misread>>
  BY DEF Thumb, FeedbackInv, historyVars
<1>2. /\ row.passage = p /\ row.signal = signal /\ row.route = NoRoute /\ row.late = upgraded
  OBVIOUS
<1>3. row \in FeedbackRow \/ \E t \in thumbs : t.passage = p /\ t.signal = signal
  <2>1. upgraded \in BOOLEAN
    BY <1>1 DEF FeedbackTyped
  <2> QED
    BY <2>1 DEF FeedbackRow
<1> HIDE DEF row
<1>4. /\ boosts' \in [Passages -> [up : Nat, down : Nat]]
      /\ boosts'[p].up = boosts[p].up + (IF signal = Up THEN 1 ELSE 0)
      /\ boosts'[p].down = boosts[p].down + (IF signal = Down THEN 1 ELSE 0)
      /\ \A q \in Passages \ {p} : boosts'[q] = boosts[q]
  <2> DEFINE more == [up |-> boosts[p].up + (IF signal = Up THEN 1 ELSE 0),
                      down |-> boosts[p].down + (IF signal = Down THEN 1 ELSE 0)]
  <2>1. boosts[p] \in [up : Nat, down : Nat]
    BY <1>1 DEF FeedbackTyped
  <2>2. more \in [up : Nat, down : Nat]
    BY <2>1
  <2>3. boosts' = [boosts EXCEPT ![p] = more]
    BY <1>1, <2>1 DEF FeedbackTyped
  <2> HIDE DEF more
  <2>4. /\ boosts' \in [Passages -> [up : Nat, down : Nat]] /\ boosts'[p] = more
        /\ \A q \in Passages \ {p} : boosts'[q] = boosts[q]
    BY <1>1, <2>2, <2>3 DEF FeedbackTyped
  <2> QED
    BY <2>4 DEF more
<1>5. FeedbackTyped'
  BY <1>1, <1>3, <1>4 DEF FeedbackTyped
<1>6. RowsAreVotes' /\ ThumbsAreCounted'
  <2>1. CASE \E t \in thumbs : t.passage = p /\ t.signal = signal
    <3>1. thumbs' = thumbs
      BY <1>1, <2>1
    <3>2. RowsAreVotes'
      BY <1>1, <3>1 DEF FeedbackInv, RowsAreVotes
    <3>3. \A q \in Passages : boosts[q].up \in Nat /\ boosts[q].down \in Nat
      BY <1>1 DEF FeedbackTyped
    <3>4. ThumbsAreCounted'
      BY <1>4, <2>1, <3>1, <3>3 DEF FeedbackInv, ThumbsAreCounted, Up, Down
    <3> QED
      BY <3>2, <3>4
  <2>2. CASE ~ \E t \in thumbs : t.passage = p /\ t.signal = signal
    <3>1. thumbs' = thumbs \cup {row}
      BY <1>1, <2>2
    <3>2. \A t \in thumbs' : t \in thumbs \/ t = row
      BY <3>1
    <3>3. RowsAreVotes'
      <4>1. \A t, u \in thumbs' : t.passage = u.passage /\ t.signal = u.signal => t = u
        BY <1>2, <2>2, <3>2 DEF FeedbackInv, RowsAreVotes
      <4>2. ASSUME NEW t \in thumbs', t.route # NoRoute
            PROVE  [passage |-> t.passage, signal |-> t.signal, route |-> t.route,
                    helpful |-> t.helpful] \in voted'
        BY <1>1, <1>2, <3>2, <4>2 DEF FeedbackInv, RowsAreVotes
      <4> QED
        BY <4>1, <4>2 DEF RowsAreVotes
    <3>4. \A q \in Passages : boosts[q].up \in Nat /\ boosts[q].down \in Nat
      BY <1>1 DEF FeedbackTyped
    <3>5. ASSUME NEW q \in Passages
          PROVE  /\ (\E t \in thumbs' : t.passage = q /\ t.signal = Up) <=> boosts'[q].up > 0
                 /\ (\E t \in thumbs' : t.passage = q /\ t.signal = Down) <=> boosts'[q].down > 0
      <4>1. /\ (\E t \in thumbs : t.passage = q /\ t.signal = Up) <=> boosts[q].up > 0
            /\ (\E t \in thumbs : t.passage = q /\ t.signal = Down) <=> boosts[q].down > 0
        BY DEF FeedbackInv, ThumbsAreCounted
      <4>2. CASE q # p
        BY <1>2, <1>4, <3>1, <4>1, <4>2
      <4>3. CASE q = p
        BY <1>2, <1>4, <3>1, <3>4, <4>1, <4>3 DEF Up, Down
      <4> QED
        BY <4>2, <4>3
    <3> QED
      BY <3>3, <3>5 DEF ThumbsAreCounted
  <2> QED
    BY <2>1, <2>2
<1>10. LateRowsStay'
  BY <1>1, <1>2 DEF FeedbackInv, LateRowsStay, OnlyOldThumbsTeach
<1>7. \A v \in Voters : LearnsFromVotes(v)'
  BY <1>1 DEF FeedbackInv, LearnsFromVotes, Earned, Ups, Downs
<1>8. \A r \in Routes : Earned(r, Weight(r))'
  BY <1>1 DEF FeedbackInv, Earned, Ups, Downs, Weight
<1>9. CacheFollowsWeights'
  BY <1>1 DEF FeedbackInv, CacheFollowsWeights, Weight
<1> QED
  BY <1>5, <1>6, <1>7, <1>8, <1>9, <1>10 DEF FeedbackInv

LEMMA Upgrade_Inv == ASSUME FeedbackInv, Upgrade PROVE FeedbackInv'
<1>1. /\ FeedbackTyped /\ upgraded' = TRUE /\ ~ upgraded
      /\ UNCHANGED <<thumbs, boosts, weights, voter, lookup, cachedWeight, voted, overtaken, misread>>
  BY DEF Upgrade, FeedbackInv, historyVars
<1>2. FeedbackTyped'
  BY <1>1 DEF FeedbackTyped
<1>3. LateRowsStay'
  BY <1>1 DEF FeedbackInv, LateRowsStay, OnlyOldThumbsTeach
<1>4. RowsAreVotes' /\ ThumbsAreCounted' /\ CacheFollowsWeights'
  BY <1>1 DEF FeedbackInv, RowsAreVotes, ThumbsAreCounted, CacheFollowsWeights, Weight
<1>5. \A v \in Voters : LearnsFromVotes(v)'
  BY <1>1 DEF FeedbackInv, LearnsFromVotes, Earned, Ups, Downs
<1>6. \A r \in Routes : Earned(r, Weight(r))'
  BY <1>1 DEF FeedbackInv, Earned, Ups, Downs, Weight
<1> QED
  BY <1>2, <1>3, <1>4, <1>5, <1>6 DEF FeedbackInv

LEMMA RecordVote_Inv ==
  ASSUME FeedbackInv, NEW v \in Voters, NEW p \in Passages, NEW r \in Routes,
         NEW helpful \in BOOLEAN, RecordVote(v, p, r, helpful)
  PROVE  FeedbackInv'
<1> DEFINE marked(t) == IF t.passage = p THEN [t EXCEPT !.route = r, !.helpful = helpful] ELSE t
           cast(s) == [passage |-> p, signal |-> s, route |-> r, helpful |-> helpful]
<1>1. /\ FeedbackTyped /\ table = "extended" /\ voter[v].at = "idle"
      /\ thumbs' = {marked(t) : t \in thumbs}
      /\ voted' = voted \cup {cast(t.signal) : t \in {s \in thumbs : s.passage = p}}
      /\ voter' = [voter EXCEPT ![v].at = "analyze"]
      /\ UNCHANGED <<table, upgraded, boosts, weights, lookup, cachedWeight, overtaken, misread>>
  BY DEF RecordVote, FeedbackInv, schemaVars
<1>2. ASSUME NEW t \in thumbs
      PROVE  /\ marked(t) \in FeedbackRow
             /\ marked(t).passage = t.passage /\ marked(t).signal = t.signal
             /\ marked(t).late = t.late
             /\ t.passage = p => marked(t).route = r /\ marked(t).helpful = helpful
             /\ t.passage # p => marked(t) = t
  <2>1. t \in FeedbackRow
    BY <1>1 DEF FeedbackTyped
  <2> QED
    BY <2>1 DEF FeedbackRow
<1>3. \A t \in thumbs : cast(t.signal) \in Vote /\ (cast(t.signal) = cast(Up) \/ cast(t.signal) = cast(Down))
  BY <1>1 DEF FeedbackTyped, FeedbackRow, Vote
<1>4. \A t \in thumbs : t.passage = p => cast(t.signal) \in voted'
  BY <1>1
<1> HIDE DEF marked
<1>5. voted \subseteq voted' /\ voted' \subseteq Vote /\ IsFiniteSet(voted')
  <2> DEFINE new == {cast(t.signal) : t \in {s \in thumbs : s.passage = p}}
  <2>1. voted' = voted \cup new /\ new \subseteq {cast(Up), cast(Down)} /\ new \subseteq Vote
    BY <1>1, <1>3
  <2> HIDE DEF new, cast
  <2>2. IsFiniteSet({cast(Up)} \cup {cast(Down)})
    BY FS_Singleton, FS_Union
  <2>3. IsFiniteSet(new)
    <3>1. new \subseteq {cast(Up)} \cup {cast(Down)}
      BY <2>1
    <3> QED
      BY <2>2, <3>1, FS_Subset
  <2>4. IsFiniteSet(voted \cup new)
    BY <1>1, <2>3, FS_Union DEF FeedbackTyped
  <2> QED
    BY <1>1, <2>1, <2>4 DEF FeedbackTyped
<1>6. /\ voter'[v] = [at |-> "analyze", counts |-> voter[v].counts, found |-> voter[v].found]
      /\ \A w \in Voters \ {v} : voter'[w] = voter[w]
  BY <1>1 DEF FeedbackTyped, Learning
<1>15. voter'[v] \in Learning
  BY <1>1, <1>6 DEF FeedbackTyped, Learning
<1>7. voter' \in [Voters -> Learning]
  BY <1>1, <1>6, <1>15 DEF FeedbackTyped
<1>8. FeedbackTyped'
  BY <1>1, <1>2, <1>5, <1>7 DEF FeedbackTyped
<1>9. RowsAreVotes'
  <2>1. ASSUME NEW t \in thumbs', NEW u \in thumbs', t.passage = u.passage, t.signal = u.signal
        PROVE  t = u
    <3>1. PICK a \in thumbs, b \in thumbs : t = marked(a) /\ u = marked(b)
      BY <1>1
    <3>2. a = b
      BY <1>2, <2>1, <3>1 DEF FeedbackInv, RowsAreVotes
    <3> QED
      BY <3>1, <3>2
  <2>2. ASSUME NEW t \in thumbs', t.route # NoRoute
        PROVE  [passage |-> t.passage, signal |-> t.signal, route |-> t.route,
                helpful |-> t.helpful] \in voted'
    <3>1. PICK a \in thumbs : t = marked(a)
      BY <1>1
    <3>2. CASE a.passage = p
      BY <1>2, <1>4, <3>1, <3>2
    <3>3. CASE a.passage # p
      BY <1>2, <1>5, <2>2, <3>1, <3>3 DEF FeedbackInv, RowsAreVotes
    <3> QED
      BY <3>2, <3>3
  <2> QED
    BY <2>1, <2>2 DEF RowsAreVotes
<1>10. LateRowsStay'
  BY <1>1, <1>2 DEF FeedbackInv, LateRowsStay, OnlyOldThumbsTeach
<1>11. ThumbsAreCounted'
  <2>1. \A q \in Passages, s \in {Up, Down} :
          (\E t \in thumbs' : t.passage = q /\ t.signal = s)
            <=> (\E t \in thumbs : t.passage = q /\ t.signal = s)
    BY <1>1, <1>2
  <2> QED
    BY <1>1, <2>1 DEF FeedbackInv, ThumbsAreCounted
<1>12. \A w \in Voters : LearnsFromVotes(w)'
  <2> SUFFICES ASSUME NEW w \in Voters PROVE LearnsFromVotes(w)'
    OBVIOUS
  <2>1. voter'[w].counts = voter[w].counts /\ voter'[w].found = voter[w].found
    BY <1>6
  <2> QED
    BY <1>1, <1>5, <2>1, LearningStays DEF FeedbackInv
<1>13. \A s \in Routes : Earned(s, Weight(s))'
  <2> SUFFICES ASSUME NEW s \in Routes PROVE Earned(s, Weight(s))'
    OBVIOUS
  <2>1. Earned(s, Weight(s)) /\ Weight(s)' = Weight(s)
    BY <1>1 DEF FeedbackInv, Weight
  <2>2. Earned(s, Weight(s))'
    <3> DEFINE w == Weight(s)
    <3>1. Earned(s, w) /\ w' = w
      BY <2>1
    <3>2. /\ Cardinality(Downs(s)) \in Nat /\ Cardinality(Downs(s)') \in Nat
          /\ Cardinality(Downs(s)) <= Cardinality(Downs(s)')
          /\ Cardinality(Ups(s)) \in Nat /\ Cardinality(Ups(s)') \in Nat
          /\ Cardinality(Ups(s)) <= Cardinality(Ups(s)')
      BY <1>5, VotesGrow
    <3> HIDE DEF w
    <3>3. Earned(s, w)'
      BY <3>1, <3>2, FeedbackAssumption DEF Earned
    <3> QED
      BY <3>3 DEF w
  <2> QED
    BY <2>2
<1>14. CacheFollowsWeights'
  BY <1>1, <1>6 DEF FeedbackInv, CacheFollowsWeights, Weight
<1> QED
  BY <1>8, <1>9, <1>10, <1>11, <1>12, <1>13, <1>14 DEF FeedbackInv

\* The rows with a vote are no more than the votes of the same kind ever cast:
\* each row has a passage and a signal of its own.
LEMMA VotesAreVoted ==
  ASSUME FeedbackInv, NEW r \in Routes
  PROVE  /\ Votes(r, TRUE) \in Nat /\ Votes(r, TRUE) <= Cardinality(Ups(r))
         /\ Votes(r, FALSE) \in Nat /\ Votes(r, FALSE) <= Cardinality(Downs(r))
<1> DEFINE image(t) == [passage |-> t.passage, signal |-> t.signal, route |-> t.route,
                        helpful |-> t.helpful]
<1>1. ASSUME NEW S \in SUBSET thumbs, NEW T \in SUBSET voted,
             \A t \in S : image(t) \in T
      PROVE  Cardinality(S) \in Nat /\ Cardinality(S) <= Cardinality(T)
  <2> DEFINE f == [t \in S |-> image(t)]
  <2>1. IsFiniteSet(T)
    BY FS_Subset DEF FeedbackInv, FeedbackTyped
  <2>2. f \in [S -> T]
    BY <1>1
  <2>3. ASSUME NEW t \in S, NEW u \in S, f[t] = f[u]
        PROVE  t = u
    BY <2>3 DEF FeedbackInv, RowsAreVotes
  <2>4. f \in Injection(S, T)
    BY <2>2, <2>3 DEF Injection, IsInjective
  <2>5. IsFiniteSet(S) /\ Cardinality(S) <= Cardinality(T)
    BY <2>1, <2>4, FS_Injection DEF ExistsInjection
  <2> QED
    BY <2>5, FS_CardinalityType
<1>2. /\ \A t \in thumbs : t.route = r /\ t.helpful = TRUE => image(t) \in Ups(r)
      /\ \A t \in thumbs : t.route = r /\ t.helpful = FALSE => image(t) \in Downs(r)
  BY FeedbackAssumption DEF FeedbackInv, RowsAreVotes, Ups, Downs
<1> HIDE DEF image
<1>3. Ups(r) \subseteq voted /\ Downs(r) \subseteq voted
  BY DEF Ups, Downs
<1> DEFINE U == {t \in thumbs : t.recent /\ t.route = r /\ t.helpful = TRUE}
           D == {t \in thumbs : t.recent /\ t.route = r /\ t.helpful = FALSE}
<1>4. Cardinality(U) \in Nat /\ Cardinality(U) <= Cardinality(Ups(r))
  BY <1>1, <1>2, <1>3
<1>5. Cardinality(D) \in Nat /\ Cardinality(D) <= Cardinality(Downs(r))
  BY <1>1, <1>2, <1>3
<1> QED
  BY <1>4, <1>5 DEF Votes

LEMMA CountVotes_Inv ==
  ASSUME FeedbackInv, NEW v \in Voters, CountVotes(v)
  PROVE  FeedbackInv'
<1> DEFINE counts == {[route |-> r, down |-> Votes(r, FALSE), up |-> Votes(r, TRUE)] :
                      r \in {s \in Routes : Votes(s, FALSE) + Votes(s, TRUE) > 0}}
<1>1. /\ FeedbackTyped
      /\ voter' = [voter EXCEPT ![v].at = "current", ![v].counts = counts]
      /\ UNCHANGED <<table, upgraded, thumbs, boosts, weights, lookup, cachedWeight, voted, overtaken, misread>>
  BY DEF CountVotes, FeedbackInv, schemaVars, historyVars
<1>2. \A c \in counts : /\ c \in [route : Routes, down : Nat, up : Nat]
                       /\ c.down <= Cardinality(Downs(c.route)) /\ c.up <= Cardinality(Ups(c.route))
  <2> SUFFICES ASSUME NEW c \in counts
               PROVE  /\ c \in [route : Routes, down : Nat, up : Nat]
                      /\ c.down <= Cardinality(Downs(c.route)) /\ c.up <= Cardinality(Ups(c.route))
    OBVIOUS
  <2>1. PICK r \in Routes : c = [route |-> r, down |-> Votes(r, FALSE), up |-> Votes(r, TRUE)]
    OBVIOUS
  <2>2. /\ Votes(r, TRUE) \in Nat /\ Votes(r, TRUE) <= Cardinality(Ups(r))
        /\ Votes(r, FALSE) \in Nat /\ Votes(r, FALSE) <= Cardinality(Downs(r))
    BY VotesAreVoted
  <2> QED
    BY <2>1, <2>2
<1> HIDE DEF counts
<1>3. voter[v] \in Learning /\ voter[v].at = "analyze"
  BY <1>1 DEF FeedbackTyped, CountVotes
<1>4. /\ voter'[v] = [at |-> "current", counts |-> counts, found |-> voter[v].found]
      /\ \A w \in Voters \ {v} : voter'[w] = voter[w]
  BY <1>1, <1>3 DEF FeedbackTyped, Learning
<1>5. voter'[v] \in Learning
  BY <1>2, <1>3, <1>4 DEF Learning
<1>6. voter' \in [Voters -> Learning]
  BY <1>1, <1>4, <1>5 DEF FeedbackTyped
<1>7. ASSUME NEW w \in Voters PROVE LearnsFromVotes(w)'
  <2>1. LearnsFromVotes(w)
    BY DEF FeedbackInv
  <2>2. CASE w = v
    <3>1. voter'[w].counts = counts /\ voter'[w].found = voter[w].found
      BY <1>4, <2>2
    <3> QED
      BY <1>1, <1>2, <2>1, <3>1 DEF LearnsFromVotes, Earned, Ups, Downs
  <2>3. CASE w # v
    BY <1>1, <1>4, <2>1, <2>3 DEF LearnsFromVotes, Earned, Ups, Downs
  <2> QED
    BY <2>2, <2>3
<1>8. CacheFollowsWeights'
  BY <1>1, <1>3, <1>4 DEF FeedbackInv, CacheFollowsWeights, Weight
<1> QED
  BY <1>1, <1>6, <1>7, <1>8, LearningGoesOn DEF FeedbackTyped

\* The greater and the smaller of two numbers.
LEMMA MaxOfTwo ==
  ASSUME NEW a \in Int, NEW b \in Int
  PROVE  Max({a, b}) = IF a >= b THEN a ELSE b
<1>1. CASE a >= b
  BY <1>1 DEF Max
<1>2. CASE a < b
  BY <1>2 DEF Max
<1> QED
  BY <1>1, <1>2

LEMMA MinOfTwo ==
  ASSUME NEW a \in Int, NEW b \in Int
  PROVE  Min({a, b}) = IF a <= b THEN a ELSE b
<1>1. CASE a <= b
  BY <1>1 DEF Min
<1>2. CASE b < a
  BY <1>2 DEF Min
<1> QED
  BY <1>1, <1>2

\* A weight that enough votes move is one that the votes allow.
LEMMA AdjustedIsEarned ==
  ASSUME FeedbackInv, NEW c \in [route : Routes, down : Nat, up : Nat],
         c.down <= Cardinality(Downs(c.route)), c.up <= Cardinality(Ups(c.route)),
         Penalised(c) \/ Rewarded(c)
  PROVE  Earned(c.route, Adjusted(c))
<1> DEFINE w == Weight(c.route)  ups == Cardinality(Ups(c.route))  downs == Cardinality(Downs(c.route))
<1>1. /\ w \in 10..30
      /\ w < 20 => downs >= MinSamples
      /\ w > 20 => ups >= MinSamples
  BY DEF FeedbackInv, Earned, Floor, Ceiling, Neutral
<1>2. ups \in Nat /\ downs \in Nat
  <2>1. Ups(c.route) \subseteq voted /\ Downs(c.route) \subseteq voted
    BY DEF Ups, Downs
  <2> QED
    BY <2>1, FS_Subset, FS_CardinalityType DEF FeedbackInv, FeedbackTyped
<1>3. c.up \in Nat /\ c.down \in Nat /\ MinSamples \in Nat /\ c.up <= ups /\ c.down <= downs
  BY FeedbackAssumption
<1>4. Adjusted(c) = IF Penalised(c) THEN Max({10, w - 2 * c.down}) ELSE Min({30, w + c.up})
  BY DEF Adjusted, Floor, Ceiling
<1> HIDE DEF w, ups, downs
<1>5. /\ Max({10, w - 2 * c.down}) = IF 10 >= w - 2 * c.down THEN 10 ELSE w - 2 * c.down
      /\ Min({30, w + c.up}) = IF 30 <= w + c.up THEN 30 ELSE w + c.up
  <2>1. PICK low \in Int, high \in Int : low = w - 2 * c.down /\ high = w + c.up
    BY <1>1, <1>3
  <2>2. Max({10, low}) = IF 10 >= low THEN 10 ELSE low
    BY MaxOfTwo
  <2>3. Min({30, high}) = IF 30 <= high THEN 30 ELSE high
    BY MinOfTwo
  <2> QED
    BY <2>1, <2>2, <2>3
<1>6. /\ Adjusted(c) \in 10..30
      /\ Adjusted(c) < 20 => downs >= MinSamples
      /\ Adjusted(c) > 20 => ups >= MinSamples
  <2>1. CASE Penalised(c)
    <3>1. c.down >= MinSamples
      BY <2>1 DEF Penalised
    <3>2. Adjusted(c) = IF 10 >= w - 2 * c.down THEN 10 ELSE w - 2 * c.down
      BY <1>4, <1>5, <2>1
    <3> QED
      BY <1>1, <1>2, <1>3, <3>1, <3>2
  <2>2. CASE ~ Penalised(c)
    <3>1. c.up >= MinSamples
      BY <2>2 DEF Rewarded
    <3>2. Adjusted(c) = IF 30 <= w + c.up THEN 30 ELSE w + c.up
      BY <1>4, <1>5, <2>2
    <3> QED
      BY <1>1, <1>2, <1>3, <3>1, <3>2
  <2> QED
    BY <2>1, <2>2
<1> QED
  BY <1>6 DEF Earned, ups, downs, Floor, Ceiling, Neutral

LEMMA Analyze_Inv ==
  ASSUME FeedbackInv, NEW v \in Voters, Analyze(v)
  PROVE  FeedbackInv'
<1> DEFINE significant == {c \in voter[v].counts : Penalised(c) \/ Rewarded(c)}
           earnt == {[route |-> c.route, weight |-> Adjusted(c)] : c \in significant}
           next == IF significant = {} THEN NoVote
                   ELSE [at |-> "apply", counts |-> {}, found |-> earnt]
<1>1. /\ FeedbackTyped /\ voter' = [voter EXCEPT ![v] = next]
      /\ UNCHANGED <<table, upgraded, thumbs, boosts, weights, lookup, cachedWeight, voted, overtaken, misread>>
  BY DEF Analyze, FeedbackInv, schemaVars, historyVars
<1>2. voter[v] \in Learning /\ voter[v].at = "current"
  BY <1>1 DEF FeedbackTyped, Analyze
<1>3. \A f \in earnt : f \in [route : Routes, weight : Floor..Ceiling] /\ Earned(f.route, f.weight)
  <2> SUFFICES ASSUME NEW f \in earnt
               PROVE  f \in [route : Routes, weight : Floor..Ceiling] /\ Earned(f.route, f.weight)
    OBVIOUS
  <2>1. PICK c \in significant : f = [route |-> c.route, weight |-> Adjusted(c)]
    OBVIOUS
  <2>2. c \in [route : Routes, down : Nat, up : Nat]
    BY <1>2 DEF Learning
  <2>3. c.down <= Cardinality(Downs(c.route)) /\ c.up <= Cardinality(Ups(c.route))
    BY DEF FeedbackInv, LearnsFromVotes
  <2>4. Earned(c.route, Adjusted(c))
    BY <2>2, <2>3, AdjustedIsEarned
  <2> QED
    BY <2>1, <2>2, <2>4 DEF Earned
<1> HIDE DEF earnt
<1>4. /\ next \in Learning /\ next.counts = {} /\ next.found \in {{}, earnt}
      /\ \A w \in Voters : voter'[w] = IF w = v THEN next ELSE voter[w]
  <2>1. next \in Learning /\ next.counts = {} /\ next.found \in {{}, earnt}
    BY <1>3 DEF Learning, NoVote
  <2> HIDE DEF next
  <2> QED
    BY <1>1, <2>1 DEF FeedbackTyped
<1> HIDE DEF next
<1>5. voter' \in [Voters -> Learning]
  BY <1>1, <1>4 DEF FeedbackTyped
<1>6. ASSUME NEW w \in Voters PROVE LearnsFromVotes(w)'
  <2>1. LearnsFromVotes(w)
    BY DEF FeedbackInv
  <2>2. CASE w = v
    <3>1. voter'[w].counts = {} /\ voter'[w].found \in {{}, earnt}
      BY <1>4, <2>2
    <3> QED
      BY <1>1, <1>3, <3>1 DEF LearnsFromVotes, Earned, Ups, Downs
  <2>3. CASE w # v
    <3>1. voter'[w].counts = voter[w].counts /\ voter'[w].found = voter[w].found
      BY <1>4, <2>3
    <3> QED
      BY <1>1, <2>1, <3>1 DEF LearnsFromVotes, Earned, Ups, Downs
  <2> QED
    BY <2>2, <2>3
<1>7. CacheFollowsWeights'
  BY <1>1, <1>2, <1>4 DEF FeedbackInv, CacheFollowsWeights, Weight
<1> QED
  BY <1>1, <1>5, <1>6, <1>7, LearningGoesOn DEF FeedbackTyped

LEMMA LearningFails_Inv ==
  ASSUME FeedbackInv, NEW v \in Voters, LearningFails(v)
  PROVE  FeedbackInv'
<1>1. /\ FeedbackTyped /\ voter[v].at # "invalidate" /\ voter' = [voter EXCEPT ![v] = NoVote]
      /\ UNCHANGED <<table, upgraded, thumbs, boosts, weights, lookup, cachedWeight, voted, overtaken, misread>>
  BY DEF LearningFails, FeedbackInv, schemaVars, historyVars
<1>2. NoVote \in Learning /\ NoVote.counts = {} /\ NoVote.found = {}
  BY DEF NoVote, Learning
<1>3. /\ voter' \in [Voters -> Learning]
      /\ \A w \in Voters : voter'[w] = IF w = v THEN NoVote ELSE voter[w]
  BY <1>1, <1>2 DEF FeedbackTyped
<1>4. ASSUME NEW w \in Voters PROVE LearnsFromVotes(w)'
  BY <1>1, <1>2, <1>3, LearningStays DEF FeedbackInv, FeedbackTyped
<1>5. CacheFollowsWeights'
  BY <1>1, <1>3 DEF FeedbackInv, CacheFollowsWeights, Weight
<1> QED
  BY <1>1, <1>3, <1>4, <1>5, LearningGoesOn DEF FeedbackTyped

LEMMA InvalidateCache_Inv ==
  ASSUME FeedbackInv, NEW v \in Voters, InvalidateCache(v)
  PROVE  FeedbackInv'
<1>1. /\ FeedbackTyped /\ voter' = [voter EXCEPT ![v] = NoVote]
      /\ cachedWeight' = [r \in Routes |-> NoWeight]
      /\ UNCHANGED <<table, upgraded, thumbs, boosts, weights, lookup, voted>>
  BY DEF InvalidateCache, FeedbackInv, schemaVars, historyVars
<1>2. /\ NoVote \in Learning /\ NoVote.counts = {} /\ NoVote.found = {}
      /\ ~ NoWeight.at >= 0
  BY DEF NoVote, Learning, NoWeight
<1>3. /\ voter' \in [Voters -> Learning]
      /\ \A w \in Voters : voter'[w] = IF w = v THEN NoVote ELSE voter[w]
  BY <1>1, <1>2 DEF FeedbackTyped
<1>4. ASSUME NEW w \in Voters PROVE LearnsFromVotes(w)'
  BY <1>1, <1>2, <1>3, LearningStays DEF FeedbackInv, FeedbackTyped
<1>5. CacheFollowsWeights' /\ DOMAIN cachedWeight' = Routes
  BY <1>1, <1>2 DEF CacheFollowsWeights
<1> QED
  BY <1>1, <1>3, <1>4, <1>5, LearningGoesOn DEF FeedbackTyped

LEMMA FeedbackCrash_Inv == ASSUME FeedbackInv, FeedbackCrash PROVE FeedbackInv'
<1>1. /\ FeedbackTyped /\ voter' = [v \in Voters |-> NoVote] /\ lookup' = NoLookup
      /\ cachedWeight' = [r \in Routes |-> NoWeight]
      /\ UNCHANGED <<table, upgraded, thumbs, boosts, weights, voted>>
  BY DEF FeedbackCrash, FeedbackInv, schemaVars, historyVars
<1>2. /\ NoVote \in Learning /\ NoVote.counts = {} /\ NoVote.found = {}
      /\ ~ NoWeight.at >= 0
      /\ NoLookup.at # "read"
  BY DEF NoVote, Learning, NoWeight, NoLookup
<1>3. /\ voter' \in [Voters -> Learning] /\ \A w \in Voters : voter'[w] = NoVote
  BY <1>1, <1>2
<1>4. ASSUME NEW w \in Voters PROVE LearnsFromVotes(w)'
  BY <1>1, <1>2, <1>3, LearningStays DEF FeedbackInv, FeedbackTyped
<1>5. CacheFollowsWeights' /\ DOMAIN cachedWeight' = Routes
  BY <1>1, <1>2 DEF CacheFollowsWeights
<1> QED
  BY <1>1, <1>2, <1>3, <1>4, <1>5, LearningGoesOn

LEMMA Lookup_Inv ==
  ASSUME FeedbackInv, (\E r \in Routes : ReadWeight(r)) \/ KeepWeight
  PROVE  FeedbackInv'
<1>1. /\ FeedbackTyped /\ \A v \in Voters : LearnsFromVotes(v)
      /\ UNCHANGED <<table, upgraded, thumbs, boosts, weights, voted, voter>>
  BY DEF ReadWeight, KeepWeight, FeedbackInv, schemaVars, historyVars
<1>2. \A v \in Voters : LearnsFromVotes(v)'
  BY <1>1 DEF LearnsFromVotes, Earned, Ups, Downs
<1>3. CASE \E r \in Routes : ReadWeight(r)
  <2>1. /\ lookup'.at = "read" => lookup'.route \in Routes /\ (lookup'.failed => lookup'.weight = Neutral)
        /\ UNCHANGED <<cachedWeight, overtaken, misread>>
    <3>1. PICK r \in Routes, failed \in BOOLEAN :
            lookup' = [at |-> "read", route |-> r, failed |-> failed,
                       weight |-> IF failed THEN Neutral ELSE Weight(r)]
      BY <1>3 DEF ReadWeight
    <3> QED
      BY <1>3, <3>1 DEF ReadWeight, historyVars
  <2>2. CacheFollowsWeights'
    BY <1>1, <2>1 DEF FeedbackInv, CacheFollowsWeights, Weight
  <2> QED
    BY <1>1, <1>2, <2>1, <2>2, LearningGoesOn DEF FeedbackTyped
<1>4. CASE KeepWeight
  <2> DEFINE r == lookup.route  kept == [weight |-> lookup.weight, at |-> age]
  <2>1. /\ r \in Routes /\ cachedWeight' = [cachedWeight EXCEPT ![r] = kept]
        /\ overtaken' = IF lookup.failed \/ lookup.weight = Weight(r)
                        THEN overtaken \ {r} ELSE overtaken \cup {r}
        /\ misread' = IF lookup.failed THEN misread \cup {r} ELSE misread \ {r}
        /\ lookup' = NoLookup /\ (lookup.failed => lookup.weight = Neutral)
    BY <1>1, <1>4 DEF KeepWeight, FeedbackTyped
  <2>2. lookup'.at # "read"
    BY <2>1 DEF NoLookup
  <2> HIDE DEF kept
  <2>3. DOMAIN cachedWeight' = Routes /\ \A q \in Routes : cachedWeight'[q] = IF q = r THEN kept ELSE cachedWeight[q]
    BY <1>1, <2>1 DEF FeedbackTyped
  <2>4. kept.weight # Weight(r) => r \in overtaken' \/ (r \in misread' /\ kept.weight = Neutral)
    BY <2>1 DEF kept
  <2>5. CacheFollowsWeights'
    <3> SUFFICES ASSUME NEW q \in Routes, cachedWeight'[q].at >= 0, cachedWeight'[q].weight # Weight(q)'
                 PROVE  \/ q \in overtaken'
                        \/ q \in misread' /\ cachedWeight'[q].weight = Neutral
                        \/ \E v \in Voters : voter'[v].at = "invalidate"
      BY DEF CacheFollowsWeights
    <3>1. Weight(q)' = Weight(q)
      BY <1>1 DEF Weight
    <3>2. CASE q = r
      BY <2>3, <2>4, <3>1, <3>2
    <3>3. CASE q # r
      <4>1. \/ q \in overtaken
            \/ q \in misread /\ cachedWeight[q].weight = Neutral
            \/ \E v \in Voters : voter[v].at = "invalidate"
        BY <2>3, <3>1, <3>3 DEF FeedbackInv, CacheFollowsWeights
      <4>2. (q \in overtaken => q \in overtaken') /\ (q \in misread => q \in misread')
        BY <2>1, <3>3
      <4> QED
        BY <1>1, <2>3, <3>3, <4>1, <4>2
    <3> QED
      BY <3>2, <3>3
  <2> QED
    BY <1>1, <1>2, <2>2, <2>3, <2>5, LearningGoesOn DEF FeedbackTyped
<1> QED
  BY <1>3, <1>4

\* A weight changes, and the request that changed it is about to empty the cache.
LEMMA WeightsChange ==
  ASSUME FeedbackInv, NEW v \in Voters, NEW next, voter' = [voter EXCEPT ![v] = next],
         next \in Learning, next.at = "invalidate",
         next.counts \in {{}, voter[v].counts}, next.found \in {{}, voter[v].found},
         weights' \in [Routes -> {0} \cup Floor..Ceiling],
         \A r \in Routes : weights'[r] \in {0, weights[r]} \/ Earned(r, weights'[r]),
         UNCHANGED <<table, upgraded, thumbs, boosts, lookup, cachedWeight, voted, overtaken, misread>>
  PROVE  FeedbackInv'
<1>1. FeedbackTyped
  BY DEF FeedbackInv
<1>2. /\ voter' \in [Voters -> Learning]
      /\ \A w \in Voters : voter'[w] = IF w = v THEN next ELSE voter[w]
  BY <1>1 DEF FeedbackTyped
<1>3. FeedbackTyped'
  BY <1>1, <1>2 DEF FeedbackTyped
<1>4. RowsAreVotes' /\ ThumbsAreCounted' /\ LateRowsStay'
  BY DEF FeedbackInv, RowsAreVotes, ThumbsAreCounted, LateRowsStay, OnlyOldThumbsTeach
<1>5. ASSUME NEW w \in Voters PROVE LearnsFromVotes(w)'
  <2>1. voter'[w].counts \in {{}, voter[w].counts} /\ voter'[w].found \in {{}, voter[w].found}
    BY <1>2
  <2> QED
    BY <1>1, <2>1, LearningStays DEF FeedbackInv, FeedbackTyped
<1>6. ASSUME NEW r \in Routes PROVE Earned(r, Weight(r))'
  <2>1. Earned(r, Weight(r)) /\ Earned(r, 20)
    BY DEF FeedbackInv, Earned, Neutral, Floor, Ceiling
  <2>2. Weight(r)' = IF weights'[r] = 0 THEN 20 ELSE weights'[r]
    BY DEF Weight, Neutral
  <2>3. weights'[r] # 0 => Earned(r, weights'[r])
    <3>1. weights[r] # 0 => Earned(r, weights[r])
      BY <2>1 DEF Weight
    <3> QED
      BY <3>1
  <2>4. Earned(r, Weight(r)')
    BY <2>1, <2>2, <2>3
  <2> QED
    BY <2>4 DEF Earned, Ups, Downs
<1>7. CacheFollowsWeights'
  BY <1>2 DEF CacheFollowsWeights
<1> QED
  BY <1>3, <1>4, <1>5, <1>6, <1>7 DEF FeedbackInv

LEMMA Apply_Inv ==
  ASSUME FeedbackInv, NEW v \in Voters, ApplyAdjustments(v)
  PROVE  FeedbackInv'
<1> DEFINE next == [NoVote EXCEPT !.at = "invalidate"]
<1>1. /\ FeedbackTyped /\ voter' = [voter EXCEPT ![v] = next]
      /\ weights' = [r \in Routes |->
           IF \E f \in voter[v].found : f.route = r
           THEN (CHOOSE f \in voter[v].found : f.route = r).weight ELSE weights[r]]
      /\ UNCHANGED <<table, upgraded, thumbs, boosts, lookup, cachedWeight, voted, overtaken, misread>>
  BY DEF ApplyAdjustments, FeedbackInv, schemaVars, historyVars
<1>2. next \in Learning /\ next.at = "invalidate" /\ next.counts = {} /\ next.found = {}
  BY DEF NoVote, Learning
<1>3. ASSUME NEW r \in Routes
      PROVE  weights'[r] = weights[r] \/ (Earned(r, weights'[r]) /\ weights'[r] \in Floor..Ceiling)
  <2>1. CASE \E f \in voter[v].found : f.route = r
    <3>1. PICK f \in voter[v].found : f.route = r /\ weights'[r] = f.weight
      BY <1>1, <2>1
    <3> QED
      BY <3>1 DEF FeedbackInv, LearnsFromVotes, Earned
  <2>2. CASE ~ \E f \in voter[v].found : f.route = r
    BY <1>1, <2>2
  <2> QED
    BY <2>1, <2>2
<1>4. \A r \in Routes : weights'[r] \in {0} \cup Floor..Ceiling
  BY <1>1, <1>3 DEF FeedbackTyped
<1>5. weights' \in [Routes -> {0} \cup Floor..Ceiling]
  BY <1>1, <1>4
<1> HIDE DEF next
<1> QED
  BY <1>1, <1>2, <1>3, <1>5, WeightsChange

LEMMA Reset_Inv ==
  ASSUME FeedbackInv, NEW v \in Voters, NEW r \in Routes, ResetAdjustment(v, r)
  PROVE  FeedbackInv'
<1> DEFINE next == [voter[v] EXCEPT !.at = "invalidate"]
<1>1. /\ FeedbackTyped /\ voter' = [voter EXCEPT ![v].at = "invalidate"]
      /\ weights' = [weights EXCEPT ![r] = 0]
      /\ UNCHANGED <<table, upgraded, thumbs, boosts, lookup, cachedWeight, voted, overtaken, misread>>
  BY DEF ResetAdjustment, FeedbackInv, schemaVars, historyVars
<1>2. voter' = [voter EXCEPT ![v] = next]
  BY <1>1 DEF FeedbackTyped
<1>3. /\ next \in Learning /\ next.at = "invalidate" /\ next.counts = voter[v].counts
      /\ next.found = voter[v].found
  BY <1>1 DEF FeedbackTyped, Learning
<1>4. weights' \in [Routes -> {0} \cup Floor..Ceiling] /\ \A q \in Routes : weights'[q] \in {0, weights[q]}
  BY <1>1 DEF FeedbackTyped
<1> HIDE DEF next
<1> QED
  BY <1>1, <1>2, <1>3, <1>4, WeightsChange

LEMMA Time_Inv == ASSUME FeedbackInv, TimeGoesBy PROVE FeedbackInv'
<1> DEFINE aged(t) == [t EXCEPT !.recent = FALSE]
<1>1. /\ FeedbackTyped /\ thumbs' \in {thumbs, {aged(t) : t \in thumbs}}
      /\ UNCHANGED <<table, upgraded, boosts, weights, voter, lookup, cachedWeight, voted, overtaken, misread>>
  BY DEF TimeGoesBy, FeedbackInv, schemaVars, historyVars
<1>2. ASSUME NEW t \in thumbs
      PROVE  /\ aged(t) \in FeedbackRow
             /\ aged(t).passage = t.passage /\ aged(t).signal = t.signal /\ aged(t).late = t.late
             /\ aged(t).route = t.route /\ aged(t).helpful = t.helpful
  <2>1. t \in FeedbackRow
    BY <1>1 DEF FeedbackTyped
  <2> QED
    BY <2>1 DEF FeedbackRow
<1> HIDE DEF aged
<1>3. FeedbackTyped'
  BY <1>1, <1>2 DEF FeedbackTyped
<1>4. ASSUME thumbs' = thumbs
      PROVE  RowsAreVotes' /\ ThumbsAreCounted' /\ LateRowsStay'
  BY <1>1, <1>4 DEF FeedbackInv, RowsAreVotes, ThumbsAreCounted, LateRowsStay, OnlyOldThumbsTeach
<1>5. ASSUME thumbs' = {aged(t) : t \in thumbs}
      PROVE  RowsAreVotes' /\ ThumbsAreCounted' /\ LateRowsStay'
  <2>1. RowsAreVotes'
    <3>1. ASSUME NEW t \in thumbs', NEW u \in thumbs', t.passage = u.passage, t.signal = u.signal
          PROVE  t = u
      <4>1. PICK a \in thumbs, b \in thumbs : t = aged(a) /\ u = aged(b)
        BY <1>5
      <4>2. a = b
        BY <1>2, <3>1, <4>1 DEF FeedbackInv, RowsAreVotes
      <4> QED
        BY <4>1, <4>2
    <3>2. \A t \in thumbs' : t.route # NoRoute =>
            [passage |-> t.passage, signal |-> t.signal, route |-> t.route,
             helpful |-> t.helpful] \in voted'
      BY <1>1, <1>2, <1>5 DEF FeedbackInv, RowsAreVotes
    <3> QED
      BY <3>1, <3>2 DEF RowsAreVotes
  <2>2. ThumbsAreCounted'
    <3>1. \A q \in Passages, s \in {Up, Down} :
            (\E t \in thumbs' : t.passage = q /\ t.signal = s)
              <=> (\E t \in thumbs : t.passage = q /\ t.signal = s)
      BY <1>2, <1>5
    <3> QED
      BY <1>1, <3>1 DEF FeedbackInv, ThumbsAreCounted
  <2>3. LateRowsStay'
    BY <1>1, <1>2, <1>5 DEF FeedbackInv, LateRowsStay, OnlyOldThumbsTeach
  <2> QED
    BY <2>1, <2>2, <2>3
<1>6. \A v \in Voters : LearnsFromVotes(v)'
  BY <1>1 DEF FeedbackInv, LearnsFromVotes, Earned, Ups, Downs
<1>7. \A r \in Routes : Earned(r, Weight(r))'
  BY <1>1 DEF FeedbackInv, Earned, Ups, Downs, Weight
<1>8. CacheFollowsWeights'
  BY <1>1 DEF FeedbackInv, CacheFollowsWeights, Weight
<1>9. RowsAreVotes' /\ ThumbsAreCounted' /\ LateRowsStay'
  BY <1>1, <1>4, <1>5
<1> QED
  BY <1>3, <1>6, <1>7, <1>8, <1>9 DEF FeedbackInv

\* So every step keeps it.
LEMMA FeedbackNext_Inv ==
  ASSUME FeedbackInv, [FeedbackNext]_feedbackVars
  PROVE  FeedbackInv'
<1>1. CASE FeedbackNext
  BY <1>1, Thumb_Inv, Upgrade_Inv, RecordVote_Inv, Reset_Inv, CountVotes_Inv, Analyze_Inv,
     Apply_Inv, LearningFails_Inv, InvalidateCache_Inv, Lookup_Inv, Time_Inv, FeedbackCrash_Inv
     DEF FeedbackNext
<1>2. CASE UNCHANGED feedbackVars
  <2>1. /\ FeedbackTyped /\ \A v \in Voters : LearnsFromVotes(v)
        /\ UNCHANGED <<table, upgraded, thumbs, boosts, weights, voter, lookup, cachedWeight, voted, overtaken, misread>>
    BY <1>2 DEF FeedbackInv, feedbackVars, schemaVars, boundVars, historyVars
  <2>2. \A v \in Voters : LearnsFromVotes(v)'
    BY <2>1 DEF LearnsFromVotes, Earned, Ups, Downs
  <2>3. CacheFollowsWeights'
    BY <2>1 DEF FeedbackInv, CacheFollowsWeights, Weight
  <2> QED
    BY <2>1, <2>2, <2>3, LearningGoesOn DEF FeedbackTyped
<1> QED
  BY <1>1, <1>2

\* And it implies what is promised.
LEMMA FeedbackInv_Safe == ASSUME FeedbackInv PROVE FeedbackSafe
<1>1. WeightsAreEarned
  BY DEF FeedbackInv, WeightsAreEarned, Earned, Ups, Downs
<1> QED
  BY <1>1 DEF FeedbackInv, FeedbackSafe, LateRowsStay

-----------------------------------------------------------------------------
(* The feeds (Feeds)                                                       *)

SyncOf == [at : {"idle", "fetch", "save", "embed", "mark"}, new : SUBSET Entries]

FeedsTyped == FeedsTypeOK /\ sync \in [Syncs -> SyncOf]

\* What a coroutine has between its awaits.
SyncHolds(s) ==
  /\ sync[s].at # "idle" => s[1] \in added /\ s[1] \in feeds \cup forgotten
  /\ sync[s].at = "save" => sync[s].new \cap RowsOf(s[1]) = {}
  /\ sync[s].at \in {"embed", "mark"} => sync[s].new \subseteq DOMAIN saved \cup forgotten
  /\ sync[s].at = "mark" => sync[s].new \subseteq points

\* An entry that is in no other feed is embedded by one of the feed's coroutines.
Elsewhere(f, e) == \E g \in FeedIds \ {f} : embeddings[<<g, e>>] > 0 \/ e \in RowsOf(g)
Embedding(f, e) == {s \in Syncs : s[1] = f /\ sync[s].at = "embed" /\ e \in sync[s].new}
EmbedsOnce(f, e) ==
  /\ embeddings[<<f, e>>] > 0 => e \in DOMAIN saved
  /\ ~ Elsewhere(f, e) =>
       /\ embeddings[<<f, e>>] <= 1
       /\ \A s, t \in Embedding(f, e) : s = t
       /\ Embedding(f, e) # {} => embeddings[<<f, e>>] = 0

FeedsInv ==
  /\ FeedsTyped
  /\ \A s \in Syncs : SyncHolds(s)
  /\ EmbeddedIsFound /\ UnmarkedIsInHand /\ RowsHaveFeeds
  /\ \A f \in FeedIds, e \in Entries \ forgotten : EmbedsOnce(f, e)

-----------------------------------------------------------------------------

\* It holds at the start, and each action of the module keeps it.
LEMMA FeedsInit_Inv == ASSUME FeedsInit PROVE FeedsInv
<1>1. /\ Asleep \in SyncOf /\ Asleep.at = "idle" /\ Asleep.new = {}
      /\ saved = [e \in {} |-> 0] /\ sync = [s \in Syncs |-> Asleep]
      /\ embeddings = [k \in FeedIds \X Entries |-> 0]
  BY DEF FeedsInit, Asleep, SyncOf
<1>2. DOMAIN saved = {} /\ \A s \in Syncs : sync[s] = Asleep
  BY <1>1
<1>3. \A k \in FeedIds \X Entries : embeddings[k] = 0
  BY <1>1
<1>4. FeedsTyped
  <2>1. FeedsTypeOK
    BY <1>1, <1>2, FeedsAssumption DEF FeedsInit, FeedsTypeOK
  <2>2. sync \in [Syncs -> SyncOf]
    BY <1>1
  <2> QED
    BY <2>1, <2>2 DEF FeedsTyped
<1>5. \A s \in Syncs : SyncHolds(s)
  BY <1>1, <1>2 DEF SyncHolds
<1>6. EmbeddedIsFound /\ UnmarkedIsInHand /\ RowsHaveFeeds
  BY <1>2 DEF EmbeddedIsFound, UnmarkedIsInHand, RowsHaveFeeds
<1>7. \A f \in FeedIds, e \in Entries : EmbedsOnce(f, e)
  <2> SUFFICES ASSUME NEW f \in FeedIds, NEW e \in Entries PROVE EmbedsOnce(f, e)
    OBVIOUS
  <2>1. embeddings[<<f, e>>] = 0
    BY <1>3
  <2>2. Embedding(f, e) = {}
    BY <1>1, <1>2 DEF Embedding
  <2> QED
    BY <2>1, <2>2 DEF EmbedsOnce
<1> QED
  BY <1>4, <1>5, <1>6, <1>7 DEF FeedsInv

\* Coroutines move; no row, no point and no collection changes.
LEMMA FeedsMove ==
  ASSUME FeedsInv, FeedsTypeOK', sync' \in [Syncs -> SyncOf],
         UNCHANGED <<saved, points, embeddings, wiped, forgotten>>,
         feeds \subseteq feeds', given \subseteq given',
         \A s \in Syncs : /\ SyncHolds(s)'
                          /\ sync'[s].at = "embed" => sync'[s] = sync[s]
                          /\ sync[s].new \subseteq sync'[s].new \cup given'
  PROVE  FeedsInv'
<1>1. EmbeddedIsFound' /\ RowsHaveFeeds'
  BY DEF FeedsInv, EmbeddedIsFound, RowsHaveFeeds
<1>2. UnmarkedIsInHand'
  BY DEF FeedsInv, UnmarkedIsInHand, Hands
<1>3. ASSUME NEW f \in FeedIds, NEW e \in Entries \ forgotten PROVE EmbedsOnce(f, e)'
  <2>1. EmbedsOnce(f, e)
    BY DEF FeedsInv
  <2>2. Embedding(f, e)' \subseteq Embedding(f, e)
    BY DEF Embedding
  <2>3. Elsewhere(f, e)' <=> Elsewhere(f, e)
    BY DEF Elsewhere, RowsOf
  <2> QED
    BY <2>1, <2>2, <2>3 DEF EmbedsOnce
<1> QED
  BY <1>1, <1>2, <1>3 DEF FeedsInv, FeedsTyped

\* What FeedsTyped says of one coroutine.
LEMMA SyncTyped ==
  ASSUME FeedsTyped, NEW s \in Syncs
  PROVE  /\ sync[s].at \in {"idle", "fetch", "save", "embed", "mark"}
         /\ sync[s].new \subseteq Entries
         /\ sync[s].at \in {"save", "embed", "mark"} <=> sync[s].new # {}
         /\ sync[s] = [at |-> sync[s].at, new |-> sync[s].new]
         /\ s[1] \in FeedIds
<1>1. sync[s] \in SyncOf
  BY DEF FeedsTyped
<1> QED
  BY <1>1 DEF FeedsTyped, FeedsTypeOK, SyncOf, Syncs

\* News are counted up to their bound.
LEMMA NewsTyped == ASSUME FeedsTypeOK, News PROVE news' \in 0..MaxNews
  BY FeedsAssumption DEF FeedsTypeOK, News

LEMMA Outside_Inv ==
  ASSUME FeedsInv,
         \/ \E f \in FeedIds, e \in Entries : Publish(f, e)
         \/ \E f \in FeedIds : AddFeed(f)
         \/ UNCHANGED feedsVars
  PROVE  FeedsInv'
<1>1. /\ FeedsTyped
      /\ UNCHANGED <<saved, points, sync, embeddings, given, forgotten, wiped>>
      /\ feeds \subseteq feeds'
         /\ added \subseteq added'
  BY DEF Publish, AddFeed, feedsVars, FeedsInv
<1>2. FeedsTypeOK'
  <2>1. /\ web' \in [FeedIds -> SUBSET Entries] /\ news' \in 0..MaxNews
        /\ feeds' \subseteq added' /\ added' \subseteq FeedIds
    <3>1. ASSUME NEW f \in FeedIds, NEW e \in Entries, Publish(f, e)
          PROVE  /\ web' \in [FeedIds -> SUBSET Entries] /\ news' \in 0..MaxNews
                 /\ feeds' \subseteq added' /\ added' \subseteq FeedIds
      BY <1>1, <3>1, NewsTyped DEF Publish, FeedsTyped, FeedsTypeOK
    <3>2. ASSUME NEW f \in FeedIds, AddFeed(f)
          PROVE  /\ web' \in [FeedIds -> SUBSET Entries] /\ news' \in 0..MaxNews
                 /\ feeds' \subseteq added' /\ added' \subseteq FeedIds
      BY <1>1, <3>2 DEF AddFeed, FeedsTyped, FeedsTypeOK
    <3>3. ASSUME UNCHANGED feedsVars
          PROVE  /\ web' \in [FeedIds -> SUBSET Entries] /\ news' \in 0..MaxNews
                 /\ feeds' \subseteq added' /\ added' \subseteq FeedIds
      BY <1>1, <3>3 DEF feedsVars, FeedsTyped, FeedsTypeOK
    <3> QED
      BY <3>1, <3>2, <3>3
  <2>2. \A e \in DOMAIN saved' : saved'[e] \in [feed : added', embedded : BOOLEAN]
    BY <1>1 DEF FeedsTyped, FeedsTypeOK
  <2> QED
    BY <1>1, <2>1, <2>2 DEF FeedsTyped, FeedsTypeOK
<1>3. ASSUME NEW s \in Syncs PROVE SyncHolds(s)'
  BY <1>1 DEF FeedsInv, SyncHolds, RowsOf
<1> QED
  BY <1>1, <1>2, <1>3, FeedsMove DEF FeedsTyped

\* One coroutine goes on or ends.
LEMMA OneMoves ==
  ASSUME FeedsInv, NEW s \in Syncs, NEW next \in SyncOf, sync' = [sync EXCEPT ![s] = next],
         UNCHANGED <<web, feeds, saved, points, added, embeddings, wiped, forgotten>>,
         news' \in 0..MaxNews, given \subseteq given',
         next.at \in {"save", "embed", "mark"} <=> next.new # {}, next.at \in {"idle", "fetch", "save"},
         sync[s].new \subseteq given',
         next.at # "idle" => s[1] \in feeds \/ sync[s].at # "idle",
         next.at = "save" => next.new \cap RowsOf(s[1]) = {}
  PROVE  FeedsInv'
<1>1. FeedsTyped
  BY DEF FeedsInv
<1>2. /\ sync' \in [Syncs -> SyncOf]
      /\ \A t \in Syncs : sync'[t] = IF t = s THEN next ELSE sync[t]
  BY <1>1 DEF FeedsTyped
<1>3. next.new \subseteq Entries /\ next.at \in {"idle", "fetch", "save", "embed", "mark"}
  BY DEF SyncOf
<1>4. FeedsTypeOK'
  BY <1>1, <1>2, <1>3 DEF FeedsTyped, FeedsTypeOK
<1>5. SyncHolds(s)'
  BY <1>1, <1>2 DEF FeedsInv, SyncHolds, RowsOf, FeedsTyped, FeedsTypeOK
<1>6. ASSUME NEW t \in Syncs PROVE SyncHolds(t)'
  BY <1>2, <1>5 DEF FeedsInv, SyncHolds, RowsOf
<1> QED
  BY <1>2, <1>4, <1>6, FeedsMove

LEMMA RequestSync_Inv == ASSUME FeedsInv, NEW s \in Syncs, RequestSync(s) PROVE FeedsInv'
<1> DEFINE next == [sync[s] EXCEPT !.at = "fetch"]
<1>1. FeedsTyped /\ sync' = [sync EXCEPT ![s] = next] /\ sync[s].at = "idle"
  BY DEF RequestSync, FeedsInv, FeedsTyped
<1>2. sync[s].new = {} /\ sync[s] \in SyncOf
  BY <1>1, SyncTyped DEF FeedsTyped
<1>3. next \in SyncOf /\ next.at = "fetch" /\ next.new = {}
  BY <1>2 DEF SyncOf
<1>4. news' \in 0..MaxNews
  BY <1>1, NewsTyped DEF RequestSync, FeedsTyped
<1> HIDE DEF next
<1> QED
  BY <1>1, <1>2, <1>3, <1>4, OneMoves DEF RequestSync

LEMMA Fetched_Inv == ASSUME FeedsInv, NEW s \in Syncs, Fetched(s) PROVE FeedsInv'
<1> DEFINE new == web[s[1]] \ RowsOf(s[1])
           next == IF new = {} THEN Asleep ELSE [sync[s] EXCEPT !.at = "save", !.new = new]
<1>1. FeedsTyped /\ sync' = [sync EXCEPT ![s] = next] /\ sync[s].at = "fetch"
  BY DEF Fetched, FeedsInv, FeedsTyped
<1>2. sync[s].new = {} /\ sync[s] \in SyncOf /\ s[1] \in FeedIds
  BY <1>1, SyncTyped DEF FeedsTyped
<1>3. new \subseteq Entries
  BY <1>1, <1>2 DEF FeedsTyped, FeedsTypeOK
<1>4. /\ next \in SyncOf /\ next.at \in {"idle", "save"}
      /\ next.at = "save" => next.new = new /\ new # {}
      /\ next.at = "idle" => next.new = {}
  <2> HIDE DEF new
  <2> QED
    BY <1>2, <1>3 DEF SyncOf, Asleep
<1>5. next.at = "save" => next.new \cap RowsOf(s[1]) = {}
  BY <1>4
<1>6. news' \in 0..MaxNews
  BY <1>1 DEF Fetched, FeedsTyped, FeedsTypeOK
<1> HIDE DEF next, new
<1> QED
  BY <1>1, <1>2, <1>4, <1>5, <1>6, OneMoves DEF Fetched

LEMMA Fails_Inv == ASSUME FeedsInv, NEW s \in Syncs, FetchFails(s) \/ EmbedFails(s) PROVE FeedsInv'
<1>1. FeedsTyped /\ sync' = [sync EXCEPT ![s] = Asleep] /\ news' \in 0..MaxNews
  BY NewsTyped DEF FetchFails, EmbedFails, FeedsInv, FeedsTyped
<1>2. Asleep \in SyncOf /\ Asleep.at = "idle" /\ Asleep.new = {}
  BY DEF Asleep, SyncOf
<1>3. given \subseteq given' /\ sync[s].new \subseteq given'
  BY <1>1, SyncTyped DEF FetchFails, EmbedFails
<1> QED
  BY <1>1, <1>2, <1>3, OneMoves DEF FetchFails, EmbedFails

LEMMA CrashFeeds_Inv == ASSUME FeedsInv, CrashFeeds PROVE FeedsInv'
<1>1. /\ FeedsTyped /\ sync' = [s \in Syncs |-> Asleep] /\ news' \in 0..MaxNews
      /\ given' = given \cup Hands
      /\ UNCHANGED <<web, feeds, saved, points, added, embeddings, wiped, forgotten>>
  BY NewsTyped DEF CrashFeeds, FeedsInv, FeedsTyped
<1>2. Asleep \in SyncOf /\ Asleep.at = "idle" /\ Asleep.new = {}
  BY DEF Asleep, SyncOf
<1>3. sync' \in [Syncs -> SyncOf] /\ \A s \in Syncs : sync'[s] = Asleep
  BY <1>1, <1>2
<1>4. FeedsTypeOK'
  BY <1>1, <1>2, <1>3 DEF FeedsTyped, FeedsTypeOK
<1>5. \A s \in Syncs : SyncHolds(s)' /\ sync[s].new \subseteq given'
  BY <1>1, <1>2, <1>3 DEF SyncHolds, Hands
<1> QED
  BY <1>1, <1>2, <1>3, <1>4, <1>5, FeedsMove

LEMMA StartRound_Inv == ASSUME FeedsInv, StartRound PROVE FeedsInv'
<1> DEFINE woken == [Asleep EXCEPT !.at = "fetch"]
<1>1. /\ FeedsTyped /\ \A f \in FeedIds : sync[<<f, "round">>].at = "idle"
      /\ sync' = [s \in Syncs |-> IF s[2] = "round" /\ s[1] \in feeds THEN woken ELSE sync[s]]
      /\ UNCHANGED <<web, feeds, saved, points, added, news, embeddings, given, forgotten, wiped>>
  BY DEF StartRound, FeedsInv
<1>2. woken \in SyncOf /\ woken.at = "fetch" /\ woken.new = {}
  BY DEF Asleep, SyncOf
<1> HIDE DEF woken
<1>3. \A s \in Syncs : s[2] = "round" => sync[s].at = "idle" /\ sync[s].new = {}
  <2> SUFFICES ASSUME NEW s \in Syncs, s[2] = "round" PROVE sync[s].at = "idle" /\ sync[s].new = {}
    OBVIOUS
  <2>1. s = <<s[1], "round">> /\ s[1] \in FeedIds
    BY DEF Syncs
  <2>2. sync[s].at = "idle"
    BY <1>1, <2>1
  <2> QED
    BY <1>1, <2>2, SyncTyped
<1>4. sync' \in [Syncs -> SyncOf]
  BY <1>1, <1>2 DEF FeedsTyped
<1>5. \A s \in Syncs : sync'[s] = sync[s] \/ (sync'[s] = woken /\ s[1] \in feeds /\ sync[s].new = {})
  BY <1>1, <1>3
<1>6. FeedsTypeOK'
  BY <1>1, <1>2, <1>5 DEF FeedsTyped, FeedsTypeOK
<1>7. ASSUME NEW s \in Syncs PROVE SyncHolds(s)' /\ sync[s].new \subseteq sync'[s].new \cup given'
  <2>1. SyncHolds(s)'
    BY <1>1, <1>2, <1>5 DEF FeedsInv, SyncHolds, RowsOf, FeedsTyped, FeedsTypeOK
  <2> QED
    BY <1>5, <2>1
<1>8. \A s \in Syncs : sync'[s].at = "embed" => sync'[s] = sync[s]
  BY <1>2, <1>5
<1> QED
  BY <1>1, <1>4, <1>6, <1>7, <1>8, FeedsMove

LEMMA DeleteFeed_Inv == ASSUME FeedsInv, NEW f \in FeedIds, DeleteFeed(f) PROVE FeedsInv'
<1>1. /\ FeedsTyped /\ f \in feeds /\ feeds' = feeds \ {f}
      /\ saved' = [e \in DOMAIN saved \ RowsOf(f) |-> saved[e]]
      /\ forgotten' = forgotten \cup RowsOf(f)
                        \cup IF \E s \in Syncs : sync[s].at # "idle" /\ s[1] = f THEN {f} ELSE {}
      /\ UNCHANGED <<web, points, sync, added, news, embeddings, given, wiped>>
  BY DEF DeleteFeed, FeedsInv
<1>2. /\ DOMAIN saved' = DOMAIN saved \ RowsOf(f)
      /\ \A e \in DOMAIN saved' : saved'[e] = saved[e] /\ saved[e].feed # f
      /\ forgotten \cup RowsOf(f) \subseteq forgotten'
  BY <1>1 DEF RowsOf
<1>3. FeedsTyped'
  BY <1>1, <1>2 DEF FeedsTyped, FeedsTypeOK
<1>4. ASSUME NEW s \in Syncs PROVE SyncHolds(s)'
  <2>1. SyncHolds(s)
    BY DEF FeedsInv
  <2>2. sync[s].at # "idle" => s[1] \in feeds' \cup forgotten'
    BY <1>1, <1>2, <2>1 DEF SyncHolds
  <2>3. \A g : RowsOf(g)' \subseteq RowsOf(g)
    BY <1>2 DEF RowsOf
  <2>4. DOMAIN saved \cup forgotten \subseteq DOMAIN saved' \cup forgotten'
    BY <1>2
  <2> QED
    BY <1>1, <2>1, <2>2, <2>3, <2>4 DEF SyncHolds
<1>5. EmbeddedIsFound' /\ RowsHaveFeeds'
  BY <1>1, <1>2 DEF FeedsInv, EmbeddedIsFound, RowsHaveFeeds
<1>6. UnmarkedIsInHand'
  BY <1>1, <1>2 DEF FeedsInv, UnmarkedIsInHand, Hands
<1>7. ASSUME NEW g \in FeedIds, NEW e \in Entries \ forgotten' PROVE EmbedsOnce(g, e)'
  <2>1. EmbedsOnce(g, e) /\ e \notin RowsOf(f)
    BY <1>2 DEF FeedsInv
  <2>2. Elsewhere(g, e) => Elsewhere(g, e)'
    BY <1>1, <1>2, <2>1 DEF Elsewhere, RowsOf
  <2>3. e \in DOMAIN saved => e \in DOMAIN saved'
    BY <1>2, <2>1
  <2>4. Embedding(g, e)' = Embedding(g, e)
    BY <1>1 DEF Embedding
  <2> QED
    BY <1>1, <2>1, <2>2, <2>3, <2>4 DEF EmbedsOnce
<1> QED
  BY <1>3, <1>4, <1>5, <1>6, <1>7 DEF FeedsInv

LEMMA SaveEntries_Inv == ASSUME FeedsInv, NEW s \in Syncs, SaveEntries(s) PROVE FeedsInv'
<1> DEFINE new == sync[s].new  row == [feed |-> s[1], embedded |-> FALSE]
           next == [sync[s] EXCEPT !.at = "embed"]
<1>1. /\ FeedsTyped /\ sync[s].at = "save" /\ \A t \in Syncs \ {s} : sync[t].at \in {"idle", "fetch", "embed"}
      /\ saved' = [e \in DOMAIN saved \cup new |-> IF e \in DOMAIN saved THEN saved[e] ELSE row]
      /\ UNCHANGED <<web, feeds, points, added, news, embeddings, given, forgotten, wiped>>
  BY DEF SaveEntries, FeedsInv, Loop
<1>2. /\ new \subseteq Entries /\ new # {} /\ sync[s] = [at |-> sync[s].at, new |-> new]
      /\ s[1] \in FeedIds
  BY <1>1, SyncTyped
<1>3. sync' = [sync EXCEPT ![s] = next] /\ next \in SyncOf /\ next.at = "embed" /\ next.new = new
  <2>1. sync' = [sync EXCEPT ![s] = next]
    BY <1>1 DEF SaveEntries, FeedsTyped
  <2>2. sync[s] \in SyncOf
    BY <1>1 DEF FeedsTyped
  <2> QED
    BY <2>1, <2>2 DEF SyncOf
<1>4. \A t \in Syncs : sync'[t] = IF t = s THEN next ELSE sync[t]
  BY <1>1, <1>3 DEF FeedsTyped
<1>5. SyncHolds(s)
  BY DEF FeedsInv
<1>6. s[1] \in added /\ s[1] \in feeds \cup forgotten /\ new \cap RowsOf(s[1]) = {}
  BY <1>1, <1>5 DEF SyncHolds
<1>7. row \in [feed : added, embedded : BOOLEAN] /\ row.feed = s[1] /\ ~ row.embedded
  BY <1>6
<1> HIDE DEF new, next, row
<1>8. /\ DOMAIN saved' = DOMAIN saved \cup new
      /\ \A e \in DOMAIN saved : saved'[e] = saved[e]
      /\ \A e \in new \ DOMAIN saved : saved'[e] = row
  BY <1>1
<1>9. FeedsTyped'
  <2>1. sync' \in [Syncs -> SyncOf]
    BY <1>1, <1>3 DEF FeedsTyped
  <2>2. FeedsTypeOK'
    BY <1>1, <1>2, <1>3, <1>4, <1>7, <1>8 DEF FeedsTyped, FeedsTypeOK
  <2> QED
    BY <2>1, <2>2 DEF FeedsTyped
<1>10. ASSUME NEW t \in Syncs PROVE SyncHolds(t)'
  <2>1. CASE t = s
    BY <1>1, <1>3, <1>4, <1>6, <1>8, <2>1 DEF SyncHolds
  <2>2. CASE t # s
    <3>1. SyncHolds(t) /\ sync[t].at \in {"idle", "fetch", "embed"} /\ sync'[t] = sync[t]
      BY <1>1, <1>4, <2>2 DEF FeedsInv
    <3> QED
      BY <1>1, <1>8, <3>1 DEF SyncHolds
  <2> QED
    BY <2>1, <2>2
<1>11. EmbeddedIsFound' /\ RowsHaveFeeds'
  BY <1>1, <1>6, <1>7, <1>8 DEF FeedsInv, EmbeddedIsFound, RowsHaveFeeds
<1>12. UnmarkedIsInHand'
  <2>1. Hands \subseteq Hands' /\ new \subseteq Hands'
    BY <1>3, <1>4 DEF Hands, new
  <2> QED
    BY <1>1, <1>8, <2>1 DEF FeedsInv, UnmarkedIsInHand
<1>13. ASSUME NEW g \in FeedIds, NEW e \in Entries \ forgotten PROVE EmbedsOnce(g, e)'
  <2>1. EmbedsOnce(g, e)
    BY DEF FeedsInv
  <2>2. \A h : RowsOf(h) \subseteq RowsOf(h)'
    BY <1>8 DEF RowsOf
  <2>3. Elsewhere(g, e) => Elsewhere(g, e)'
    BY <1>1, <2>2 DEF Elsewhere
  <2>4. CASE g # s[1] \/ e \notin new
    <3>1. Embedding(g, e)' \subseteq Embedding(g, e)
      BY <1>3, <1>4, <2>4 DEF Embedding
    <3> QED
      BY <1>1, <1>8, <2>1, <2>3, <3>1 DEF EmbedsOnce
  <2>5. CASE g = s[1] /\ e \in new
    <3>1. e \in DOMAIN saved'
      BY <1>8, <2>5
    <3>2. ASSUME ~ Elsewhere(g, e)'
          PROVE  e \notin DOMAIN saved
      <4> SUFFICES ASSUME e \in DOMAIN saved PROVE FALSE
        OBVIOUS
      <4>1. e \in RowsOf(saved[e].feed) /\ saved[e].feed \in FeedIds /\ saved[e].feed # g
        BY <1>1, <1>6, <2>5 DEF RowsOf, FeedsTyped, FeedsTypeOK
      <4>2. Elsewhere(g, e)
        BY <4>1 DEF Elsewhere
      <4> QED
        BY <2>3, <3>2, <4>2
    <3>3. ASSUME ~ Elsewhere(g, e)'
          PROVE  /\ embeddings[<<g, e>>] = 0
                 /\ Embedding(g, e) = {}
      <4>1. e \notin DOMAIN saved
        BY <3>2, <3>3
      <4>2. embeddings[<<g, e>>] \in 0..2
        BY <1>1 DEF FeedsTyped, FeedsTypeOK
      <4>3. \A t \in Syncs : ~ (sync[t].at = "embed" /\ e \in sync[t].new)
        BY <4>1 DEF FeedsInv, SyncHolds
      <4> QED
        BY <2>1, <4>1, <4>2, <4>3 DEF EmbedsOnce, Embedding
    <3>4. Embedding(g, e)' \subseteq Embedding(g, e) \cup {s}
      BY <1>4 DEF Embedding
    <3> QED
      BY <1>1, <3>1, <3>3, <3>4 DEF EmbedsOnce
  <2> QED
    BY <2>4, <2>5
<1> QED
  BY <1>1, <1>9, <1>10, <1>11, <1>12, <1>13 DEF FeedsInv

LEMMA EmbedAndUpsert_Inv == ASSUME FeedsInv, NEW s \in Syncs, EmbedAndUpsert(s) PROVE FeedsInv'
<1> DEFINE new == sync[s].new  next == [sync[s] EXCEPT !.at = "mark"]
<1>1. /\ FeedsTyped /\ sync[s].at = "embed"
      /\ points' = points \cup new
      /\ embeddings' = [k \in FeedIds \X Entries |->
           IF k[1] = s[1] /\ k[2] \in new /\ embeddings[k] < 2 THEN embeddings[k] + 1 ELSE embeddings[k]]
      /\ UNCHANGED <<web, feeds, saved, added, news, given, forgotten, wiped>>
  BY DEF EmbedAndUpsert, FeedsInv
<1>2. /\ new \subseteq Entries /\ new # {} /\ sync[s] = [at |-> sync[s].at, new |-> new]
      /\ s[1] \in FeedIds
  BY <1>1, SyncTyped
<1>3. sync' = [sync EXCEPT ![s] = next] /\ next \in SyncOf /\ next.at = "mark" /\ next.new = new
  <2>1. sync' = [sync EXCEPT ![s] = next]
    BY <1>1 DEF EmbedAndUpsert, FeedsTyped
  <2>2. sync[s] \in SyncOf
    BY <1>1 DEF FeedsTyped
  <2> QED
    BY <2>1, <2>2 DEF SyncOf
<1>4. \A t \in Syncs : sync'[t] = IF t = s THEN next ELSE sync[t]
  BY <1>1, <1>3 DEF FeedsTyped
<1>5. SyncHolds(s)
  BY DEF FeedsInv
<1> HIDE DEF new, next
<1>6. \A g \in FeedIds, e \in Entries :
        /\ embeddings[<<g, e>>] \in 0..2
        /\ embeddings'[<<g, e>>] = IF g = s[1] /\ e \in new /\ embeddings[<<g, e>>] < 2
                                   THEN embeddings[<<g, e>>] + 1 ELSE embeddings[<<g, e>>]
  BY <1>1 DEF FeedsTyped, FeedsTypeOK
<1>7. FeedsTyped'
  <2>1. sync' \in [Syncs -> SyncOf]
    BY <1>1, <1>3 DEF FeedsTyped
  <2>2. embeddings' \in [FeedIds \X Entries -> 0..2]
    <3>1. \A k \in FeedIds \X Entries : embeddings[k] \in 0..2
      BY <1>1 DEF FeedsTyped, FeedsTypeOK
    <3> QED
      BY <1>1, <3>1
  <2>3. FeedsTypeOK'
    BY <1>1, <1>2, <1>3, <1>4, <2>2 DEF FeedsTyped, FeedsTypeOK
  <2> QED
    BY <2>1, <2>3 DEF FeedsTyped
<1>8. ASSUME NEW t \in Syncs PROVE SyncHolds(t)'
  <2>1. CASE t = s
    BY <1>1, <1>3, <1>4, <1>5, <2>1 DEF SyncHolds, new
  <2>2. CASE t # s
    <3>1. SyncHolds(t) /\ sync'[t] = sync[t]
      BY <1>4, <2>2 DEF FeedsInv
    <3> QED
      BY <1>1, <3>1 DEF SyncHolds, RowsOf
  <2> QED
    BY <2>1, <2>2
<1>9. EmbeddedIsFound' /\ RowsHaveFeeds'
  BY <1>1 DEF FeedsInv, EmbeddedIsFound, RowsHaveFeeds
<1>10. UnmarkedIsInHand'
  <2>1. Hands \subseteq Hands'
    BY <1>3, <1>4 DEF Hands, new
  <2> QED
    BY <1>1, <2>1 DEF FeedsInv, UnmarkedIsInHand
<1>11. ASSUME NEW g \in FeedIds, NEW e \in Entries \ forgotten PROVE EmbedsOnce(g, e)'
  <2>1. EmbedsOnce(g, e)
    BY DEF FeedsInv
  <2>2. Elsewhere(g, e) => Elsewhere(g, e)'
    <3>1. \A h \in FeedIds : embeddings[<<h, e>>] > 0 => embeddings'[<<h, e>>] > 0
      BY <1>6
    <3>2. \A h : RowsOf(h)' = RowsOf(h)
      BY <1>1 DEF RowsOf
    <3> QED
      BY <3>1, <3>2 DEF Elsewhere
  <2>3. Embedding(g, e)' = Embedding(g, e) \ {s}
    BY <1>3, <1>4 DEF Embedding
  <2>4. CASE g # s[1] \/ e \notin new
    BY <1>1, <1>6, <2>1, <2>2, <2>3, <2>4 DEF EmbedsOnce
  <2>5. CASE g = s[1] /\ e \in new
    <3>1. e \in DOMAIN saved
      BY <1>1, <1>5, <2>5 DEF SyncHolds, new
    <3>2. s \in Embedding(g, e)
      BY <1>1, <2>5 DEF Embedding, new
    <3>3. ~ Elsewhere(g, e) => embeddings[<<g, e>>] = 0 /\ Embedding(g, e)' = {}
      BY <2>1, <2>3, <3>2 DEF EmbedsOnce
    <3>4. embeddings[<<g, e>>] = 0 => embeddings'[<<g, e>>] = 1
      BY <1>6, <2>5
    <3> QED
      BY <1>1, <2>2, <3>1, <3>3, <3>4 DEF EmbedsOnce
  <2> QED
    BY <2>4, <2>5
<1> QED
  BY <1>1, <1>7, <1>8, <1>9, <1>10, <1>11 DEF FeedsInv

LEMMA Recreate_Inv == ASSUME FeedsInv, NEW s \in Syncs, RecreateCollection(s) PROVE FeedsInv'
<1>1. /\ FeedsTyped /\ \A t \in Syncs : sync[t].at # "mark"
      /\ points' = {} /\ wiped' = wiped \cup points /\ news' \in 0..MaxNews
      /\ UNCHANGED <<web, feeds, saved, sync, added, embeddings, given, forgotten>>
  BY NewsTyped DEF RecreateCollection, Loop, FeedsInv, FeedsTyped
<1>2. FeedsTyped'
  BY <1>1 DEF FeedsTyped, FeedsTypeOK
<1>3. \A t \in Syncs : SyncHolds(t)'
  BY <1>1 DEF FeedsInv, SyncHolds, RowsOf
<1>4. EmbeddedIsFound' /\ RowsHaveFeeds' /\ UnmarkedIsInHand'
  BY <1>1 DEF FeedsInv, EmbeddedIsFound, RowsHaveFeeds, UnmarkedIsInHand, Hands
<1>5. ASSUME NEW g \in FeedIds, NEW e \in Entries \ forgotten PROVE EmbedsOnce(g, e)'
  <2>1. Embedding(g, e)' = Embedding(g, e)
    BY <1>1 DEF Embedding
  <2>2. Elsewhere(g, e)' <=> Elsewhere(g, e)
    BY <1>1 DEF Elsewhere, RowsOf
  <2> QED
    BY <1>1, <2>1, <2>2 DEF FeedsInv, EmbedsOnce
<1> QED
  BY <1>1, <1>2, <1>3, <1>4, <1>5 DEF FeedsInv

LEMMA MarkEmbedded_Inv == ASSUME FeedsInv, NEW s \in Syncs, MarkEmbedded(s) PROVE FeedsInv'
<1> DEFINE new == sync[s].new
           marked(e) == [saved[e] EXCEPT !.embedded = TRUE]
<1>1. /\ FeedsTyped /\ sync[s].at = "mark"
      /\ saved' = [e \in DOMAIN saved |-> IF e \in new THEN marked(e) ELSE saved[e]]
      /\ sync' = [sync EXCEPT ![s] = Asleep]
      /\ UNCHANGED <<web, feeds, points, added, news, embeddings, given, forgotten, wiped>>
  BY DEF MarkEmbedded, FeedsInv, Marked
<1>2. Asleep \in SyncOf /\ Asleep.at = "idle" /\ Asleep.new = {}
  BY DEF Asleep, SyncOf
<1>3. \A t \in Syncs : sync'[t] = IF t = s THEN Asleep ELSE sync[t]
  BY <1>1 DEF FeedsTyped
<1>4. new \subseteq points
  BY <1>1 DEF FeedsInv, SyncHolds
<1>5. ASSUME NEW e \in DOMAIN saved
      PROVE  /\ marked(e) \in [feed : added, embedded : BOOLEAN]
             /\ marked(e).feed = saved[e].feed /\ marked(e).embedded
  BY <1>1 DEF FeedsTyped, FeedsTypeOK
<1> HIDE DEF new, marked
<1>6. /\ DOMAIN saved' = DOMAIN saved
      /\ \A e \in DOMAIN saved : /\ saved'[e] \in [feed : added, embedded : BOOLEAN]
                                 /\ saved'[e].feed = saved[e].feed
                                 /\ saved'[e].embedded <=> saved[e].embedded \/ e \in new
  BY <1>1, <1>5 DEF FeedsTyped, FeedsTypeOK
<1>7. \A g : RowsOf(g)' = RowsOf(g)
  BY <1>6 DEF RowsOf
<1>8. FeedsTyped'
  <2>1. sync' \in [Syncs -> SyncOf]
    BY <1>1, <1>2 DEF FeedsTyped
  <2>2. FeedsTypeOK'
    BY <1>1, <1>2, <1>3, <1>6 DEF FeedsTyped, FeedsTypeOK
  <2> QED
    BY <2>1, <2>2 DEF FeedsTyped
<1>9. ASSUME NEW t \in Syncs PROVE SyncHolds(t)'
  BY <1>1, <1>2, <1>3, <1>6, <1>7 DEF FeedsInv, SyncHolds
<1>10. EmbeddedIsFound' /\ RowsHaveFeeds'
  BY <1>1, <1>4, <1>6 DEF FeedsInv, EmbeddedIsFound, RowsHaveFeeds
<1>11. UnmarkedIsInHand'
  <2>1. Hands \subseteq Hands' \cup new
    BY <1>3 DEF Hands, new
  <2> QED
    BY <1>1, <1>6, <2>1 DEF FeedsInv, UnmarkedIsInHand
<1>12. ASSUME NEW g \in FeedIds, NEW e \in Entries \ forgotten PROVE EmbedsOnce(g, e)'
  <2>1. Embedding(g, e)' = Embedding(g, e)
    BY <1>1, <1>2, <1>3 DEF Embedding
  <2>2. Elsewhere(g, e)' <=> Elsewhere(g, e)
    BY <1>1, <1>7 DEF Elsewhere
  <2> QED
    BY <1>1, <1>6, <2>1, <2>2 DEF FeedsInv, EmbedsOnce
<1> QED
  BY <1>1, <1>8, <1>9, <1>10, <1>11, <1>12 DEF FeedsInv

\* So every step keeps it.
LEMMA FeedsNext_Inv == ASSUME FeedsInv, [FeedsNext]_feedsVars PROVE FeedsInv'
  BY Outside_Inv, RequestSync_Inv, Fetched_Inv, Fails_Inv, CrashFeeds_Inv, StartRound_Inv,
     DeleteFeed_Inv, SaveEntries_Inv, EmbedAndUpsert_Inv, Recreate_Inv, MarkEmbedded_Inv
     DEF FeedsNext, SyncStep

\* And it implies what is promised.
LEMMA FeedsInv_Safe == ASSUME FeedsInv PROVE FeedsSafe
<1>1. EmbeddedOnce
  <2> SUFFICES ASSUME NEW f \in FeedIds, NEW e \in Entries \ forgotten, embeddings[<<f, e>>] > 1
               PROVE  \E g \in FeedIds \ {f} : embeddings[<<g, e>>] > 0 \/ e \in RowsOf(g)
    BY DEF EmbeddedOnce
  <2>1. EmbedsOnce(f, e) /\ embeddings[<<f, e>>] \in 0..2
    BY DEF FeedsInv, FeedsTyped, FeedsTypeOK
  <2> QED
    BY <2>1 DEF EmbedsOnce, Elsewhere
<1> QED
  BY <1>1 DEF FeedsInv, FeedsTyped, FeedsSafe

-----------------------------------------------------------------------------
(* The GitHub projects (GithubSync)                                        *)

FetchedItem == [item : GitItems, is : [edits : 1..MaxEdits, open : BOOLEAN]]

GithubTyped ==
  /\ GithubTypeOK /\ syncs \in Nat
  /\ newestRead \in [GitItems -> Nat]
  /\ githubSync \in [Syncers -> [number : Nat, items : Seq(FetchedItem), all : SUBSET GitItems]]
  /\ \A s \in Syncers : githubSync[s] # NoSync => githubSync[s].number \in 1..syncs

\* A sync has stored what it has fetched but for what it still has in hand.
SyncStores(s) ==
  \A i \in githubSync[s].all :
    \/ projects[i].edits # 0
    \/ \E k \in DOMAIN githubSync[s].items : githubSync[s].items[k].item = i

\* Syncs one after the other store what GitHub had when they fetched it.
OneSyncAtOnce == \A s, t \in Syncers : githubSync[s] # NoSync /\ githubSync[t] # NoSync => s = t
FetchedIsNewest(s) ==
  LET items == githubSync[s].items IN
  \A k \in DOMAIN items :
    /\ newestRead[items[k].item] <= items[k].is.edits
    /\ items[k].is.edits <= github[items[k].item].edits
    /\ \A l \in DOMAIN items : items[l].item = items[k].item => items[l].is = items[k].is
NewestIsStored ==
  ~ syncsOverlapped =>
    /\ OneSyncAtOnce
    /\ \A i \in GitItems : projects[i].edits = newestRead[i] /\ newestRead[i] <= github[i].edits
    /\ \A s \in Syncers : FetchedIsNewest(s)

GithubInv ==
  /\ GithubTyped /\ NewestIsStored
  /\ \A s \in Syncers : SyncStores(s)
  /\ \A r \in syncLog :
       /\ r.all \subseteq GitItems
       /\ r.status = "ok" <=> r.left = {}
       /\ \A i \in r.all \ r.left : projects[i].edits # 0

-----------------------------------------------------------------------------

\* It holds at the start, and each action of the module keeps it.
LEMMA GithubInit_Inv == ASSUME GithubInit PROVE GithubInv
<1>1. /\ NoItem \in [edits : 0..MaxEdits, open : BOOLEAN] /\ NoItem.edits = 0
      /\ [edits |-> 1, open |-> TRUE] \in [edits : 1..MaxEdits, open : BOOLEAN]
      /\ NoSync \in [number : Nat, items : Seq(FetchedItem), all : SUBSET GitItems]
      /\ NoSync.number = 0 /\ NoSync.items = <<>> /\ NoSync.all = {}
  BY GithubAssumption DEF NoItem, NoSync
<1>2. /\ github = [i \in GitItems |-> [edits |-> 1, open |-> TRUE]]
      /\ projects = [i \in GitItems |-> NoItem] /\ githubSync = [s \in Syncers |-> NoSync]
      /\ syncLog = {} /\ syncs = 0 /\ newestRead = [i \in GitItems |-> 0]
  BY DEF GithubInit
<1>3. GithubTyped
  BY <1>1, <1>2 DEF GithubTyped, GithubTypeOK
<1>4. NewestIsStored
  BY <1>1, <1>2 DEF NewestIsStored, OneSyncAtOnce, FetchedIsNewest
<1>5. \A s \in Syncers : SyncStores(s)
  BY <1>1, <1>2 DEF SyncStores
<1> QED
  BY <1>2, <1>3, <1>4, <1>5 DEF GithubInv

\* What a sync has fetched is typed.
LEMMA FetchedIsTyped ==
  ASSUME GithubTyped, NEW s \in Syncers, NEW k \in DOMAIN githubSync[s].items
  PROVE  /\ githubSync[s].items[k].item \in GitItems
         /\ githubSync[s].items[k].is \in [edits : 1..MaxEdits, open : BOOLEAN]
         /\ githubSync[s].items[k].is.edits \in Nat /\ githubSync[s].items[k].is.edits # 0
<1>1. githubSync[s].items \in Seq(FetchedItem)
  BY DEF GithubTyped
<1>2. githubSync[s].items[k] \in FetchedItem
  BY <1>1, ElementOfSeq, LenProperties
<1> QED
  BY <1>2, GithubAssumption DEF FetchedItem

\* A set put into a sequence is all there.
LEMMA SetToSeqOfFinite ==
  ASSUME NEW S, IsFiniteSet(S)
  PROVE  /\ Cardinality(S) \in Nat
         /\ SetToSeq(S) \in [1..Cardinality(S) -> S]
         /\ \A x \in S : \E k \in 1..Cardinality(S) : SetToSeq(S)[k] = x
<1> DEFINE n == Cardinality(S)
<1>1. n \in Nat /\ ExistsBijection(1..n, S)
  BY FS_CardinalityType
<1>2. PICK f \in [1..n -> S] : IsInjective(f)
  BY <1>1 DEF ExistsBijection, Bijection, Injection
<1>3. SetToSeq(S) \in [1..n -> S] /\ IsInjective(SetToSeq(S))
  BY <1>2 DEF SetToSeq
<1>4. SetToSeq(S) \in Injection(1..n, S)
  BY <1>3 DEF Injection
<1>5. Cardinality(1..n) = n
  BY <1>1, FS_Interval
<1>6. SetToSeq(S) \in Surjection(1..n, S)
  BY <1>4, <1>5, FS_Injection
<1> QED
  BY <1>1, <1>3, <1>6 DEF Surjection

LEMMA EditItem_Inv == ASSUME GithubInv, NEW i \in GitItems, EditItem(i) PROVE GithubInv'
<1>1. PICK open \in BOOLEAN :
        github' = [github EXCEPT ![i] = [edits |-> github[i].edits + 1, open |-> open]]
  BY DEF EditItem, GithubInv, GithubTyped, GithubTypeOK
<1> DEFINE edited == [edits |-> github[i].edits + 1, open |-> open]
<1>2. /\ GithubTyped /\ github[i].edits < MaxEdits
      /\ UNCHANGED <<projects, githubSync, syncLog, syncs, syncsOverlapped, newestRead>>
  BY DEF EditItem, GithubInv
<1>3. edited \in [edits : 1..MaxEdits, open : BOOLEAN] /\ edited.edits = github[i].edits + 1
  BY <1>2, GithubAssumption DEF GithubTyped, GithubTypeOK
<1> HIDE DEF edited
<1>4. /\ github' \in [GitItems -> [edits : 1..MaxEdits, open : BOOLEAN]]
      /\ \A j \in GitItems : github[j].edits <= github'[j].edits /\ github'[j].edits \in Nat /\ github[j].edits \in Nat
  <2>1. /\ github' \in [GitItems -> [edits : 1..MaxEdits, open : BOOLEAN]]
        /\ \A j \in GitItems : github'[j] = IF j = i THEN edited ELSE github[j]
    BY <1>1, <1>2, <1>3 DEF GithubTyped, GithubTypeOK, edited
  <2>2. \A j \in GitItems : github[j].edits \in Nat
    BY <1>2, GithubAssumption DEF GithubTyped, GithubTypeOK
  <2> QED
    BY <1>3, <2>1, <2>2
<1>5. GithubTyped'
  BY <1>2, <1>4 DEF GithubTyped, GithubTypeOK
<1>6. NewestIsStored'
  <2> SUFFICES ASSUME ~ syncsOverlapped PROVE NewestIsStored'
    BY <1>2 DEF NewestIsStored
  <2>1. \A j \in GitItems : newestRead[j] \in Nat
    BY <1>2 DEF GithubTyped
  <2>2. OneSyncAtOnce' /\ \A j \in GitItems : projects'[j].edits = newestRead'[j] /\ newestRead'[j] <= github'[j].edits
    BY <1>2, <1>4, <2>1 DEF GithubInv, NewestIsStored, OneSyncAtOnce
  <2>3. ASSUME NEW s \in Syncers PROVE FetchedIsNewest(s)'
    <3> DEFINE items == githubSync[s].items
    <3>1. FetchedIsNewest(s)
      BY DEF GithubInv, NewestIsStored
    <3>3. \A k \in DOMAIN items : items[k].item \in GitItems /\ items[k].is.edits \in Nat
      BY <1>2, FetchedIsTyped
    <3>4. items' = items
      BY <1>2
    <3> QED
      BY <1>2, <1>4, <3>1, <3>3, <3>4 DEF FetchedIsNewest
  <2> QED
    BY <2>2, <2>3 DEF NewestIsStored
<1>7. \A s \in Syncers : SyncStores(s)'
  BY <1>2 DEF GithubInv, SyncStores
<1> QED
  BY <1>2, <1>5, <1>6, <1>7 DEF GithubInv

LEMMA StartSync_Inv == ASSUME GithubInv, NEW s \in Syncers, StartSync(s) PROVE GithubInv'
<1>1. PICK repos \in SUBSET GitItems :
        LET all == FetchPrs(repos) \cup FetchIssues(repos) \cup FetchCommits(repos)
            order == SetToSeq(all)
        IN githubSync' = [githubSync EXCEPT ![s] =
             IF all = {} THEN NoSync
             ELSE [number |-> syncs', all |-> all,
                   items |-> [k \in DOMAIN order |-> [item |-> order[k], is |-> github[order[k]]]]]]
  BY DEF StartSync
<1> DEFINE all == FetchPrs(repos) \cup FetchIssues(repos) \cup FetchCommits(repos)
           order == SetToSeq(all)
           items == [k \in DOMAIN order |-> [item |-> order[k], is |-> github[order[k]]]]
           next == IF all = {} THEN NoSync ELSE [number |-> syncs', all |-> all, items |-> items]
<1>2. /\ GithubTyped /\ syncs' = syncs + 1 /\ githubSync[s] = NoSync
      /\ githubSync' = [githubSync EXCEPT ![s] = next]
      /\ syncsOverlapped' = (syncsOverlapped \/ (SyncersAtWork # {} /\ githubSync'[s] # NoSync))
      /\ UNCHANGED <<github, projects, syncLog, newestRead>>
  BY <1>1 DEF StartSync, GithubInv
<1>3. all \subseteq GitItems /\ IsFiniteSet(all)
  BY GithubAssumption, FS_Subset DEF FetchPrs, FetchIssues, FetchCommits
<1> HIDE DEF all
<1>4. PICK n \in Nat : /\ order \in [1..n -> all]
                      /\ \A i \in all : \E k \in 1..n : order[k] = i
  BY <1>3, SetToSeqOfFinite
<1> HIDE DEF order
<1>5. /\ items \in Seq(FetchedItem) /\ DOMAIN items = 1..n
      /\ \A k \in 1..n : items[k].item = order[k] /\ items[k].is = github[order[k]]
  <2>1. items \in [1..n -> FetchedItem]
    BY <1>2, <1>3, <1>4 DEF FetchedItem, GithubTyped, GithubTypeOK
  <2> QED
    BY <1>4, <2>1, IsASeq
<1> HIDE DEF items
<1>6. /\ next \in [number : Nat, items : Seq(FetchedItem), all : SUBSET GitItems]
      /\ next.all = {} \/ (next.all = all /\ next.items = items)
      /\ next.items = <<>> \/ next.items = items
      /\ next # NoSync => next.number = syncs'
  BY <1>2, <1>3, <1>5 DEF NoSync, GithubTyped
<1> HIDE DEF next
<1>7. \A t \in Syncers : githubSync'[t] = IF t = s THEN next ELSE githubSync[t]
  BY <1>2 DEF GithubTyped
<1>8. GithubTyped'
  <2>1. syncs' \in Nat /\ syncs \in Nat
    BY <1>2 DEF GithubTyped
  <2>2. githubSync' \in [Syncers -> [number : Nat, items : Seq(FetchedItem), all : SUBSET GitItems]]
    BY <1>2, <1>6 DEF GithubTyped
  <2>3. \A t \in Syncers : githubSync'[t] # NoSync => githubSync'[t].number \in 1..syncs'
    BY <1>2, <1>6, <1>7, <2>1 DEF GithubTyped
  <2>4. \A t \in Syncers : githubSync'[t].number \in 0..syncs'
    BY <1>2, <2>1, <2>2, <2>3 DEF NoSync
  <2>5. \A r \in syncLog : r.status \in {"ok", "error"} /\ r.number \in 1..syncs'
    BY <1>2, <2>1 DEF GithubTyped, GithubTypeOK
  <2> QED
    BY <1>2, <2>1, <2>2, <2>3, <2>4, <2>5 DEF GithubTyped, GithubTypeOK
<1>9. ASSUME NEW t \in Syncers PROVE SyncStores(t)'
  <2>1. CASE t = s
    BY <1>4, <1>5, <1>6, <1>7, <2>1 DEF SyncStores
  <2>2. CASE t # s
    BY <1>2, <1>7, <2>2 DEF GithubInv, SyncStores
  <2> QED
    BY <2>1, <2>2
<1>10. NewestIsStored'
  <2> SUFFICES ASSUME ~ syncsOverlapped' PROVE NewestIsStored'
    BY DEF NewestIsStored
  <2>1. ~ syncsOverlapped /\ (next = NoSync \/ \A t \in Syncers : githubSync[t] = NoSync)
    BY <1>2, <1>7 DEF SyncersAtWork
  <2>2. OneSyncAtOnce'
    BY <1>7, <2>1 DEF GithubInv, NewestIsStored, OneSyncAtOnce
  <2>3. \A i \in GitItems : projects'[i].edits = newestRead'[i] /\ newestRead'[i] <= github'[i].edits
    BY <1>2, <2>1 DEF GithubInv, NewestIsStored
  <2>4. ASSUME NEW t \in Syncers PROVE FetchedIsNewest(t)'
    <3>1. CASE t = s
      <4>1. githubSync'[t].items = <<>> \/ githubSync'[t].items = items
        BY <1>6, <1>7, <3>1
      <4>2. \A i \in GitItems : newestRead'[i] <= github'[i].edits /\ github'[i].edits \in Nat
        BY <1>2, <2>3, GithubAssumption DEF GithubTyped, GithubTypeOK
      <4>3. CASE githubSync'[t].items = <<>>
        BY <4>3 DEF FetchedIsNewest
      <4>4. CASE githubSync'[t].items = items
        <5>1. ASSUME NEW k \in 1..n
              PROVE  /\ newestRead'[items[k].item] <= items[k].is.edits
                     /\ items[k].is.edits <= github'[items[k].item].edits
                     /\ \A l \in 1..n : items[l].item = items[k].item => items[l].is = items[k].is
          <6>1. order[k] \in GitItems
            BY <1>3, <1>4
          <6>2. items[k].item = order[k] /\ items[k].is = github[order[k]]
            BY <1>5
          <6>3. github[order[k]].edits \in Nat /\ newestRead'[order[k]] <= github'[order[k]].edits
            BY <1>2, <4>2, <6>1
          <6> QED
            BY <1>2, <1>5, <6>2, <6>3
        <5>2. DOMAIN items = 1..n
          BY <1>5
        <5> QED
          BY <4>4, <5>1, <5>2 DEF FetchedIsNewest
      <4> QED
        BY <4>1, <4>3, <4>4
    <3>2. CASE t # s
      BY <1>2, <1>7, <2>1, <3>2 DEF GithubInv, NewestIsStored, FetchedIsNewest
    <3> QED
      BY <3>1, <3>2
  <2> QED
    BY <2>2, <2>3, <2>4 DEF NewestIsStored
<1> QED
  BY <1>2, <1>8, <1>9, <1>10 DEF GithubInv

LEMMA UpsertItem_Inv == ASSUME GithubInv, NEW s \in Syncers, UpsertItem(s) PROVE GithubInv'
<1> DEFINE items == githubSync[s].items  i == items[1].item  is == items[1].is
           more == IF is.edits > newestRead[i] THEN is.edits ELSE newestRead[i]
           next == [githubSync[s] EXCEPT !.items = Tail(items)]
<1>1. /\ GithubTyped /\ items # <<>>
      /\ projects' = [projects EXCEPT ![i] = is]
      /\ newestRead' = [newestRead EXCEPT ![i] = more]
      /\ githubSync' = [githubSync EXCEPT ![s] = next]
      /\ UNCHANGED <<github, syncLog, syncs, syncsOverlapped>>
  BY DEF UpsertItem, GithubInv, Upserted, GithubTyped
<1>2. items \in Seq(FetchedItem) /\ githubSync[s] \in [number : Nat, items : Seq(FetchedItem), all : SUBSET GitItems]
  BY <1>1 DEF GithubTyped
<1>3. /\ Len(items) \in Nat /\ Len(items) > 0 /\ DOMAIN items = 1..Len(items)
      /\ Tail(items) \in Seq(FetchedItem) /\ DOMAIN Tail(items) = 1..(Len(items) - 1)
      /\ \A k \in 1..(Len(items) - 1) : Tail(items)[k] = items[k + 1]
  BY <1>1, <1>2, HeadTailProperties, LenProperties
<1>4. /\ i \in GitItems /\ is \in [edits : 1..MaxEdits, open : BOOLEAN] /\ is.edits \in Nat /\ is.edits # 0
  BY <1>1, <1>3, FetchedIsTyped
<1>5. newestRead[i] \in Nat /\ more \in Nat
  BY <1>1, <1>4 DEF GithubTyped
<1>6. githubSync[s] # NoSync
  BY <1>1 DEF NoSync
<1>7. /\ next \in [number : Nat, items : Seq(FetchedItem), all : SUBSET GitItems]
      /\ next.number = githubSync[s].number /\ next.all = githubSync[s].all
      /\ next.items = Tail(items)
  BY <1>2, <1>3
<1> HIDE DEF next
<1>8. \A t \in Syncers : githubSync'[t] = IF t = s THEN next ELSE githubSync[t]
  BY <1>1 DEF GithubTyped
<1> HIDE DEF items, i, is, more
<1>9. /\ projects' \in [GitItems -> [edits : 0..MaxEdits, open : BOOLEAN]]
      /\ \A j \in GitItems : projects'[j] = IF j = i THEN is ELSE projects[j]
  <2>1. is \in [edits : 0..MaxEdits, open : BOOLEAN]
    BY <1>4
  <2> QED
    BY <1>1, <1>4, <2>1 DEF GithubTyped, GithubTypeOK
<1>10. newestRead' \in [GitItems -> Nat] /\ \A j \in GitItems : newestRead'[j] = IF j = i THEN more ELSE newestRead[j]
  BY <1>1, <1>4, <1>5 DEF GithubTyped
<1>11. GithubTyped'
  <2>1. githubSync' \in [Syncers -> [number : Nat, items : Seq(FetchedItem), all : SUBSET GitItems]]
    BY <1>1, <1>7 DEF GithubTyped
  <2>2. \A t \in Syncers : githubSync'[t].number = githubSync[t].number /\ (githubSync'[t] # NoSync => githubSync[t] # NoSync)
    BY <1>6, <1>7, <1>8
  <2>3. GithubTypeOK'
    BY <1>1, <1>9, <2>2 DEF GithubTyped, GithubTypeOK
  <2> QED
    BY <1>1, <1>10, <2>1, <2>2, <2>3 DEF GithubTyped
<1>12. ASSUME NEW t \in Syncers PROVE SyncStores(t)'
  <2>1. SyncStores(t) /\ githubSync[t].all \subseteq GitItems
    BY <1>1 DEF GithubInv, GithubTyped
  <2>2. CASE t # s
    BY <1>4, <1>8, <1>9, <2>1, <2>2 DEF SyncStores
  <2>3. CASE t = s
    <3> SUFFICES ASSUME NEW j \in githubSync[s].all, projects'[j].edits = 0
                 PROVE  \E k \in DOMAIN Tail(items) : Tail(items)[k].item = j
      BY <1>7, <1>8, <2>3 DEF SyncStores
    <3>1. projects[j].edits = 0 /\ j # i
      BY <1>4, <1>9, <2>1, <2>3
    <3>2. PICK k \in DOMAIN items : items[k].item = j
      BY <2>1, <2>3, <3>1 DEF SyncStores, items
    <3>3. k # 1
      BY <3>1, <3>2 DEF i
    <3>4. k - 1 \in 1..(Len(items) - 1) /\ Tail(items)[k - 1] = items[k]
      BY <1>3, <3>3
    <3> QED
      BY <1>3, <3>2, <3>4
  <2> QED
    BY <2>2, <2>3
<1>13. NewestIsStored'
  <2> SUFFICES ASSUME ~ syncsOverlapped PROVE NewestIsStored'
    BY <1>1 DEF NewestIsStored
  <2>1. OneSyncAtOnce /\ FetchedIsNewest(s)
    BY DEF GithubInv, NewestIsStored
  <2>2. newestRead[i] <= is.edits /\ more = is.edits /\ is.edits <= github[i].edits
    <3>1. newestRead[i] <= is.edits /\ is.edits <= github[i].edits
      BY <1>3, <2>1 DEF FetchedIsNewest, items, i, is
    <3> QED
      BY <1>4, <1>5, <3>1 DEF more
  <2>3. OneSyncAtOnce'
    BY <1>6, <1>8, <2>1 DEF OneSyncAtOnce
  <2>4. \A j \in GitItems : projects'[j].edits = newestRead'[j] /\ newestRead'[j] <= github'[j].edits
    BY <1>1, <1>9, <1>10, <2>2 DEF GithubInv, NewestIsStored
  <2>5. ASSUME NEW t \in Syncers PROVE FetchedIsNewest(t)'
    <3>1. CASE t = s
      <4>1. \A k \in DOMAIN Tail(items) : \E l \in DOMAIN items : Tail(items)[k] = items[l]
        BY <1>3
      <4>2. \A l \in DOMAIN items : items[l].item \in GitItems
        BY <1>1, FetchedIsTyped DEF items
      <4>3. \A l \in DOMAIN items : items[l].item = i => items[l].is = is
        BY <1>3, <2>1 DEF FetchedIsNewest, items, i, is
      <4>4. \A l \in DOMAIN items : newestRead'[items[l].item] <= items[l].is.edits
        BY <1>4, <1>10, <2>1, <2>2, <4>2, <4>3 DEF FetchedIsNewest, items
      <4>5. githubSync'[t].items = Tail(items)
        BY <1>7, <1>8, <3>1
      <4>6. \A l \in DOMAIN items :
              /\ items[l].is.edits <= github'[items[l].item].edits
              /\ \A k \in DOMAIN items : items[k].item = items[l].item => items[k].is = items[l].is
        BY <1>1, <2>1 DEF FetchedIsNewest, items
      <4> HIDE DEF items
      <4>7. ASSUME NEW k \in DOMAIN Tail(items)
            PROVE  /\ newestRead'[Tail(items)[k].item] <= Tail(items)[k].is.edits
                   /\ Tail(items)[k].is.edits <= github'[Tail(items)[k].item].edits
                   /\ \A l \in DOMAIN Tail(items) :
                        Tail(items)[l].item = Tail(items)[k].item => Tail(items)[l].is = Tail(items)[k].is
        <5>1. PICK l \in DOMAIN items : Tail(items)[k] = items[l]
          BY <4>1
        <5> QED
          BY <4>1, <4>4, <4>6, <5>1
      <4> QED
        BY <4>5, <4>7 DEF FetchedIsNewest
    <3>2. CASE t # s
      <4>1. githubSync[t] = NoSync
        BY <1>6, <2>1, <3>2 DEF OneSyncAtOnce
      <4> QED
        BY <1>8, <3>2, <4>1 DEF FetchedIsNewest, NoSync
    <3> QED
      BY <3>1, <3>2
  <2> QED
    BY <1>1, <2>3, <2>4, <2>5 DEF NewestIsStored
<1>14. \A r \in syncLog : \A j \in r.all \ r.left : projects'[j].edits # 0
  BY <1>4, <1>9 DEF GithubInv
<1> QED
  BY <1>1, <1>11, <1>12, <1>13, <1>14 DEF GithubInv

LEMMA LogGithubSync_Inv == ASSUME GithubInv, NEW s \in Syncers, LogGithubSync(s) PROVE GithubInv'
<1> DEFINE items == githubSync[s].items
           row == [number |-> githubSync[s].number, all |-> githubSync[s].all,
                   left |-> {items[k].item : k \in DOMAIN items},
                   status |-> IF items = <<>> THEN "ok" ELSE "error"]
<1>1. /\ GithubTyped /\ githubSync[s] # NoSync
      /\ syncLog' = syncLog \/ syncLog' = syncLog \cup {row}
      /\ githubSync' = [githubSync EXCEPT ![s] = NoSync]
      /\ UNCHANGED <<github, projects, syncs, syncsOverlapped, newestRead>>
  BY DEF LogGithubSync, GithubInv
<1>2. /\ row.number = githubSync[s].number /\ row.all = githubSync[s].all
      /\ row.left = {items[k].item : k \in DOMAIN items}
      /\ row.status = IF items = <<>> THEN "ok" ELSE "error"
  OBVIOUS
<1> HIDE DEF row
<1>3. /\ items \in Seq(FetchedItem) /\ githubSync[s].all \subseteq GitItems
      /\ githubSync[s].number \in 1..syncs
  BY <1>1 DEF GithubTyped
<1>4. items = <<>> <=> row.left = {}
  <2>1. items = <<>> <=> DOMAIN items = {}
    <3>1. DOMAIN items = 1..Len(items) /\ Len(items) \in Nat
      BY <1>3, LenProperties
    <3>2. items = <<>> <=> Len(items) = 0
      BY <1>3, EmptySeq
    <3> HIDE DEF items
    <3> QED
      BY <3>1, <3>2
  <2> QED
    BY <1>2, <2>1
<1> HIDE DEF items
<1>5. /\ row.all \subseteq GitItems /\ row.status \in {"ok", "error"} /\ row.number \in 1..syncs
      /\ row.status = "ok" <=> row.left = {}
      /\ \A i \in row.all \ row.left : projects[i].edits # 0
  <2>1. SyncStores(s)
    BY DEF GithubInv
  <2>2. \A i \in row.all \ row.left : projects[i].edits # 0
    BY <1>2, <2>1 DEF SyncStores, items
  <2> QED
    BY <1>2, <1>3, <1>4, <2>2
<1>6. /\ NoSync \in [number : Nat, items : Seq(FetchedItem), all : SUBSET GitItems]
      /\ NoSync.number = 0 /\ NoSync.items = <<>> /\ NoSync.all = {}
  BY DEF NoSync
<1>7. \A t \in Syncers : githubSync'[t] = IF t = s THEN NoSync ELSE githubSync[t]
  BY <1>1 DEF GithubTyped
<1>8. GithubTyped'
  <2>1. githubSync' \in [Syncers -> [number : Nat, items : Seq(FetchedItem), all : SUBSET GitItems]]
    BY <1>1, <1>6 DEF GithubTyped
  <2>2. \A t \in Syncers : githubSync'[t].number \in 0..syncs
    BY <1>1, <1>6, <1>7 DEF GithubTyped, GithubTypeOK
  <2>3. \A r \in syncLog' : r.status \in {"ok", "error"} /\ r.number \in 1..syncs
    BY <1>1, <1>5 DEF GithubTyped, GithubTypeOK
  <2> QED
    BY <1>1, <1>7, <2>1, <2>2, <2>3 DEF GithubTyped, GithubTypeOK
<1>9. \A t \in Syncers : SyncStores(t)'
  BY <1>1, <1>6, <1>7 DEF GithubInv, SyncStores
<1>10. NewestIsStored'
  <2>1. ~ syncsOverlapped => OneSyncAtOnce'
    BY <1>7 DEF GithubInv, NewestIsStored, OneSyncAtOnce
  <2>2. ~ syncsOverlapped => \A t \in Syncers : FetchedIsNewest(t)'
    BY <1>1, <1>6, <1>7 DEF GithubInv, NewestIsStored, FetchedIsNewest
  <2> QED
    BY <1>1, <2>1, <2>2 DEF GithubInv, NewestIsStored
<1> QED
  BY <1>1, <1>5, <1>8, <1>9, <1>10 DEF GithubInv

\* So every step keeps it.
LEMMA GithubNext_Inv == ASSUME GithubInv, [GithubNext]_githubVars PROVE GithubInv'
<1>1. CASE GithubNext
  BY <1>1, EditItem_Inv, StartSync_Inv, UpsertItem_Inv, LogGithubSync_Inv DEF GithubNext
<1>2. CASE UNCHANGED githubVars
  BY <1>2 DEF githubVars, GithubInv, GithubTyped, GithubTypeOK, NewestIsStored, OneSyncAtOnce,
              FetchedIsNewest, SyncStores
<1> QED
  BY <1>1, <1>2

\* And it implies what is promised.
LEMMA GithubInv_Safe == ASSUME GithubInv PROVE GithubSafe
<1>1. LatestIsStored
  BY DEF GithubInv, NewestIsStored, LatestIsStored
<1>2. SyncRowsAreTrue
  BY DEF GithubInv, SyncRowsAreTrue, NoItem
<1> QED
  BY <1>1, <1>2 DEF GithubInv, GithubTyped, GithubSafe

-----------------------------------------------------------------------------
(* The ingestion (Ingest)                                                  *)

RunOf ==
  [at : {"idle", "walk", "upsert", "mark", "gc", "purge"}, todo : SUBSET Paths, seen : SUBSET Paths,
   path : Paths \cup {0}, text : Texts \cup {NoText}, background : BOOLEAN]

IngestTyped ==
  /\ IngestTypeOK
  /\ run \in [Runs -> RunOf]
  /\ \A r \in Runs : run[r].at \in {"gc", "purge"} => run[r].todo \cap run[r].seen = {}

\* What an ingestion relies on between its steps, when it is the only one.
RunHolds(r) ==
  LET k == run[r] IN
  /\ k.at = "mark" => k.path \in amiss \/ <<k.path, k.text>> \in found
  /\ k.at = "purge" => tracked[k.path] = NoText
  /\ k.at \in {"gc", "purge"} =>
       \A p \in Paths \ k.seen : p \notin k.todo =>
         /\ tracked[p] = NoText
         /\ k.at = "gc" \/ p # k.path => p \in amiss \/ Of(p) = {}

\* A row has its points, and points have a row or one about to be written.
PathHolds(p) ==
  /\ tracked[p] # NoText => <<p, tracked[p]>> \in found
  /\ Of(p) # {} => \/ tracked[p] # NoText
                   \/ \E r \in Runs : run[r].path = p /\ run[r].at \in {"mark", "purge"}

IngestInv ==
  /\ IngestTyped
  /\ ~ overlapped =>
       /\ \A r, s \in Busy : r = s
       /\ \A r \in Runs : RunHolds(r)
       /\ \A p \in Paths \ amiss : PathHolds(p)

\* A set of numbers has a least one.
LEMMA LeastIsIn ==
  ASSUME NEW S \in SUBSET Nat, S # {}
  PROVE  (CHOOSE q \in S : \A o \in S : q <= o) \in S
<1> DEFINE less == OpToRel(<, Nat)
<1>1. less = {p \in Nat \X Nat : p[1] < p[2]}
  BY DEF OpToRel
<1>2. IsWellFoundedOn(less, Nat)
  BY NatLessThanWellFounded
<1> HIDE DEF less
<1>3. PICK m \in S : \A n \in S : ~ (<<n, m>> \in less)
  BY <1>2, WFMin
<1>4. ASSUME NEW n \in S PROVE m <= n
  <2>1. m \in Nat /\ n \in Nat
    OBVIOUS
  <2>2. ~ (n < m)
    BY <1>1, <1>3, <2>1
  <2> QED
    BY <2>1, <2>2
<1> QED
  BY <1>4

\* The parts of the typing, one by one.
LEMMA IngestTypes ==
  ASSUME IngestInv
  PROVE  /\ disk \in [Paths -> Texts \cup {NoText}]
         /\ tracked \in [Paths -> (Texts \ {Unreadable}) \cup {NoText}]
         /\ found \subseteq Paths \X (Texts \ {Unreadable})
         /\ changed \subseteq Paths /\ amiss \subseteq Paths
         /\ run \in [Runs -> RunOf] /\ changes \in 0..MaxChanges
         /\ \A r \in Runs :
              /\ run[r] \in RunOf
              /\ run[r].at \in {"upsert", "mark"} =>
                   run[r].path \in run[r].seen /\ run[r].text \in Texts \ {Unreadable}
              /\ run[r].at = "purge" => run[r].path \in Paths \ run[r].seen
              /\ run[r].at \in {"gc", "purge"} => run[r].todo \cap run[r].seen = {}
         /\ ~ overlapped => \A r, s \in Runs : run[r].at # "idle" /\ run[s].at # "idle" => r = s
         /\ NoText \notin Texts /\ Paths \subseteq Nat /\ MaxChanges \in Nat
  BY IngestAssumption DEF IngestInv, IngestTyped, IngestTypeOK, Busy

\* An idle run is typed.
LEMMA IdleIsTyped ==
  IdleRun \in RunOf /\ IdleRun.at = "idle"
  BY DEF IdleRun, RunOf

\* It holds at the start, and each action of the module keeps it.
LEMMA IngestInit_Inv == ASSUME IngestInit PROVE IngestInv
<1>1. /\ disk = [p \in Paths |-> NoText] /\ tracked = disk /\ found = {} /\ changed = {}
      /\ flag = FALSE
      /\ run = [r \in Runs |-> IdleRun] /\ changes = 0 /\ overlapped = FALSE /\ amiss = {}
  BY DEF IngestInit
<1>2. MaxChanges \in Nat
  BY IngestAssumption
<1>3. IngestTyped
  <2>1. /\ disk \in [Paths -> Texts \cup {NoText}]
        /\ tracked \in [Paths -> (Texts \ {Unreadable}) \cup {NoText}]
    BY <1>1
  <2>2. changes \in 0..MaxChanges
    BY <1>1, <1>2
  <2>4. flag \in BOOLEAN /\ overlapped \in BOOLEAN
    BY <1>1
  <2>3. run \in [Runs -> RunOf] /\ \A r \in Runs : run[r] = IdleRun
    BY <1>1, IdleIsTyped
  <2> QED
    BY <1>1, <2>1, <2>2, <2>3, <2>4 DEF IngestTyped, IngestTypeOK, IdleRun
<1>4. \A r \in Runs : RunHolds(r) /\ run[r].at = "idle"
  BY <1>1, IdleIsTyped DEF RunHolds
<1>5. \A p \in Paths : PathHolds(p)
  BY <1>1 DEF PathHolds, Of
<1> QED
  BY <1>3, <1>4, <1>5 DEF IngestInv, Busy

\* One ingestion steps; when it is the only one the others are idle.
LEMMA RunSteps ==
  ASSUME IngestInv, NEW r \in Runs, run[r].at # "idle", NEW next \in RunOf,
         run' = [run EXCEPT ![r] = next],
         next.at \in {"upsert", "mark"} => next.path \in next.seen /\ next.text \in Texts \ {Unreadable},
         next.at = "purge" => next.path \in Paths \ next.seen,
         next.at \in {"gc", "purge"} => next.todo \cap next.seen = {},
         tracked' \in [Paths -> (Texts \ {Unreadable}) \cup {NoText}],
         found' \subseteq Paths \X (Texts \ {Unreadable}),
         flag' \in BOOLEAN, changes' \in 0..MaxChanges, amiss' \subseteq Paths,
         UNCHANGED <<disk, changed, overlapped>>,
         ~ overlapped => RunHolds(r)' /\ \A p \in Paths \ amiss' : PathHolds(p)'
  PROVE  IngestInv'
<1>1. /\ run' \in [Runs -> RunOf] /\ \A o \in Runs : run'[o] = IF o = r THEN next ELSE run[o]
  BY IngestTypes
<1>2. /\ next.at \in {"idle", "walk", "upsert", "mark", "gc", "purge"}
      /\ next.todo \subseteq Paths /\ next.seen \subseteq Paths
  BY DEF RunOf
<1>3. IngestTyped'
  BY <1>1, <1>2 DEF IngestInv, IngestTyped, IngestTypeOK
<1>4. ~ overlapped => \A o \in Runs \ {r} : run'[o].at = "idle"
  BY <1>1, IngestTypes
<1>5. ~ overlapped => \A o \in Runs : RunHolds(o)'
  BY <1>4 DEF RunHolds
<1> QED
  BY <1>3, <1>4, <1>5 DEF IngestInv, Busy

\* What goes on around the ingestions.
LEMMA IngestWorld_Inv ==
  ASSUME IngestInv, UNCHANGED ingestVars \/ (\E p \in Paths, t \in Texts \cup {NoText} : Change(p, t))
  PROVE  IngestInv'
<1>1. /\ UNCHANGED <<tracked, found, flag, run, overlapped, amiss>>
      /\ disk' \in [Paths -> Texts \cup {NoText}] /\ changed' \subseteq Paths
      /\ changes' \in 0..MaxChanges
  <2>1. CASE UNCHANGED ingestVars
    BY <2>1, IngestTypes DEF ingestVars
  <2>2. ASSUME NEW p \in Paths, NEW t \in Texts \cup {NoText}, Change(p, t)
        PROVE  /\ UNCHANGED <<tracked, found, flag, run, overlapped, amiss>>
               /\ disk' \in [Paths -> Texts \cup {NoText}] /\ changed' \subseteq Paths
               /\ changes' \in 0..MaxChanges
    BY <2>2, IngestTypes DEF Change, Changes
  <2> QED
    BY <2>1, <2>2
<1>2. IngestTyped'
  BY <1>1 DEF IngestInv, IngestTyped, IngestTypeOK
<1> QED
  BY <1>1, <1>2 DEF IngestInv, Busy, RunHolds, PathHolds, Of

LEMMA CrashIngest_Inv == ASSUME IngestInv, CrashIngest PROVE IngestInv'
<1>1. /\ run' = [r \in Runs |-> IdleRun] /\ changed' = {} /\ flag' = FALSE
      /\ amiss' = amiss \cup {run[r].path : r \in {q \in Runs : run[q].at \in {"mark", "purge"}}}
      /\ changes < MaxChanges /\ changes' = changes + 1
      /\ UNCHANGED <<disk, tracked, found, overlapped>>
  BY DEF CrashIngest, Changes
<1>2. amiss' \subseteq Paths /\ changes' \in 0..MaxChanges
  <2>1. \A r \in Runs : run[r].at \in {"mark", "purge"} => run[r].path \in Paths
    BY IngestTypes DEF RunOf
  <2>2. changes' \in 0..MaxChanges
    BY <1>1, IngestTypes
  <2> QED
    BY <1>1, <2>1, <2>2, IngestTypes
<1>3. \A r \in Runs : run'[r] = IdleRun
  BY <1>1
<1>4. IngestTyped'
  BY <1>1, <1>2, <1>3, IdleIsTyped DEF IngestInv, IngestTyped, IngestTypeOK, IdleRun
<1>5. ASSUME ~ overlapped, NEW p \in Paths \ amiss' PROVE PathHolds(p)'
  <2>1. PathHolds(p) /\ ~ \E r \in Runs : run[r].path = p /\ run[r].at \in {"mark", "purge"}
    BY <1>1, <1>5 DEF IngestInv
  <2> QED
    BY <1>1, <2>1 DEF PathHolds, Of
<1> QED
  BY <1>1, <1>3, <1>4, <1>5, IdleIsTyped DEF IngestInv, Busy, RunHolds

\* An ingestion begins: the only one, if no two have overlapped.
LEMMA Begin_Inv ==
  ASSUME IngestInv, NEW r \in Runs, NEW background \in BOOLEAN, Begin(r, background),
         changed' \subseteq changed, flag' \in BOOLEAN,
         UNCHANGED <<disk, tracked, found, changes, amiss>>
  PROVE  IngestInv'
<1> DEFINE next == [IdleRun EXCEPT !.at = "walk", !.background = background, !.todo = {p \in Paths : disk[p] # NoText}]
<1>1. /\ run[r].at = "idle" /\ run' = [run EXCEPT ![r] = next]
      /\ (~ overlapped' => ~ overlapped /\ Busy = {}) /\ overlapped' \in BOOLEAN
  BY DEF Begin, IngestInv, IngestTyped, IngestTypeOK
<1>2. next \in RunOf /\ next.at = "walk"
  BY DEF RunOf, IdleRun
<1> HIDE DEF next
<1>3. run' \in [Runs -> RunOf] /\ \A o \in Runs : run'[o] = IF o = r THEN next ELSE run[o]
  BY <1>1, <1>2, IngestTypes
<1>4. IngestTyped'
  <2>1. next.todo \subseteq Paths /\ next.seen \subseteq Paths
    BY <1>2 DEF RunOf
  <2> QED
    BY <1>1, <1>2, <1>3, <2>1 DEF IngestInv, IngestTyped, IngestTypeOK
<1>5. ASSUME ~ overlapped'
      PROVE  /\ \A o, s \in Busy' : o = s
             /\ \A o \in Runs : RunHolds(o)'
             /\ \A p \in Paths \ amiss' : PathHolds(p)'
  <2>1. \A o \in Runs \ {r} : run'[o].at = "idle" /\ run[o].at = "idle"
    BY <1>1, <1>3, <1>5 DEF Busy
  <2>2. \A p \in Paths \ amiss : PathHolds(p) /\ (Of(p) # {} => tracked[p] # NoText)
    BY <1>1, <1>5, <2>1 DEF IngestInv, PathHolds
  <2>3. \A p \in Paths \ amiss' : PathHolds(p)'
    BY <2>2 DEF PathHolds, Of
  <2>4. \A o \in Runs : RunHolds(o)'
    BY <1>2, <1>3, <2>1 DEF RunHolds
  <2> QED
    BY <2>1, <2>3, <2>4 DEF Busy
<1> QED
  BY <1>4, <1>5 DEF IngestInv

LEMMA Starts_Inv ==
  ASSUME IngestInv, Scan \/ \E r \in Posts : PostIngest(r) \/ PostSync(r)
  PROVE  IngestInv'
<1>1. CASE Scan
  BY <1>1, Begin_Inv DEF Scan, Runs, IngestInv, IngestTyped, IngestTypeOK
<1>2. ASSUME NEW r \in Posts, PostIngest(r) PROVE IngestInv'
  BY <1>2, Begin_Inv DEF PostIngest, Runs
<1>3. ASSUME NEW r \in Posts, PostSync(r) PROVE IngestInv'
  BY <1>3, Begin_Inv DEF PostSync, Runs, IngestInv, IngestTyped, IngestTypeOK
<1> QED
  BY <1>1, <1>2, <1>3

LEMMA Walk_Inv == ASSUME IngestInv, NEW r \in Runs, Walk(r) PROVE IngestInv'
<1> DEFINE p == CHOOSE q \in run[r].todo : \A o \in run[r].todo : q <= o
           seen == IF disk[p] = NoText THEN run[r].seen ELSE run[r].seen \cup {p}
           skip == [run[r] EXCEPT !.todo = run[r].todo \ {p}, !.seen = seen]
           take == [skip EXCEPT !.at = "upsert", !.path = p, !.text = disk[p]]
           next == IF disk[p] \in {NoText, Unreadable, tracked[p]} THEN skip ELSE take
<1>1. /\ run[r].at = "walk" /\ run[r].todo # {} /\ run' = [run EXCEPT ![r] = next]
      /\ UNCHANGED <<disk, tracked, found, changed, flag, changes, overlapped, amiss>>
  BY DEF Walk
<1>2. /\ run[r] \in RunOf /\ run[r].todo \in SUBSET Nat /\ run[r].todo \subseteq Paths
      /\ run[r].seen \subseteq Paths
  BY IngestTypes DEF RunOf
<1>3. p \in Paths
  BY <1>1, <1>2, LeastIsIn
<1> HIDE DEF p
<1>4. seen \in SUBSET Paths /\ disk[p] \in Texts \cup {NoText} /\ (disk[p] # NoText => p \in seen)
  BY <1>2, <1>3, IngestTypes
<1> HIDE DEF seen
<1>5. skip \in RunOf /\ skip.at = "walk"
  BY <1>1, <1>2, <1>4 DEF RunOf
<1>6. /\ take \in RunOf /\ take.at = "upsert" /\ take.path = p /\ take.text = disk[p]
      /\ take.seen = seen
  BY <1>2, <1>3, <1>4 DEF RunOf
<1> HIDE DEF skip, take
<1>7. /\ next \in RunOf /\ next.at \in {"walk", "upsert"}
      /\ next.at = "upsert" => next.path \in next.seen /\ next.text \in Texts \ {Unreadable}
  BY <1>4, <1>5, <1>6
<1> HIDE DEF next
<1>8. run'[r] = next /\ \A o \in Runs \ {r} : run'[o] = run[o]
  BY <1>1, IngestTypes
<1>9. RunHolds(r)'
  BY <1>7, <1>8 DEF RunHolds
<1>10. ASSUME ~ overlapped, NEW q \in Paths \ amiss PROVE PathHolds(q)'
  <2>1. PathHolds(q)
    BY <1>10 DEF IngestInv
  <2>2. \A o \in Runs : run[o].at \in {"mark", "purge"} => run'[o] = run[o]
    BY <1>1, <1>8
  <2> QED
    BY <1>1, <2>1, <2>2 DEF PathHolds, Of
<1>11. flag' \in BOOLEAN
  BY <1>1 DEF IngestInv, IngestTyped, IngestTypeOK
<1> QED
  BY <1>1, <1>7, <1>9, <1>10, <1>11, IngestTypes, RunSteps

LEMMA UpsertPoints_Inv == ASSUME IngestInv, NEW r \in Runs, UpsertPoints(r) PROVE IngestInv'
<1> DEFINE next == [run[r] EXCEPT !.at = "mark"]
<1>1. /\ run[r].at = "upsert" /\ found' = found \cup {<<run[r].path, run[r].text>>}
      /\ run' = [run EXCEPT ![r] = next]
      /\ UNCHANGED <<disk, tracked, changed, flag, changes, overlapped, amiss>>
  BY IngestTypes DEF UpsertPoints
<1>2. /\ run[r] \in RunOf /\ run[r].path \in run[r].seen /\ run[r].seen \subseteq Paths
      /\ run[r].text \in Texts \ {Unreadable}
  BY <1>1, IngestTypes DEF RunOf
<1>3. /\ next \in RunOf /\ next.at = "mark" /\ next.path = run[r].path /\ next.text = run[r].text
      /\ next.seen = run[r].seen
  BY <1>2 DEF RunOf
<1> HIDE DEF next
<1>4. run'[r] = next /\ \A o \in Runs \ {r} : run'[o] = run[o]
  BY <1>1, IngestTypes
<1>5. RunHolds(r)'
  BY <1>1, <1>3, <1>4 DEF RunHolds
<1>6. ASSUME ~ overlapped, NEW q \in Paths \ amiss PROVE PathHolds(q)'
  <2>1. PathHolds(q)
    BY <1>6 DEF IngestInv
  <2>2. \A o \in Runs : run[o].at \in {"mark", "purge"} => run'[o] = run[o]
    BY <1>1, <1>4
  <2>3. CASE q = run[r].path
    BY <1>1, <1>3, <1>4, <2>1, <2>3 DEF PathHolds
  <2>4. CASE q # run[r].path
    <3>1. Of(q)' = Of(q)
      BY <1>1, <2>4 DEF Of
    <3> QED
      BY <1>1, <2>1, <2>2, <3>1 DEF PathHolds
  <2> QED
    BY <2>3, <2>4
<1>7. flag' \in BOOLEAN /\ found' \subseteq Paths \X (Texts \ {Unreadable})
  BY <1>1, <1>2, IngestTypes DEF IngestInv, IngestTyped, IngestTypeOK
<1> QED
  BY <1>1, <1>2, <1>3, <1>5, <1>6, <1>7, IngestTypes, RunSteps

\* What ends an ingestion keeps what holds of the paths.
LEMMA RunEnds ==
  ASSUME IngestInv, NEW r \in Runs, run[r].at \in {"upsert", "gc"}, EndRun(r), changes' \in 0..MaxChanges,
         UNCHANGED <<disk, tracked, found, changed, overlapped, amiss>>
  PROVE  IngestInv'
<1>1. run' = [run EXCEPT ![r] = IdleRun] /\ flag' \in BOOLEAN
  BY DEF EndRun, IngestInv, IngestTyped, IngestTypeOK
<1>2. run'[r] = IdleRun /\ \A o \in Runs \ {r} : run'[o] = run[o]
  BY <1>1, IngestTypes
<1>3. RunHolds(r)'
  BY <1>2, IdleIsTyped DEF RunHolds
<1>4. ASSUME ~ overlapped, NEW q \in Paths \ amiss PROVE PathHolds(q)'
  <2>1. PathHolds(q)
    BY <1>4 DEF IngestInv
  <2>2. \A o \in Runs : run[o].at \in {"mark", "purge"} => run'[o] = run[o]
    BY <1>2
  <2> QED
    BY <2>1, <2>2 DEF PathHolds, Of
<1> QED
  BY <1>1, <1>3, <1>4, IdleIsTyped, IngestTypes, RunSteps

LEMMA UpsertFails_Inv == ASSUME IngestInv, NEW r \in Runs, UpsertFails(r) PROVE IngestInv'
<1> DEFINE next == [run[r] EXCEPT !.at = "mark"]
<1>1. /\ run[r].at = "upsert" /\ changes < MaxChanges /\ changes' = changes + 1
      /\ UNCHANGED <<disk, tracked, found, changed, overlapped>>
      /\ \/ run' = [run EXCEPT ![r] = next] /\ amiss' = amiss \cup {run[r].path} /\ flag' = flag
         \/ EndRun(r) /\ amiss' = amiss
  BY IngestTypes DEF UpsertFails, Changes
<1>2. changes' \in 0..MaxChanges
  BY <1>1, IngestTypes
<1>3. /\ run[r] \in RunOf /\ run[r].path \in run[r].seen /\ run[r].seen \subseteq Paths
      /\ run[r].text \in Texts \ {Unreadable}
  BY <1>1, IngestTypes DEF RunOf
<1>4. CASE EndRun(r) /\ amiss' = amiss
  BY <1>1, <1>2, <1>4, RunEnds
<1>5. CASE run' = [run EXCEPT ![r] = next] /\ amiss' = amiss \cup {run[r].path} /\ flag' = flag
  <2>1. /\ next \in RunOf /\ next.at = "mark" /\ next.path = run[r].path /\ next.text = run[r].text
        /\ next.seen = run[r].seen
    BY <1>3 DEF RunOf
  <2> HIDE DEF next
  <2>2. run'[r] = next /\ \A o \in Runs \ {r} : run'[o] = run[o]
    BY <1>5, IngestTypes
  <2>3. RunHolds(r)'
    BY <1>5, <2>1, <2>2 DEF RunHolds
  <2>4. ASSUME ~ overlapped, NEW q \in Paths \ amiss' PROVE PathHolds(q)'
    <3>1. PathHolds(q)
      BY <1>5, <2>4 DEF IngestInv
    <3>2. \A o \in Runs : run[o].at \in {"mark", "purge"} => run'[o] = run[o]
      BY <1>1, <2>2
    <3> QED
      BY <1>1, <3>1, <3>2 DEF PathHolds, Of
  <2>5. flag' \in BOOLEAN /\ amiss' \subseteq Paths
    BY <1>3, <1>5, IngestTypes DEF IngestInv, IngestTyped, IngestTypeOK
  <2> QED
    BY <1>1, <1>2, <1>3, <1>5, <2>1, <2>3, <2>4, <2>5, IngestTypes, RunSteps
<1> QED
  BY <1>1, <1>4, <1>5

LEMMA MarkIngested_Inv == ASSUME IngestInv, NEW r \in Runs, MarkIngested(r) PROVE IngestInv'
<1> DEFINE next == [run[r] EXCEPT !.at = "walk"]
<1>1. /\ run[r].at = "mark" /\ tracked' = [tracked EXCEPT ![run[r].path] = run[r].text]
      /\ run' = [run EXCEPT ![r] = next]
      /\ UNCHANGED <<disk, found, changed, flag, changes, overlapped, amiss>>
  BY IngestTypes DEF MarkIngested
<1>2. /\ run[r] \in RunOf /\ run[r].path \in Paths /\ run[r].text \in Texts \ {Unreadable}
      /\ run[r].text # NoText
  BY <1>1, IngestTypes DEF RunOf
<1>3. next \in RunOf /\ next.at = "walk"
  BY <1>2 DEF RunOf
<1> HIDE DEF next
<1>4. run'[r] = next /\ \A o \in Runs \ {r} : run'[o] = run[o]
  BY <1>1, IngestTypes
<1>5. /\ tracked' \in [Paths -> (Texts \ {Unreadable}) \cup {NoText}]
      /\ tracked'[run[r].path] = run[r].text
      /\ \A q \in Paths \ {run[r].path} : tracked'[q] = tracked[q]
  BY <1>1, <1>2, IngestTypes
<1>6. RunHolds(r)'
  BY <1>3, <1>4 DEF RunHolds
<1>7. ASSUME ~ overlapped, NEW q \in Paths \ amiss PROVE PathHolds(q)'
  <2>1. PathHolds(q) /\ RunHolds(r)
    BY <1>7 DEF IngestInv
  <2>2. CASE q = run[r].path
    BY <1>1, <1>2, <1>5, <1>7, <2>1, <2>2 DEF PathHolds, RunHolds
  <2>3. CASE q # run[r].path
    BY <1>1, <1>4, <1>5, <2>1, <2>3 DEF PathHolds, Of
  <2> QED
    BY <2>2, <2>3
<1>8. flag' \in BOOLEAN
  BY <1>1 DEF IngestInv, IngestTyped, IngestTypeOK
<1> QED
  BY <1>1, <1>3, <1>5, <1>6, <1>7, <1>8, IngestTypes, RunSteps

LEMMA Collect_Inv == ASSUME IngestInv, NEW r \in Runs, Collect(r) PROVE IngestInv'
<1> DEFINE next == [run[r] EXCEPT !.at = "gc", !.todo = Orphans(r)]
<1>1. /\ run[r].at = "walk" /\ run' = [run EXCEPT ![r] = next]
      /\ UNCHANGED <<disk, tracked, found, changed, flag, changes, overlapped, amiss>>
  BY DEF Collect
<1>2. run[r] \in RunOf /\ Orphans(r) \in SUBSET Paths
  BY IngestTypes DEF Orphans
<1>3. next \in RunOf /\ next.at = "gc" /\ next.todo = Orphans(r) /\ next.seen = run[r].seen
  BY <1>2 DEF RunOf
<1> HIDE DEF next
<1>4. run'[r] = next /\ \A o \in Runs \ {r} : run'[o] = run[o]
  BY <1>1, IngestTypes
<1>5. ASSUME ~ overlapped
      PROVE  RunHolds(r)' /\ \A q \in Paths \ amiss' : PathHolds(q)'
  <2>1. \A o \in Runs : run[o].at \notin {"mark", "purge"}
    BY <1>1, <1>5, IngestTypes
  <2>2. \A q \in Paths \ amiss : PathHolds(q) /\ (Of(q) # {} => tracked[q] # NoText)
    BY <1>5, <2>1 DEF IngestInv, PathHolds
  <2>3. \A q \in Paths \ amiss' : PathHolds(q)'
    BY <1>1, <2>2 DEF PathHolds, Of
  <2>4. \A q \in Paths \ next.seen : q \notin next.todo => tracked[q] = NoText
    BY <1>3 DEF Orphans
  <2>5. RunHolds(r)'
    BY <1>1, <1>3, <1>4, <2>2, <2>4 DEF RunHolds, Of
  <2> QED
    BY <2>3, <2>5
<1>6. flag' \in BOOLEAN
  BY <1>1 DEF IngestInv, IngestTyped, IngestTypeOK
<1>7. next.todo \cap next.seen = {}
  BY <1>3 DEF Orphans
<1> QED
  BY <1>1, <1>3, <1>5, <1>6, <1>7, IngestTypes, RunSteps

LEMMA DropRow_Inv == ASSUME IngestInv, NEW r \in Runs, NEW p \in Paths, DropRow(r, p) PROVE IngestInv'
<1> DEFINE next == [run[r] EXCEPT !.todo = run[r].todo \ {p}, !.at = "purge", !.path = p]
<1>1. /\ run[r].at = "gc" /\ p \in run[r].todo /\ run' = [run EXCEPT ![r] = next]
      /\ tracked' = [tracked EXCEPT ![p] = NoText]
      /\ UNCHANGED <<disk, found, changed, flag, changes, overlapped, amiss>>
  BY DEF DropRow
<1>2. run[r] \in RunOf
  BY IngestTypes
<1>3. /\ next \in RunOf /\ next.at = "purge" /\ next.path = p /\ next.todo = run[r].todo \ {p}
      /\ next.seen = run[r].seen
  BY <1>2 DEF RunOf
<1> HIDE DEF next
<1>4. run'[r] = next /\ \A o \in Runs \ {r} : run'[o] = run[o]
  BY <1>1, IngestTypes
<1>5. /\ tracked' \in [Paths -> (Texts \ {Unreadable}) \cup {NoText}] /\ tracked'[p] = NoText
      /\ \A q \in Paths \ {p} : tracked'[q] = tracked[q]
  BY <1>1, IngestTypes
<1>6. ASSUME ~ overlapped
      PROVE  RunHolds(r)' /\ \A q \in Paths \ amiss' : PathHolds(q)'
  <2>1. RunHolds(r) /\ \A q \in Paths \ amiss : PathHolds(q)
    BY <1>6 DEF IngestInv
  <2>2. ASSUME NEW q \in Paths \ amiss' PROVE PathHolds(q)'
    <3>1. CASE q = p
      BY <1>3, <1>4, <1>5, <3>1 DEF PathHolds
    <3>2. CASE q # p
      <4>1. \A o \in Runs : run[o].at \in {"mark", "purge"} => run'[o] = run[o]
        BY <1>1, <1>4
      <4> QED
        BY <1>1, <1>5, <2>1, <3>2, <4>1 DEF PathHolds, Of
    <3> QED
      BY <3>1, <3>2
  <2>3. RunHolds(r)'
    BY <1>1, <1>3, <1>4, <1>5, <2>1 DEF RunHolds, Of
  <2> QED
    BY <2>2, <2>3
<1>7. flag' \in BOOLEAN
  BY <1>1 DEF IngestInv, IngestTyped, IngestTypeOK
<1>8. p \notin run[r].seen /\ next.todo \cap next.seen = {}
  BY <1>1, <1>3, IngestTypes
<1> QED
  BY <1>1, <1>3, <1>5, <1>6, <1>7, <1>8, IngestTypes, RunSteps

LEMMA DropPoints_Inv == ASSUME IngestInv, NEW r \in Runs, DropPoints(r) PROVE IngestInv'
<1> DEFINE next == [run[r] EXCEPT !.at = "gc"]
<1>0. PICK p \in Paths : p = run[r].path
  BY IngestTypes DEF DropPoints
<1>1. /\ run[r].at = "purge" /\ run' = [run EXCEPT ![r] = next]
      /\ UNCHANGED <<disk, tracked, changed, flag, overlapped>>
      /\ \/ found' = found \ Of(p) /\ UNCHANGED <<changes, amiss>>
         \/ changes < MaxChanges /\ changes' = changes + 1 /\ amiss' = amiss \cup {p} /\ found' = found
  BY <1>0, IngestTypes DEF DropPoints, Changes
<1>2. run[r] \in RunOf /\ p \in Paths \ run[r].seen
  BY <1>0, <1>1, IngestTypes
<1>3. next \in RunOf /\ next.at = "gc" /\ next.todo = run[r].todo /\ next.seen = run[r].seen
  BY <1>2 DEF RunOf
<1> HIDE DEF next
<1>4. run'[r] = next /\ \A o \in Runs \ {r} : run'[o] = run[o]
  BY <1>1, IngestTypes
<1>5. changes' \in 0..MaxChanges
  BY <1>1, IngestTypes
<1>6. /\ amiss \subseteq amiss' /\ amiss' \subseteq Paths /\ found' \subseteq found
      /\ p \in amiss' \/ Of(p)' = {}
      /\ \A q \in Paths \ {p} : Of(q)' = Of(q)
  BY <1>1, <1>2, IngestTypes DEF Of
<1>7. ASSUME ~ overlapped
      PROVE  RunHolds(r)' /\ \A q \in Paths \ amiss' : PathHolds(q)'
  <2>1. RunHolds(r) /\ \A q \in Paths \ amiss : PathHolds(q)
    BY <1>7 DEF IngestInv
  <2>2. tracked[p] = NoText
    BY <1>0, <1>1, <2>1 DEF RunHolds
  <2>3. ASSUME NEW q \in Paths \ amiss' PROVE PathHolds(q)'
    <3>1. CASE q = p
      BY <1>1, <1>6, <2>2, <3>1 DEF PathHolds
    <3>2. CASE q # p
      <4>1. PathHolds(q) /\ \A o \in Runs : run[o].path = q => run'[o] = run[o]
        BY <1>0, <1>4, <1>6, <2>1, <3>2
      <4>2. <<q, tracked[q]>> \in found => <<q, tracked[q]>> \in found'
        BY <1>6, <3>2 DEF Of
      <4> QED
        BY <1>1, <1>6, <3>2, <4>1, <4>2 DEF PathHolds
    <3> QED
      BY <3>1, <3>2
  <2>4. ASSUME NEW q \in Paths \ run[r].seen, q \notin run[r].todo
        PROVE  tracked[q] = NoText /\ (q \in amiss' \/ Of(q)' = {})
    <3>1. CASE q = p
      BY <1>6, <2>2, <3>1
    <3>2. CASE q # p
      BY <1>0, <1>1, <1>6, <2>1, <2>4, <3>2 DEF RunHolds
    <3> QED
      BY <3>1, <3>2
  <2>5. RunHolds(r)'
    BY <1>1, <1>3, <1>4, <2>4 DEF RunHolds
  <2> QED
    BY <2>3, <2>5
<1>8. flag' \in BOOLEAN /\ next.todo \cap next.seen = {}
  BY <1>1, <1>3, IngestTypes DEF IngestInv, IngestTyped, IngestTypeOK
<1>9. found' \subseteq Paths \X (Texts \ {Unreadable})
  BY <1>6, IngestTypes
<1> QED
  BY <1>1, <1>3, <1>5, <1>6, <1>7, <1>8, <1>9, IngestTypes, RunSteps

\* So every step keeps it.
LEMMA IngestNext_Inv == ASSUME IngestInv, [IngestNext]_ingestVars PROVE IngestInv'
<1>1. CASE UNCHANGED ingestVars \/ (\E p \in Paths, t \in Texts \cup {NoText} : Change(p, t))
  BY <1>1, IngestWorld_Inv
<1>2. CASE CrashIngest
  BY <1>2, CrashIngest_Inv
<1>3. CASE Scan \/ \E r \in Posts : PostIngest(r) \/ PostSync(r)
  BY <1>3, Starts_Inv
<1>4. ASSUME NEW r \in Runs,
             \/ Walk(r) \/ UpsertPoints(r) \/ MarkIngested(r) \/ Collect(r)
             \/ (\E p \in Paths : DropRow(r, p)) \/ DropPoints(r) \/ UpsertFails(r)
      PROVE  IngestInv'
  BY <1>4, Walk_Inv, UpsertPoints_Inv, MarkIngested_Inv, Collect_Inv, DropRow_Inv, DropPoints_Inv,
     UpsertFails_Inv
<1>5. ASSUME NEW r \in Runs, FinishRun(r) PROVE IngestInv'
  BY <1>5, RunEnds, IngestTypes DEF FinishRun
<1> QED
  BY <1>1, <1>2, <1>3, <1>4, <1>5 DEF IngestNext, IngestProgress

\* And it implies what is promised.
LEMMA IngestInv_Safe == ASSUME IngestInv PROVE IngestSafe
  BY DEF IngestInv, IngestTyped, IngestSafe, TrackedIsFound, PathHolds

\* An ingestion at its end is through with the paths it has not seen.
LEMMA IngestInv_Gone ==
  ASSUME IngestInv, NEW r \in Runs, run[r].at = "gc", run[r].todo = {}, ~ overlapped,
         NEW p \in Paths \ run[r].seen
  PROVE  tracked[p] = NoText /\ (p \in amiss \/ Of(p) = {})
  BY DEF IngestInv, RunHolds

-----------------------------------------------------------------------------
(* The mailbox (Mailbox)                                                   *)

ReaderOf ==
  [at : {"away", "search", "fetch", "events", "upsert"}, kind : {"sync", "digest"},
   todo : SUBSET Mails, flagged : SUBSET Mails, found : SUBSET Mails, count : Nat,
   status : {"ok", "error"}, events : [Uids -> 0..MaxVersion], fetched : [Uids -> 0..MaxVersion],
   alone : BOOLEAN]

MailTyped ==
  /\ MailboxTypeOK
  /\ folder \in [came : SUBSET Mails, unseen : SUBSET Mails, flagged : SUBSET Mails]
  /\ reader \in [Readers -> ReaderOf]
  /\ known \in [Uids -> 0..MaxVersion]

\* What a reader has in hand was taken, and goes with where it is.
HandOf(r) ==
  LET k == reader[r] IN
  /\ k.at \in {"away", "search"} => k.found = {}
  /\ k.at # "fetch" => k.todo = {}
  /\ k.at # "upsert" => k.count = 0 /\ \A u \in Uids : k.events[u] = 0
  /\ k.found \subseteq taken
  /\ k.count + Cardinality(k.found) <= Cardinality(Mails)

\* A mail that no two readers wanted, and that nobody marked as unread, is with
\* one reader, and is taken once.
TakenOnce(m) ==
  /\ \A r, s \in Readers : m \in reader[r].todo /\ m \in reader[s].todo => r = s
  /\ m \in taken => m \notin folder.unseen /\ \A r \in Readers : m \notin reader[r].todo
  /\ \A r, s \in Readers : m \in reader[r].found /\ m \in reader[s].found => r = s
  /\ m \in inbox \cup told => \A r \in Readers : m \notin reader[r].found
  /\ ~ (m \in inbox /\ m \in told)

\* The events in hand are no older than what is known, and those of a reader that
\* is alone are stored, or in its hands.
EventsOf(r) ==
  LET k == reader[r] IN
  /\ \A u \in Uids : k.events[u] # 0 => known[u] <= k.events[u]
  /\ k.alone /\ k.at # "away" => \A o \in Readers \ {r} : reader[o].at = "away"
  /\ k.alone /\ k.at = "upsert" => \A u \in Uids :
       k.fetched[u] <= calendar[u] /\ (k.events[u] = k.fetched[u] \/ (k.events[u] = 0 /\ entries[u] = k.fetched[u]))

MailInv ==
  /\ MailTyped
  /\ \A r \in Readers : HandOf(r) /\ EventsOf(r)
  /\ \A m \in Mails \ again : TakenOnce(m)
  /\ TakenIsAccounted
  /\ \A u \in Uids : known[u] <= entries[u] /\ known[u] <= calendar[u]

-----------------------------------------------------------------------------

\* Min of a set of numbers is in it.
LEMMA MinOfMails ==
  ASSUME NEW S \in SUBSET Nat, S # {}
  PROVE  Min(S) \in S
<1>1. (CHOOSE q \in S : \A o \in S : q <= o) \in S
  BY LeastIsIn
<1> QED
  BY <1>1 DEF Min

\* A reader that is away is typed and holds nothing.
LEMMA AwayIsTyped ==
  /\ Away \in ReaderOf /\ Away.at = "away" /\ Away.todo = {} /\ Away.found = {} /\ Away.count = 0
  /\ \A u \in Uids : Away.events[u] = 0
  BY MailboxAssumption DEF Away, ReaderOf

\* It holds at the start, and each action of the module keeps it.
LEMMA MailInit_Inv == ASSUME MailboxInit PROVE MailInv
<1>1. /\ folder = [came |-> {}, unseen |-> {}, flagged |-> {}] /\ reader = [r \in Readers |-> Away]
      /\ calendar = [u \in Uids |-> 1] /\ entries = [u \in Uids |-> 0] /\ known = [u \in Uids |-> 0]
      /\ inbox = {} /\ told = {} /\ syncRow = [count |-> 0, status |-> "none"] /\ taken = {}
  BY DEF MailboxInit
<1>2. IsFiniteSet(Mails) /\ Cardinality(Mails) \in Nat
  BY MailboxAssumption, FS_CardinalityType
<1>3. MailTyped
  <2>1. MailboxTypeOK
    BY <1>1, <1>2, AwayIsTyped, MailboxAssumption DEF MailboxTypeOK, Wanted
  <2>2. known \in [Uids -> 0..MaxVersion] /\ reader \in [Readers -> ReaderOf]
    BY <1>1, AwayIsTyped, MailboxAssumption
  <2> QED
    BY <1>1, <2>1, <2>2 DEF MailTyped
<1>4. \A r \in Readers : HandOf(r)
  <2>1. Cardinality({}) = 0
    BY FS_EmptySet
  <2> SUFFICES ASSUME NEW r \in Readers PROVE HandOf(r)
    OBVIOUS
  <2>2. reader[r].at = "away" /\ reader[r].todo = {} /\ reader[r].found = {} /\ reader[r].count = 0
    BY <1>1, AwayIsTyped
  <2>3. \A u \in Uids : reader[r].events[u] = 0
    BY <1>1, AwayIsTyped
  <2>4. reader[r].count + Cardinality(reader[r].found) <= Cardinality(Mails)
    BY <1>2, <2>1, <2>2
  <2> QED
    BY <2>2, <2>3, <2>4 DEF HandOf
<1>5. \A r \in Readers : EventsOf(r)
  BY <1>1, AwayIsTyped DEF EventsOf
<1>6. \A m \in Mails : TakenOnce(m)
  BY <1>1, AwayIsTyped DEF TakenOnce
<1>7. TakenIsAccounted /\ \A u \in Uids : known[u] <= entries[u] /\ known[u] <= calendar[u]
  BY <1>1 DEF TakenIsAccounted
<1> QED
  BY <1>3, <1>4, <1>5, <1>6, <1>7 DEF MailInv

\* What the typing says of one reader.
LEMMA ReaderTyped ==
  ASSUME MailTyped, NEW r \in Readers
  PROVE  /\ reader[r] \in ReaderOf
         /\ reader[r].todo \subseteq folder.came /\ reader[r].found \subseteq folder.came
         /\ folder.came \subseteq Mails /\ IsFiniteSet(reader[r].found)
         /\ Cardinality(reader[r].found) \in Nat /\ reader[r].count \in Nat
         /\ Cardinality(Mails) \in Nat
<1>1. reader[r] \in ReaderOf /\ folder.came \subseteq Mails
  BY DEF MailTyped, MailboxTypeOK
<1>2. reader[r].todo \subseteq folder.came /\ reader[r].found \subseteq folder.came
  BY DEF MailTyped, MailboxTypeOK, Wanted
<1>3. IsFiniteSet(reader[r].found) /\ IsFiniteSet(Mails)
  BY <1>1, <1>2, MailboxAssumption, FS_Subset
<1> QED
  BY <1>1, <1>2, <1>3, FS_CardinalityType DEF ReaderOf

\* Mails come, are read or flagged by the user, events change; no reader does.
LEMMA WorldGoesOn ==
  ASSUME MailInv, UNCHANGED <<reader, inbox, entries, syncRow, told, taken, dropped, passed, known>>,
         folder' \in [came : SUBSET Mails, unseen : SUBSET Mails, flagged : SUBSET Mails],
         folder.came \subseteq folder'.came, folder'.unseen \cup folder'.flagged \subseteq folder'.came,
         again \subseteq again', folder'.unseen \cap taken \subseteq folder.unseen \cup again',
         calendar' \in [Uids -> 1..MaxVersion], \A u \in Uids : calendar[u] <= calendar'[u]
  PROVE  MailInv'
<1>1. MailTyped'
  BY DEF MailInv, MailTyped, MailboxTypeOK, Wanted
<1>2. \A u \in Uids : calendar[u] \in Nat /\ calendar'[u] \in Nat /\ known[u] \in Nat
  BY MailboxAssumption DEF MailInv, MailTyped, MailboxTypeOK
<1>3. ASSUME NEW r \in Readers PROVE HandOf(r)' /\ EventsOf(r)'
  <2>1. HandOf(r)'
    BY DEF MailInv, HandOf
  <2>2. reader[r] \in ReaderOf /\ EventsOf(r)
    BY DEF MailInv, MailTyped
  <2>3. \A u \in Uids : reader[r].fetched[u] \in Nat
    BY <2>2, MailboxAssumption DEF ReaderOf
  <2>4. EventsOf(r)'
    BY <1>2, <2>2, <2>3 DEF EventsOf
  <2> QED
    BY <2>1, <2>4
<1>4. \A m \in Mails \ again' : TakenOnce(m)'
  BY DEF MailInv, TakenOnce
<1>5. TakenIsAccounted' /\ \A u \in Uids : known'[u] <= entries'[u] /\ known'[u] <= calendar'[u]
  BY <1>2 DEF MailInv, TakenIsAccounted
<1> QED
  BY <1>1, <1>3, <1>4, <1>5 DEF MailInv

LEMMA MailWorld_Inv ==
  ASSUME MailInv, MailComes \/ UserMarks \/ EventChanges \/ UNCHANGED mailVars
  PROVE  MailInv'
<1>1. /\ MailTyped
      /\ folder \in [came : SUBSET Mails, unseen : SUBSET Mails, flagged : SUBSET Mails]
      /\ folder.unseen \cup folder.flagged \subseteq folder.came /\ taken \subseteq folder.came
      /\ calendar \in [Uids -> 1..MaxVersion] /\ \A u \in Uids : calendar[u] \in Nat
  BY MailboxAssumption DEF MailInv, MailTyped, MailboxTypeOK
<1>2. CASE MailComes
  <2> DEFINE m == Min(Mails \ folder.came)
  <2>1. m \in Mails \ folder.came
    BY <1>1, <1>2, MinOfMails, MailboxAssumption DEF MailComes
  <2>2. folder' = [folder EXCEPT !.came = folder.came \cup {m}, !.unseen = folder.unseen \cup {m}]
    BY <1>2 DEF MailComes
  <2> HIDE DEF m
  <2>3. /\ folder' \in [came : SUBSET Mails, unseen : SUBSET Mails, flagged : SUBSET Mails]
        /\ folder'.came = folder.came \cup {m} /\ folder'.unseen = folder.unseen \cup {m}
        /\ folder'.flagged = folder.flagged
    BY <1>1, <2>1, <2>2
  <2>4. m \in Mails /\ m \notin taken
    BY <1>1, <2>1
  <2>5. /\ folder'.unseen \cup folder'.flagged \subseteq folder'.came
        /\ folder.came \subseteq folder'.came
        /\ folder'.unseen \cap taken \subseteq folder.unseen \cup again
    BY <1>1, <2>3, <2>4
  <2>6. /\ UNCHANGED <<reader, inbox, entries, syncRow, told, taken, dropped, passed, known>>
        /\ UNCHANGED <<calendar, again>>
    BY <1>2 DEF MailComes, History
  <2> QED
    BY <1>1, <2>3, <2>5, <2>6, WorldGoesOn
<1>3. CASE UserMarks
  <2>1. PICK m \in folder.came :
          \/ folder' = [folder EXCEPT !.flagged = folder.flagged \cup {m}] /\ UNCHANGED again
          \/ folder' = [folder EXCEPT !.unseen = folder.unseen \ {m}] /\ UNCHANGED again
          \/ folder' = [folder EXCEPT !.unseen = folder.unseen \cup {m}] /\ again' = again \cup {m}
    BY <1>3 DEF UserMarks
  <2>2. /\ folder' \in [came : SUBSET Mails, unseen : SUBSET Mails, flagged : SUBSET Mails]
        /\ folder'.came = folder.came /\ again \subseteq again'
        /\ folder'.unseen \subseteq folder.unseen \cup again'
        /\ folder'.unseen \cup folder'.flagged \subseteq folder.unseen \cup folder.flagged \cup {m}
    BY <1>1, <2>1
  <2>3. folder'.unseen \cup folder'.flagged \subseteq folder'.came
    BY <1>1, <2>2
  <2> QED
    BY <1>1, <1>3, <2>2, <2>3, WorldGoesOn DEF UserMarks
<1>4. CASE EventChanges
  <2>1. PICK u \in Uids : calendar[u] < MaxVersion /\ calendar' = [calendar EXCEPT ![u] = calendar[u] + 1]
    BY <1>4 DEF EventChanges
  <2>2. calendar' \in [Uids -> 1..MaxVersion] /\ \A v \in Uids : calendar[v] <= calendar'[v]
    BY <1>1, <2>1, MailboxAssumption
  <2> QED
    BY <1>1, <1>4, <2>2, WorldGoesOn DEF EventChanges, History
<1>5. CASE UNCHANGED mailVars
  BY <1>1, <1>5, WorldGoesOn DEF mailVars
<1> QED
  BY <1>2, <1>3, <1>4, <1>5

LEMMA StartRead_Inv == ASSUME MailInv, NEW r \in Readers, StartRead(r) PROVE MailInv'
<1>1. PICK kind \in {"sync", "digest"} :
        reader' = [o \in Readers |->
          IF o = r THEN [Away EXCEPT !.at = "search", !.kind = kind, !.alone = (Reading = {})]
          ELSE [reader[o] EXCEPT !.alone = FALSE]]
  BY DEF StartRead
<1> DEFINE next == [Away EXCEPT !.at = "search", !.kind = kind, !.alone = (Reading = {})]
           left(o) == [reader[o] EXCEPT !.alone = FALSE]
<1>2. /\ MailTyped /\ reader[r].at = "away"
      /\ reader' = [o \in Readers |-> IF o = r THEN next ELSE left(o)]
      /\ UNCHANGED <<folder, calendar, inbox, entries, syncRow, told, taken, dropped, passed, again, known>>
  BY <1>1 DEF StartRead, MailInv, History
<1>3. /\ next \in ReaderOf /\ next.at = "search" /\ next.todo = {} /\ next.found = {}
      /\ next.count = 0
      /\ \A u \in Uids : next.events[u] = 0
      /\ next.alone => Reading = {}
  <2> DEFINE single == Reading = {}
  <2>1. single \in BOOLEAN /\ next = [Away EXCEPT !.at = "search", !.kind = kind, !.alone = single]
    OBVIOUS
  <2> HIDE DEF single, next
  <2>2. /\ next \in ReaderOf /\ next.at = "search" /\ next.todo = Away.todo
        /\ next.found = Away.found
        /\ next.count = Away.count /\ next.events = Away.events /\ next.alone = single
    BY <2>1, AwayIsTyped DEF ReaderOf
  <2> QED
    BY <2>2, AwayIsTyped DEF single
<1>4. ASSUME NEW o \in Readers
      PROVE  /\ left(o) \in ReaderOf /\ ~ left(o).alone
             /\ left(o).at = reader[o].at /\ left(o).todo = reader[o].todo
             /\ left(o).found = reader[o].found
             /\ left(o).count = reader[o].count /\ left(o).events = reader[o].events
  <2>1. reader[o] \in ReaderOf
    BY <1>2, ReaderTyped
  <2> QED
    BY <2>1 DEF ReaderOf
<1> HIDE DEF next, left
<1>5. reader[r].todo = {} /\ reader[r].found = {}
  BY <1>2 DEF MailInv, HandOf
<1>6. ASSUME NEW o \in Readers
      PROVE  /\ reader'[o] \in ReaderOf
             /\ reader'[o].todo = reader[o].todo /\ reader'[o].found = reader[o].found
             /\ reader'[o].at \in {"away", "search", "fetch", "events", "upsert"}
  <2>1. CASE o = r
    BY <1>2, <1>3, <1>5, <2>1
  <2>2. CASE o # r
    BY <1>2, <1>4, <2>2, ReaderTyped DEF ReaderOf
  <2> QED
    BY <2>1, <2>2
<1>7. MailTyped'
  <2>1. reader' \in [Readers -> ReaderOf]
    BY <1>2, <1>3, <1>4
  <2> QED
    BY <1>2, <1>6, <2>1 DEF MailTyped, MailboxTypeOK, Wanted
<1>8. ASSUME NEW o \in Readers PROVE HandOf(o)' /\ EventsOf(o)'
  <2>1. CASE o = r
    <3>1. reader'[o] = next
      BY <1>2, <2>1
    <3>2. Cardinality(next.found) = 0 /\ Cardinality(Mails) \in Nat
      BY <1>2, <1>3, FS_EmptySet, ReaderTyped
    <3>3. HandOf(o)'
      BY <1>2, <1>3, <3>1, <3>2 DEF HandOf
    <3>4. next.alone => \A t \in Readers \ {r} : reader'[t].at = "away"
      BY <1>2, <1>3, <1>4 DEF Reading
    <3>5. EventsOf(o)'
      BY <1>2, <1>3, <2>1, <3>1, <3>4 DEF EventsOf
    <3> QED
      BY <3>3, <3>5
  <2>2. CASE o # r
    <3>1. reader'[o] = left(o) /\ HandOf(o) /\ EventsOf(o)
      BY <1>2, <2>2 DEF MailInv
    <3> QED
      BY <1>2, <1>4, <3>1 DEF HandOf, EventsOf
  <2> QED
    BY <2>1, <2>2
<1>9. \A m \in Mails \ again : TakenOnce(m)'
  BY <1>2, <1>6 DEF MailInv, TakenOnce
<1>10. TakenIsAccounted'
  BY <1>2, <1>6 DEF MailInv, TakenIsAccounted
<1> QED
  BY <1>2, <1>7, <1>8, <1>9, <1>10 DEF MailInv

\* The reader that goes on is not alone for another one that is under way.
LEMMA OthersRead ==
  ASSUME MailInv, NEW r \in Readers, reader[r].at # "away", known' = known, taken \subseteq taken',
         NEW o \in Readers \ {r}, reader'[o] = reader[o]
  PROVE  HandOf(o)' /\ EventsOf(o)'
<1>1. HandOf(o) /\ EventsOf(o)
  BY DEF MailInv
<1>2. HandOf(o)'
  BY <1>1 DEF HandOf
<1>3. ~ (reader[o].alone /\ reader[o].at # "away")
  BY <1>1 DEF EventsOf
<1> QED
  BY <1>1, <1>2, <1>3 DEF EventsOf

\* A reader steps without taking or storing a mail.
LEMMA ReaderGoesOn ==
  ASSUME MailInv, NEW r \in Readers, NEW next \in ReaderOf, reader[r].at # "away",
         reader' = [reader EXCEPT ![r] = next],
         next.todo \cup next.found \subseteq folder.came,
         UNCHANGED <<folder, calendar, inbox, told, taken, dropped, passed>>,
         again \subseteq again', HandOf(r)', EventsOf(r)',
         next.found = reader[r].found,
         \A m \in next.todo \ again' :
            m \in reader[r].todo \/ (m \in folder.unseen /\ \A o \in Readers \ {r} : m \notin reader[o].todo),
         entries' \in [Uids -> 0..MaxVersion],
         \A u \in Uids : known[u] <= entries'[u],
         UNCHANGED <<syncRow, known>>
  PROVE  MailInv'
<1>1. MailTyped /\ \A o \in Readers : reader'[o] = IF o = r THEN next ELSE reader[o]
  BY DEF MailInv, MailTyped
<1>2. next.at \in {"away", "search", "fetch", "events", "upsert"}
  BY DEF ReaderOf
<1>3. MailTyped'
  <2>1. reader' \in [Readers -> ReaderOf]
    BY <1>1 DEF MailTyped
  <2>2. \A o \in Readers : /\ reader'[o].at \in {"away", "search", "fetch", "events", "upsert", "log"}
                           /\ reader'[o].todo \cup reader'[o].found \subseteq folder.came
    BY <1>1, <1>2, ReaderTyped DEF MailTyped, MailboxTypeOK
  <2> QED
    BY <1>1, <2>1, <2>2 DEF MailTyped, MailboxTypeOK, Wanted
<1>4. \A o \in Readers : HandOf(o)' /\ EventsOf(o)'
  BY <1>1, OthersRead
<1>5. ASSUME NEW m \in Mails \ again' PROVE TakenOnce(m)'
  <2>1. TakenOnce(m)
    BY DEF MailInv
  <2>2. m \in next.todo => m \in reader[r].todo \/ (m \in folder.unseen /\ \A o \in Readers \ {r} : m \notin reader[o].todo)
    OBVIOUS
  <2> QED
    BY <1>1, <2>1, <2>2 DEF TakenOnce
<1>6. TakenIsAccounted'
  BY <1>1 DEF MailInv, TakenIsAccounted
<1> QED
  BY <1>3, <1>4, <1>5, <1>6 DEF MailInv

LEMMA SearchUnseen_Inv == ASSUME MailInv, NEW r \in Readers, SearchUnseen(r) PROVE MailInv'
<1>1. PICK flagged \in SUBSET Mails :
        reader' = [reader EXCEPT ![r] = [reader[r] EXCEPT !.at = "fetch", !.todo = Search, !.flagged = flagged]]
  <2>1. folder.flagged \in SUBSET Mails /\ reader[r] \in ReaderOf
    BY ReaderTyped DEF MailInv, MailTyped
  <2>2. CASE reader' = [reader EXCEPT ![r] = [reader[r] EXCEPT !.at = "fetch", !.todo = Search, !.flagged = folder.flagged]]
    BY <2>1, <2>2
  <2>3. CASE reader' = [reader EXCEPT ![r] = [reader[r] EXCEPT !.at = "fetch", !.todo = Search]]
    <3>1. [reader[r] EXCEPT !.at = "fetch", !.todo = Search]
            = [reader[r] EXCEPT !.at = "fetch", !.todo = Search, !.flagged = reader[r].flagged]
      BY <2>1 DEF ReaderOf
    <3>2. reader[r].flagged \in SUBSET Mails
      BY <2>1 DEF ReaderOf
    <3> QED
      BY <2>3, <3>1, <3>2
  <2> QED
    BY <2>2, <2>3 DEF SearchUnseen
<1> DEFINE next == [reader[r] EXCEPT !.at = "fetch", !.todo = Search, !.flagged = flagged]
<1>2. /\ reader[r].at = "search" /\ MailTyped /\ reader[r] \in ReaderOf /\ HandOf(r) /\ EventsOf(r)
      /\ again' = again \cup (Search \cap UNION {Wanted(o) : o \in Readers \ {r}})
      /\ UNCHANGED <<folder, calendar, inbox, entries, syncRow, told, taken, dropped, passed, known>>
  BY ReaderTyped DEF SearchUnseen, MailInv
<1>3. /\ Search \subseteq folder.unseen /\ folder.unseen \subseteq folder.came
      /\ folder.came \subseteq Mails
  BY <1>2 DEF Search, NewestOf, MailTyped, MailboxTypeOK
<1>4. /\ next \in ReaderOf /\ next.at = "fetch" /\ next.todo = Search
      /\ next.found = reader[r].found
      /\ next.count = reader[r].count /\ next.events = reader[r].events
      /\ next.alone = reader[r].alone
  BY <1>2, <1>3 DEF ReaderOf
<1> HIDE DEF next
<1>5. reader' = [reader EXCEPT ![r] = next] /\ reader'[r] = next
      /\ \A o \in Readers \ {r} : reader'[o] = reader[o]
  BY <1>1, <1>2 DEF next, MailTyped
<1>6. HandOf(r)' /\ EventsOf(r)'
  <2>1. HandOf(r)'
    BY <1>2, <1>4, <1>5 DEF HandOf
  <2>2. EventsOf(r)'
    BY <1>2, <1>4, <1>5 DEF EventsOf
  <2> QED
    BY <2>1, <2>2
<1>7. \A m \in next.todo \ again' : m \in folder.unseen /\ \A o \in Readers \ {r} : m \notin reader[o].todo
  BY <1>2, <1>3, <1>4 DEF Wanted
<1>8. next.todo \cup next.found \subseteq folder.came
  BY <1>2, <1>3, <1>4, ReaderTyped
<1>9. entries' \in [Uids -> 0..MaxVersion] /\ \A u \in Uids : known[u] <= entries'[u]
  BY <1>2 DEF MailInv, MailTyped, MailboxTypeOK
<1> QED
  BY <1>2, <1>4, <1>5, <1>6, <1>7, <1>8, <1>9, ReaderGoesOn

LEMMA SearchRaises_Inv == ASSUME MailInv, NEW r \in Readers, SearchRaises(r) PROVE MailInv'
<1> DEFINE erred == [reader[r] EXCEPT !.at = "events", !.status = "error"]
           next == IF reader[r].kind = "digest" THEN Away ELSE erred
<1>1. /\ reader[r].at = "search" /\ MailTyped /\ reader[r] \in ReaderOf /\ HandOf(r) /\ EventsOf(r)
      /\ reader' = [reader EXCEPT ![r] = next]
      /\ UNCHANGED <<folder, calendar, inbox, entries, syncRow, told, taken, dropped, passed, again, known>>
  BY ReaderTyped DEF SearchRaises, MailInv, History
<1>2. /\ erred \in ReaderOf /\ erred.at = "events" /\ erred.todo = reader[r].todo
      /\ erred.found = reader[r].found
      /\ erred.count = reader[r].count /\ erred.events = reader[r].events
      /\ erred.alone = reader[r].alone
  BY <1>1 DEF ReaderOf
<1> HIDE DEF erred
<1>3. /\ reader[r].found = {} /\ reader[r].todo = {} /\ reader[r].count = 0
      /\ \A u \in Uids : reader[r].events[u] = 0
  BY <1>1 DEF HandOf
<1>4. /\ next \in ReaderOf /\ next.at \in {"away", "events"} /\ next.todo = {}
      /\ next.found = {} /\ next.count = 0
      /\ \A u \in Uids : next.events[u] = 0
      /\ next.at # "away" => next.alone = reader[r].alone
  BY <1>2, <1>3, AwayIsTyped
<1> HIDE DEF next
<1>5. reader'[r] = next /\ \A o \in Readers \ {r} : reader'[o] = reader[o]
  BY <1>1 DEF MailTyped
<1>6. HandOf(r)' /\ EventsOf(r)'
  <2>1. HandOf(r)'
    BY <1>1, <1>3, <1>4, <1>5 DEF HandOf
  <2>2. EventsOf(r)'
    BY <1>1, <1>4, <1>5 DEF EventsOf
  <2> QED
    BY <2>1, <2>2
<1>7. entries' \in [Uids -> 0..MaxVersion] /\ \A u \in Uids : known[u] <= entries'[u]
  BY <1>1 DEF MailInv, MailTyped, MailboxTypeOK
<1> QED
  BY <1>1, <1>3, <1>4, <1>6, <1>7, ReaderGoesOn

LEMMA FetchEvents_Inv == ASSUME MailInv, NEW r \in Readers, FetchEvents(r) PROVE MailInv'
<1> DEFINE read == [reader[r] EXCEPT !.at = "upsert", !.events = calendar, !.fetched = calendar]
           raised == [reader[r] EXCEPT !.at = "upsert", !.alone = FALSE]
<1>1. /\ reader[r].at = "events" /\ MailTyped /\ reader[r] \in ReaderOf /\ HandOf(r) /\ EventsOf(r)
      /\ reader' = [reader EXCEPT ![r] = read] \/ reader' = [reader EXCEPT ![r] = raised]
      /\ UNCHANGED <<folder, calendar, inbox, entries, syncRow, told, taken, dropped, passed, again, known>>
  BY ReaderTyped DEF FetchEvents, MailInv, History
<1>2. /\ calendar \in [Uids -> 0..MaxVersion] /\ entries \in [Uids -> 0..MaxVersion]
      /\ \A u \in Uids : known[u] <= calendar[u] /\ known[u] <= entries[u] /\ calendar[u] \in Nat
  BY <1>1, MailboxAssumption DEF MailInv, MailTyped, MailboxTypeOK
<1>3. /\ read \in ReaderOf /\ read.at = "upsert" /\ read.todo = reader[r].todo
      /\ read.found = reader[r].found
      /\ read.count = reader[r].count /\ read.events = calendar /\ read.fetched = calendar
      /\ read.alone = reader[r].alone
  BY <1>1, <1>2 DEF ReaderOf
<1>4. /\ raised \in ReaderOf /\ raised.at = "upsert" /\ raised.todo = reader[r].todo
      /\ raised.found = reader[r].found
      /\ raised.count = reader[r].count /\ raised.events = reader[r].events /\ ~ raised.alone
  BY <1>1 DEF ReaderOf
<1> HIDE DEF read, raised
<1>5. PICK next \in ReaderOf : next \in {read, raised} /\ reader' = [reader EXCEPT ![r] = next]
  BY <1>1, <1>3, <1>4
<1>6. /\ next.at = "upsert" /\ next.todo = reader[r].todo /\ next.found = reader[r].found
      /\ next.count = reader[r].count /\ \A u \in Uids : next.events[u] # 0 => known[u] <= next.events[u]
      /\ next.alone => /\ reader[r].alone
                       /\ \A u \in Uids : next.fetched[u] <= calendar[u] /\ next.events[u] = next.fetched[u]
  <2>1. \A u \in Uids : reader[r].events[u] = 0
    BY <1>1 DEF HandOf
  <2> QED
    BY <1>2, <1>3, <1>4, <1>5, <2>1
<1>7. reader'[r] = next /\ \A o \in Readers \ {r} : reader'[o] = reader[o]
  BY <1>1, <1>5 DEF MailTyped
<1>8. HandOf(r)' /\ EventsOf(r)'
  <2>1. HandOf(r)'
    BY <1>1, <1>6, <1>7 DEF HandOf
  <2>2. EventsOf(r)'
    BY <1>1, <1>6, <1>7 DEF EventsOf
  <2> QED
    BY <2>1, <2>2
<1>9. next.todo \cup next.found \subseteq folder.came
  BY <1>1, <1>6, ReaderTyped
<1>10. again \subseteq again'
  BY <1>1
<1>11. \A m \in next.todo \ again' : m \in reader[r].todo
  BY <1>6
<1> QED
  BY <1>1, <1>2, <1>5, <1>6, <1>8, <1>9, <1>10, <1>11, ReaderGoesOn

LEMMA UpsertEvent_Inv == ASSUME MailInv, NEW r \in Readers, UpsertEvent(r) PROVE MailInv'
<1>1. PICK u \in Uids :
        /\ reader[r].events[u] # 0
        /\ \/ /\ entries' = [entries EXCEPT ![u] = reader[r].events[u]]
              /\ reader' = [reader EXCEPT ![r].events[u] = 0]
           \/ /\ reader' = [reader EXCEPT ![r] = [reader[r] EXCEPT !.events[u] = 0, !.alone = FALSE]]
              /\ UNCHANGED entries
  BY DEF UpsertEvent
<1>2. /\ reader[r].at = "upsert" /\ reader[r].found = {} /\ MailTyped /\ reader[r] \in ReaderOf
      /\ HandOf(r) /\ EventsOf(r)
      /\ UNCHANGED <<folder, calendar, inbox, syncRow, told, taken, dropped, passed, again, known>>
  BY ReaderTyped DEF UpsertEvent, MailInv, History
<1> DEFINE left == [reader[r].events EXCEPT ![u] = 0]
           kept == [reader[r] EXCEPT !.events = left]
           skipped == [reader[r] EXCEPT !.events = left, !.alone = FALSE]
<1>3. /\ left \in [Uids -> 0..MaxVersion] /\ left[u] = 0
      /\ \A v \in Uids \ {u} : left[v] = reader[r].events[v]
  BY <1>2, MailboxAssumption DEF ReaderOf
<1>4. /\ kept \in ReaderOf /\ kept.at = reader[r].at /\ kept.todo = reader[r].todo
      /\ kept.found = reader[r].found /\ kept.count = reader[r].count /\ kept.events = left
      /\ kept.fetched = reader[r].fetched /\ kept.alone = reader[r].alone
  BY <1>2, <1>3 DEF ReaderOf
<1>5. /\ skipped \in ReaderOf /\ skipped.at = reader[r].at /\ skipped.todo = reader[r].todo
      /\ skipped.found = reader[r].found /\ skipped.count = reader[r].count /\ skipped.events = left
      /\ ~ skipped.alone
  BY <1>2, <1>3 DEF ReaderOf
<1>6. \/ /\ reader' = [reader EXCEPT ![r] = kept]
         /\ entries' = [entries EXCEPT ![u] = reader[r].events[u]]
      \/ reader' = [reader EXCEPT ![r] = skipped] /\ entries' = entries
  <2>1. CASE /\ entries' = [entries EXCEPT ![u] = reader[r].events[u]]
             /\ reader' = [reader EXCEPT ![r].events[u] = 0]
    BY <1>2, <2>1 DEF MailTyped
  <2>2. CASE /\ reader' = [reader EXCEPT ![r] = [reader[r] EXCEPT !.events[u] = 0, !.alone = FALSE]]
             /\ UNCHANGED entries
    BY <2>2
  <2> QED
    BY <1>1, <2>1, <2>2
<1> HIDE DEF left, kept, skipped
<1>7. /\ \A v \in Uids : /\ known[v] <= entries[v] /\ known[v] \in Nat /\ entries[v] \in Nat
                         /\ reader[r].events[v] \in 0..MaxVersion /\ reader[r].fetched[v] \in Nat
                         /\ calendar[v] \in Nat
                         /\ reader[r].events[v] # 0 => known[v] <= reader[r].events[v]
      /\ entries \in [Uids -> 0..MaxVersion]
  BY <1>2, MailboxAssumption DEF MailInv, MailTyped, MailboxTypeOK, EventsOf, ReaderOf
<1>8. /\ entries' \in [Uids -> 0..MaxVersion]
      /\ \A v \in Uids : known[v] <= entries'[v]
      /\ \A v \in Uids \ {u} : entries'[v] = entries[v]
  BY <1>1, <1>6, <1>7
<1>9. PICK next \in ReaderOf :
        /\ reader' = [reader EXCEPT ![r] = next]
        /\ next.at = "upsert" /\ next.todo = reader[r].todo /\ next.found = reader[r].found
        /\ next.count = reader[r].count /\ next.events = left
        /\ next.alone => /\ reader[r].alone /\ next.fetched = reader[r].fetched
                         /\ entries'[u] = reader[r].events[u]
  <2>1. CASE reader' = [reader EXCEPT ![r] = kept] /\ entries' = [entries EXCEPT ![u] = reader[r].events[u]]
    BY <1>2, <1>4, <1>7, <2>1
  <2>2. CASE reader' = [reader EXCEPT ![r] = skipped]
    BY <1>2, <1>5, <2>2
  <2> QED
    BY <1>6, <2>1, <2>2
<1>10. reader'[r] = next /\ \A o \in Readers \ {r} : reader'[o] = reader[o]
  BY <1>2, <1>9 DEF MailTyped
<1>11. HandOf(r)' /\ EventsOf(r)'
  <2>1. HandOf(r)'
    BY <1>2, <1>9, <1>10 DEF HandOf
  <2>2. \A v \in Uids : next.events[v] # 0 => known[v] <= next.events[v]
    BY <1>3, <1>7, <1>9
  <2>3. next.alone => \A o \in Readers \ {r} : reader[o].at = "away"
    BY <1>2, <1>9 DEF EventsOf
  <2>4. ASSUME next.alone, NEW v \in Uids
        PROVE  /\ next.fetched[v] <= calendar[v]
               /\ next.events[v] = next.fetched[v] \/ (next.events[v] = 0 /\ entries'[v] = next.fetched[v])
    <3>1. /\ reader[r].fetched[v] <= calendar[v]
          /\ \/ reader[r].events[v] = reader[r].fetched[v]
             \/ reader[r].events[v] = 0 /\ entries[v] = reader[r].fetched[v]
      BY <1>2, <1>9, <2>4 DEF EventsOf
    <3>2. CASE v = u
      <4>1. reader[r].events[u] = reader[r].fetched[u]
        BY <1>1, <3>1, <3>2
      <4> QED
        BY <1>3, <1>9, <2>4, <3>1, <3>2, <4>1
    <3>3. CASE v # u
      BY <1>3, <1>8, <1>9, <2>4, <3>1, <3>3
    <3> QED
      BY <3>2, <3>3
  <2>5. EventsOf(r)'
    BY <1>2, <1>9, <1>10, <2>2, <2>3, <2>4 DEF EventsOf
  <2> QED
    BY <2>1, <2>5
<1>12. next.todo \cup next.found \subseteq folder.came /\ again \subseteq again'
  BY <1>2, <1>9, ReaderTyped
<1>13. \A m \in next.todo \ again' : m \in reader[r].todo
  BY <1>9
<1> QED
  BY <1>2, <1>8, <1>9, <1>11, <1>12, <1>13, ReaderGoesOn

\* Taking a mail: it is seen, and with this reader alone, or lost.
LEMMA FetchMail_Inv == ASSUME MailInv, NEW r \in Readers, FetchMail(r) PROVE MailInv'
<1> DEFINE m == Min(reader[r].todo)
           keep == IF Important(r, m) THEN {m} ELSE {}
           kept == [reader[r] EXCEPT !.todo = reader[r].todo \ {m}, !.found = reader[r].found \cup keep]
           lost == [reader[r] EXCEPT !.todo = reader[r].todo \ {m}]
<1>1. /\ reader[r].at = "fetch" /\ reader[r].todo # {}
      /\ folder' = [folder EXCEPT !.unseen = folder.unseen \ {m}]
      /\ taken' = taken \cup {m} /\ passed' = passed \cup ({m} \ keep)
      /\ \/ reader' = [reader EXCEPT ![r] = kept] /\ dropped' = dropped
         \/ reader' = [reader EXCEPT ![r].todo = reader[r].todo \ {m}] /\ dropped' = dropped \cup {m}
      /\ UNCHANGED <<calendar, inbox, entries, syncRow, told, again, known>>
  BY DEF FetchMail
<1>2. /\ MailTyped /\ reader[r] \in ReaderOf /\ HandOf(r) /\ EventsOf(r)
      /\ reader[r].todo \cup reader[r].found \subseteq folder.came /\ folder.came \subseteq Mails
      /\ reader[r].found \subseteq taken /\ IsFiniteSet(reader[r].found)
      /\ Cardinality(reader[r].found) \in Nat /\ Cardinality(Mails) \in Nat
  BY ReaderTyped DEF MailInv, HandOf
<1>3. m \in reader[r].todo /\ m \in Mails
  BY <1>1, <1>2, MinOfMails, MailboxAssumption
<1>4. keep \subseteq {m}
  OBVIOUS
<1> HIDE DEF m, keep
<1>5. /\ kept \in ReaderOf /\ kept.at = "fetch" /\ kept.todo = reader[r].todo \ {m}
      /\ kept.found = reader[r].found \cup keep
      /\ kept.count = reader[r].count /\ kept.events = reader[r].events
      /\ kept.alone = reader[r].alone
  BY <1>1, <1>2, <1>3, <1>4 DEF ReaderOf
<1>6. /\ lost \in ReaderOf /\ lost.at = "fetch" /\ lost.todo = reader[r].todo \ {m}
      /\ lost.found = reader[r].found
      /\ lost.count = reader[r].count /\ lost.events = reader[r].events
      /\ lost.alone = reader[r].alone
  BY <1>1, <1>2, <1>3 DEF ReaderOf
<1>7. [reader EXCEPT ![r].todo = reader[r].todo \ {m}] = [reader EXCEPT ![r] = lost]
  BY <1>2 DEF MailTyped
<1> HIDE DEF kept, lost
<1>8. PICK next \in ReaderOf :
        /\ reader' = [reader EXCEPT ![r] = next]
        /\ next.at = "fetch" /\ next.todo = reader[r].todo \ {m}
        /\ next.count = reader[r].count /\ next.events = reader[r].events
        /\ next.alone = reader[r].alone
        /\ reader[r].found \subseteq next.found /\ next.found \subseteq reader[r].found \cup {m}
        /\ m \in next.found \cup passed' \cup dropped' /\ dropped \subseteq dropped'
  <2>1. CASE reader' = [reader EXCEPT ![r] = kept] /\ dropped' = dropped
    BY <1>1, <1>4, <1>5, <2>1
  <2>2. CASE reader' = [reader EXCEPT ![r].todo = reader[r].todo \ {m}] /\ dropped' = dropped \cup {m}
    BY <1>6, <1>7, <2>2
  <2> QED
    BY <1>1, <2>1, <2>2
<1>9. reader'[r] = next /\ \A o \in Readers \ {r} : reader'[o] = reader[o]
  BY <1>2, <1>8 DEF MailTyped
<1>10. /\ folder' \in [came : SUBSET Mails, unseen : SUBSET Mails, flagged : SUBSET Mails]
       /\ folder'.came = folder.came /\ folder'.flagged = folder.flagged
       /\ folder'.unseen = folder.unseen \ {m}
  BY <1>1, <1>2 DEF MailTyped
<1>11. MailTyped'
  <2>1. reader' \in [Readers -> ReaderOf]
    BY <1>2, <1>8 DEF MailTyped
  <2>2. \A o \in Readers : /\ reader'[o].at \in {"away", "search", "fetch", "events", "upsert", "log"}
                           /\ reader'[o].todo \cup reader'[o].found \subseteq folder.came
    BY <1>2, <1>3, <1>8, <1>9 DEF MailTyped, MailboxTypeOK, Wanted
  <2>3. /\ folder.unseen \cup folder.flagged \subseteq folder.came
        /\ inbox \cup told \subseteq taken /\ taken' \subseteq folder.came
    BY <1>1, <1>2, <1>3 DEF MailTyped, MailboxTypeOK
  <2> QED
    BY <1>1, <1>2, <1>10, <2>1, <2>2, <2>3 DEF MailTyped, MailboxTypeOK, Wanted
<1>12. HandOf(r)'
  <2>1. reader[r].count = 0 /\ \A u \in Uids : reader[r].events[u] = 0
    BY <1>1, <1>2 DEF HandOf
  <2>2. next.found \subseteq Mails
    BY <1>2, <1>3, <1>8
  <2>3. Cardinality(next.found) <= Cardinality(Mails) /\ Cardinality(next.found) \in Nat
    BY <2>2, MailboxAssumption, FS_Subset, FS_CardinalityType
  <2>4. reader'[r].count + Cardinality(reader'[r].found) <= Cardinality(Mails)
    BY <1>2, <1>8, <1>9, <2>1, <2>3
  <2> QED
    BY <1>1, <1>2, <1>8, <1>9, <2>1, <2>4 DEF HandOf
<1>13. EventsOf(r)'
  BY <1>1, <1>2, <1>8, <1>9 DEF EventsOf
<1>14. \A o \in Readers : HandOf(o)' /\ EventsOf(o)'
  <2>1. taken \subseteq taken' /\ reader[r].at # "away" /\ known' = known
    BY <1>1
  <2> QED
    BY <1>9, <1>12, <1>13, <2>1, OthersRead
<1>15. ASSUME NEW n \in Mails \ again' PROVE TakenOnce(n)'
  <2>1. TakenOnce(n) /\ n \in Mails \ again
    BY <1>1 DEF MailInv
  <2>2. /\ inbox \cup told \subseteq taken /\ \A o \in Readers : reader[o].found \subseteq taken
    BY DEF MailInv, MailTyped, MailboxTypeOK, HandOf
  <2>3. CASE n = m
    <3>1. n \notin taken /\ \A o \in Readers \ {r} : n \notin reader[o].todo
      BY <1>3, <2>1, <2>3 DEF TakenOnce
    <3>2. n \notin inbox \cup told /\ \A o \in Readers : n \notin reader[o].found
      BY <2>2, <3>1
    <3>3. \A o \in Readers : n \notin reader'[o].todo
      BY <1>8, <1>9, <2>3, <3>1
    <3>4. n \notin folder'.unseen
      BY <1>10, <2>3
    <3>5. \A o \in Readers \ {r} : n \notin reader'[o].found
      BY <1>9, <3>2
    <3> QED
      BY <1>1, <3>2, <3>3, <3>4, <3>5 DEF TakenOnce
  <2>4. CASE n # m
    <3>1. \A o \in Readers : /\ n \in reader'[o].todo <=> n \in reader[o].todo
                             /\ n \in reader'[o].found <=> n \in reader[o].found
      BY <1>8, <1>9, <2>4
    <3>2. (n \in taken' <=> n \in taken) /\ (n \in folder'.unseen <=> n \in folder.unseen)
      BY <1>1, <1>10, <2>4
    <3> QED
      BY <1>1, <2>1, <3>1, <3>2 DEF TakenOnce
  <2> QED
    BY <2>3, <2>4
<1>16. TakenIsAccounted'
  <2>1. \A o \in Readers : reader[o].found \subseteq reader'[o].found
    BY <1>8, <1>9
  <2>2. ASSUME NEW n \in taken'
        PROVE  \/ n \in inbox' \cup told' \cup dropped' \cup passed' \/ \E o \in Readers : n \in reader'[o].found
    <3>1. CASE n = m
      BY <1>8, <1>9, <3>1
    <3>2. CASE n \in taken
      BY <1>1, <1>8, <2>1, <3>2 DEF MailInv, TakenIsAccounted
    <3> QED
      BY <1>1, <3>1, <3>2
  <2> QED
    BY <2>2 DEF TakenIsAccounted
<1>17. \A u \in Uids : known'[u] <= entries'[u] /\ known'[u] <= calendar'[u]
  BY <1>1 DEF MailInv
<1> QED
  BY <1>11, <1>14, <1>15, <1>16, <1>17 DEF MailInv

\* A reader gives mails away: to Qdrant, to a digest, or to nobody.
LEMMA ReaderGives ==
  ASSUME MailInv, NEW r \in Readers, NEW next \in ReaderOf, reader[r].at # "away",
         reader' = [reader EXCEPT ![r] = next],
         next.todo \subseteq reader[r].todo, next.found \subseteq reader[r].found,
         UNCHANGED <<folder, calendar, entries, taken, passed, again, known>>,
         NEW kept \in SUBSET reader[r].found, NEW named \in SUBSET reader[r].found,
         inbox' = inbox \cup kept, told' = told \cup named, kept = {} \/ named = {},
         dropped \subseteq dropped',
         (kept \cup named) \cap next.found = {},
         reader[r].found \ next.found \subseteq kept \cup named \cup dropped',
         syncRow'.count <= Cardinality(Mails), syncRow'.status \in {"none", "ok", "error"},
         HandOf(r)', EventsOf(r)'
  PROVE  MailInv'
<1>1. MailTyped /\ \A o \in Readers : reader'[o] = IF o = r THEN next ELSE reader[o]
  BY DEF MailInv, MailTyped
<1>2. next.at \in {"away", "search", "fetch", "events", "upsert"}
  BY DEF ReaderOf
<1>3. /\ reader[r].found \subseteq taken
      /\ reader[r].todo \cup reader[r].found \subseteq folder.came
      /\ folder.came \subseteq Mails
  BY <1>1, ReaderTyped DEF MailInv, HandOf
<1>4. MailTyped'
  <2>1. reader' \in [Readers -> ReaderOf]
    BY <1>1 DEF MailTyped
  <2>2. \A o \in Readers : /\ reader'[o].at \in {"away", "search", "fetch", "events", "upsert", "log"}
                           /\ reader'[o].todo \cup reader'[o].found \subseteq folder.came
    BY <1>1, <1>2, <1>3 DEF MailTyped, MailboxTypeOK, Wanted
  <2>3. inbox' \cup told' \subseteq taken
    BY <1>1, <1>3 DEF MailTyped, MailboxTypeOK
  <2> QED
    BY <1>1, <2>1, <2>2, <2>3 DEF MailTyped, MailboxTypeOK, Wanted
<1>5. \A o \in Readers : HandOf(o)' /\ EventsOf(o)'
  BY <1>1, OthersRead
<1>6. ASSUME NEW m \in Mails \ again' PROVE TakenOnce(m)'
  <2>1. TakenOnce(m)
    BY DEF MailInv
  <2>2. \A o \in Readers : /\ m \in reader'[o].todo => m \in reader[o].todo
                           /\ m \in reader'[o].found => m \in reader[o].found
    BY <1>1
  <2>3. CASE m \in kept \cup named
    <3>1. m \in reader[r].found /\ m \notin next.found
      BY <2>3
    <3>2. \A o \in Readers : m \notin reader'[o].found
      BY <1>1, <2>1, <3>1 DEF TakenOnce
    <3>3. m \notin inbox \cup told
      BY <2>1, <3>1 DEF TakenOnce
    <3>4. ~ (m \in inbox' /\ m \in told')
      BY <3>3
    <3> QED
      BY <2>1, <2>2, <3>2, <3>4 DEF TakenOnce
  <2>4. CASE m \notin kept \cup named
    BY <2>1, <2>2, <2>4 DEF TakenOnce
  <2> QED
    BY <2>3, <2>4
<1>7. TakenIsAccounted'
  <2>1. ASSUME NEW m \in taken
        PROVE  m \in inbox' \cup told' \cup dropped' \cup passed \/ \E o \in Readers : m \in reader'[o].found
    <3>1. CASE m \in reader[r].found
      BY <1>1, <3>1
    <3>2. CASE m \notin reader[r].found
      BY <1>1, <3>2 DEF MailInv, TakenIsAccounted
    <3> QED
      BY <3>1, <3>2
  <2> QED
    BY <2>1 DEF TakenIsAccounted
<1>8. \A u \in Uids : known'[u] <= entries'[u] /\ known'[u] <= calendar'[u]
  BY DEF MailInv
<1> QED
  BY <1>4, <1>5, <1>6, <1>7, <1>8 DEF MailInv

\* A reader that has left has nothing.
LEMMA LeaverHolds ==
  ASSUME MailInv, NEW r \in Readers, reader' = [reader EXCEPT ![r] = Away]
  PROVE  HandOf(r)' /\ EventsOf(r)'
<1>1. reader'[r] = Away /\ Cardinality(Mails) \in Nat /\ Cardinality({}) = 0
  BY ReaderTyped, FS_EmptySet DEF MailInv, MailTyped
<1>2. HandOf(r)'
  <2>1. reader'[r].count + Cardinality(reader'[r].found) <= Cardinality(Mails)
    BY <1>1, AwayIsTyped
  <2> QED
    BY <1>1, <2>1, AwayIsTyped DEF HandOf
<1> QED
  BY <1>1, <1>2, AwayIsTyped DEF EventsOf

LEMMA FetchEnds_Inv == ASSUME MailInv, NEW r \in Readers, FetchEnds(r) PROVE MailInv'
<1>1. /\ reader[r].at = "fetch" /\ reader[r].todo = {} /\ MailTyped /\ reader[r] \in ReaderOf
      /\ HandOf(r) /\ EventsOf(r)
      /\ UNCHANGED <<folder, calendar, inbox, entries, syncRow, taken, dropped, passed, again, known>>
  BY ReaderTyped DEF FetchEnds, MailInv, History
<1>2. syncRow.count <= Cardinality(Mails) /\ syncRow.status \in {"none", "ok", "error"}
  BY <1>1 DEF MailTyped, MailboxTypeOK
<1>3. CASE reader[r].kind = "digest"
  <2>1. told' = told \cup reader[r].found /\ reader' = [reader EXCEPT ![r] = Away]
    BY <1>3 DEF FetchEnds, ReaderLeaves
  <2>2. HandOf(r)' /\ EventsOf(r)'
    BY <2>1, LeaverHolds
  <2>3. /\ inbox' = inbox \cup {} /\ dropped \subseteq dropped'
        /\ reader[r].found \ {} \subseteq {} \cup reader[r].found
    BY <1>1
  <2>4. /\ Away.todo \subseteq reader[r].todo /\ Away.found \subseteq reader[r].found
        /\ ({} \cup reader[r].found) \cap Away.found = {}
        /\ reader[r].found \ Away.found \subseteq {} \cup reader[r].found \cup dropped'
    BY <1>1, AwayIsTyped
  <2> QED
    BY <1>1, <1>2, <2>1, <2>2, <2>3, <2>4, AwayIsTyped, ReaderGives
<1>4. CASE reader[r].kind # "digest"
  <2> DEFINE next == [reader[r] EXCEPT !.at = "events"]
  <2>1. reader' = [reader EXCEPT ![r] = next] /\ told' = told
    BY <1>1, <1>4 DEF FetchEnds, MailTyped
  <2>2. /\ next \in ReaderOf /\ next.at = "events" /\ next.todo = {} /\ next.found = reader[r].found
        /\ next.count = reader[r].count /\ next.events = reader[r].events
        /\ next.alone = reader[r].alone
    BY <1>1 DEF ReaderOf
  <2> HIDE DEF next
  <2>3. reader'[r] = next /\ \A o \in Readers \ {r} : reader'[o] = reader[o]
    BY <1>1, <2>1 DEF MailTyped
  <2>4. HandOf(r)'
    BY <1>1, <2>2, <2>3 DEF HandOf
  <2>5. EventsOf(r)'
    BY <1>1, <2>2, <2>3 DEF EventsOf
  <2>6. /\ next.todo \subseteq reader[r].todo /\ next.found \subseteq reader[r].found
        /\ inbox' = inbox \cup {} /\ told' = told \cup {} /\ ({} \cup {}) \cap next.found = {}
        /\ reader[r].found \ next.found \subseteq {} \cup {} \cup dropped'
        /\ dropped \subseteq dropped'
    BY <1>1, <2>1, <2>2
  <2> QED
    BY <1>1, <1>2, <2>1, <2>2, <2>4, <2>5, <2>6, ReaderGives
<1> QED
  BY <1>3, <1>4

LEMMA UpsertEmail_Inv == ASSUME MailInv, NEW r \in Readers, UpsertEmail(r) PROVE MailInv'
<1>1. PICK m \in reader[r].found :
        \/ /\ inbox' = inbox \cup {m} /\ dropped' = dropped
           /\ reader' = [reader EXCEPT ![r] = [reader[r] EXCEPT !.found = reader[r].found \ {m}, !.count = reader[r].count + 1]]
        \/ /\ dropped' = dropped \cup {m} /\ inbox' = inbox
           /\ reader' = [reader EXCEPT ![r].found = reader[r].found \ {m}]
  BY DEF UpsertEmail
<1>2. /\ reader[r].at = "upsert" /\ MailTyped /\ reader[r] \in ReaderOf /\ HandOf(r) /\ EventsOf(r)
      /\ UNCHANGED <<folder, calendar, entries, syncRow, told, taken, passed, again, known>>
      /\ IsFiniteSet(reader[r].found) /\ Cardinality(reader[r].found) \in Nat
      /\ Cardinality(Mails) \in Nat /\ reader[r].count \in Nat
  BY ReaderTyped DEF UpsertEmail, MailInv
<1>3. Cardinality(reader[r].found \ {m}) = Cardinality(reader[r].found) - 1
  BY <1>1, <1>2, FS_RemoveElement
<1> DEFINE moved == [reader[r] EXCEPT !.found = reader[r].found \ {m}, !.count = reader[r].count + 1]
           lost == [reader[r] EXCEPT !.found = reader[r].found \ {m}]
<1>0. reader[r].found \ {m} \in SUBSET Mails /\ reader[r].count + 1 \in Nat
  BY <1>2 DEF ReaderOf
<1>4. /\ moved \in ReaderOf /\ moved.at = "upsert" /\ moved.todo = reader[r].todo
      /\ moved.found = reader[r].found \ {m} /\ moved.count = reader[r].count + 1
      /\ moved.events = reader[r].events /\ moved.fetched = reader[r].fetched
      /\ moved.alone = reader[r].alone
  BY <1>0, <1>2 DEF ReaderOf
<1>5. /\ lost \in ReaderOf /\ lost.at = "upsert" /\ lost.todo = reader[r].todo
      /\ lost.found = reader[r].found \ {m} /\ lost.count = reader[r].count
      /\ lost.events = reader[r].events /\ lost.fetched = reader[r].fetched
      /\ lost.alone = reader[r].alone
  BY <1>0, <1>2 DEF ReaderOf
<1>6. [reader EXCEPT ![r].found = reader[r].found \ {m}] = [reader EXCEPT ![r] = lost]
  BY <1>2 DEF MailTyped
<1> HIDE DEF moved, lost
<1>7. PICK next \in ReaderOf, kept \in SUBSET {m} :
        /\ reader' = [reader EXCEPT ![r] = next]
        /\ next.at = "upsert" /\ next.todo = reader[r].todo /\ next.found = reader[r].found \ {m}
        /\ next.count \in {reader[r].count, reader[r].count + 1}
        /\ next.events = reader[r].events /\ next.fetched = reader[r].fetched
        /\ next.alone = reader[r].alone
        /\ inbox' = inbox \cup kept /\ dropped \subseteq dropped' /\ m \in kept \cup dropped'
  <2>1. CASE inbox' = inbox \cup {m} /\ dropped' = dropped /\ reader' = [reader EXCEPT ![r] = moved]
    <3>1. /\ {m} \in SUBSET {m} /\ dropped \subseteq dropped' /\ m \in {m} \cup dropped'
          /\ moved.count \in {reader[r].count, reader[r].count + 1}
      BY <1>4, <2>1
    <3> QED
      BY <1>4, <2>1, <3>1
  <2>2. CASE inbox' = inbox /\ dropped' = dropped \cup {m} /\ reader' = [reader EXCEPT ![r] = lost]
    <3>1. /\ {} \in SUBSET {m} /\ dropped \subseteq dropped' /\ m \in {} \cup dropped'
          /\ inbox' = inbox \cup {}
          /\ lost.count \in {reader[r].count, reader[r].count + 1}
      BY <1>5, <2>2
    <3> QED
      BY <1>5, <2>2, <3>1
  <2> QED
    BY <1>1, <1>6, <2>1, <2>2 DEF moved
<1>8. reader'[r] = next
  BY <1>2, <1>7 DEF MailTyped
<1>9. HandOf(r)'
  <2>1. next.count + Cardinality(next.found) <= Cardinality(Mails)
    BY <1>2, <1>3, <1>7 DEF HandOf
  <2> QED
    BY <1>2, <1>7, <1>8, <2>1 DEF HandOf
<1>10. \A o \in Readers \ {r} : reader'[o] = reader[o]
  BY <1>2, <1>7 DEF MailTyped
<1>11. EventsOf(r)'
  BY <1>2, <1>7, <1>8, <1>10 DEF EventsOf
<1>12. /\ next.todo \subseteq reader[r].todo /\ next.found \subseteq reader[r].found
       /\ kept \in SUBSET reader[r].found /\ told' = told \cup {}
       /\ (kept \cup {}) \cap next.found = {}
       /\ reader[r].found \ next.found \subseteq kept \cup {} \cup dropped'
       /\ syncRow'.count <= Cardinality(Mails) /\ syncRow'.status \in {"none", "ok", "error"}
  BY <1>1, <1>2, <1>7 DEF MailTyped, MailboxTypeOK
<1> QED
  BY <1>2, <1>7, <1>9, <1>11, <1>12, ReaderGives

LEMMA WriteSyncLog_Inv == ASSUME MailInv, NEW r \in Readers, WriteSyncLog(r) PROVE MailInv'
<1>1. /\ reader[r].at = "upsert" /\ reader[r].found = {} /\ \A u \in Uids : reader[r].events[u] = 0
      /\ syncRow' = [count |-> reader[r].count, status |-> reader[r].status] \/ syncRow' = syncRow
      /\ known' = IF reader[r].alone THEN reader[r].fetched ELSE known
      /\ reader' = [reader EXCEPT ![r] = Away]
      /\ UNCHANGED <<folder, calendar, inbox, entries, told, taken, dropped, passed, again>>
  BY DEF WriteSyncLog, ReaderLeaves
<1>2. /\ MailTyped /\ reader[r] \in ReaderOf /\ HandOf(r) /\ EventsOf(r)
      /\ reader[r].count \in Nat /\ Cardinality(Mails) \in Nat /\ Cardinality(reader[r].found) = 0
  BY <1>1, ReaderTyped, FS_EmptySet DEF MailInv
<1>3. \A o \in Readers : reader'[o] = IF o = r THEN Away ELSE reader[o]
  BY <1>1, <1>2 DEF MailTyped
<1>4. syncRow'.count <= Cardinality(Mails) /\ syncRow'.status \in {"none", "ok", "error"}
  <2>1. reader[r].count <= Cardinality(Mails) /\ reader[r].status \in {"ok", "error"}
    BY <1>2 DEF HandOf, ReaderOf
  <2> QED
    BY <1>1, <1>2, <2>1 DEF MailTyped, MailboxTypeOK
<1>5. /\ known' \in [Uids -> 0..MaxVersion]
      /\ \A u \in Uids : known'[u] <= entries[u] /\ known'[u] <= calendar[u]
  <2>1. CASE reader[r].alone
    <3>1. known' = reader[r].fetched
      BY <1>1, <2>1
    <3>2. ASSUME NEW u \in Uids
          PROVE  reader[r].fetched[u] <= calendar[u] /\ reader[r].fetched[u] <= entries[u]
      <4>1. reader[r].fetched[u] \in Nat /\ entries[u] \in Nat /\ reader[r].events[u] = 0
        BY <1>1, <1>2, MailboxAssumption DEF MailTyped, MailboxTypeOK, ReaderOf
      <4>2. /\ reader[r].fetched[u] <= calendar[u]
            /\ reader[r].fetched[u] = 0 \/ entries[u] = reader[r].fetched[u]
        BY <1>1, <1>2, <2>1 DEF EventsOf
      <4> QED
        BY <4>1, <4>2
    <3> QED
      BY <1>2, <3>1, <3>2 DEF ReaderOf
  <2>2. CASE ~ reader[r].alone
    BY <1>1, <2>2 DEF MailInv, MailTyped
  <2> QED
    BY <2>1, <2>2
<1>6. MailTyped'
  <2>1. reader' \in [Readers -> ReaderOf]
    BY <1>1, <1>2, AwayIsTyped DEF MailTyped
  <2>2. \A o \in Readers : /\ reader'[o].at \in {"away", "search", "fetch", "events", "upsert", "log"}
                           /\ reader'[o].todo \cup reader'[o].found \subseteq folder.came
    BY <1>2, <1>3, AwayIsTyped DEF MailTyped, MailboxTypeOK, Wanted
  <2> QED
    BY <1>1, <1>2, <1>4, <1>5, <2>1, <2>2 DEF MailTyped, MailboxTypeOK, Wanted
<1>7. ASSUME NEW o \in Readers PROVE HandOf(o)' /\ EventsOf(o)'
  <2>1. CASE o = r
    BY <1>1, <2>1, LeaverHolds
  <2>2. CASE o # r
    <3>1. reader'[o] = reader[o] /\ HandOf(o) /\ EventsOf(o)
      BY <1>3, <2>2 DEF MailInv
    <3>2. HandOf(o)'
      BY <1>1, <3>1 DEF HandOf
    <3>3. ~ (reader[o].alone /\ reader[o].at # "away")
      BY <1>1, <2>2, <3>1 DEF EventsOf
    <3>4. ASSUME reader[o].at # "away" PROVE known' = known
      BY <1>1, <1>2, <2>2, <3>4 DEF EventsOf
    <3>5. reader[o].at = "away" => \A u \in Uids : reader[o].events[u] = 0
      BY <3>1 DEF HandOf
    <3> QED
      BY <1>1, <3>1, <3>2, <3>3, <3>4, <3>5 DEF EventsOf
  <2> QED
    BY <2>1, <2>2
<1>8. \A o \in Readers : /\ reader'[o].todo \subseteq reader[o].todo
                         /\ reader'[o].found \subseteq reader[o].found
  BY <1>3, AwayIsTyped
<1>9. ASSUME NEW m \in Mails \ again' PROVE TakenOnce(m)'
  <2>1. TakenOnce(m)
    BY <1>1 DEF MailInv
  <2>2. \A o \in Readers : /\ m \in reader'[o].todo => m \in reader[o].todo
                           /\ m \in reader'[o].found => m \in reader[o].found
    BY <1>8
  <2> QED
    BY <1>1, <2>1, <2>2 DEF TakenOnce
<1>10. TakenIsAccounted'
  <2>1. \A o \in Readers : reader[o].found \subseteq reader'[o].found
    BY <1>1, <1>3
  <2> QED
    BY <1>1, <2>1 DEF MailInv, TakenIsAccounted
<1>11. \A u \in Uids : known'[u] <= entries'[u] /\ known'[u] <= calendar'[u]
  BY <1>1, <1>5
<1> QED
  BY <1>6, <1>7, <1>9, <1>10, <1>11 DEF MailInv

LEMMA CrashMailbox_Inv == ASSUME MailInv, CrashMailbox PROVE MailInv'
<1>1. /\ dropped' = dropped \cup UNION {reader[r].found : r \in Readers}
      /\ reader' = [r \in Readers |-> Away] /\ MailTyped
      /\ UNCHANGED <<folder, calendar, inbox, entries, syncRow, told, taken, passed, again, known>>
  BY DEF CrashMailbox, MailInv
<1>2. \A r \in Readers : reader'[r] = Away
  BY <1>1
<1>3. MailTyped'
  BY <1>1, AwayIsTyped DEF MailTyped, MailboxTypeOK, Wanted
<1>4. ASSUME NEW r \in Readers PROVE HandOf(r)' /\ EventsOf(r)'
  <2>1. reader'[r].count + Cardinality(reader'[r].found) <= Cardinality(Mails)
    <3>1. Cardinality(Mails) \in Nat /\ Cardinality({}) = 0
      BY MailboxAssumption, FS_CardinalityType, FS_EmptySet
    <3> QED
      BY <1>2, <3>1, AwayIsTyped
  <2>2. HandOf(r)'
    BY <1>2, <2>1, AwayIsTyped DEF HandOf
  <2> QED
    BY <1>2, <2>2, AwayIsTyped DEF EventsOf
<1>5. \A m \in Mails \ again' : TakenOnce(m)'
  BY <1>1, <1>2, AwayIsTyped DEF MailInv, TakenOnce
<1>6. TakenIsAccounted'
  BY <1>1 DEF MailInv, TakenIsAccounted
<1>7. \A u \in Uids : known'[u] <= entries'[u] /\ known'[u] <= calendar'[u]
  BY <1>1 DEF MailInv
<1> QED
  BY <1>3, <1>4, <1>5, <1>6, <1>7 DEF MailInv

\* So every step keeps it.
LEMMA MailboxNext_Inv == ASSUME MailInv, [MailboxNext]_mailVars PROVE MailInv'
<1>1. CASE MailComes \/ UserMarks \/ EventChanges \/ UNCHANGED mailVars
  BY <1>1, MailWorld_Inv
<1>2. CASE CrashMailbox
  BY <1>2, CrashMailbox_Inv
<1>3. ASSUME NEW r \in Readers,
             \/ StartRead(r) \/ SearchUnseen(r) \/ SearchRaises(r) \/ FetchMail(r) \/ FetchEnds(r)
             \/ FetchEvents(r) \/ UpsertEmail(r) \/ UpsertEvent(r) \/ WriteSyncLog(r)
      PROVE  MailInv'
  BY <1>3, StartRead_Inv, SearchUnseen_Inv, SearchRaises_Inv, FetchMail_Inv, FetchEnds_Inv,
     FetchEvents_Inv, UpsertEmail_Inv, UpsertEvent_Inv, WriteSyncLog_Inv
<1> QED
  BY <1>1, <1>2, <1>3 DEF MailboxNext

\* And it implies what is promised.
LEMMA MailInv_Safe == ASSUME MailInv PROVE MailSafe
<1>1. ASSUME NEW m \in inbox \cap told PROVE m \in again
  <2>1. m \in Mails
    BY DEF MailInv, MailTyped, MailboxTypeOK
  <2> QED
    BY <2>1 DEF MailInv, TakenOnce
<1> QED
  BY <1>1 DEF MailInv, MailTyped, MailSafe, OneReaderTakes, CalendarGoesOn

-----------------------------------------------------------------------------
(* The encryption keys (KeyRotation)                                       *)

\* What a migration leaves nothing under, and the values it is through with.
Source == IF job.kind = "enable" THEN Plain ELSE active
Through(i) ==
  /\ i[1] \in Passes \ todo
  /\ i[1] = pass => phase = "points" /\ i[2] \notin unread /\ i \notin DOMAIN page

KeyTyped ==
  /\ stored \in [Items -> Value] /\ active \in Keys /\ envKey \in Keys /\ rotated \in Keys
  /\ job \in [kind : Kinds, status : {"none", "in_progress", "completed", "error"}, key : Keys]
  /\ latest \in [text : [Items -> 0..MaxWrites], writes : 0..MaxWrites]
  /\ jobs \in 0..MaxJobs
  /\ touched \subseteq Items /\ raced \subseteq Items /\ stranded \subseteq Items
  /\ Rotating => job.key # active
  /\ ~ Running => touched = {}

\* Where the thread is: the page has the rows of a table, or whole payloads.
ThreadTyped ==
  /\ phase \in {"none", "next", "update", "points"} /\ (Running <=> phase # "none")
  /\ phase \in {"none", "next"} => pass = NoPass /\ DOMAIN page = {}
  /\ phase = "update" => pass \in Tables /\ DOMAIN page = RowsIn(pass)
  /\ phase = "points" => pass \in Sealed /\ DOMAIN page \subseteq Fields \X Points
  /\ todo \subseteq Passes \ {pass}
  /\ unread \subseteq Points /\ (phase # "points" => unread = {})
  /\ \A i \in DOMAIN page : page[i] \in Value
  /\ \A f, g \in Fields, p \in Points : <<f, p>> \in DOMAIN page => <<g, p>> \in DOMAIN page

\* A value holds the text written last; while a migration runs it is as the page
\* says, or no longer under the source, unless somebody touched it; it is under
\* a key that the rotation reaches or leaves, unless it is stranded; and the
\* fields without encryption have none.
ItemHolds(i) ==
  /\ i \notin raced => stored[i].text = latest.text[i]
  /\ Running /\ i \notin touched =>
       /\ i \in DOMAIN page => page[i] = stored[i]
       /\ Through(i) => stored[i].key # Source
  /\ i \notin stranded =>
       IF Rotating THEN (i \notin touched \/ i[1] \in Open) /\ stored[i].key \in {active, Plain, job.key}
       ELSE stored[i].key \in {rotated, Plain}
  /\ i[1] \in Open => stored[i].key = Plain /\ (i \in DOMAIN page => page[i].key = Plain)

KeyInv == KeyTyped /\ ThreadTyped /\ \A i \in Items : ItemHolds(i)

\* A value is in one row of one table, or in one point.
LEMMA ItemParts ==
  ASSUME NEW i \in Items
  PROVE  /\ i = <<i[1], i[2]>>
         /\ \/ i[1] \in Tables /\ i[2] \in RowIds
            \/ i[1] \in Fields /\ i[2] \in Points
         /\ \A t \in Tables : i \in RowsIn(t) <=> i[1] = t
         /\ \A p \in Points : i \in PayloadOf(p) <=> i[1] \in Fields /\ i[2] = p
<1>1. (i[1] \in Tables /\ i[2] \in RowIds) \/ (i[1] \in Fields /\ i[2] \in Points)
  BY DEF Items
<1>2. i = <<i[1], i[2]>>
  BY DEF Items
<1>3. ASSUME NEW t \in Tables PROVE i \in RowsIn(t) <=> i[1] = t
  BY <1>1, <1>2, KeyAssumption DEF RowsIn
<1>4. ASSUME NEW p \in Points PROVE i \in PayloadOf(p) <=> i[1] \in Fields /\ i[2] = p
  BY <1>1, <1>2 DEF PayloadOf
<1> QED
  BY <1>1, <1>2, <1>3, <1>4

LEMMA ItemsOf ==
  /\ \A t \in Tables : RowsIn(t) \subseteq Items
  /\ \A p \in Points : PayloadOf(p) \subseteq Items
  /\ \A f \in Fields, p \in Points : <<f, p>> \in Items /\ <<f, p>> \in PayloadOf(p)
BY DEF Items, RowsIn, PayloadOf

\* It holds at the start, and each action of the module keeps it.
LEMMA KeyInit_Inv == ASSUME KeyInit PROVE KeyInv
<1>1. /\ stored \in [Items -> [text : {0}, key : {Plain, FirstKey}]]
      /\ \A i \in Open \X Points : stored[i].key = Plain
      /\ active = FirstKey /\ envKey = FirstKey /\ rotated = FirstKey
      /\ job = [kind |-> "enable", status |-> "none", key |-> FirstKey]
      /\ phase = "none" /\ pass = NoPass /\ todo = {} /\ unread = {} /\ page = NoPage /\ jobs = 0
      /\ latest = [text |-> [i \in Items |-> 0], writes |-> 0]
      /\ touched = {} /\ raced = {} /\ stranded = {}
  BY DEF KeyInit
<1>2. FirstKey \in Keys /\ MaxWrites \in Nat /\ MaxJobs \in Nat /\ 0 \in 0..MaxWrites
  BY KeyAssumption
<1>3. stored \in [Items -> Value]
  BY <1>1, <1>2 DEF Value
<1>4. DOMAIN page = {}
  BY <1>1 DEF NoPage
<1>5. KeyTyped
  BY <1>1, <1>2, <1>3 DEF KeyTyped, Kinds, Running, Rotating
<1>6. ThreadTyped
  BY <1>1, <1>4 DEF ThreadTyped, Running
<1>7. ASSUME NEW i \in Items PROVE ItemHolds(i)
  <2>1. i[1] \in Open => stored[i].key = Plain
    BY <1>1, ItemParts, KeyAssumption DEF Fields
  <2>2. stored[i].text = 0 /\ stored[i].key \in {Plain, FirstKey} /\ latest.text[i] = 0
    BY <1>1
  <2> QED
    BY <1>1, <1>4, <2>1, <2>2 DEF ItemHolds, Running, Rotating
<1> QED
  BY <1>5, <1>6, <1>7 DEF KeyInv

\* The parts of the typing, one by one.
LEMMA KeyTypes ==
  ASSUME KeyInv
  PROVE  /\ stored \in [Items -> Value] /\ active \in Keys /\ envKey \in Keys /\ rotated \in Keys
         /\ job \in [kind : Kinds, status : {"none", "in_progress", "completed", "error"}, key : Keys]
         /\ latest \in [text : [Items -> 0..MaxWrites], writes : 0..MaxWrites]
         /\ jobs \in 0..MaxJobs
         /\ touched \subseteq Items /\ raced \subseteq Items /\ stranded \subseteq Items
         /\ Rotating => job.key # active
         /\ ~ Running => touched = {}
         /\ Plain \notin Keys
         /\ \A i \in Items : ItemHolds(i)
  BY KeyAssumption DEF KeyInv, KeyTyped

LEMMA ThreadTypes ==
  ASSUME KeyInv
  PROVE  /\ phase \in {"none", "next", "update", "points"} /\ (Running <=> phase # "none")
         /\ phase \in {"none", "next"} => pass = NoPass /\ DOMAIN page = {}
         /\ phase = "update" => pass \in Tables /\ DOMAIN page = RowsIn(pass)
         /\ phase = "points" => pass \in Sealed /\ pass \in Fields /\ DOMAIN page \subseteq Fields \X Points
         /\ todo \subseteq Passes \ {pass}
         /\ unread \subseteq Points /\ (phase # "points" => unread = {})
         /\ \A i \in DOMAIN page : page[i] \in Value
         /\ \A f, g \in Fields, p \in Points : <<f, p>> \in DOMAIN page => <<g, p>> \in DOMAIN page
         /\ NoPass \notin Passes /\ Tables \cap Fields = {} /\ Sealed \cap Open = {}
  BY KeyAssumption DEF KeyInv, ThreadTyped, Fields

\* The process writes.
LEMMA WriteTexts_Inv == ASSUME KeyInv, NEW S \in SUBSET Items, WriteTexts(S) PROVE KeyInv'
<1> DEFINE n == Writes + 1
<1>1. /\ Writes < MaxWrites
      /\ latest' = [text |-> [i \in Items |-> IF i \in S THEN n ELSE latest.text[i]], writes |-> n]
      /\ stored' = [i \in Items |->
           IF i \in S THEN [text |-> n, key |-> IF i[1] \in Open THEN Plain ELSE active] ELSE stored[i]]
      /\ touched' = (IF Running THEN touched \cup S ELSE touched) /\ raced' = raced \ S
      /\ stranded' = (stranded \ S) \cup {i \in S : i[1] \notin Open /\ active # Target}
      /\ UNCHANGED <<active, envKey, job, phase, pass, todo, unread, page, jobs, rotated>>
  BY DEF WriteTexts, threadVars
<1>2. n \in 0..MaxWrites
  BY <1>1, KeyTypes, KeyAssumption DEF Writes
<1> HIDE DEF n
<1>3. /\ stored' \in [Items -> Value]
      /\ \A i \in S : stored'[i].text = n /\ stored'[i].key = IF i[1] \in Open THEN Plain ELSE active
      /\ \A i \in Items \ S : stored'[i] = stored[i]
  BY <1>1, <1>2, KeyTypes DEF Value
<1>4. /\ latest' \in [text : [Items -> 0..MaxWrites], writes : 0..MaxWrites]
      /\ \A i \in S : latest'.text[i] = n
      /\ \A i \in Items \ S : latest'.text[i] = latest.text[i]
  BY <1>1, <1>2, KeyTypes
<1>5. KeyTyped'
  BY <1>1, <1>3, <1>4, KeyTypes DEF KeyTyped, Running, Rotating
<1>6. ThreadTyped'
  BY <1>1, ThreadTypes DEF ThreadTyped, Running
<1>7. ASSUME NEW i \in S PROVE ItemHolds(i)'
  <2>1. i \notin stranded' => i[1] \in Open \/ active = Target
    BY <1>1
  <2>2. i \notin stranded' => i[1] \in Open \/ (~ Rotating /\ active = rotated)
    BY <2>1, KeyTypes DEF Target
  <2>3. i[1] \in Open => stored'[i].key = Plain /\ (i \in DOMAIN page' => page'[i].key = Plain)
    BY <1>1, <1>3, KeyTypes DEF ItemHolds
  <2> QED
    BY <1>1, <1>3, <1>4, <2>2, <2>3 DEF ItemHolds, Rotating, Running
<1>8. ASSUME NEW i \in Items \ S PROVE ItemHolds(i)'
  <2>1. /\ i \in stranded' <=> i \in stranded
        /\ i \in touched' <=> i \in touched
        /\ i \in raced' <=> i \in raced
    BY <1>1
  <2> QED
    BY <1>1, <1>3, <1>4, <2>1, KeyTypes DEF ItemHolds, Rotating, Running, Through, Source
<1> QED
  BY <1>5, <1>6, <1>7, <1>8 DEF KeyInv

LEMMA Writes_Inv ==
  ASSUME KeyInv,
         \/ \E i \in Tables \X RowIds : WriteRow(i)
         \/ \E p \in Points : UpsertPoint(p) \/ \E f \in Open : SetField(f, p)
  PROVE  KeyInv'
<1>1. ASSUME NEW i \in Tables \X RowIds, WriteRow(i) PROVE KeyInv'
  BY <1>1, WriteTexts_Inv DEF WriteRow, Items
<1>2. ASSUME NEW p \in Points, UpsertPoint(p) PROVE KeyInv'
  BY <1>2, WriteTexts_Inv, ItemsOf DEF UpsertPoint
<1>3. ASSUME NEW p \in Points, NEW f \in Open, SetField(f, p) PROVE KeyInv'
  BY <1>3, WriteTexts_Inv, ItemsOf DEF SetField, Fields
<1> QED
  BY <1>1, <1>2, <1>3

\* The administrator, a restart, and the start of a migration.
LEMMA SetEnvKey_Inv == ASSUME KeyInv, SetEnvKey \/ UNCHANGED keyVars PROVE KeyInv'
<1>1. /\ UNCHANGED <<stored, active, job, phase, pass, todo, unread, page, jobs, latest, rotated,
                     touched, raced, stranded>>
      /\ envKey' \in Keys
  BY KeyTypes DEF SetEnvKey, keyVars, threadVars
<1>2. KeyTyped'
  BY <1>1, KeyTypes DEF KeyTyped, Running, Rotating
<1>3. ThreadTyped'
  BY <1>1, ThreadTypes DEF ThreadTyped, Running
<1>4. \A i \in Items : ItemHolds(i)'
  BY <1>1, KeyTypes DEF ItemHolds, Rotating, Running, Through, Source
<1> QED
  BY <1>2, <1>3, <1>4 DEF KeyInv

\* The thread ends: as completed when it is through with every value.
LEMMA JobEnded_Inv ==
  ASSUME KeyInv, NEW status \in {"none", "completed", "error"}, JobEnded(status),
         active' \in Keys, rotated' = IF Rotating /\ status = "completed" THEN job.key ELSE rotated,
         Rotating /\ status = "completed" => todo = {} /\ phase = "next",
         UNCHANGED <<stored, envKey, jobs, latest, raced>>
  PROVE  KeyInv'
<1>1. /\ job' = [job EXCEPT !.status = status]
      /\ phase' = "none" /\ pass' = NoPass /\ todo' = {} /\ unread' = {} /\ page' = NoPage
      /\ touched' = {}
      /\ stranded' = IF Rotating /\ status # "completed"
                     THEN {i \in Items : stored[i].key \notin {rotated, Plain}} ELSE stranded
  BY DEF JobEnded
<1>2. /\ job' \in [kind : Kinds, status : {"none", "in_progress", "completed", "error"}, key : Keys]
      /\ ~ Running' /\ ~ Rotating' /\ DOMAIN page' = {}
  BY <1>1, KeyTypes DEF Running, Rotating, NoPage
<1>3. KeyTyped'
  <2>1. rotated' \in Keys /\ stranded' \subseteq Items
    BY <1>1, KeyTypes
  <2> QED
    BY <1>1, <1>2, <2>1, KeyTypes DEF KeyTyped
<1>4. ThreadTyped'
  BY <1>1, <1>2 DEF ThreadTyped
<1>5. ASSUME NEW i \in Items PROVE ItemHolds(i)'
  <2>1. ItemHolds(i)
    BY KeyTypes
  <2>2. ASSUME i \notin stranded' PROVE stored[i].key \in {rotated', Plain}
    <3>1. CASE Rotating /\ status # "completed"
      BY <1>1, <2>2, <3>1
    <3>2. CASE ~ Rotating
      BY <1>1, <2>1, <2>2, <3>2 DEF ItemHolds
    <3>3. CASE Rotating /\ status = "completed"
      <4>1. i \notin stranded /\ rotated' = job.key /\ todo = {} /\ phase = "next" /\ pass = NoPass
        BY <1>1, <2>2, <3>3, ThreadTypes
      <4>2. (i \notin touched \/ i[1] \in Open) /\ stored[i].key \in {active, Plain, job.key}
        BY <2>1, <3>3, <4>1 DEF ItemHolds
      <4>3. CASE i[1] \in Open
        BY <2>1, <4>3 DEF ItemHolds
      <4>4. CASE i[1] \notin Open
        <5>1. i[1] \in Passes
          BY <4>4, ItemParts DEF Passes, Fields
        <5>2. Through(i) /\ i \notin touched /\ Running
          BY <3>3, <4>1, <4>2, <4>4, <5>1, ThreadTypes DEF Through, Rotating
        <5>3. stored[i].key # active
          BY <2>1, <3>3, <5>2 DEF ItemHolds, Source, Rotating
        <5> QED
          BY <4>1, <4>2, <5>3
      <4> QED
        BY <4>3, <4>4
    <3> QED
      BY <3>1, <3>2, <3>3
  <2> QED
    BY <1>1, <1>2, <2>1, <2>2 DEF ItemHolds
<1> QED
  BY <1>3, <1>4, <1>5 DEF KeyInv

LEMMA RestartProcess_Inv == ASSUME KeyInv, RestartProcess PROVE KeyInv'
<1>1. active' = envKey /\ JobEnded("none") /\ UNCHANGED <<stored, envKey, jobs, latest, rotated, raced>>
  BY DEF RestartProcess
<1> QED
  BY <1>1, JobEnded_Inv, KeyTypes

LEMMA JobFails_Inv ==
  ASSUME KeyInv, TableRaises \/ \E p \in Points : DecryptRaises(p)
  PROVE  KeyInv'
<1>1. JobEnded("error") /\ UNCHANGED <<stored, active, envKey, jobs, latest, rotated, raced>>
  BY DEF TableRaises, DecryptRaises
<1> QED
  BY <1>1, JobEnded_Inv, KeyTypes

LEMMA Finish_Inv == ASSUME KeyInv, Finish PROVE KeyInv'
<1>1. /\ phase = "next" /\ todo = {} /\ JobEnded("completed")
      /\ rotated' = IF job.kind = "rotate" THEN job.key ELSE rotated
      /\ UNCHANGED <<stored, active, envKey, jobs, latest, raced>>
  BY DEF Finish
<1>2. Rotating <=> job.kind = "rotate"
  BY <1>1, ThreadTypes DEF Rotating
<1> QED
  BY <1>1, <1>2, JobEnded_Inv, KeyTypes

LEMMA BeginMigration_Inv ==
  ASSUME KeyInv, NEW kind \in Kinds, NEW key \in Keys, BeginMigration(kind, key)
  PROVE  KeyInv'
<1>1. /\ ~ Running /\ jobs < MaxJobs /\ (kind = "rotate" => key # active)
      /\ job' = [kind |-> kind, status |-> "in_progress", key |-> key]
      /\ phase' = "next" /\ todo' = Passes /\ jobs' = jobs + 1
      /\ stranded' = IF kind # "rotate" THEN stranded ELSE {i \in Items : stored[i].key \notin {active, Plain}}
      /\ UNCHANGED <<stored, active, envKey, pass, unread, page, latest, rotated, touched, raced>>
  BY DEF BeginMigration
<1>2. jobs + 1 \in 0..MaxJobs
  BY <1>1, KeyTypes, KeyAssumption
<1>3. /\ job' \in [kind : Kinds, status : {"none", "in_progress", "completed", "error"}, key : Keys]
      /\ Running' /\ job'.kind = kind /\ job'.key = key /\ touched = {}
      /\ pass = NoPass /\ DOMAIN page = {} /\ unread = {} /\ phase = "none"
  BY <1>1, KeyTypes, ThreadTypes DEF Running
<1>4. KeyTyped'
  <2>1. stranded' \subseteq Items
    BY <1>1, KeyTypes
  <2> QED
    BY <1>1, <1>2, <1>3, <2>1, KeyTypes DEF KeyTyped, Rotating
<1>5. ThreadTyped'
  BY <1>1, <1>3, ThreadTypes DEF ThreadTyped
<1>6. ASSUME NEW i \in Items PROVE ItemHolds(i)'
  <2>1. ItemHolds(i) /\ ~ Rotating /\ ~ Through(i)'
    BY <1>1, <1>3, KeyTypes DEF Rotating, Through
  <2>2. CASE kind = "rotate"
    BY <1>1, <1>3, <2>1, <2>2 DEF ItemHolds, Rotating
  <2>3. CASE kind # "rotate"
    BY <1>1, <1>3, <2>1, <2>3 DEF ItemHolds, Rotating
  <2> QED
    BY <2>2, <2>3
<1> QED
  BY <1>4, <1>5, <1>6 DEF KeyInv

\* A value that a step of the thread leaves as it is: newly read, passed over,
\* or with nothing to convert.
LEMMA LeftHolds ==
  ASSUME KeyInv, NEW i \in Items, stored'[i] = stored[i],
         i \in raced' <=> i \in raced, i \in touched => i \in touched', i \in stranded => i \in stranded',
         Rotating /\ i \in touched' => i \in touched \/ i \in stranded',
         i \notin touched' /\ Through(i)' => Through(i) \/ (i \in DOMAIN page /\ page[i].key # Source),
         i \in DOMAIN page' => page'[i] = stored[i] \/ (i \in DOMAIN page /\ page'[i] = page[i]),
         Running, Running', UNCHANGED <<active, job, latest, rotated>>
  PROVE  ItemHolds(i)'
<1>1. ItemHolds(i) /\ (Rotating <=> Rotating') /\ Source' = Source
  BY KeyTypes DEF Running, Rotating, Source
<1>2. ASSUME i \notin touched'
      PROVE  /\ i \in DOMAIN page' => page'[i] = stored[i]
             /\ Through(i)' => stored[i].key # Source
  BY <1>1, <1>2 DEF ItemHolds
<1>3. ASSUME i \notin stranded'
      PROVE  IF Rotating THEN (i \notin touched' \/ i[1] \in Open) /\ stored[i].key \in {active, Plain, job.key}
             ELSE stored[i].key \in {rotated, Plain}
  BY <1>1, <1>3 DEF ItemHolds
<1>4. i[1] \in Open => stored[i].key = Plain /\ (i \in DOMAIN page' => page'[i].key = Plain)
  BY <1>1 DEF ItemHolds
<1> QED
  BY <1>1, <1>2, <1>3, <1>4 DEF ItemHolds

\* A step of the thread that changes no value keeps the typing.
LEMMA KeyTyped_Step ==
  ASSUME KeyInv, stored' \in [Items -> Value], Running',
         touched' \subseteq Items, raced' \subseteq Items, stranded' \subseteq Items,
         UNCHANGED <<active, envKey, job, jobs, latest, rotated>>
  PROVE  KeyTyped'
BY KeyTypes DEF KeyTyped, Rotating, Running

LEMMA ReadRows_Inv == ASSUME KeyInv, NEW t \in Tables, ReadRows(t) PROVE KeyInv'
<1>1. /\ phase = "next" /\ t \in todo
      /\ phase' = "update" /\ pass' = t /\ todo' = todo \ {t} /\ page' = [i \in RowsIn(t) |-> stored[i]]
      /\ UNCHANGED <<stored, active, envKey, job, unread, jobs, latest, rotated, touched, raced, stranded>>
  BY DEF ReadRows
<1>2. /\ DOMAIN page' = RowsIn(t) /\ RowsIn(t) \subseteq Items /\ (\A i \in RowsIn(t) : page'[i] = stored[i])
      /\ Running /\ Running' /\ pass = NoPass /\ DOMAIN page = {} /\ unread = {}
  BY <1>1, ItemsOf, ThreadTypes DEF Running
<1>3. KeyTyped'
  BY <1>1, <1>2, KeyTypes, KeyTyped_Step
<1>4. ThreadTyped'
  <2>1. \A i \in DOMAIN page' : page'[i] \in Value
    BY <1>2, KeyTypes
  <2>2. \A f \in Fields, p \in Points : <<f, p>> \notin DOMAIN page'
    BY <1>2, ThreadTypes DEF RowsIn
  <2> QED
    BY <1>1, <1>2, <2>1, <2>2, ThreadTypes DEF ThreadTyped
<1>5. ASSUME NEW i \in Items PROVE ItemHolds(i)'
  <2>1. Through(i)' => Through(i)
    BY <1>1, <1>2, ThreadTypes DEF Through
  <2>2. i \in DOMAIN page' => page'[i] = stored[i]
    BY <1>2
  <2> QED
    BY <1>1, <1>2, <2>1, <2>2, LeftHolds
<1> QED
  BY <1>3, <1>4, <1>5 DEF KeyInv

\* What is passed over is touched, and stranded by a rotation.
LEMMA PassedOver_Inv ==
  ASSUME KeyInv, NEW S \in SUBSET Items, PassedOver(S), ThreadTyped', Running, Running',
         \A i \in Items : i \notin touched' /\ Through(i)' => Through(i),
         \A i \in DOMAIN page' : i \in DOMAIN page /\ page'[i] = page[i],
         UNCHANGED <<stored, active, envKey, job, jobs, latest, rotated, raced>>
  PROVE  KeyInv'
<1>1. touched' = touched \cup S /\ stranded' = IF Rotating THEN stranded \cup S ELSE stranded
  BY DEF PassedOver
<1>2. KeyTyped'
  <2>1. touched' \subseteq Items /\ stranded' \subseteq Items
    BY <1>1, KeyTypes
  <2> QED
    BY <2>1, KeyTypes, KeyTyped_Step
<1>3. ASSUME NEW i \in Items PROVE ItemHolds(i)'
  <2>1. /\ i \in touched => i \in touched'
        /\ i \in stranded => i \in stranded'
        /\ Rotating /\ i \in touched' => i \in touched \/ i \in stranded'
    BY <1>1
  <2>2. i \in DOMAIN page' => i \in DOMAIN page /\ page'[i] = page[i]
    OBVIOUS
  <2>3. i \notin touched' /\ Through(i)' => Through(i)
    OBVIOUS
  <2> QED
    BY <2>1, <2>2, <2>3, LeftHolds
<1> QED
  BY <1>2, <1>3 DEF KeyInv

LEMMA ReadRowsFails_Inv == ASSUME KeyInv, NEW t \in Tables, ReadRowsFails(t) PROVE KeyInv'
<1>1. /\ phase = "next" /\ t \in todo /\ todo' = todo \ {t} /\ PassedOver(RowsIn(t))
      /\ UNCHANGED <<stored, active, envKey, job, phase, pass, unread, page, jobs, latest, rotated, raced>>
  BY DEF ReadRowsFails
<1>2. Running /\ Running' /\ RowsIn(t) \subseteq Items
  BY <1>1, ItemsOf, ThreadTypes DEF Running
<1>3. ThreadTyped'
  BY <1>1, ThreadTypes DEF ThreadTyped, Running
<1>4. ASSUME NEW i \in Items, i \notin touched', Through(i)' PROVE Through(i)
  <2>1. i[1] # t
    BY <1>1, <1>4, ItemParts DEF PassedOver
  <2> QED
    BY <1>1, <1>4, <2>1 DEF Through
<1> QED
  BY <1>1, <1>2, <1>3, <1>4, PassedOver_Inv

LEMMA UpdateRowsFails_Inv == ASSUME KeyInv, UpdateRowsFails PROVE KeyInv'
<1>1. /\ phase = "update" /\ PassedOver(RowsIn(pass))
      /\ phase' = "next" /\ pass' = NoPass /\ page' = NoPage
      /\ UNCHANGED <<stored, active, envKey, job, todo, unread, jobs, latest, rotated, raced>>
  BY DEF UpdateRowsFails
<1>2. /\ Running /\ Running' /\ pass \in Tables /\ RowsIn(pass) \subseteq Items /\ DOMAIN page' = {}
  BY <1>1, ItemsOf, ThreadTypes DEF Running, NoPage
<1>3. ThreadTyped'
  BY <1>1, <1>2, ThreadTypes DEF ThreadTyped
<1>4. ASSUME NEW i \in Items, i \notin touched', Through(i)' PROVE Through(i)
  <2>1. i[1] # pass
    BY <1>1, <1>2, <1>4, ItemParts DEF PassedOver
  <2> QED
    BY <1>1, <1>4, <2>1 DEF Through
<1> QED
  BY <1>1, <1>2, <1>3, <1>4, PassedOver_Inv

LEMMA ReadPageFails_Inv == ASSUME KeyInv, ReadPageFails PROVE KeyInv'
<1>1. /\ phase = "points" /\ DOMAIN page = {} /\ PassedOver({pass} \X unread) /\ unread' = {}
      /\ UNCHANGED <<stored, active, envKey, job, phase, pass, todo, page, jobs, latest, rotated, raced>>
  BY DEF ReadPageFails
<1>2. Running /\ Running' /\ {pass} \X unread \subseteq Items
  BY <1>1, ThreadTypes DEF Running, Items
<1>3. ThreadTyped'
  BY <1>1, ThreadTypes DEF ThreadTyped, Running
<1>4. ASSUME NEW i \in Items, i \notin touched', Through(i)' PROVE Through(i)
  <2>1. i[1] = pass => i[2] \notin unread
    BY <1>1, <1>4, ItemParts DEF PassedOver
  <2> QED
    BY <1>1, <1>4, <2>1 DEF Through
<1> QED
  BY <1>1, <1>2, <1>3, <1>4, PassedOver_Inv

LEMMA BeginField_Inv == ASSUME KeyInv, NEW f \in Sealed, BeginField(f) PROVE KeyInv'
<1>1. /\ phase = "next" /\ f \in todo /\ phase' = "points" /\ pass' = f /\ todo' = todo \ {f}
      /\ unread' = Points
      /\ UNCHANGED <<stored, active, envKey, job, page, jobs, latest, rotated, touched, raced, stranded>>
  BY DEF BeginField
<1>2. Running /\ Running' /\ DOMAIN page = {}
  BY <1>1, ThreadTypes DEF Running
<1>3. KeyTyped'
  BY <1>1, <1>2, KeyTypes, KeyTyped_Step
<1>4. ThreadTyped'
  BY <1>1, <1>2, ThreadTypes DEF ThreadTyped
<1>5. ASSUME NEW i \in Items PROVE ItemHolds(i)'
  <2>1. Through(i)' => Through(i)
    <3>1. SUFFICES ASSUME Through(i)' PROVE Through(i)
      OBVIOUS
    <3>2. i[1] # f
      <4>1. SUFFICES ASSUME i[1] = f PROVE FALSE
        OBVIOUS
      <4>2. i[2] \in Points
        BY <4>1, ItemParts, ThreadTypes DEF Fields
      <4> QED
        BY <1>1, <3>1, <4>1, <4>2 DEF Through
    <3> QED
      BY <1>1, <3>1, <3>2, ThreadTypes DEF Through
  <2> QED
    BY <1>1, <1>2, <2>1, LeftHolds
<1> QED
  BY <1>3, <1>4, <1>5 DEF KeyInv

LEMMA ReadPage_Inv == ASSUME KeyInv, NEW S \in SUBSET Points, ReadPage(S) PROVE KeyInv'
<1>1. /\ phase = "points" /\ DOMAIN page = {} /\ S \subseteq unread
      /\ page' = [i \in Fields \X S |-> stored[i]] /\ unread' = unread \ S
      /\ UNCHANGED <<stored, active, envKey, job, phase, pass, todo, jobs, latest, rotated,
                     touched, raced, stranded>>
  BY DEF ReadPage
<1>2. /\ Running /\ Running' /\ DOMAIN page' = Fields \X S /\ Fields \X S \subseteq Items
      /\ \A i \in Fields \X S : page'[i] = stored[i]
  BY <1>1, ThreadTypes DEF Running, Items
<1>3. KeyTyped'
  BY <1>1, <1>2, KeyTypes, KeyTyped_Step
<1>4. ThreadTyped'
  <2>1. \A i \in DOMAIN page' : page'[i] \in Value
    BY <1>2, KeyTypes
  <2>2. \A f, g \in Fields, p \in Points : <<f, p>> \in DOMAIN page' => <<g, p>> \in DOMAIN page'
    BY <1>2
  <2> QED
    BY <1>1, <1>2, <2>1, <2>2, ThreadTypes DEF ThreadTyped
<1>5. ASSUME NEW i \in Items PROVE ItemHolds(i)'
  <2>1. Through(i)' => Through(i)
    <3>1. SUFFICES ASSUME Through(i)' PROVE Through(i)
      OBVIOUS
    <3>2. CASE i[1] = pass
      <4>1. i[2] \notin S
        BY <1>1, <1>2, <3>1, <3>2, ItemParts, ThreadTypes DEF Through
      <4> QED
        BY <1>1, <3>1, <3>2, <4>1 DEF Through
    <3>3. CASE i[1] # pass
      BY <1>1, <3>1, <3>3 DEF Through
    <3> QED
      BY <3>2, <3>3
  <2>2. i \in DOMAIN page' => page'[i] = stored[i]
    BY <1>2
  <2> QED
    BY <1>1, <1>2, <2>1, <2>2, LeftHolds
<1> QED
  BY <1>3, <1>4, <1>5 DEF KeyInv

LEMMA EndField_Inv == ASSUME KeyInv, EndField PROVE KeyInv'
<1>1. /\ phase = "points" /\ DOMAIN page = {} /\ unread = {} /\ phase' = "next" /\ pass' = NoPass
      /\ UNCHANGED <<stored, active, envKey, job, todo, unread, page, jobs, latest, rotated,
                     touched, raced, stranded>>
  BY DEF EndField
<1>2. Running /\ Running'
  BY <1>1, ThreadTypes DEF Running
<1>3. KeyTyped'
  BY <1>1, <1>2, KeyTypes, KeyTyped_Step
<1>4. ThreadTyped'
  BY <1>1, <1>2, ThreadTypes DEF ThreadTyped
<1>5. ASSUME NEW i \in Items PROVE ItemHolds(i)'
  <2>1. Through(i)' => Through(i)
    BY <1>1 DEF Through
  <2> QED
    BY <1>1, <1>2, <2>1, LeftHolds
<1> QED
  BY <1>3, <1>4, <1>5 DEF KeyInv

\* A converted value has its text, and a key that is not the source.
LEMMA ConvertedIs ==
  ASSUME KeyInv, Running, NEW v \in Value
  PROVE  /\ Converts(v) <=> v.key = Source
         /\ Converted(v) \in Value /\ Converted(v).text = v.text /\ Converted(v).key # Source
         /\ job.kind = "rotate" => Converted(v).key = job.key
<1>1. /\ job.kind \in Kinds /\ job.key \in Keys /\ active \in Keys /\ Plain \notin Keys
      /\ (job.kind = "rotate" => job.key # active)
  BY KeyTypes DEF Rotating
<1> DEFINE key == CASE job.kind = "enable" -> active [] job.kind = "disable" -> Plain [] job.kind = "rotate" -> job.key
<1>2. key \in Keys \cup {Plain} /\ key # Source /\ (job.kind = "rotate" => key = job.key)
  BY <1>1 DEF Source, Kinds
<1>3. Converted(v) = [v EXCEPT !.key = key]
  BY DEF Converted
<1> HIDE DEF key
<1>4. Converted(v) \in Value /\ Converted(v).text = v.text /\ Converted(v).key = key
  BY <1>3, <1>2 DEF Value
<1>5. Converts(v) <=> v.key = Source
  BY DEF Converts, Source
<1> QED
  BY <1>2, <1>4, <1>5

\* A value that is written back, converted or as it was read.
LEMMA WrittenHolds ==
  ASSUME KeyInv, Running, NEW i \in Items, i \in DOMAIN page, page[i] \in Value,
         \/ stored'[i] = Converted(page[i]) /\ i[1] \notin Open
         \/ stored'[i] = page[i] /\ (Through(i)' => Through(i)),
         i \in raced' <=> i \in raced \/ stored[i].text # stored'[i].text,
         i \in stranded' <=> i \in stranded \/ (~ Rotating /\ stored'[i].key \notin {rotated, Plain}),
         i \in touched' <=> i \in touched, i \notin DOMAIN page',
         UNCHANGED <<active, job, latest, rotated>>
  PROVE  ItemHolds(i)'
<1>1. ItemHolds(i) /\ (Rotating <=> Rotating') /\ (Running <=> Running') /\ Source' = Source
  BY KeyTypes DEF Running, Rotating, Source
<1>2. i \notin raced' => stored'[i].text = latest'.text[i]
  BY <1>1 DEF ItemHolds
<1>3. i \notin touched' /\ Through(i)' => stored'[i].key # Source'
  <2>1. CASE stored'[i] = Converted(page[i])
    BY <1>1, <2>1, ConvertedIs
  <2>2. CASE stored'[i] = page[i] /\ (Through(i)' => Through(i))
    BY <1>1, <2>2 DEF ItemHolds
  <2> QED
    BY <2>1, <2>2
<1>4. ASSUME i \notin stranded', Rotating
      PROVE  (i \notin touched' \/ i[1] \in Open) /\ stored'[i].key \in {active, Plain, job.key}
  <2>1. i \notin stranded /\ job.kind = "rotate"
    BY <1>4 DEF Rotating
  <2>2. (i \notin touched \/ i[1] \in Open) /\ stored[i].key \in {active, Plain, job.key}
    BY <1>1, <1>4, <2>1 DEF ItemHolds
  <2>3. CASE stored'[i] = Converted(page[i])
    BY <2>1, <2>2, <2>3, ConvertedIs
  <2>4. CASE stored'[i] = page[i]
    BY <1>1, <2>2, <2>4 DEF ItemHolds
  <2> QED
    BY <2>3, <2>4
<1>5. ASSUME i \notin stranded', ~ Rotating PROVE stored'[i].key \in {rotated, Plain}
  BY <1>5
<1>6. i[1] \in Open => stored'[i].key = Plain
  BY <1>1 DEF ItemHolds
<1> QED
  BY <1>1, <1>2, <1>3, <1>4, <1>5, <1>6 DEF ItemHolds

LEMMA UpdateRows_Inv == ASSUME KeyInv, UpdateRows PROVE KeyInv'
<1> DEFINE S == {i \in DOMAIN page : Converts(page[i])}
           v == [i \in S |-> Converted(page[i])]
<1>1. /\ phase = "update" /\ WrittenBack(S, v) /\ phase' = "next" /\ pass' = NoPass /\ page' = NoPage
      /\ UNCHANGED <<active, envKey, job, todo, unread, jobs, latest, rotated, touched>>
  BY DEF UpdateRows
<1>2. /\ Running /\ Running' /\ pass \in Tables /\ DOMAIN page = RowsIn(pass)
      /\ RowsIn(pass) \subseteq Items /\ DOMAIN page' = {}
  BY <1>1, ItemsOf, ThreadTypes DEF Running, NoPage
<1>3. /\ S \subseteq DOMAIN page
      /\ \A i \in S : v[i] = Converted(page[i])
      /\ \A i \in DOMAIN page \ S : ~ Converts(page[i])
  OBVIOUS
<1>4. ASSUME NEW i \in S PROVE v[i] \in Value
  BY <1>2, <1>3, ConvertedIs, ThreadTypes
<1> HIDE DEF S, v
<1>5. /\ stored' = [i \in Items |-> IF i \in S THEN v[i] ELSE stored[i]]
      /\ raced' = raced \cup {i \in S : stored[i].text # v[i].text}
      /\ stranded' = IF Rotating THEN stranded ELSE stranded \cup {i \in S : v[i].key \notin {rotated, Plain}}
  BY <1>1 DEF WrittenBack
<1>6. /\ stored' \in [Items -> Value]
      /\ \A i \in S : stored'[i] = v[i]
      /\ \A i \in Items \ S : stored'[i] = stored[i]
  BY <1>2, <1>3, <1>4, <1>5, KeyTypes
<1>7. KeyTyped'
  <2>1. stranded' \subseteq Items /\ raced' \subseteq Items
    BY <1>2, <1>3, <1>5, KeyTypes
  <2> QED
    BY <1>1, <1>2, <1>6, <2>1, KeyTypes, KeyTyped_Step
<1>8. ThreadTyped'
  BY <1>1, <1>2, ThreadTypes DEF ThreadTyped
<1>9. ASSUME NEW i \in S PROVE ItemHolds(i)'
  <2>1. i \in Items /\ i \in DOMAIN page /\ page[i] \in Value /\ i[1] \notin Open /\ i \notin DOMAIN page'
    BY <1>2, <1>3, ItemParts, ThreadTypes DEF Fields
  <2>2. stored'[i] = Converted(page[i]) /\ stored'[i] = v[i]
    BY <1>3, <1>6
  <2>3. i \in raced' <=> i \in raced \/ stored[i].text # stored'[i].text
    BY <1>5, <2>2
  <2>4. i \in stranded' <=> i \in stranded \/ (~ Rotating /\ stored'[i].key \notin {rotated, Plain})
    BY <1>5, <2>2
  <2> QED
    BY <1>1, <1>2, <2>1, <2>2, <2>3, <2>4, WrittenHolds
<1>10. ASSUME NEW i \in Items \ S PROVE ItemHolds(i)'
  <2>1. (i \in raced' <=> i \in raced) /\ (i \in stranded => i \in stranded')
    BY <1>5
  <2>2. Through(i)' => Through(i) \/ (i \in DOMAIN page /\ page[i].key # Source)
    <3>1. CASE i[1] = pass
      <4>1. i \in DOMAIN page
        BY <1>2, <3>1, ItemParts
      <4> QED
        BY <1>2, <1>3, <4>1, ConvertedIs, ThreadTypes
    <3>2. CASE i[1] # pass
      BY <1>1, <3>2 DEF Through
    <3> QED
      BY <3>1, <3>2
  <2> QED
    BY <1>1, <1>2, <1>6, <2>1, <2>2, LeftHolds
<1> QED
  BY <1>7, <1>8, <1>9, <1>10 DEF KeyInv

\* The payload of a point is handled: the page has the others.
LEMMA Handled_Is ==
  ASSUME KeyInv, NEW p \in Points, InHand(p), Handled(p),
         UNCHANGED <<job, phase, pass, todo, unread>>
  PROVE  /\ Running /\ Running' /\ ThreadTyped'
         /\ pass \in Sealed /\ pass \in Fields /\ pass \notin Open
         /\ PayloadOf(p) \subseteq Items /\ PayloadOf(p) \subseteq DOMAIN page /\ <<pass, p>> \in Items
         /\ \A i \in DOMAIN page' : i \in DOMAIN page /\ page'[i] = page[i]
         /\ \A i \in PayloadOf(p) : i \notin DOMAIN page' /\ page[i] \in Value
         /\ \A i \in Items : Through(i)' => Through(i) \/ i = <<pass, p>>
<1>1. page' = [i \in DOMAIN page \ PayloadOf(p) |-> page[i]]
  BY DEF Handled
<1>2. phase = "points" /\ <<pass, p>> \in DOMAIN page
  BY DEF InHand
<1>3. /\ pass \in Sealed /\ pass \in Fields /\ pass \notin Open /\ Running /\ Running'
      /\ DOMAIN page \subseteq Fields \X Points
  BY <1>2, ThreadTypes DEF Running
<1>4. PayloadOf(p) \subseteq DOMAIN page
  <2>1. \A g \in Fields : <<g, p>> \in DOMAIN page
    BY <1>2, <1>3, ThreadTypes
  <2> QED
    BY <2>1 DEF PayloadOf
<1>5. /\ DOMAIN page' = DOMAIN page \ PayloadOf(p)
      /\ \A i \in DOMAIN page' : i \in DOMAIN page /\ page'[i] = page[i]
      /\ \A i \in PayloadOf(p) : i \notin DOMAIN page' /\ page[i] \in Value
  BY <1>1, <1>4, ThreadTypes
<1>6. ThreadTyped'
  <2>1. ASSUME NEW f \in Fields, NEW g \in Fields, NEW q \in Points, <<f, q>> \in DOMAIN page'
        PROVE  <<g, q>> \in DOMAIN page'
    <3>1. <<f, q>> \in DOMAIN page /\ <<f, q>> \notin PayloadOf(p)
      BY <1>5, <2>1
    <3>2. q # p
      BY <3>1, ItemsOf
    <3>3. <<g, q>> \in DOMAIN page /\ <<g, q>> \notin PayloadOf(p)
      BY <3>1, <3>2, ThreadTypes DEF PayloadOf
    <3> QED
      BY <1>5, <3>3
  <2>2. \A i \in DOMAIN page' : page'[i] \in Value
    BY <1>5, ThreadTypes
  <2> QED
    BY <1>2, <1>3, <1>5, <2>1, <2>2, ThreadTypes DEF ThreadTyped
<1>7. ASSUME NEW i \in Items, Through(i)', ~ Through(i) PROVE i = <<pass, p>>
  <2>1. i[1] = pass /\ i \in DOMAIN page /\ i \notin DOMAIN page'
    BY <1>2, <1>7 DEF Through
  <2>2. i \in PayloadOf(p)
    BY <1>5, <2>1
  <2> QED
    BY <2>1, <2>2, ItemParts
<1> QED
  BY <1>3, <1>4, <1>5, <1>6, <1>7, ItemsOf

LEMMA SkipPoint_Inv == ASSUME KeyInv, NEW p \in Points, SkipPoint(p) PROVE KeyInv'
<1>1. /\ InHand(p) /\ ~ Converts(page[<<pass, p>>]) /\ Handled(p)
      /\ UNCHANGED <<stored, active, envKey, job, phase, pass, todo, unread, jobs, latest, rotated,
                     touched, raced, stranded>>
  BY DEF SkipPoint
<1>2. KeyTyped' /\ ThreadTyped'
  BY <1>1, Handled_Is, KeyTypes, KeyTyped_Step
<1>3. ASSUME NEW i \in Items PROVE ItemHolds(i)'
  <2>1. Through(i)' => Through(i) \/ (i \in DOMAIN page /\ page[i].key # Source)
    BY <1>1, Handled_Is, ConvertedIs, ThreadTypes DEF InHand
  <2>2. Running /\ Running' /\ (i \in DOMAIN page' => i \in DOMAIN page /\ page'[i] = page[i])
    BY <1>1, Handled_Is
  <2> QED
    BY <1>1, <2>1, <2>2, LeftHolds
<1> QED
  BY <1>2, <1>3 DEF KeyInv

LEMMA UpdatePointFails_Inv == ASSUME KeyInv, NEW p \in Points, UpdatePointFails(p) PROVE KeyInv'
<1>1. /\ InHand(p) /\ PassedOver({<<pass, p>>}) /\ Handled(p)
      /\ UNCHANGED <<stored, active, envKey, job, phase, pass, todo, unread, jobs, latest, rotated, raced>>
  BY DEF UpdatePointFails
<1>2. /\ Running /\ Running' /\ ThreadTyped' /\ <<pass, p>> \in Items
      /\ \A i \in DOMAIN page' : i \in DOMAIN page /\ page'[i] = page[i]
      /\ \A i \in Items : Through(i)' => Through(i) \/ i = <<pass, p>>
  BY <1>1, Handled_Is
<1>3. <<pass, p>> \in touched'
  BY <1>1 DEF PassedOver
<1>4. \A i \in Items : i \notin touched' /\ Through(i)' => Through(i)
  BY <1>2, <1>3
<1>5. PICK S \in SUBSET Items : S = {<<pass, p>>}
  BY <1>2
<1> QED
  BY <1>1, <1>2, <1>4, <1>5, PassedOver_Inv

LEMMA UpdatePoint_Inv == ASSUME KeyInv, NEW p \in Points, UpdatePoint(p) PROVE KeyInv'
<1> DEFINE S == PayloadOf(p)
           v == [i \in S |-> IF i[1] = pass THEN Converted(page[i]) ELSE page[i]]
<1>1. /\ InHand(p) /\ WrittenBack(S, v) /\ Handled(p)
      /\ UNCHANGED <<active, envKey, job, phase, pass, todo, unread, jobs, latest, rotated, touched>>
  BY DEF UpdatePoint
<1>2. /\ Running /\ Running' /\ ThreadTyped' /\ pass \notin Open /\ S \subseteq Items /\ S \subseteq DOMAIN page
      /\ \A i \in DOMAIN page' : i \in DOMAIN page /\ page'[i] = page[i]
      /\ \A i \in S : i \notin DOMAIN page' /\ page[i] \in Value
      /\ \A i \in Items : Through(i)' => Through(i) \/ i = <<pass, p>>
      /\ <<pass, p>> \in S
  BY <1>1, Handled_Is, ItemsOf
<1>3. ASSUME NEW i \in S
      PROVE  /\ v[i] = IF i[1] = pass THEN Converted(page[i]) ELSE page[i]
             /\ v[i] \in Value
  BY <1>2, ConvertedIs
<1> HIDE DEF S, v
<1>4. /\ stored' = [i \in Items |-> IF i \in S THEN v[i] ELSE stored[i]]
      /\ raced' = raced \cup {i \in S : stored[i].text # v[i].text}
      /\ stranded' = IF Rotating THEN stranded ELSE stranded \cup {i \in S : v[i].key \notin {rotated, Plain}}
  BY <1>1 DEF WrittenBack
<1>5. /\ stored' \in [Items -> Value]
      /\ \A i \in S : stored'[i] = v[i]
      /\ \A i \in Items \ S : stored'[i] = stored[i]
  BY <1>2, <1>3, <1>4, KeyTypes
<1>6. KeyTyped'
  <2>1. stranded' \subseteq Items /\ raced' \subseteq Items
    BY <1>2, <1>4, KeyTypes
  <2> QED
    BY <1>1, <1>2, <1>5, <2>1, KeyTypes, KeyTyped_Step
<1>7. ASSUME NEW i \in S PROVE ItemHolds(i)'
  <2>1. i \in Items /\ i \in DOMAIN page /\ page[i] \in Value /\ i \notin DOMAIN page' /\ stored'[i] = v[i]
    BY <1>2, <1>5
  <2>2. \/ stored'[i] = Converted(page[i]) /\ i[1] \notin Open
        \/ stored'[i] = page[i] /\ (Through(i)' => Through(i))
    <3>1. CASE i[1] = pass
      BY <1>2, <1>3, <2>1, <3>1
    <3>2. CASE i[1] # pass
      <4>1. i # <<pass, p>>
        BY <3>2
      <4> QED
        BY <1>2, <1>3, <2>1, <3>2, <4>1
    <3> QED
      BY <3>1, <3>2
  <2>3. i \in raced' <=> i \in raced \/ stored[i].text # stored'[i].text
    BY <1>4, <2>1
  <2>4. i \in stranded' <=> i \in stranded \/ (~ Rotating /\ stored'[i].key \notin {rotated, Plain})
    BY <1>4, <2>1
  <2> QED
    BY <1>1, <1>2, <2>1, <2>2, <2>3, <2>4, WrittenHolds
<1>8. ASSUME NEW i \in Items \ S PROVE ItemHolds(i)'
  <2>1. (i \in raced' <=> i \in raced) /\ (i \in stranded => i \in stranded')
    BY <1>4
  <2>2. Through(i)' => Through(i)
    BY <1>2
  <2> QED
    BY <1>1, <1>2, <1>5, <2>1, <2>2, LeftHolds
<1> QED
  BY <1>2, <1>6, <1>7, <1>8 DEF KeyInv

\* So every step keeps it.
LEMMA TableStep_Inv == ASSUME KeyInv, TableStep PROVE KeyInv'
BY ReadRows_Inv, ReadRowsFails_Inv, UpdateRows_Inv, UpdateRowsFails_Inv, JobFails_Inv DEF TableStep

LEMMA FieldStep_Inv == ASSUME KeyInv, FieldStep PROVE KeyInv'
BY BeginField_Inv, ReadPage_Inv, ReadPageFails_Inv, EndField_Inv, SkipPoint_Inv, UpdatePoint_Inv,
   UpdatePointFails_Inv, JobFails_Inv DEF FieldStep

LEMMA KeyNext_Inv == ASSUME KeyInv, [KeyNext]_keyVars PROVE KeyInv'
<1>1. active \in Keys /\ {"rotate", "enable", "disable"} = Kinds
  BY KeyTypes DEF Kinds
<1>2. CASE SetEnvKey \/ UNCHANGED keyVars
  BY <1>2, SetEnvKey_Inv
<1>3. CASE \/ \E i \in Tables \X RowIds : WriteRow(i)
           \/ \E p \in Points : UpsertPoint(p) \/ \E f \in Open : SetField(f, p)
  BY <1>3, Writes_Inv
<1>4. CASE \/ \E key \in Keys : BeginMigration("rotate", key)
           \/ BeginMigration("enable", active) \/ BeginMigration("disable", active)
  BY <1>1, <1>4, BeginMigration_Inv
<1>5. CASE RestartProcess \/ MigrationStep
  BY <1>5, RestartProcess_Inv, TableStep_Inv, FieldStep_Inv, Finish_Inv DEF MigrationStep
<1> QED
  BY <1>2, <1>3, <1>4, <1>5 DEF KeyNext

\* And it implies what is promised.
LEMMA KeyInv_Safe == ASSUME KeyInv PROVE KeySafe
<1>1. OnlyRacesLoseText
  BY DEF KeyInv, ItemHolds, OnlyRacesLoseText
<1>2. ReadableAfterRotation
  BY DEF KeyInv, ItemHolds, ReadableAfterRotation, Rotating
<1>3. /\ stored \in [Items -> Value] /\ active \in Keys /\ envKey \in Keys /\ rotated \in Keys
      /\ job.kind \in Kinds /\ job.key \in Keys /\ job.status \in {"none", "in_progress", "completed", "error"}
      /\ jobs \in 0..MaxJobs /\ Writes \in 0..MaxWrites
      /\ touched \subseteq Items /\ raced \subseteq Items /\ stranded \subseteq Items
  BY KeyTypes DEF Writes
<1>4. /\ phase \in {"none", "next", "update", "points"} /\ (Running <=> phase # "none")
      /\ todo \subseteq Passes \ {pass} /\ unread \subseteq Points /\ (unread # {} => phase = "points")
      /\ \A i \in DOMAIN page : page[i] \in Value
  BY ThreadTypes
<1>5. /\ pass \in CASE phase = "update" -> Tables [] phase = "points" -> Sealed [] OTHER -> {NoPass}
      /\ DOMAIN page \subseteq CASE phase = "update" -> RowsIn(pass)
                                 [] phase = "points" -> Fields \X Points
                                 [] OTHER -> {}
  <2>1. CASE phase = "update"
    BY <2>1, ThreadTypes
  <2>2. CASE phase = "points"
    BY <2>2, ThreadTypes
  <2>3. CASE phase \notin {"update", "points"}
    BY <2>3, ThreadTypes
  <2> QED
    BY <2>1, <2>2, <2>3
<1>6. KeyTypeOK
  BY <1>3, <1>4, <1>5 DEF KeyTypeOK
<1> QED
  BY <1>1, <1>2, <1>6 DEF KeySafe

\* A job ends as completed in Finish only, when it is through with every value.
LEMMA KeyNext_Completes ==
  ASSUME KeyInv, [KeyNext]_keyVars, job.status = "in_progress", job'.status = "completed",
         NEW i \in Items \ touched, i[1] \in Passes
  PROVE  stored[i].key # IF job.kind = "enable" THEN Plain ELSE active
<1>1. job \in [kind : Kinds, status : {"none", "in_progress", "completed", "error"}, key : Keys]
  BY KeyTypes
<1>2. ASSUME NEW status \in {"none", "error"}, JobEnded(status) PROVE FALSE
  BY <1>1, <1>2 DEF JobEnded
<1>3. job' # job
  BY <1>1
<1>4. ~ (TableRaises \/ RestartProcess \/ \E p \in Points : DecryptRaises(p))
  BY <1>2 DEF TableRaises, RestartProcess, DecryptRaises
<1>5. ~ \E kind \in Kinds, key \in Keys : BeginMigration(kind, key)
  BY DEF BeginMigration, Running
<1>6. ~ (SetEnvKey \/ UNCHANGED keyVars \/ \E S \in SUBSET Items : WriteTexts(S))
  BY <1>3 DEF SetEnvKey, keyVars, WriteTexts
<1>7. ~ \/ \E t \in Tables : ReadRows(t) \/ ReadRowsFails(t)
        \/ UpdateRows \/ UpdateRowsFails
  BY <1>3 DEF ReadRows, ReadRowsFails, UpdateRows, UpdateRowsFails
<1>8. ~ \/ \E f \in Sealed : BeginField(f)
        \/ \E S \in SUBSET Points : ReadPage(S)
        \/ ReadPageFails \/ EndField
        \/ \E p \in Points : SkipPoint(p) \/ UpdatePoint(p) \/ UpdatePointFails(p)
  BY <1>3 DEF BeginField, ReadPage, ReadPageFails, EndField, SkipPoint, UpdatePoint, UpdatePointFails
<1>9. ~ \/ \E o \in Tables \X RowIds : WriteRow(o)
        \/ \E p \in Points : UpsertPoint(p) \/ \E f \in Open : SetField(f, p)
  <2>1. ~ \E o \in Tables \X RowIds : WriteRow(o)
    BY <1>6 DEF WriteRow, Items
  <2>2. ~ \E p \in Points : UpsertPoint(p)
    BY <1>6, ItemsOf DEF UpsertPoint
  <2>3. ~ \E p \in Points : \E f \in Open : SetField(f, p)
    BY <1>6, ItemsOf DEF SetField, Fields
  <2> QED
    BY <2>1, <2>2, <2>3
<1>10. ~ \/ \E key \in Keys : BeginMigration("rotate", key)
         \/ BeginMigration("enable", active) \/ BeginMigration("disable", active)
  BY <1>5, KeyTypes DEF Kinds
<1>11. Finish
  BY <1>4, <1>6, <1>7, <1>8, <1>9, <1>10 DEF KeyNext, MigrationStep, TableStep, FieldStep
<1>12. phase = "next" /\ todo = {} /\ pass = NoPass /\ Running
  BY <1>11, ThreadTypes DEF Finish
<1>13. Through(i)
  BY <1>12, ThreadTypes DEF Through
<1>14. ItemHolds(i)
  BY KeyTypes
<1> QED
  BY <1>12, <1>13, <1>14 DEF ItemHolds, Source

-----------------------------------------------------------------------------
(* The notes (Vault)                                                       *)

IngestionRow == [at : {"idle", "hash", "log", "index"}, links : 0..note, hash : 0..note]

VaultTyped ==
  /\ note \in 1..MaxNoteEdits /\ noteLog \in 0..note /\ ingestions \in Nat
  /\ ingestion \in [VaultThreads -> IngestionRow]

\* A thread that is to write the row has the hash of an edit; one that is to
\* write the links has read them.
HasRead(t) ==
  /\ ingestion[t].at = "log" => ingestion[t].hash # 0
  /\ ingestion[t].at = "index" => ingestion[t].hash # 0 /\ t # LinkWatcher
  /\ ingestion[t].at # "idle" /\ t # LinkWatcher => ingestion[t].links # 0

\* A row that nobody else has spoilt has its links, or a thread that brings them.
Brings(t) == ingestion[t].at = "index" /\ ingestion[t].links = noteLog /\ ingestion[t].hash = noteLog
RowHasLinks == noteLog # 0 => noteLog \in unlinked \cup linked \/ \E t \in VaultThreads : Brings(t)

VaultInv ==
  /\ VaultTyped /\ RowHasLinks /\ NoOtherLinks
  /\ linked \subseteq 1..note
  /\ \A t \in VaultThreads : HasRead(t)

\* It holds at the start, and each action of the module keeps it.
LEMMA VaultInit_Inv == ASSUME VaultInit PROVE VaultInv
<1>1. /\ NoIngestion \in [at : {"idle", "hash", "log", "index"}, links : 0..1, hash : 0..1]
      /\ NoIngestion.at = "idle"
  BY DEF NoIngestion
<1>2. note = 1 /\ VaultTyped
  BY <1>1, VaultAssumption DEF VaultInit, VaultTyped, IngestionRow
<1>3. \A t \in VaultThreads : HasRead(t)
  BY <1>1 DEF VaultInit, HasRead
<1>4. NoOtherLinks /\ RowHasLinks /\ linked \subseteq 1..note
  BY DEF VaultInit, NoOtherLinks, RowHasLinks
<1> QED
  BY <1>2, <1>3, <1>4 DEF VaultInv

LEMMA EditNote_Inv == ASSUME VaultInv, EditNote PROVE VaultInv'
<1>1. /\ note' = note + 1 /\ note < MaxNoteEdits /\ note \in Nat /\ MaxNoteEdits \in Nat
      /\ UNCHANGED <<noteLog, index, ingestion, ingestions, unlinked, linked>>
  BY VaultAssumption DEF EditNote, VaultInv, VaultTyped
<1>2. 0..note \subseteq 0..note' /\ 1..note \subseteq 1..note' /\ note' \in 1..MaxNoteEdits
  BY <1>1
<1>3. VaultTyped'
  <2>1. \A t \in VaultThreads : ingestion[t] \in IngestionRow'
    BY <1>2 DEF IngestionRow, VaultInv, VaultTyped
  <2>2. ingestion' \in [VaultThreads -> IngestionRow']
    BY <1>1, <2>1 DEF VaultInv, VaultTyped
  <2> QED
    BY <1>1, <1>2, <2>2 DEF VaultTyped, VaultInv, IngestionRow
<1>4. RowHasLinks' /\ NoOtherLinks' /\ (linked \subseteq 1..note)' /\ \A t \in VaultThreads : HasRead(t)'
  BY <1>1, <1>2 DEF VaultInv, RowHasLinks, Brings, NoOtherLinks, HasRead
<1> QED
  BY <1>3, <1>4 DEF VaultInv

\* What a step of a thread does to the threads.
LEMMA NoteGoesTo ==
  ASSUME VaultInv, NEW t \in VaultThreads, NEW here, NEW next \in IngestionRow,
         NoteGoes(t, here, next), UNCHANGED note
  PROVE  /\ ingestion' \in [VaultThreads -> IngestionRow'] /\ ingestion'[t] = next
         /\ ingestion[t].at = here /\ ingestion[t] \in IngestionRow
         /\ \A u \in VaultThreads \ {t} : ingestion'[u] = ingestion[u]
<1>1. ingestion \in [VaultThreads -> IngestionRow] /\ ingestion' = [ingestion EXCEPT ![t] = next]
  BY DEF VaultInv, VaultTyped, NoteGoes
<1>2. IngestionRow' = IngestionRow
  BY DEF IngestionRow
<1> QED
  BY <1>1, <1>2 DEF NoteGoes

\* A thread at rest is typed.
LEMMA IdleNote ==
  ASSUME VaultInv
  PROVE  /\ NoIngestion \in IngestionRow /\ NoIngestion.at = "idle"
         /\ NoIngestion.links = 0 /\ NoIngestion.hash = 0
         /\ note \in Nat /\ note # 0 /\ noteLog \in 0..note /\ MaxNoteEdits \in Nat
<1>1. note \in Nat /\ note # 0 /\ noteLog \in 0..note /\ MaxNoteEdits \in Nat /\ 0 \in 0..note
  BY VaultAssumption DEF VaultInv, VaultTyped
<1> QED
  BY <1>1 DEF NoIngestion, IngestionRow

LEMMA ReadNote_Inv == ASSUME VaultInv, NEW t \in VaultThreads, ReadNote(t) PROVE VaultInv'
<1> DEFINE next == [at |-> "hash", links |-> IF t = LinkWatcher THEN 0 ELSE note, hash |-> 0]
<1>1. /\ NoteGoes(t, "idle", next) /\ ingestions' = ingestions + 1
      /\ UNCHANGED <<note, noteLog, index, unlinked, linked>>
  BY DEF ReadNote
<1>2. /\ next \in IngestionRow /\ next.at = "hash"
      /\ t # LinkWatcher => next.links # 0
  BY IdleNote DEF IngestionRow
<1> HIDE DEF next
<1>3. /\ ingestion' \in [VaultThreads -> IngestionRow'] /\ ingestion'[t] = next
      /\ ingestion[t].at = "idle" /\ \A u \in VaultThreads \ {t} : ingestion'[u] = ingestion[u]
  BY <1>1, <1>2, NoteGoesTo
<1>4. VaultTyped'
  BY <1>1, <1>3 DEF VaultInv, VaultTyped
<1>5. \A u \in VaultThreads : HasRead(u)'
  BY <1>2, <1>3 DEF VaultInv, HasRead
<1>6. RowHasLinks'
  BY <1>1, <1>3 DEF VaultInv, RowHasLinks, Brings
<1> QED
  BY <1>1, <1>4, <1>5, <1>6 DEF VaultInv, NoOtherLinks

LEMMA HashNote_Inv == ASSUME VaultInv, NEW t \in VaultThreads, HashNote(t) PROVE VaultInv'
<1> DEFINE next == IF noteLog = note THEN NoIngestion
                   ELSE [ingestion[t] EXCEPT !.at = "log", !.hash = note]
<1>1. /\ NoteGoes(t, "hash", next)
      /\ UNCHANGED <<note, noteLog, index, ingestions, unlinked, linked>>
  BY DEF HashNote
<1>2. ingestion[t] \in IngestionRow /\ ingestion[t].at = "hash"
  BY <1>1 DEF VaultInv, VaultTyped, NoteGoes
<1>3. /\ next \in IngestionRow /\ next.at \in {"idle", "log"}
      /\ next.at = "log" => next.hash # 0 /\ next.links = ingestion[t].links
  <2> DEFINE content == [ingestion[t] EXCEPT !.at = "log", !.hash = note]
  <2>1. content \in IngestionRow /\ content.at = "log" /\ content.hash = note /\ content.links = ingestion[t].links
    <3>1. note \in 0..note
      BY IdleNote
    <3>2. content \in IngestionRow
      BY <1>2, <3>1 DEF IngestionRow
    <3>3. content.at = "log" /\ content.hash = note /\ content.links = ingestion[t].links
      BY <1>2 DEF IngestionRow
    <3> QED
      BY <3>2, <3>3
  <2>2. next = NoIngestion \/ next = content
    OBVIOUS
  <2> HIDE DEF next, content
  <2> QED
    BY <2>1, <2>2, IdleNote
<1> HIDE DEF next
<1>4. /\ ingestion' \in [VaultThreads -> IngestionRow'] /\ ingestion'[t] = next
      /\ \A u \in VaultThreads \ {t} : ingestion'[u] = ingestion[u]
  BY <1>1, <1>3, NoteGoesTo
<1>5. VaultTyped'
  BY <1>1, <1>4 DEF VaultInv, VaultTyped
<1>6. \A u \in VaultThreads : HasRead(u)'
  BY <1>2, <1>3, <1>4 DEF VaultInv, HasRead
<1>7. RowHasLinks'
  BY <1>1, <1>2, <1>4 DEF VaultInv, RowHasLinks, Brings
<1> QED
  BY <1>1, <1>5, <1>6, <1>7 DEF VaultInv, NoOtherLinks

LEMMA LogNote_Inv == ASSUME VaultInv, NEW t \in VaultThreads, LogNote(t) PROVE VaultInv'
<1> DEFINE next == IF t = LinkWatcher THEN NoIngestion ELSE [ingestion[t] EXCEPT !.at = "index"]
<1>1. /\ NoteGoes(t, "log", next) /\ noteLog' = ingestion[t].hash
      /\ unlinked' = IF t # LinkWatcher /\ ingestion[t].links = ingestion[t].hash THEN unlinked
                     ELSE unlinked \cup {ingestion[t].hash}
      /\ UNCHANGED <<note, index, ingestions, linked>>
  BY DEF LogNote
<1>2. ingestion[t] \in IngestionRow /\ ingestion[t].at = "log" /\ ingestion[t].hash \in 0..note
  BY <1>1 DEF VaultInv, VaultTyped, NoteGoes, IngestionRow
<1>3. /\ next \in IngestionRow
      /\ t = LinkWatcher => next.at = "idle"
      /\ t # LinkWatcher => next.at = "index" /\ next.links = ingestion[t].links /\ next.hash = ingestion[t].hash
  BY <1>2, IdleNote DEF IngestionRow
<1> HIDE DEF next
<1>4. /\ ingestion' \in [VaultThreads -> IngestionRow'] /\ ingestion'[t] = next
      /\ \A u \in VaultThreads \ {t} : ingestion'[u] = ingestion[u]
  BY <1>1, <1>3, NoteGoesTo
<1>5. VaultTyped'
  BY <1>1, <1>2, <1>4 DEF VaultInv, VaultTyped
<1>6. \A u \in VaultThreads : HasRead(u)'
  BY <1>2, <1>3, <1>4 DEF VaultInv, HasRead
<1>7. RowHasLinks'
  BY <1>1, <1>3, <1>4 DEF RowHasLinks, Brings
<1> QED
  BY <1>1, <1>5, <1>6, <1>7 DEF VaultInv, NoOtherLinks

LEMMA NoteFails_Inv == ASSUME VaultInv, NEW t \in VaultThreads, NoteFails(t) PROVE VaultInv'
<1>1. /\ NoteGoes(t, "log", NoIngestion) /\ noteLog' = 0
      /\ UNCHANGED <<note, index, ingestions, unlinked, linked>>
  BY DEF NoteFails
<1>2. /\ ingestion' \in [VaultThreads -> IngestionRow'] /\ ingestion'[t] = NoIngestion
      /\ \A u \in VaultThreads \ {t} : ingestion'[u] = ingestion[u]
  BY <1>1, NoteGoesTo, IdleNote
<1>3. VaultTyped'
  BY <1>1, <1>2, IdleNote DEF VaultInv, VaultTyped
<1>4. \A u \in VaultThreads : HasRead(u)'
  BY <1>2, IdleNote DEF VaultInv, HasRead
<1> QED
  BY <1>1, <1>3, <1>4 DEF VaultInv, NoOtherLinks, RowHasLinks

LEMMA UpdateIndex_Inv == ASSUME VaultInv, NEW t \in VaultThreads, UpdateIndex(t) PROVE VaultInv'
<1>1. /\ NoteGoes(t, "index", NoIngestion)
      /\ \/ /\ index' = index \cup LinksOf[ingestion[t].links]
            /\ linked' = linked \cup {ingestion[t].links} /\ UNCHANGED unlinked
         \/ /\ unlinked' = unlinked \cup {ingestion[t].hash}
            /\ UNCHANGED <<index, linked>>
      /\ UNCHANGED <<note, noteLog, ingestions>>
  BY DEF UpdateIndex, Indexed
<1>2. /\ ingestion' \in [VaultThreads -> IngestionRow'] /\ ingestion'[t] = NoIngestion
      /\ ingestion[t].at = "index" /\ ingestion[t].links \in 0..note
      /\ \A u \in VaultThreads \ {t} : ingestion'[u] = ingestion[u]
  BY <1>1, NoteGoesTo, IdleNote DEF IngestionRow
<1>3. ingestion[t].links \in 1..note
  <2>1. ingestion[t].links # 0
    BY <1>2 DEF VaultInv, HasRead
  <2> QED
    BY <1>2, <2>1, IdleNote
<1>4. VaultTyped'
  BY <1>1, <1>2, IdleNote DEF VaultInv, VaultTyped
<1>5. \A u \in VaultThreads : HasRead(u)'
  BY <1>2, IdleNote DEF VaultInv, HasRead
<1>6. RowHasLinks'
  BY <1>1, <1>2 DEF VaultInv, RowHasLinks, Brings
<1>7. NoOtherLinks' /\ (linked \subseteq 1..note)'
  <2>1. NoOtherLinks
    BY DEF VaultInv
  <2>2. CASE index' = index \cup LinksOf[ingestion[t].links] /\ linked' = linked \cup {ingestion[t].links}
    <3>1. PICK n \in 1..note : n = ingestion[t].links
      BY <1>3
    <3>2. index' = index \cup LinksOf[n] /\ linked' = linked \cup {n} /\ note' = note
      BY <2>2, <3>1, <1>1
    <3>3. \A x : x \in index <=> \E e \in linked : x \in LinksOf[e]
      BY <2>1 DEF NoOtherLinks
    <3>4. NoOtherLinks'
      <4>1. \A x : x \in index' <=> \E e \in linked' : x \in LinksOf[e]
        BY <3>2, <3>3
      <4> QED
        BY <4>1 DEF NoOtherLinks
    <3>5. (linked \subseteq 1..note)'
      BY <3>2 DEF VaultInv
    <3> QED
      BY <3>4, <3>5
  <2>3. CASE UNCHANGED <<index, linked>>
    BY <2>1, <2>3, <1>1 DEF VaultInv, NoOtherLinks
  <2> QED
    BY <1>1, <2>2, <2>3
<1> QED
  BY <1>4, <1>5, <1>6, <1>7 DEF VaultInv

\* So every step keeps it.
LEMMA VaultNext_Inv == ASSUME VaultInv, [VaultNext]_vaultVars PROVE VaultInv'
<1>1. CASE UNCHANGED vaultVars
  BY <1>1 DEF vaultVars, VaultInv, VaultTyped, IngestionRow, HasRead, RowHasLinks, Brings, NoOtherLinks
<1>2. CASE VaultNext
  BY <1>2, EditNote_Inv, ReadNote_Inv, HashNote_Inv, LogNote_Inv, NoteFails_Inv, UpdateIndex_Inv
     DEF VaultNext
<1> QED
  BY <1>1, <1>2

\* And it implies what is promised.
LEMMA VaultInv_Safe == ASSUME VaultInv PROVE VaultSafe
<1>1. VaultTypeOK
  <2>1. \A e \in linked : LinksOf[e] \subseteq Links
    BY VaultAssumption DEF VaultInv, VaultTyped
  <2>2. index \subseteq Links
    BY <2>1 DEF VaultInv, NoOtherLinks
  <2>3. \A t \in VaultThreads : ingestion[t].links <= note /\ ingestion[t].hash <= note
    <3> TAKE t \in VaultThreads
    <3>1. ingestion[t] \in IngestionRow
      BY DEF VaultInv, VaultTyped
    <3> QED
      BY <3>1, IdleNote DEF IngestionRow
  <2> QED
    BY <2>2, <2>3 DEF VaultInv, VaultTyped, VaultTypeOK
<1>2. LinksAreFound
  <2> SUFFICES ASSUME \A t \in VaultThreads : ingestion[t] = NoIngestion, noteLog # 0, noteLog \notin unlinked
               PROVE  LinksOf[noteLog] \subseteq index
    BY DEF LinksAreFound
  <2>1. noteLog \in linked
    BY IdleNote DEF VaultInv, RowHasLinks, Brings
  <2> QED
    BY <2>1 DEF VaultInv, NoOtherLinks
<1> QED
  BY <1>1, <1>2 DEF VaultInv, VaultSafe

-----------------------------------------------------------------------------
(* The local documents (LocalDocs)                                         *)

IngestPlaces == {"free", "hash", "lookup", "skip", "known", "delete",
                 "extract", "upsert", "log", "fail", "error", "remove", "purge", "mark"}
IngestRow ==
  [at : IngestPlaces, hash : Contents \cup {NoFile}, text : Contents \cup {NoFile}, doc : 0..docs]
DocsRow ==
  [doc : 0..docs, hash : Contents \cup {NoFile},
   status : {"none", "indexed", "skipped", "error", "deleted"}]

DocsTyped ==
  /\ file \in Contents \cup {NoFile} /\ docs \in Nat /\ used \in 0..MaxInputs
  /\ event \in BOOLEAN /\ timer \in BOOLEAN /\ clean \in BOOLEAN /\ torn \in BOOLEAN
  /\ entry \in DocsRow /\ ingest \in [Ingestors -> IngestRow]
  /\ \A w \in Ingestors : ingest[w].at = "upsert" => ingest[w].doc # 0 /\ ingest[w].text \in Contents

PiecesTyped ==
  /\ \A k \in chunks : k.doc \in 1..docs /\ k.of \in Contents /\ k.index \in 1..Pieces[k.of]
  /\ \A k, l \in chunks : k.doc = l.doc /\ k.index = l.index => k = l

\* The watcher has nothing to tell of the file.
Seen == ~ event /\ ~ timer /\ file # NoFile

OfTheRow == (\A k \in chunks : k.doc = entry.doc) /\ OneVersion
RowIsStored ==
  ~ torn /\ entry.hash # NoFile =>
    entry.hash \in Contents \ {Large, Broken} /\ chunks = ChunksOf(entry.doc, entry.hash)

\* What is found when no thread is at work, and what a thread at work knows.
AtRest ==
  /\ OfTheRow /\ RowIsStored
  /\ Seen /\ ~ torn =>
       /\ file = Large => entry.status = "error"
       /\ file = Broken => chunks = {} /\ entry.status = "error"
       /\ file \notin {Large, Broken} => entry.hash = file /\ chunks = ChunksOf(entry.doc, file)
Knows(i) ==
  /\ i.at \notin {"remove", "purge", "mark"}
  /\ i.at \in {"hash", "lookup", "skip", "known", "delete"} => OfTheRow /\ RowIsStored
  /\ i.at \in {"lookup", "skip", "known", "delete", "extract", "upsert", "log"} =>
       i.hash \in Contents \ {Large} /\ (Seen => i.hash = file)
  /\ i.at = "skip" => entry.hash = i.hash
  /\ i.at \in {"delete", "extract"} => i.doc = entry.doc
  /\ i.at \in {"extract", "upsert"} => chunks = {}
  /\ i.at \in {"upsert", "log", "error"} => i.doc # 0 /\ (entry.doc # 0 => i.doc = entry.doc)
  /\ i.at \in {"upsert", "log"} => i.text \in Contents \ {Broken} /\ (~ torn => i.text = i.hash)
  /\ i.at = "log" => chunks = ChunksOf(i.doc, i.text)
  /\ i.at \in {"fail", "error"} =>
       OfTheRow /\ (Seen => file = Large \/ (file = Broken /\ chunks = {}))

OneAtWork == \A v, w \in Ingestors : ingest[v].at # "free" /\ ingest[w].at # "free" => v = w

DocsInv ==
  /\ DocsTyped /\ PiecesTyped
  /\ clean => /\ OneAtWork
              /\ (\A w \in Ingestors : ingest[w].at = "free") => AtRest
              /\ \A w \in Ingestors : ingest[w].at # "free" => Knows(ingest[w])

\* It holds at the start, and each action of the module keeps it.
LEMMA DocsInit_Inv == ASSUME DocsInit PROVE DocsInv
<1>1. /\ Free.at = "free" /\ Free \in [at : IngestPlaces, hash : Contents \cup {NoFile},
                                       text : Contents \cup {NoFile}, doc : 0..0]
      /\ NoEntry.doc = 0 /\ NoEntry.hash = NoFile
      /\ NoEntry \in [doc : 0..0, hash : Contents \cup {NoFile},
                      status : {"none", "indexed", "skipped", "error", "deleted"}]
  BY DEF Free, NoEntry, IngestPlaces
<1>2. DocsTyped
  <2>1. docs = 0 /\ entry = NoEntry
    BY DEF DocsInit
  <2>3. entry \in DocsRow /\ Free \in IngestRow
    BY <1>1, <2>1 DEF DocsRow, IngestRow
  <2>2. ingest \in [Ingestors -> IngestRow] /\ \A w \in Ingestors : ingest[w].at = "free"
    BY <1>1, <2>3 DEF DocsInit
  <2>4. /\ file = NoFile /\ used = 0 /\ event = FALSE /\ timer = FALSE
        /\ clean = TRUE /\ torn = FALSE
    BY DEF DocsInit
  <2>5. 0 \in 0..MaxInputs
    BY DocsAssumption
  <2> QED
    BY <2>1, <2>2, <2>3, <2>4, <2>5 DEF DocsTyped
<1>3. PiecesTyped
  BY DEF DocsInit, PiecesTyped
<1>4. AtRest /\ \A w \in Ingestors : ingest[w].at = "free"
  BY <1>1 DEF DocsInit, AtRest, OfTheRow, OneVersion, RowIsStored, Seen
<1> QED
  BY <1>2, <1>3, <1>4 DEF DocsInv, OneAtWork

\* The parts of the typing, one by one.
LEMMA DocsTypes ==
  ASSUME DocsTyped
  PROVE  /\ file \in Contents \cup {NoFile} /\ docs \in Nat /\ entry \in DocsRow
         /\ entry.doc \in 0..docs /\ entry.hash \in Contents \cup {NoFile}
         /\ \A w \in Ingestors :
              /\ ingest[w] \in IngestRow /\ ingest[w].at \in IngestPlaces /\ ingest[w].doc \in 0..docs
              /\ ingest[w].hash \in Contents \cup {NoFile} /\ ingest[w].text \in Contents \cup {NoFile}
         /\ Large \in Contents /\ Broken \in Contents /\ Broken # Large /\ NoFile \notin Contents
  BY DocsAssumption DEF DocsTyped, DocsRow, IngestRow

\* A thread at work takes a step; if nothing has disturbed it, it was alone.
LEMMA WorkerMoves ==
  ASSUME DocsInv, NEW w \in Ingestors, ingest[w].at # "free", DocsTyped', PiecesTyped', clean' => clean,
         \A v \in Ingestors \ {w} : ingest'[v] = ingest[v],
         clean' => /\ ingest'[w].at = "free" => AtRest'
                   /\ ingest'[w].at # "free" => Knows(ingest[w])'
  PROVE  DocsInv'
<1> SUFFICES ASSUME clean'
             PROVE  /\ OneAtWork'
                    /\ (\A v \in Ingestors : ingest'[v].at = "free") => AtRest'
                    /\ \A v \in Ingestors : ingest'[v].at # "free" => Knows(ingest[v])'
  BY DEF DocsInv
<1>1. \A v \in Ingestors \ {w} : ingest[v].at = "free"
  BY DEF DocsInv, OneAtWork
<1>2. \A v \in Ingestors \ {w} : ingest'[v].at = "free"
  BY <1>1
<1> QED
  BY <1>2 DEF OneAtWork

\* Nothing of what is stored or known changes.
LEMMA KnowsStays ==
  ASSUME DocsInv, NEW w \in Ingestors, clean, ingest[w].at # "free",
         UNCHANGED <<file, event, timer, entry, chunks, torn>>
  PROVE  /\ Knows(ingest[w])
         /\ OfTheRow' = OfTheRow /\ RowIsStored' = RowIsStored /\ Seen' = Seen
<1>1. Knows(ingest[w])
  BY DEF DocsInv
<1>2. OfTheRow' = OfTheRow /\ Seen' = Seen
  BY DEF OfTheRow, OneVersion, Seen
<1>3. RowIsStored' = RowIsStored
  BY DEF RowIsStored
<1> QED
  BY <1>1, <1>2, <1>3

-----------------------------------------------------------------------------

LEMMA EditFile_Inv ==
  ASSUME DocsInv, NEW c \in Contents \cup {NoFile}, Edit(c) PROVE DocsInv'
<1>1. /\ used' = used + 1 /\ used < MaxInputs /\ file' = c
      /\ event' = (event \/ c # NoFile)
      /\ UNCHANGED <<timer, entry, chunks, ingest, docs, clean, torn>>
  BY DEF Edit, Input
<1>2. ~ Seen'
  BY <1>1 DEF Seen
<1>3. DocsTyped'
  <2>1. used' \in 0..MaxInputs /\ event' \in BOOLEAN
    BY <1>1, DocsAssumption DEF DocsInv, DocsTyped
  <2> QED
    BY <1>1, <2>1 DEF DocsInv, DocsTyped, IngestRow, DocsRow
<1>4. PiecesTyped'
  BY <1>1 DEF DocsInv, PiecesTyped
<1>5. AtRest => AtRest'
  BY <1>1, <1>2 DEF AtRest, OfTheRow, OneVersion, RowIsStored
<1>6. \A w \in Ingestors : Knows(ingest[w]) => Knows(ingest[w])'
  BY <1>1, <1>2 DEF Knows, OfTheRow, OneVersion, RowIsStored
<1> QED
  BY <1>1, <1>3, <1>4, <1>5, <1>6 DEF DocsInv, OneAtWork

LEMMA HandleEvent_Inv == ASSUME DocsInv, HandleEvent PROVE DocsInv'
<1>1. /\ event' = FALSE /\ timer' = TRUE
      /\ UNCHANGED <<file, entry, chunks, ingest, docs, used, clean, torn>>
  BY DEF HandleEvent
<1>2. ~ Seen'
  BY <1>1 DEF Seen
<1>3. DocsTyped' /\ PiecesTyped'
  BY <1>1 DEF DocsInv, DocsTyped, IngestRow, DocsRow, PiecesTyped
<1>5. AtRest => AtRest'
  BY <1>1, <1>2 DEF AtRest, OfTheRow, OneVersion, RowIsStored
<1>6. \A w \in Ingestors : Knows(ingest[w]) => Knows(ingest[w])'
  BY <1>1, <1>2 DEF Knows, OfTheRow, OneVersion, RowIsStored
<1> QED
  BY <1>1, <1>3, <1>5, <1>6 DEF DocsInv, OneAtWork

\* A thread that starts alone finds what there is at rest.
LEMMA Start_Inv ==
  ASSUME DocsInv, NEW w \in Ingestors, NEW place \in {"hash", "remove"}, Start(w, place),
         used' \in 0..MaxInputs, timer' \in BOOLEAN,
         UNCHANGED <<file, event, entry, chunks, docs, torn>>
  PROVE  DocsInv'
<1>1. /\ ingest[w].at = "free" /\ ingest' = [ingest EXCEPT ![w].at = place]
      /\ clean' = (clean /\ Working = {} /\ place # "remove")
  BY DEF Start, At
<1>2. ingest[w] \in IngestRow /\ ingest \in [Ingestors -> IngestRow]
  BY DEF DocsInv, DocsTyped
<1>3. [ingest[w] EXCEPT !.at = place] \in IngestRow /\ [ingest[w] EXCEPT !.at = place].at = place
  BY <1>2 DEF IngestRow, IngestPlaces
<1>4. /\ ingest' \in [Ingestors -> IngestRow] /\ ingest'[w].at = place
      /\ \A v \in Ingestors \ {w} : ingest'[v] = ingest[v]
  BY <1>1, <1>2, <1>3
<1>5. DocsTyped'
  <2>1. clean' \in BOOLEAN
    BY <1>1
  <2>2. IngestRow' = IngestRow /\ DocsRow' = DocsRow
    BY DEF IngestRow, DocsRow
  <2> QED
    BY <1>4, <2>1, <2>2 DEF DocsInv, DocsTyped
<1>6. PiecesTyped'
  BY DEF DocsInv, PiecesTyped
<1>7. ASSUME clean'
      PROVE  /\ OneAtWork'
             /\ (\A v \in Ingestors : ingest'[v].at = "free") => AtRest'
             /\ \A v \in Ingestors : ingest'[v].at # "free" => Knows(ingest[v])'
  <2>1. clean /\ Working = {} /\ place = "hash"
    BY <1>1, <1>7
  <2>2. \A v \in Ingestors : ingest[v].at = "free"
    BY <2>1 DEF Working
  <2>3. AtRest
    BY <2>1, <2>2 DEF DocsInv
  <2>4. OfTheRow' /\ RowIsStored'
    BY <2>3 DEF AtRest, OfTheRow, OneVersion, RowIsStored
  <2>5. Knows(ingest[w])'
    BY <1>4, <2>1, <2>4 DEF Knows
  <2>6. \A v \in Ingestors \ {w} : ingest'[v].at = "free"
    BY <1>4, <2>2
  <2> QED
    BY <1>4, <2>5, <2>6 DEF OneAtWork
<1> QED
  BY <1>5, <1>6, <1>7 DEF DocsInv

LEMMA TimerFires_Inv == ASSUME DocsInv, NEW w \in Ingestors, TimerFires(w) PROVE DocsInv'
  BY Start_Inv DEF TimerFires, DocsInv, DocsTyped

LEMMA RequestFile_Inv == ASSUME DocsInv, NEW w \in Ingestors, Request(w) PROVE DocsInv'
<1>1. used' \in 0..MaxInputs
  BY DocsAssumption DEF Request, Input, DocsInv, DocsTyped
<1>2. timer' \in BOOLEAN /\ UNCHANGED <<file, event, entry, chunks, docs, torn>>
  BY DEF Request, DocsInv, DocsTyped
<1>3. CASE Start(w, "hash")
  BY <1>1, <1>2, <1>3, Start_Inv
<1>4. CASE Start(w, "remove")
  BY <1>1, <1>2, <1>4, Start_Inv
<1> QED
  BY <1>3, <1>4 DEF Request

LEMMA CrashDocs_Inv == ASSUME DocsInv, CrashDocs PROVE DocsInv'
<1>1. /\ used' \in 0..MaxInputs /\ ingest' = [w \in Ingestors |-> Free]
      /\ event' = FALSE /\ timer' = FALSE
      /\ clean' = (clean /\ ~ event /\ ~ timer /\ Working = {})
      /\ UNCHANGED <<file, entry, chunks, docs, torn>>
  BY DocsAssumption DEF CrashDocs, Input, DocsInv, DocsTyped
<1>2. Free \in IngestRow /\ Free.at = "free"
  BY DocsTypes DEF Free, IngestRow, IngestPlaces, DocsInv
<1>3. DocsTyped'
  <2>1. ingest' \in [Ingestors -> IngestRow] /\ \A w \in Ingestors : ingest'[w].at = "free"
    BY <1>1, <1>2
  <2>2. IngestRow' = IngestRow /\ DocsRow' = DocsRow
    BY <1>1 DEF IngestRow, DocsRow
  <2> QED
    BY <1>1, <2>1, <2>2 DEF DocsInv, DocsTyped
<1>4. PiecesTyped'
  BY <1>1 DEF DocsInv, PiecesTyped
<1>5. ASSUME clean' PROVE AtRest'
  <2>1. clean /\ ~ event /\ ~ timer /\ \A w \in Ingestors : ingest[w].at = "free"
    BY <1>1, <1>5 DEF Working
  <2>2. AtRest
    BY <2>1 DEF DocsInv
  <2> QED
    BY <1>1, <2>1, <2>2 DEF AtRest, OfTheRow, OneVersion, RowIsStored, Seen
<1>6. \A w \in Ingestors : ingest'[w].at = "free"
  BY <1>1, <1>2
<1> QED
  BY <1>3, <1>4, <1>5, <1>6 DEF DocsInv, OneAtWork

-----------------------------------------------------------------------------

\* Where a step of a thread takes it.
LEMMA AtGoes ==
  ASSUME DocsInv, NEW w \in Ingestors, NEW place \in IngestPlaces, At(w, place), docs' = docs
  PROVE  /\ ingest' \in [Ingestors -> IngestRow'] /\ ingest'[w].at = place
         /\ ingest'[w].hash = ingest[w].hash /\ ingest'[w].text = ingest[w].text
         /\ ingest'[w].doc = ingest[w].doc
         /\ \A v \in Ingestors \ {w} : ingest'[v] = ingest[v]
<1> DEFINE r == [ingest[w] EXCEPT !.at = place]
<1>1. ingest[w] \in IngestRow /\ ingest \in [Ingestors -> IngestRow]
  BY DEF DocsInv, DocsTyped
<1>2. r \in IngestRow
  BY <1>1 DEF IngestRow
<1>3. /\ r.at = place /\ r.hash = ingest[w].hash
      /\ r.text = ingest[w].text /\ r.doc = ingest[w].doc
  BY <1>1 DEF IngestRow
<1>4. IngestRow' = IngestRow /\ ingest' = [ingest EXCEPT ![w] = r]
  BY DEF IngestRow, At
<1> QED
  BY <1>1, <1>2, <1>3, <1>4

\* A thread that leaves is at rest, and the others stay.
LEMMA LeaveGoes ==
  ASSUME DocsInv, NEW w \in Ingestors, Leave(w), docs' = docs
  PROVE  /\ ingest' \in [Ingestors -> IngestRow'] /\ ingest'[w].at = "free"
         /\ \A v \in Ingestors \ {w} : ingest'[v] = ingest[v]
<1>1. Free \in IngestRow /\ Free.at = "free"
  BY DocsTypes DEF Free, IngestRow, IngestPlaces, DocsInv
<1>2. ingest \in [Ingestors -> IngestRow] /\ IngestRow' = IngestRow
  BY DEF DocsInv, DocsTyped, IngestRow
<1> QED
  BY <1>1, <1>2 DEF Leave

\* The types when only the threads have changed.
LEMMA OnlyThreads ==
  ASSUME DocsInv, NEW w \in Ingestors, ingest' \in [Ingestors -> IngestRow'],
         \A v \in Ingestors \ {w} : ingest'[v] = ingest[v], ingest'[w].at # "upsert",
         UNCHANGED <<file, event, timer, entry, chunks, docs, used, clean, torn>>
  PROVE  DocsTyped' /\ PiecesTyped'
  BY DEF DocsInv, DocsTyped, DocsRow, PiecesTyped

LEMMA ReadHash_Inv == ASSUME DocsInv, NEW w \in Ingestors, ReadHash(w) PROVE DocsInv'
<1>1. /\ ingest[w].at = "hash"
      /\ UNCHANGED <<file, event, timer, entry, chunks, docs, used, clean, torn>>
  BY DEF ReadHash
<1>2. ASSUME clean PROVE /\ OfTheRow' /\ RowIsStored' /\ Seen' = Seen
  BY <1>1, <1>2, KnowsStays DEF Knows
<1>3. CASE file = NoFile
  <2>1. Leave(w)
    BY <1>3, DocsAssumption DEF ReadHash
  <2>2. DocsTyped' /\ PiecesTyped'
    BY <1>1, <2>1, LeaveGoes, OnlyThreads
  <2>3. clean => AtRest'
    BY <1>1, <1>2, <1>3 DEF AtRest, Seen
  <2> QED
    BY <1>1, <2>1, <2>2, <2>3, LeaveGoes, WorkerMoves
<1>4. CASE file = Large
  <2>1. At(w, "fail")
    BY <1>4, DocsAssumption DEF ReadHash
  <2>2. DocsTyped' /\ PiecesTyped' /\ ingest'[w].at = "fail"
    BY <1>1, <2>1, AtGoes, OnlyThreads DEF IngestPlaces
  <2>3. clean => Knows(ingest[w])'
    BY <1>1, <1>2, <1>4, <2>2 DEF Knows
  <2> QED
    BY <1>1, <2>1, <2>2, <2>3, AtGoes, WorkerMoves DEF IngestPlaces
<1>5. CASE file \notin {NoFile, Large}
  <2> DEFINE r == [ingest[w] EXCEPT !.at = "lookup", !.hash = file]
  <2>1. ingest' = [ingest EXCEPT ![w] = r]
    <3>1. ingest' = [ingest EXCEPT ![w].at = "lookup", ![w].hash = file]
      BY <1>5 DEF ReadHash
    <3> QED
      BY <3>1 DEF DocsInv, DocsTyped, IngestRow
  <2>2. r \in IngestRow /\ r.at = "lookup" /\ r.hash = file
    BY DocsTypes DEF IngestRow, IngestPlaces, DocsInv
  <2> HIDE DEF r
  <2>3. /\ ingest' \in [Ingestors -> IngestRow'] /\ ingest'[w] = r
        /\ \A v \in Ingestors \ {w} : ingest'[v] = ingest[v]
    BY <1>1, <2>1, <2>2 DEF DocsInv, DocsTyped, IngestRow
  <2>4. DocsTyped' /\ PiecesTyped'
    BY <1>1, <2>2, <2>3, OnlyThreads
  <2>5. clean => Knows(ingest[w])'
    BY <1>1, <1>2, <1>5, <2>2, <2>3, DocsTypes DEF Knows, DocsInv
  <2> QED
    BY <1>1, <2>2, <2>3, <2>4, <2>5, WorkerMoves
<1> QED
  BY <1>3, <1>4, <1>5

LEMMA LookupHash_Inv == ASSUME DocsInv, NEW w \in Ingestors, Lookup(w) PROVE DocsInv'
<1> DEFINE place == IF entry.hash = ingest[w].hash THEN "skip" ELSE "known"
<1>1. /\ ingest[w].at = "lookup" /\ At(w, place) /\ place \in IngestPlaces
      /\ UNCHANGED <<file, event, timer, entry, chunks, docs, used, clean, torn>>
  BY DEF Lookup, IngestPlaces
<1>2. place \in {"skip", "known"} /\ (place = "skip" => entry.hash = ingest[w].hash)
  OBVIOUS
<1> HIDE DEF place
<1>3. /\ ingest' \in [Ingestors -> IngestRow'] /\ ingest'[w].at = place /\ ingest'[w].hash = ingest[w].hash
      /\ \A v \in Ingestors \ {w} : ingest'[v] = ingest[v]
  BY <1>1, AtGoes
<1>4. DocsTyped' /\ PiecesTyped'
  BY <1>1, <1>2, <1>3, OnlyThreads
<1>5. clean => Knows(ingest[w])'
  BY <1>1, <1>2, <1>3, KnowsStays DEF Knows
<1> QED
  BY <1>1, <1>2, <1>3, <1>4, <1>5, WorkerMoves

LEMMA KnownDocument_Inv == ASSUME DocsInv, NEW w \in Ingestors, Known(w) PROVE DocsInv'
<1> DEFINE place == IF entry.doc = 0 THEN "extract" ELSE "delete"
           r == [ingest[w] EXCEPT !.doc = entry.doc, !.at = place]
<1>1. /\ ingest[w].at = "known"
      /\ ingest' = [ingest EXCEPT ![w].doc = entry.doc, ![w].at = place]
      /\ UNCHANGED <<file, event, timer, entry, chunks, docs, used, clean, torn>>
  BY DEF Known
<1>2. place \in {"extract", "delete"} /\ (place = "extract" => entry.doc = 0)
  OBVIOUS
<1> HIDE DEF place
<1>3. /\ r \in IngestRow /\ r.at = place /\ r.doc = entry.doc /\ r.hash = ingest[w].hash
  <2>1. ingest[w] \in IngestRow /\ entry.doc \in 0..docs /\ place \in IngestPlaces
    BY <1>2, DocsTypes DEF DocsInv, IngestPlaces
  <2> QED
    BY <2>1 DEF IngestRow
<1>4. ingest' = [ingest EXCEPT ![w] = r] /\ ingest \in [Ingestors -> IngestRow]
  BY <1>1 DEF DocsInv, DocsTyped, IngestRow
<1> HIDE DEF r
<1>5. /\ ingest' \in [Ingestors -> IngestRow'] /\ ingest'[w] = r
      /\ \A v \in Ingestors \ {w} : ingest'[v] = ingest[v]
  <2>1. IngestRow' = IngestRow
    BY <1>1 DEF IngestRow
  <2> QED
    BY <1>3, <1>4, <2>1
<1>6. DocsTyped' /\ PiecesTyped'
  BY <1>1, <1>2, <1>3, <1>5, OnlyThreads
<1>7. ASSUME clean PROVE Knows(ingest[w])'
  <2>1. /\ Knows(ingest[w]) /\ OfTheRow' = OfTheRow /\ RowIsStored' = RowIsStored /\ Seen' = Seen
    BY <1>1, <1>7, KnowsStays
  <2>2. place = "extract" => chunks' = {}
    <3> SUFFICES ASSUME place = "extract", NEW k \in chunks PROVE FALSE
      BY <1>1
    <3>1. k.doc = 0
      BY <1>1, <1>2, <2>1 DEF Knows, OfTheRow, OneVersion
    <3>2. k.doc \in 1..docs
      BY DEF DocsInv, PiecesTyped
    <3> QED
      BY <3>1, <3>2, DocsTypes DEF DocsInv
  <2> QED
    BY <1>1, <1>2, <1>3, <1>5, <2>1, <2>2 DEF Knows
<1> QED
  BY <1>1, <1>2, <1>3, <1>5, <1>6, <1>7, WorkerMoves

LEMMA CheckRemove_Inv == ASSUME DocsInv, NEW w \in Ingestors, CheckRemove(w) PROVE DocsInv'
<1>1. /\ ingest[w].at = "remove"
      /\ UNCHANGED <<file, event, timer, entry, chunks, docs, used, clean, torn>>
  BY DEF CheckRemove
<1>2. ~ clean
  BY <1>1 DEF DocsInv, Knows
<1>3. CASE Leave(w)
  BY <1>1, <1>2, <1>3, LeaveGoes, OnlyThreads, WorkerMoves
<1>4. CASE ingest' = [ingest EXCEPT ![w].at = "purge", ![w].doc = entry.doc]
  <2> DEFINE r == [ingest[w] EXCEPT !.at = "purge", !.doc = entry.doc]
  <2>1. r \in IngestRow /\ r.at = "purge"
    BY DocsTypes DEF IngestRow, IngestPlaces, DocsInv
  <2>2. ingest' = [ingest EXCEPT ![w] = r] /\ ingest \in [Ingestors -> IngestRow]
    BY <1>4 DEF DocsInv, DocsTyped, IngestRow
  <2>3. /\ ingest' \in [Ingestors -> IngestRow'] /\ ingest'[w].at = "purge"
        /\ \A v \in Ingestors \ {w} : ingest'[v] = ingest[v]
    <3>1. IngestRow' = IngestRow
      BY <1>1 DEF IngestRow
    <3> QED
      BY <2>1, <2>2, <3>1
  <2> QED
    BY <1>1, <1>2, <2>3, OnlyThreads, WorkerMoves
<1> QED
  BY <1>3, <1>4 DEF CheckRemove

\* A thread that writes the row leaves.
LEMMA RowIsWritten ==
  ASSUME DocsInv, NEW w \in Ingestors, Leave(w), entry' \in DocsRow, ingest[w].at # "free",
         UNCHANGED <<file, event, timer, chunks, docs, used, clean, torn>>,
         clean => AtRest'
  PROVE  DocsInv'
<1>1. /\ ingest' \in [Ingestors -> IngestRow'] /\ ingest'[w].at = "free"
      /\ \A v \in Ingestors \ {w} : ingest'[v] = ingest[v]
  BY LeaveGoes
<1>2. DocsTyped' /\ PiecesTyped'
  BY <1>1 DEF DocsInv, DocsTyped, DocsRow, PiecesTyped
<1> QED
  BY <1>1, <1>2, WorkerMoves

LEMMA SkipFile_Inv == ASSUME DocsInv, NEW w \in Ingestors, Skip(w) PROVE DocsInv'
<1>1. /\ ingest[w].at = "skip" /\ Leave(w)
      /\ entry' = IF entry.doc = 0 THEN entry ELSE [entry EXCEPT !.status = "skipped"]
      /\ UNCHANGED <<file, event, timer, chunks, docs, used, clean, torn>>
  BY DEF Skip
<1>2. entry' \in DocsRow /\ entry'.doc = entry.doc /\ entry'.hash = entry.hash
  <2>1. entry \in DocsRow
    BY DEF DocsInv, DocsTyped
  <2>2. /\ [entry EXCEPT !.status = "skipped"] \in DocsRow
        /\ [entry EXCEPT !.status = "skipped"].doc = entry.doc
        /\ [entry EXCEPT !.status = "skipped"].hash = entry.hash
    BY <2>1 DEF DocsRow
  <2> QED
    BY <1>1, <2>1, <2>2
<1>3. ASSUME clean PROVE AtRest'
  <2>1. Knows(ingest[w])
    BY <1>1, <1>3 DEF DocsInv
  <2>2. OfTheRow' /\ RowIsStored' /\ Seen' = Seen
    BY <1>1, <1>2, <2>1 DEF Knows, OfTheRow, OneVersion, RowIsStored, Seen, ChunksOf
  <2>3. ASSUME Seen, ~ torn PROVE file \notin {Large, Broken} /\ entry.hash = file /\ chunks = ChunksOf(entry.doc, file)
    <3>1. entry.hash = ingest[w].hash /\ ingest[w].hash \in Contents \ {Large} /\ ingest[w].hash = file
      BY <1>1, <2>1, <2>3 DEF Knows
    <3>2. RowIsStored /\ entry.hash # NoFile
      BY <1>1, <2>1, <3>1, DocsAssumption DEF Knows
    <3> QED
      BY <2>3, <3>1, <3>2 DEF RowIsStored
  <2>4. ASSUME Seen', ~ torn'
        PROVE  file' \notin {Large, Broken} /\ entry'.hash = file' /\ chunks' = ChunksOf(entry'.doc, file')
    BY <1>1, <1>2, <2>2, <2>3, <2>4
  <2> QED
    BY <2>2, <2>4 DEF AtRest, ChunksOf
<1> QED
  BY <1>1, <1>2, <1>3, RowIsWritten

LEMMA LogFile_Inv == ASSUME DocsInv, NEW w \in Ingestors, Log(w) PROVE DocsInv'
<1>1. /\ ingest[w].at = "log" /\ Leave(w)
      /\ entry' = [doc |-> ingest[w].doc, hash |-> ingest[w].hash, status |-> "indexed"]
      /\ UNCHANGED <<file, event, timer, chunks, docs, used, clean, torn>>
  BY DEF Log
<1>2. entry' \in DocsRow /\ entry'.doc = ingest[w].doc /\ entry'.hash = ingest[w].hash
  <2>1. ingest[w].doc \in 0..docs /\ ingest[w].hash \in Contents \cup {NoFile}
    BY DocsTypes DEF DocsInv
  <2> QED
    BY <1>1, <2>1 DEF DocsRow
<1>3. ASSUME clean PROVE AtRest'
  <2>1. Knows(ingest[w])
    BY <1>1, <1>3 DEF DocsInv
  <2>2. /\ ingest[w].hash \in Contents \ {Large} /\ (Seen => ingest[w].hash = file)
        /\ ingest[w].text \in Contents \ {Broken} /\ (~ torn => ingest[w].text = ingest[w].hash)
        /\ chunks = ChunksOf(ingest[w].doc, ingest[w].text)
    BY <1>1, <2>1 DEF Knows
  <2>3. OfTheRow'
    BY <1>1, <1>2, <2>2 DEF OfTheRow, OneVersion, ChunksOf
  <2>4. chunks' = chunks /\ torn' = torn /\ file' = file /\ Seen' = Seen
    BY <1>1 DEF Seen
  <2>5. ~ torn => chunks = ChunksOf(entry'.doc, entry'.hash) /\ entry'.hash \in Contents \ {Large, Broken}
    BY <1>2, <2>2
  <2>6. RowIsStored'
    BY <1>1, <2>4, <2>5 DEF RowIsStored, ChunksOf
  <2>7. ASSUME Seen', ~ torn'
        PROVE  file' \notin {Large, Broken} /\ entry'.hash = file' /\ chunks' = ChunksOf(entry'.doc, file')
    BY <1>2, <2>2, <2>4, <2>5, <2>7 DEF ChunksOf
  <2> QED
    BY <2>3, <2>6, <2>7 DEF AtRest, ChunksOf
<1> QED
  BY <1>1, <1>2, <1>3, RowIsWritten

LEMMA LogError_Inv == ASSUME DocsInv, NEW w \in Ingestors, LogError(w) PROVE DocsInv'
<1>1. /\ ingest[w].at = "error" /\ Leave(w)
      /\ entry' = [doc |-> ingest[w].doc, hash |-> NoFile, status |-> "error"]
      /\ UNCHANGED <<file, event, timer, chunks, docs, used, clean, torn>>
  BY DEF LogError
<1>2. entry' \in DocsRow /\ entry'.doc = ingest[w].doc /\ entry'.hash = NoFile /\ entry'.status = "error"
  <2>1. ingest[w].doc \in 0..docs
    BY DocsTypes DEF DocsInv
  <2> QED
    BY <1>1, <2>1 DEF DocsRow
<1>3. ASSUME clean PROVE AtRest'
  <2>1. Knows(ingest[w])
    BY <1>1, <1>3 DEF DocsInv
  <2>2. /\ ingest[w].doc # 0 /\ (entry.doc # 0 => ingest[w].doc = entry.doc)
        /\ OfTheRow /\ (Seen => file = Large \/ (file = Broken /\ chunks = {}))
    BY <1>1, <2>1 DEF Knows
  <2>3. OfTheRow'
    <3>1. CASE chunks = {}
      BY <1>1, <3>1 DEF OfTheRow, OneVersion
    <3>2. ASSUME NEW k \in chunks PROVE entry'.doc = entry.doc
      <4>1. k.doc = entry.doc /\ k.doc \in 1..docs
        BY <2>2 DEF OfTheRow, DocsInv, PiecesTyped
      <4>2. entry.doc # 0
        BY <4>1, DocsTypes DEF DocsInv
      <4> QED
        BY <1>2, <2>2, <4>2
    <3> QED
      BY <1>1, <2>2, <3>1, <3>2 DEF OfTheRow, OneVersion, ChunksOf
  <2>4. RowIsStored'
    BY <1>2, DocsAssumption DEF RowIsStored
  <2>5. Seen' = Seen
    BY <1>1 DEF Seen
  <2> QED
    BY <1>1, <1>2, <2>2, <2>3, <2>4, <2>5, DocsAssumption DEF AtRest
<1> QED
  BY <1>1, <1>2, <1>3, RowIsWritten

LEMMA MarkDeleted_Inv == ASSUME DocsInv, NEW w \in Ingestors, MarkDeleted(w) PROVE DocsInv'
<1>1. /\ ingest[w].at = "mark" /\ Leave(w)
      /\ entry' = IF entry.doc # ingest[w].doc THEN entry ELSE [entry EXCEPT !.status = "deleted"]
      /\ UNCHANGED <<file, event, timer, chunks, docs, used, clean, torn>>
  BY DEF MarkDeleted
<1>2. entry' \in DocsRow
  <2>1. entry \in DocsRow /\ [entry EXCEPT !.status = "deleted"] \in DocsRow
    BY DEF DocsInv, DocsTyped, DocsRow
  <2> QED
    BY <1>1, <2>1
<1>3. ~ clean
  BY <1>1 DEF DocsInv, Knows
<1> QED
  BY <1>1, <1>2, <1>3, RowIsWritten

LEMMA FailFile_Inv == ASSUME DocsInv, NEW w \in Ingestors, Fail(w) PROVE DocsInv'
<1> DEFINE id == IF entry.doc = 0 THEN docs + 1 ELSE entry.doc
           r == [ingest[w] EXCEPT !.at = "error", !.doc = id]
<1>1. /\ ingest[w].at = "fail" /\ docs' = (IF entry.doc = 0 THEN docs + 1 ELSE docs)
      /\ ingest' = [ingest EXCEPT ![w].at = "error", ![w].doc = id]
      /\ UNCHANGED <<file, event, timer, entry, chunks, used, clean, torn>>
  BY DEF Fail
<1>2. /\ docs' \in Nat /\ docs <= docs' /\ docs \in Nat /\ id \in 0..docs' /\ id # 0
      /\ (entry.doc # 0 => id = entry.doc)
  BY <1>1, DocsTypes DEF DocsInv
<1> HIDE DEF id
<1>3. 0..docs \subseteq 0..docs' /\ 1..docs \subseteq 1..docs'
  BY <1>2
<1>4. IngestRow \subseteq IngestRow' /\ DocsRow \subseteq DocsRow'
  BY <1>3 DEF IngestRow, DocsRow
<1>5. r \in IngestRow' /\ r.at = "error" /\ r.doc = id
  <2>1. ingest[w] \in IngestRow' /\ id \in 0..docs' /\ "error" \in IngestPlaces
    BY <1>2, <1>4, DocsTypes DEF DocsInv, IngestPlaces
  <2> QED
    BY <2>1 DEF IngestRow
<1>6. ingest' = [ingest EXCEPT ![w] = r] /\ ingest \in [Ingestors -> IngestRow']
  BY <1>1, <1>4 DEF DocsInv, DocsTyped, IngestRow
<1> HIDE DEF r
<1>7. /\ ingest' \in [Ingestors -> IngestRow'] /\ ingest'[w] = r
      /\ \A v \in Ingestors \ {w} : ingest'[v] = ingest[v]
  BY <1>5, <1>6
<1>8. DocsTyped'
  BY <1>1, <1>2, <1>4, <1>5, <1>7 DEF DocsInv, DocsTyped
<1>9. PiecesTyped'
  BY <1>1, <1>3 DEF DocsInv, PiecesTyped
<1>10. ASSUME clean PROVE Knows(ingest[w])'
  <2>1. /\ Knows(ingest[w]) /\ OfTheRow' = OfTheRow /\ RowIsStored' = RowIsStored /\ Seen' = Seen
    BY <1>1, <1>10, KnowsStays
  <2> QED
    BY <1>1, <1>2, <1>5, <1>7, <2>1 DEF Knows
<1> QED
  BY <1>1, <1>5, <1>7, <1>8, <1>9, <1>10, WorkerMoves

LEMMA DeleteChunks_Inv == ASSUME DocsInv, NEW w \in Ingestors, DeleteChunks(w) PROVE DocsInv'
<1> DEFINE place == IF ingest[w].at = "delete" THEN "extract" ELSE "mark"
<1>1. /\ ingest[w].at \in {"delete", "purge"} /\ At(w, place)
      /\ UNCHANGED <<file, event, timer, entry, docs, torn>>
      /\ chunks' \subseteq chunks
      /\ \/ chunks' = Without(ingest[w].doc) /\ UNCHANGED <<used, clean>>
         \/ Input /\ clean' = FALSE
  BY DEF DeleteChunks, Without
<1>2. place \in {"extract", "mark"} /\ place \in IngestPlaces /\ (ingest[w].at = "delete" => place = "extract")
  BY DEF IngestPlaces
<1> HIDE DEF place
<1>3. /\ ingest' \in [Ingestors -> IngestRow'] /\ ingest'[w].at = place
      /\ ingest'[w].hash = ingest[w].hash /\ ingest'[w].doc = ingest[w].doc
      /\ \A v \in Ingestors \ {w} : ingest'[v] = ingest[v]
  BY <1>1, <1>2, AtGoes
<1>4. used' \in 0..MaxInputs /\ clean' \in BOOLEAN /\ (clean' => clean)
  <2>1. used' = used \/ (used < MaxInputs /\ used' = used + 1)
    BY <1>1 DEF Input
  <2>2. used' \in 0..MaxInputs
    BY <2>1, DocsAssumption DEF DocsInv, DocsTyped
  <2>3. clean' = clean \/ clean' = FALSE
    BY <1>1
  <2>4. clean \in BOOLEAN
    BY DEF DocsInv, DocsTyped
  <2>5. clean' \in BOOLEAN
    BY <2>3, <2>4
  <2>6. clean' => clean
    BY <2>3
  <2> QED
    BY <2>2, <2>5, <2>6
<1>5. DocsTyped'
  BY <1>1, <1>2, <1>3, <1>4 DEF DocsInv, DocsTyped, DocsRow
<1>6. PiecesTyped'
  BY <1>1 DEF DocsInv, PiecesTyped
<1>7. ASSUME clean' PROVE Knows(ingest[w])'
  <2>1. Knows(ingest[w]) /\ chunks' = Without(ingest[w].doc) /\ ingest[w].at = "delete"
    BY <1>1, <1>4, <1>7 DEF DocsInv, Knows
  <2>2. chunks' = {}
    BY <2>1 DEF Knows, OfTheRow, OneVersion, Without
  <2>3. Seen' = Seen
    BY <1>1 DEF Seen
  <2> QED
    BY <1>1, <1>2, <1>3, <2>1, <2>2, <2>3 DEF Knows
<1> QED
  BY <1>1, <1>2, <1>3, <1>4, <1>5, <1>6, <1>7, WorkerMoves

LEMMA ExtractText_Inv == ASSUME DocsInv, NEW w \in Ingestors, Extract(w) PROVE DocsInv'
<1>1. /\ ingest[w].at = "extract" /\ UNCHANGED <<file, event, timer, entry, chunks, used, clean>>
  BY DEF Extract
<1>2. CASE file \in {NoFile, Broken}
  <2>1. At(w, "fail") /\ UNCHANGED <<docs, torn>>
    BY <1>2 DEF Extract
  <2>2. /\ ingest' \in [Ingestors -> IngestRow'] /\ ingest'[w].at = "fail"
        /\ \A v \in Ingestors \ {w} : ingest'[v] = ingest[v]
    BY <2>1, AtGoes DEF IngestPlaces
  <2>3. DocsTyped' /\ PiecesTyped'
    BY <1>1, <2>1, <2>2, OnlyThreads
  <2>4. ASSUME clean PROVE Knows(ingest[w])'
    <3>1. Knows(ingest[w]) /\ chunks' = {}
      BY <1>1, <2>4 DEF DocsInv, Knows
    <3>2. Seen' => file' = Broken
      BY <1>1, <1>2 DEF Seen
    <3> QED
      BY <2>2, <3>1, <3>2 DEF Knows, OfTheRow, OneVersion
  <2> QED
    BY <1>1, <2>2, <2>3, <2>4, WorkerMoves
<1>3. CASE file \notin {NoFile, Broken}
  <2> DEFINE id == IF ingest[w].doc = 0 THEN docs + 1 ELSE ingest[w].doc
             r == [ingest[w] EXCEPT !.at = "upsert", !.text = file, !.doc = id]
  <2>1. /\ docs' = (IF ingest[w].doc = 0 THEN id ELSE docs)
        /\ ingest' = [ingest EXCEPT ![w].at = "upsert", ![w].text = file, ![w].doc = id]
        /\ torn' = (file # ingest[w].hash)
    BY <1>3 DEF Extract
  <2>2. /\ docs' \in Nat /\ docs <= docs' /\ docs \in Nat /\ id \in 0..docs' /\ id # 0
        /\ (ingest[w].doc # 0 => id = ingest[w].doc)
    BY <2>1, DocsTypes DEF DocsInv
  <2> HIDE DEF id
  <2>3. 0..docs \subseteq 0..docs' /\ 1..docs \subseteq 1..docs'
    BY <2>2
  <2>4. IngestRow \subseteq IngestRow' /\ DocsRow \subseteq DocsRow'
    BY <2>3 DEF IngestRow, DocsRow
  <2>5. r \in IngestRow' /\ r.at = "upsert" /\ r.doc = id /\ r.text = file /\ r.hash = ingest[w].hash
    <3>1. ingest[w] \in IngestRow' /\ id \in 0..docs' /\ "upsert" \in IngestPlaces /\ file \in Contents \cup {NoFile}
      BY <2>2, <2>4, DocsTypes DEF DocsInv, IngestPlaces
    <3> QED
      BY <3>1 DEF IngestRow
  <2>6. ingest' = [ingest EXCEPT ![w] = r] /\ ingest \in [Ingestors -> IngestRow']
    BY <2>1, <2>4 DEF DocsInv, DocsTyped, IngestRow
  <2> HIDE DEF r
  <2>7. /\ ingest' \in [Ingestors -> IngestRow'] /\ ingest'[w] = r
        /\ \A v \in Ingestors \ {w} : ingest'[v] = ingest[v]
    BY <2>5, <2>6
  <2>8. file \in Contents \ {Broken}
    BY <1>3, DocsTypes DEF DocsInv
  <2>9. DocsTyped'
    BY <1>1, <2>1, <2>2, <2>4, <2>5, <2>7, <2>8 DEF DocsInv, DocsTyped
  <2>10. PiecesTyped'
    BY <1>1, <2>3 DEF DocsInv, PiecesTyped
  <2>11. ASSUME clean PROVE Knows(ingest[w])'
    <3>1. Knows(ingest[w])
      BY <1>1, <2>11 DEF DocsInv
    <3>2. /\ ingest[w].hash \in Contents \ {Large} /\ (Seen => ingest[w].hash = file)
          /\ ingest[w].doc = entry.doc /\ chunks = {}
      BY <1>1, <3>1 DEF Knows
    <3>3. chunks' = chunks /\ entry' = entry /\ file' = file /\ (Seen' <=> Seen)
      BY <1>1 DEF Seen
    <3>4. /\ ingest'[w].at = "upsert" /\ ingest'[w].hash = ingest[w].hash
          /\ ingest'[w].doc = id
      BY <2>5, <2>7
    <3>5. id # 0 /\ (entry.doc # 0 => id = entry.doc)
      BY <2>2, <3>2
    <3>6. ingest'[w].text \in Contents \ {Broken} /\ (~ torn' => ingest'[w].text = ingest[w].hash)
      BY <2>1, <2>5, <2>7, <2>8
    <3>7. PICK n : n = ingest'[w]
      OBVIOUS
    <3>8. /\ n.at = "upsert" /\ n.hash \in Contents \ {Large} /\ (Seen' => n.hash = file')
          /\ chunks' = {} /\ n.doc # 0 /\ (entry'.doc # 0 => n.doc = entry'.doc)
          /\ n.text \in Contents \ {Broken} /\ (~ torn' => n.text = n.hash)
      BY <3>2, <3>3, <3>4, <3>5, <3>6, <3>7
    <3> QED
      BY <3>7, <3>8 DEF Knows
  <2> QED
    BY <1>1, <2>5, <2>7, <2>9, <2>10, <2>11, WorkerMoves
<1> QED
  BY <1>2, <1>3

\* What is put replaces what had its place.
LEMMA PutIsTyped ==
  ASSUME DocsInv, NEW d \in 1..docs, NEW c \in Contents, NEW new, new \subseteq ChunksOf(d, c),
         chunks' = Put(new), docs' = docs
  PROVE  PiecesTyped'
<1>1. \A k \in new : k.doc = d /\ k.of = c /\ k.index \in 1..Pieces[c]
  BY DEF ChunksOf
<1>2. \A k, l \in new : k.index = l.index => k = l
  BY DEF ChunksOf
<1>3. \A k \in chunks' : k \in new \/ (k \in chunks /\ \A n \in new : k.doc # n.doc \/ k.index # n.index)
  BY DEF Put
<1>4. \A k \in chunks' : k.doc \in 1..docs /\ k.of \in Contents /\ k.index \in 1..Pieces[k.of]
  BY <1>1, <1>3 DEF DocsInv, PiecesTyped
<1>5. \A k, l \in chunks' : k.doc = l.doc /\ k.index = l.index => k = l
  BY <1>1, <1>2, <1>3 DEF DocsInv, PiecesTyped
<1> QED
  BY <1>4, <1>5 DEF PiecesTyped

LEMMA UpsertChunks_Inv == ASSUME DocsInv, NEW w \in Ingestors, Upsert(w) PROVE DocsInv'
<1> DEFINE all == ChunksOf(ingest[w].doc, ingest[w].text)
<1>1. /\ ingest[w].at = "upsert" /\ UNCHANGED <<file, event, timer, entry, docs, torn>>
  BY DEF Upsert
<1>2. PICK new \in SUBSET all :
        /\ chunks' = Put(new)
        /\ \/ new = all /\ At(w, "log") /\ UNCHANGED <<used, clean>>
           \/ Input /\ (At(w, "log") \/ Leave(w)) /\ clean' = FALSE
  BY DEF Upsert
<1>3. ingest[w].doc \in 1..docs /\ ingest[w].text \in Contents
  <2>1. ingest[w].doc # 0 /\ ingest[w].text \in Contents /\ ingest[w].doc \in 0..docs /\ docs \in Nat
    BY <1>1, DocsTypes DEF DocsInv, DocsTyped
  <2> QED
    BY <2>1
<1>4. PiecesTyped'
  BY <1>1, <1>2, <1>3, PutIsTyped
<1>5. used' \in 0..MaxInputs /\ clean' \in BOOLEAN /\ (clean' => clean)
  <2>1. used' = used \/ (used < MaxInputs /\ used' = used + 1)
    BY <1>2 DEF Input
  <2>2. used' \in 0..MaxInputs
    BY <2>1, DocsAssumption DEF DocsInv, DocsTyped
  <2>3. clean' = clean \/ clean' = FALSE
    BY <1>2
  <2>4. clean \in BOOLEAN
    BY DEF DocsInv, DocsTyped
  <2>5. clean' \in BOOLEAN
    BY <2>3, <2>4
  <2>6. clean' => clean
    BY <2>3
  <2> QED
    BY <2>2, <2>5, <2>6
<1>6. /\ ingest' \in [Ingestors -> IngestRow'] /\ ingest'[w].at \in {"log", "free"}
      /\ \A v \in Ingestors \ {w} : ingest'[v] = ingest[v]
      /\ (At(w, "log") => ingest'[w].at = "log" /\ ingest'[w].hash = ingest[w].hash
                          /\ ingest'[w].text = ingest[w].text /\ ingest'[w].doc = ingest[w].doc)
  BY <1>1, <1>2, AtGoes, LeaveGoes DEF IngestPlaces
<1>7. DocsTyped'
  BY <1>1, <1>5, <1>6 DEF DocsInv, DocsTyped, DocsRow
<1>8. ASSUME clean' PROVE ingest'[w].at = "log" /\ Knows(ingest[w])'
  <2>1. Knows(ingest[w]) /\ new = all /\ At(w, "log")
    BY <1>1, <1>2, <1>5, <1>8 DEF DocsInv
  <2>2. chunks = {} /\ chunks' = all
    BY <1>1, <1>2, <2>1 DEF Knows, Put
  <2>3. Seen' = Seen
    BY <1>1 DEF Seen
  <2>4. /\ ingest'[w].at = "log" /\ ingest'[w].hash = ingest[w].hash
        /\ ingest'[w].text = ingest[w].text /\ ingest'[w].doc = ingest[w].doc
    BY <1>6, <2>1
  <2> QED
    BY <1>1, <2>1, <2>2, <2>3, <2>4 DEF Knows, ChunksOf
<1> QED
  BY <1>1, <1>4, <1>5, <1>6, <1>7, <1>8, WorkerMoves

\* So every step keeps it.
LEMMA DocsNext_Inv == ASSUME DocsInv, [DocsNext]_docsVars PROVE DocsInv'
<1>1. CASE UNCHANGED docsVars
  <2>1. DocsTyped' /\ PiecesTyped'
    BY <1>1 DEF docsVars, DocsInv, DocsTyped, IngestRow, DocsRow, PiecesTyped
  <2>2. (AtRest => AtRest') /\ \A w \in Ingestors : Knows(ingest[w]) => Knows(ingest[w])'
    BY <1>1 DEF docsVars, AtRest, Knows, OfTheRow, OneVersion, RowIsStored, Seen
  <2> QED
    BY <1>1, <2>1, <2>2 DEF docsVars, DocsInv, OneAtWork
<1>2. CASE DocsNext
  <2>1. ASSUME NEW w \in Ingestors, IngestStep(w) PROVE DocsInv'
    BY <2>1, ReadHash_Inv, LookupHash_Inv, SkipFile_Inv, KnownDocument_Inv, DeleteChunks_Inv,
       ExtractText_Inv, UpsertChunks_Inv, LogFile_Inv, FailFile_Inv, LogError_Inv, CheckRemove_Inv,
       MarkDeleted_Inv DEF IngestStep
  <2> QED
    BY <1>2, <2>1, EditFile_Inv, RequestFile_Inv, CrashDocs_Inv, HandleEvent_Inv, TimerFires_Inv
       DEF DocsNext, DocsStep
<1> QED
  BY <1>1, <1>2

\* And it implies what is promised.
LEMMA DocsInv_Safe == ASSUME DocsInv PROVE DocsSafe
<1>1. DocsTypeOK
  BY DocsTypes DEF DocsInv, DocsTyped, PiecesTyped, DocsTypeOK, IngestPlaces, DocsRow
<1>2. FoundIsTheFile
  <2> SUFFICES ASSUME clean, Settled
               PROVE  /\ OneVersion
                      /\ ~ torn =>
                           CASE file = NoFile -> TRUE
                             [] file = Large -> entry.status = "error"
                             [] file = Broken -> chunks = {} /\ entry.status = "error"
                             [] OTHER -> entry.hash = file /\ chunks = ChunksOf(entry.doc, file)
    BY DEF FoundIsTheFile
  <2>1. AtRest /\ OneVersion
    BY DEF DocsInv, Settled, Working, AtRest, OfTheRow
  <2>2. ~ event /\ ~ timer
    BY DEF Settled
  <2>3. CASE file = NoFile \/ torn
    BY <2>1, <2>3, DocsAssumption
  <2>4. CASE file # NoFile /\ ~ torn
    <3>1. /\ file = Large => entry.status = "error"
          /\ file = Broken => chunks = {} /\ entry.status = "error"
          /\ file \notin {Large, Broken} => entry.hash = file /\ chunks = ChunksOf(entry.doc, file)
      BY <2>1, <2>2, <2>4 DEF AtRest, Seen
    <3> QED
      BY <2>1, <2>4, <3>1, DocsAssumption
  <2> QED
    BY <2>3, <2>4
<1>3. NoOrphanChunk
  <2> SUFFICES ASSUME clean, NEW k \in chunks, k.doc # entry.doc
               PROVE  \E w \in Working : k.doc = ingest[w].doc
    BY DEF NoOrphanChunk
  <2>1. PICK w \in Ingestors : ingest[w].at # "free"
    BY DEF DocsInv, AtRest, OfTheRow, OneVersion
  <2>2. Knows(ingest[w])
    BY <2>1 DEF DocsInv
  <2>3. ingest[w].at = "log"
    <3>1. ingest[w].at \in IngestPlaces
      BY DocsTypes DEF DocsInv
    <3> QED
      BY <2>1, <2>2, <3>1 DEF Knows, OfTheRow, OneVersion, IngestPlaces
  <2>4. k.doc = ingest[w].doc
    BY <2>2, <2>3 DEF Knows, ChunksOf
  <2> QED
    BY <2>1, <2>4 DEF Working
<1> QED
  BY <1>1, <1>2, <1>3 DEF DocsSafe
=============================================================================
