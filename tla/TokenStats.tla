------------------------------ MODULE TokenStats ------------------------------
(***************************************************************************)
(* The token tracker (token_optimizer.py): counters of what the model      *)
(* calls cost, under one lock, written to a file of lines by a reset and   *)
(* by the shutdown hook of the bridge, and read from its last line at the  *)
(* start. The lock is a threading.Lock: who holds it and takes it again    *)
(* waits too.                                                              *)
(***************************************************************************)
EXTENDS Naturals

CONSTANTS
  Requests,  \* threads of the pool
  Main,      \* the thread of the event loop, which runs the shutdown hook
  Nobody,
  MaxCost    \* bound: beyond it the counters are equal

VARIABLES
  holder,  \* who holds the lock
  counted, \* the counters, of one endpoint and one model
  dirty,   \* they have changed since they were written or read
  line,    \* the last line of the file
  at,      \* where each thread is
  phase    \* of the process: "up", "stopping", "stopped" when the hook has run
           \* to its end, "down" when systemd has killed it

trackerVars == <<holder, counted, dirty, line, at, phase>>
AllThreads == Requests \cup {Main}

TrackerInit ==
  /\ holder = Nobody /\ counted = 0 /\ dirty = FALSE /\ line = 0
  /\ at = [t \in AllThreads |-> "idle"]
  /\ phase = "up"

Free == holder = Nobody
Goes(t, here, there) ==
  phase \in {"up", "stopping"} /\ at[t] = here /\ at' = [at EXCEPT ![t] = there]

\* A request comes: a model call that has been answered, the statistics, a reset.
Request(t) ==
  /\ phase = "up" /\ \E call \in {"record", "stats", "flush"}: Goes(t, "idle", call)
  /\ UNCHANGED <<holder, counted, dirty, line, phase>>

Record(t) ==
  /\ Goes(t, "record", "idle") /\ Free
  /\ counted' = IF counted < MaxCost THEN counted + 1 ELSE MaxCost
  /\ dirty' = TRUE
  /\ UNCHANGED <<holder, line, phase>>

Stats(t) ==
  /\ Goes(t, "stats", "idle") /\ Free
  /\ UNCHANGED <<holder, counted, dirty, line, phase>>

FlushNothing(t) ==
  /\ ~ dirty /\ Goes(t, "flush", "flushed")
  /\ UNCHANGED <<holder, counted, dirty, line, phase>>

\* flush looks at the flag before it takes the lock, and calls stats, which
\* takes the lock, while it holds it.
FlushLocks(t) ==
  /\ dirty /\ Free /\ Goes(t, "flush", "write")
  /\ holder' = t
  /\ UNCHANGED <<counted, dirty, line, phase>>

FlushWrites(t) ==
  /\ Goes(t, "write", "flushed") /\ Free
  /\ \/ line' = counted /\ dirty' = FALSE
     \/ UNCHANGED <<line, dirty>>                    \* the disk is full: a warning
  /\ holder' = Nobody
  /\ UNCHANGED <<counted, phase>>

\* The second half of a reset.
Clear(t) ==
  /\ t \in Requests /\ Goes(t, "flushed", "idle") /\ Free
  /\ counted' = 0 /\ dirty' = FALSE
  /\ UNCHANGED <<holder, line, phase>>

\* The server has no request under way when it calls the hook.
Stop ==
  /\ phase = "up" /\ phase' = "stopping"
  /\ \A t \in Requests: at[t] = "idle"
  /\ Goes(Main, "idle", "flush")
  /\ UNCHANGED <<holder, counted, dirty, line>>

StopWatchers ==
  /\ phase = "stopping" /\ phase' = "stopped"
  /\ Goes(Main, "flushed", "idle")
  /\ UNCHANGED <<holder, counted, dirty, line>>

Killed ==
  /\ phase \in {"up", "stopping"} /\ phase' = "down"
  /\ UNCHANGED <<holder, counted, dirty, line, at>>

LoadLine ==
  /\ phase \in {"stopped", "down"} /\ phase' = "up"
  /\ counted' = line /\ dirty' = FALSE
  /\ holder' = Nobody /\ at' = [t \in AllThreads |-> "idle"]
  /\ UNCHANGED line

Flushes(t) == FlushNothing(t) \/ FlushLocks(t) \/ FlushWrites(t)
Serves(t) == Record(t) \/ Stats(t) \/ Flushes(t) \/ Clear(t)
Hook == Flushes(Main) \/ StopWatchers

TrackerNext ==
  \/ \E t \in Requests: Request(t) \/ Serves(t)
  \/ Stop \/ Hook \/ Killed \/ LoadLine

\* Threads go on unless they wait for the lock; requests, stops and kills come
\* or do not.
FairTrackerSpec ==
  /\ TrackerInit /\ [][TrackerNext]_trackerVars
  /\ \A t \in Requests: WF_trackerVars(Serves(t))
  /\ WF_trackerVars(Hook)

-------------------------------------------------------------------------------
\* "Shutdown hook: persist token stats and stop file watcher" (app.py:238): a
\* shutdown runs to its end, unless the process is killed first.
ShutdownHookRuns == phase = "stopping" ~> phase \in {"stopped", "down"}
===============================================================================
