-------------------------- MODULE SchedulerProofs --------------------------
(* What TLAPS proves of Scheduler: for any number of jobs, request threads  *)
(* and runs, with crashes, failed starts and databases that raise.          *)
EXTENDS Scheduler, TLAPS

\* Past the check of last_status; and between two awaits after it.
Past == {"mark", "insert", "work", "final"}
Between == {"mark", "insert", "final"}

\* The event loop runs one coroutine at a time.
LoopAlone == \A r, s \in Runs : tpc[r] \in Between /\ tpc[s] \in Between => r = s

DownIsQuiet == phase = "down" => \A r \in Runs : ~Alive(r)

\* The job of such a run had a row, so its id is not given again.
RunsKnown == \A r \in Runs : tpc[r] \in Past => row[task[r].job] # NoRow

\* From its mark to its end a run keeps its job marked, if the job is there.
MarkedRunning ==
  \A r \in Runs :
    tpc[r] \in {"insert", "work"} /\ HasRow(task[r].job) =>
      row[task[r].job].status = "running"

RunInv == /\ LoopAlone /\ DownIsQuiet /\ RunsKnown /\ MarkedRunning
          /\ OneRunAtATime

SchedulerIInv == SchedulerTypeOK /\ RunInv

-----------------------------------------------------------------------------
(* The state of the rows, requests and tasks                                 *)

LEMMA TaskOf ==
  ASSUME SchedulerTypeOK, NEW r \in Runs, Alive(r)
  PROVE  task[r] \in Task /\ task[r].job \in Jobs
  BY DEF SchedulerTypeOK, Alive, Task

LEMMA ReqOf ==
  ASSUME SchedulerTypeOK, NEW t \in Threads, rpc[t] # "idle"
  PROVE  /\ req[t] \in Request
         /\ req[t].job \in Jobs /\ req[t].cron \in Crons
  BY DEF SchedulerTypeOK, Request

LEMMA LocalsType ==
  ASSUME NEW j \in Jobs, HasRow(j)
  PROVE  Locals(j) \in Request
  BY DEF HasRow, Locals, Request, Row

LEMMA GoType ==
  ASSUME SchedulerTypeOK, NEW t \in Threads, NEW pc \in RequestPCs,
         NEW q \in Request \cup {NoRequest},
         q = NoRequest <=> pc = "idle", Go(t, pc, q)
  PROVE  /\ rpc' \in [Threads -> RequestPCs]
         /\ req' \in [Threads -> Request \cup {NoRequest}]
         /\ \A u \in Threads : req'[u] = NoRequest <=> rpc'[u] = "idle"
  BY DEF SchedulerTypeOK, Go

LEMMA DoneType ==
  ASSUME SchedulerTypeOK, NEW t \in Threads, Done(t)
  PROVE  /\ rpc' \in [Threads -> RequestPCs]
         /\ req' \in [Threads -> Request \cup {NoRequest}]
         /\ \A u \in Threads : req'[u] = NoRequest <=> rpc'[u] = "idle"
<1>1. "idle" \in RequestPCs
  BY DEF RequestPCs
<1> QED BY <1>1, GoType DEF Done

LEMMA StatusType ==
  ASSUME SchedulerTypeOK, NEW j \in Jobs, NEW s \in {"running", "settled"},
         SetStatus(j, s)
  PROVE  row' \in [Jobs -> Row \cup {NoRow, Deleted}]
  BY DEF SchedulerTypeOK, SetStatus, HasRow, Row

LEMMA StepType ==
  ASSUME SchedulerTypeOK, NEW r \in Runs, Alive(r),
         NEW pc \in TaskPCs \ {"unused", "over"}, Step(r, pc)
  PROVE  /\ tpc' \in [Runs -> TaskPCs]
         /\ task' \in [Runs -> Task \cup {NoTask}]
         /\ \A s \in Runs : task'[s] = NoTask <=> tpc'[s] \in {"unused", "over"}
  BY DEF SchedulerTypeOK, Step, Alive

LEMMA EndsType ==
  ASSUME SchedulerTypeOK, NEW r \in Runs, Ends(r)
  PROVE  /\ tpc' \in [Runs -> TaskPCs]
         /\ task' \in [Runs -> Task \cup {NoTask}]
         /\ \A s \in Runs : task'[s] = NoTask <=> tpc'[s] \in {"unused", "over"}
  BY DEF SchedulerTypeOK, Ends, TaskPCs

\* The run that Queue picks.
LEMMA QueuedRun ==
  ASSUME NEW j, NEW b, Queue(j, b)
  PROVE  \E r \in Runs :
            /\ tpc[r] = "unused"
            /\ tpc' = [tpc EXCEPT ![r] = "queued"]
            /\ task' = [task EXCEPT ![r] = [job |-> j, scheduled |-> b]]
  BY DEF Queue, Unused

-----------------------------------------------------------------------------
(* Initial states                                                            *)

LEMMA SchedulerInitInv == SchedulerInit => SchedulerIInv
<1> SUFFICES ASSUME SchedulerInit PROVE SchedulerIInv
  OBVIOUS
<1>1. SchedulerTypeOK
  BY DEF SchedulerInit, SchedulerTypeOK, RequestPCs, TaskPCs
<1>2. \A r \in Runs : tpc[r] = "unused"
  BY DEF SchedulerInit
<1>3. RunInv
  BY <1>2 DEF RunInv, LoopAlone, DownIsQuiet, RunsKnown, MarkedRunning,
              OneRunAtATime, Alive, Between, Past
<1> QED BY <1>1, <1>3 DEF SchedulerIInv

-----------------------------------------------------------------------------
(* Steps that move no run                                                    *)

\* What such a step may do with the row of a job.
RowKept(j) ==
  /\ row[j] # NoRow => row'[j] # NoRow
  /\ row[j] = Deleted => row'[j] \notin Row
  /\ row[j] \in Row /\ row'[j] \in Row => row'[j].status = row[j].status

LEMMA RunsUndisturbed ==
  ASSUME SchedulerTypeOK, RunInv, phase' = "down" => phase = "down",
         UNCHANGED <<tpc, task>>, \A j \in Jobs : RowKept(j)
  PROVE  RunInv'
<1>1. \A r \in Runs : Alive(r)' <=> Alive(r)
  BY DEF Alive
<1>2. LoopAlone' /\ DownIsQuiet' /\ OneRunAtATime'
  BY <1>1 DEF RunInv, LoopAlone, DownIsQuiet, OneRunAtATime
<1>3. RunsKnown'
  BY TaskOf DEF RunInv, RunsKnown, RowKept, Past, Alive
<1>4. MarkedRunning'
  <2> SUFFICES ASSUME NEW r \in Runs, tpc[r] \in {"insert", "work"},
                      HasRow(task[r].job)'
               PROVE  row'[task[r].job].status = "running"
    BY DEF MarkedRunning
  <2> DEFINE j == task[r].job
  <2>1. Alive(r) /\ j \in Jobs
    BY TaskOf DEF Alive
  <2>2. row[j] \in Row \cup {Deleted}
    BY <2>1 DEF RunInv, RunsKnown, SchedulerTypeOK, Past
  <2>3. RowKept(j) /\ row'[j] \in Row
    BY <2>1 DEF HasRow
  <2>4. row[j] \in Row /\ row'[j].status = row[j].status
    BY <2>2, <2>3 DEF RowKept
  <2> QED BY <2>4 DEF RunInv, MarkedRunning, HasRow
<1> QED BY <1>2, <1>3, <1>4 DEF RunInv

LEMMA RowUnchanged ==
  ASSUME UNCHANGED row, NEW j \in Jobs
  PROVE  RowKept(j)
  BY SchedulerDistinct DEF RowKept

LEMMA CreateStep ==
  ASSUME SchedulerIInv, NEW t \in Threads, NEW c \in Crons, Create(t, c)
  PROVE  SchedulerIInv'
<1> USE DEF SchedulerIInv
<1>1. PICK j \in Jobs \ SystemJobs :
        /\ row[j] = NoRow
        /\ row' = [row EXCEPT ![j] = NewRow(c)]
        /\ Go(t, "add", [job |-> j, cron |-> c, enabled |-> TRUE])
  BY DEF Create
<1>2. NewRow(c) \in Row
  BY DEF NewRow, Row
<1>3. [job |-> j, cron |-> c, enabled |-> TRUE] \in Request
  BY DEF Request
<1>4. SchedulerTypeOK'
  <2>1. row' \in [Jobs -> Row \cup {NoRow, Deleted}]
    BY <1>1, <1>2 DEF SchedulerTypeOK
  <2>2. "add" \in RequestPCs
    BY DEF RequestPCs
  <2>3. /\ rpc' \in [Threads -> RequestPCs]
        /\ req' \in [Threads -> Request \cup {NoRequest}]
        /\ \A u \in Threads : req'[u] = NoRequest <=> rpc'[u] = "idle"
    BY <1>1, <1>3, <2>2, GoType, SchedulerDistinct
  <2> QED BY <2>1, <2>3 DEF SchedulerTypeOK, Create, taskVars
<1>5. \A k \in Jobs : RowKept(k)
  BY <1>1, <1>2, SchedulerDistinct DEF RowKept, SchedulerTypeOK
<1>6. RunInv'
  BY <1>5, RunsUndisturbed DEF Create, taskVars
<1> QED BY <1>4, <1>6

\* A request that changes columns other than last_status.
LEMMA UpdateStep ==
  ASSUME SchedulerIInv, NEW t \in Threads, NEW j \in Jobs, NEW new,
         HasRow(j) => new \in Row /\ new.status = row[j].status,
         Update(t, j, new)
  PROVE  SchedulerIInv'
<1> USE DEF SchedulerIInv
<1>1. HasRow(j) /\ row' = [row EXCEPT ![j] = new]
  BY DEF Update
<1>2. Locals(j) \in Request /\ Go(t, "reread", Locals(j))
  BY <1>1, LocalsType DEF Update
<1>3. SchedulerTypeOK'
  <2>1. row' \in [Jobs -> Row \cup {NoRow, Deleted}]
    BY <1>1 DEF SchedulerTypeOK
  <2>2. "reread" \in RequestPCs
    BY DEF RequestPCs
  <2>3. /\ rpc' \in [Threads -> RequestPCs]
        /\ req' \in [Threads -> Request \cup {NoRequest}]
        /\ \A u \in Threads : req'[u] = NoRequest <=> rpc'[u] = "idle"
    BY <1>2, <2>2, GoType, SchedulerDistinct
  <2> QED BY <2>1, <2>3 DEF SchedulerTypeOK, Update, taskVars
<1>4. \A k \in Jobs : RowKept(k)
  <2>1. row'[j] = new /\ row[j] \in Row /\ RowKept(j)
    BY <1>1, SchedulerDistinct DEF RowKept, SchedulerTypeOK, HasRow
  <2>2. \A k \in Jobs : k # j => RowKept(k)
    BY <1>1, SchedulerDistinct DEF RowKept, SchedulerTypeOK
  <2> QED BY <2>1, <2>2
<1>5. RunInv'
  BY <1>4, RunsUndisturbed DEF Update, taskVars
<1> QED BY <1>3, <1>5

LEMMA UpdatesStep ==
  ASSUME SchedulerIInv, NEW t \in Threads, NEW j \in Jobs,
         \/ \E c \in Crons : Update(t, j, [row[j] EXCEPT !.cron = c])
         \/ \E b \in BOOLEAN : Update(t, j, [row[j] EXCEPT !.enabled = b])
  PROVE  SchedulerIInv'
<1>1. ASSUME NEW c \in Crons, Update(t, j, [row[j] EXCEPT !.cron = c])
      PROVE  SchedulerIInv'
  <2> DEFINE new == [row[j] EXCEPT !.cron = c]
  <2>1. HasRow(j) => new \in Row /\ new.status = row[j].status
    BY DEF HasRow, Row
  <2> HIDE DEF new
  <2>2. Update(t, j, new)
    BY <1>1 DEF new
  <2> QED BY <2>1, <2>2, UpdateStep
<1>2. ASSUME NEW b \in BOOLEAN, Update(t, j, [row[j] EXCEPT !.enabled = b])
      PROVE  SchedulerIInv'
  <2> DEFINE new == [row[j] EXCEPT !.enabled = b]
  <2>1. HasRow(j) => new \in Row /\ new.status = row[j].status
    BY DEF HasRow, Row
  <2> HIDE DEF new
  <2>2. Update(t, j, new)
    BY <1>2 DEF new
  <2> QED BY <2>1, <2>2, UpdateStep
<1> QED BY <1>1, <1>2

\* Reading the row, and starting a deletion.
LEMMA ReadStep ==
  ASSUME SchedulerIInv, NEW t \in Threads,
         Reread(t) \/ \E j \in Jobs : Delete(t, j)
  PROVE  SchedulerIInv'
<1> USE DEF SchedulerIInv
<1>1. UNCHANGED <<phase, row, entry, taskVars, missed, torn, raised>>
  BY DEF Reread, Delete
<1>2. /\ rpc' \in [Threads -> RequestPCs]
      /\ req' \in [Threads -> Request \cup {NoRequest}]
      /\ \A u \in Threads : req'[u] = NoRequest <=> rpc'[u] = "idle"
  <2>1. "remove" \in RequestPCs /\ "unschedule" \in RequestPCs
    BY DEF RequestPCs
  <2>2. CASE Reread(t)
    <3>1. req[t].job \in Jobs
      BY <2>2, ReqOf DEF Reread
    <3>2. CASE HasRow(req[t].job)
      <4>1. Locals(req[t].job) \in Request
        BY <3>1, <3>2, LocalsType
      <4> QED BY <2>1, <2>2, <3>2, <4>1, GoType, SchedulerDistinct DEF Reread
    <3>3. CASE ~HasRow(req[t].job)
      BY <2>2, <3>3, DoneType DEF Reread
    <3> QED BY <3>2, <3>3
  <2>3. CASE \E j \in Jobs : Delete(t, j)
    <3>1. PICK j \in Jobs : Delete(t, j)
      BY <2>3
    <3>2. Locals(j) \in Request /\ Go(t, "unschedule", Locals(j))
      BY <3>1, LocalsType DEF Delete
    <3> QED BY <2>1, <3>2, GoType, SchedulerDistinct
  <2> QED BY <2>2, <2>3
<1>3. SchedulerTypeOK'
  BY <1>1, <1>2 DEF SchedulerTypeOK, taskVars
<1>4. RunInv'
  BY <1>1, RowUnchanged, RunsUndisturbed DEF taskVars
<1> QED BY <1>3, <1>4

\* What a call of APScheduler leaves.
LEMMA StoreType ==
  ASSUME SchedulerTypeOK, NEW j \in Jobs, NEW e \in Crons \cup {NoEntry}, Store(j, e)
  PROVE  entry' \in [Jobs -> Crons \cup {NoEntry}] /\ missed' \subseteq Jobs
  BY DEF Store, Missed, SchedulerTypeOK

LEMMA StoreDoes ==
  ASSUME SchedulerTypeOK, NEW j \in Jobs, NEW e, Store(j, e)
  PROVE  /\ entry'[j] = e \/ j \in missed'
         /\ entry'[j] \in {e, entry[j]}
         /\ \A k \in Jobs \ {j} : entry'[k] = entry[k] /\ (k \in missed' <=> k \in missed)
  BY DEF Store, Missed, SchedulerTypeOK

\* The calls of APScheduler.
LEMMA EntryStep ==
  ASSUME SchedulerIInv, NEW t \in Threads,
         RemoveEntry(t) \/ AddEntry(t) \/ Unschedule(t)
  PROVE  SchedulerIInv'
<1> USE DEF SchedulerIInv
<1>1. UNCHANGED <<phase, row, taskVars, torn, raised>>
  BY DEF RemoveEntry, AddEntry, Unschedule
<1>2. req[t] \in Request /\ req[t].job \in Jobs /\ req[t].cron \in Crons
  BY ReqOf DEF RemoveEntry, AddEntry, Unschedule
<1>3. entry' \in [Jobs -> Crons \cup {NoEntry}] /\ missed' \subseteq Jobs
  <2>1. CASE UNCHANGED <<entry, missed>>
    BY <2>1 DEF SchedulerTypeOK
  <2>2. CASE \E e \in Crons \cup {NoEntry} : Store(req[t].job, e)
    BY <1>2, <2>2, StoreType
  <2> QED
    BY <1>2, <2>1, <2>2 DEF RemoveEntry, AddEntry, Unschedule
<1>4. /\ rpc' \in [Threads -> RequestPCs]
      /\ req' \in [Threads -> Request \cup {NoRequest}]
      /\ \A u \in Threads : req'[u] = NoRequest <=> rpc'[u] = "idle"
  <2>1. Done(t) \/ Go(t, "add", req[t]) \/ Go(t, "erase", req[t])
    BY DEF RemoveEntry, AddEntry, Unschedule
  <2>2. "add" \in RequestPCs /\ "erase" \in RequestPCs
    BY DEF RequestPCs
  <2> QED BY <1>2, <2>1, <2>2, GoType, DoneType, SchedulerDistinct
<1>5. SchedulerTypeOK'
  BY <1>1, <1>3, <1>4 DEF SchedulerTypeOK, taskVars
<1>6. RunInv'
  BY <1>1, RowUnchanged, RunsUndisturbed DEF taskVars
<1> QED BY <1>5, <1>6

LEMMA RequestRaisesStep ==
  ASSUME SchedulerIInv, NEW t \in Threads, RequestRaises(t)
  PROVE  SchedulerIInv'
<1> USE DEF SchedulerIInv
<1>1. UNCHANGED <<phase, row, entry, taskVars, torn, raised>> /\ Done(t)
  BY DEF RequestRaises
<1>2. missed' \subseteq Jobs
  BY ReqOf DEF RequestRaises, Missed, SchedulerTypeOK
<1>3. SchedulerTypeOK'
  BY <1>1, <1>2, DoneType DEF SchedulerTypeOK, taskVars
<1>4. RunInv'
  BY <1>1, RowUnchanged, RunsUndisturbed DEF taskVars
<1> QED BY <1>3, <1>4

LEMMA EraseStep ==
  ASSUME SchedulerIInv, NEW t \in Threads, Erase(t)
  PROVE  SchedulerIInv'
<1> USE DEF SchedulerIInv
<1>1. req[t].job \in Jobs
  BY ReqOf DEF Erase
<1>2. SchedulerTypeOK'
  <2>1. row' \in [Jobs -> Row \cup {NoRow, Deleted}]
    BY <1>1 DEF SchedulerTypeOK, Erase
  <2>2. runRow' \in [Runs -> RunRow \cup {NoRun}]
    BY DEF SchedulerTypeOK, Erase
  <2>3. /\ rpc' \in [Threads -> RequestPCs]
        /\ req' \in [Threads -> Request \cup {NoRequest}]
        /\ \A u \in Threads : req'[u] = NoRequest <=> rpc'[u] = "idle"
    BY DoneType DEF Erase
  <2> QED BY <2>1, <2>2, <2>3 DEF SchedulerTypeOK, Erase
<1>3. \A k \in Jobs : RowKept(k)
  BY <1>1, SchedulerDistinct DEF Erase, RowKept, SchedulerTypeOK
<1>4. RunInv'
  BY <1>3, RunsUndisturbed DEF Erase
<1> QED BY <1>2, <1>4

-----------------------------------------------------------------------------
(* Steps of runs                                                             *)

LEMMA QueueStep ==
  ASSUME SchedulerIInv, NEW j \in Jobs, Fire(j) \/ RunNow(j)
  PROVE  SchedulerIInv'
<1> USE DEF SchedulerIInv
<1>1. /\ phase = "up"
      /\ UNCHANGED <<phase, row, entry, requestVars, runRow, missed, torn, raised>>
  BY DEF Fire, RunNow
<1>2. PICK b \in BOOLEAN : Queue(j, b)
  BY DEF Fire, RunNow
<1>3. PICK r \in Runs :
        /\ tpc[r] = "unused"
        /\ tpc' = [tpc EXCEPT ![r] = "queued"]
        /\ task' = [task EXCEPT ![r] = [job |-> j, scheduled |-> b]]
  BY <1>2, QueuedRun
<1>4. SchedulerTypeOK'
  <2>1. [job |-> j, scheduled |-> b] \in Task
    BY DEF Task
  <2>2. /\ tpc' \in [Runs -> TaskPCs]
        /\ task' \in [Runs -> Task \cup {NoTask}]
        /\ \A s \in Runs :
              task'[s] = NoTask <=> tpc'[s] \in {"unused", "over"}
    <3> DEFINE new == [job |-> j, scheduled |-> b]
    <3>1. new \in Task /\ task' = [task EXCEPT ![r] = new]
      BY <1>3, <2>1
    <3> HIDE DEF new
    <3> QED BY <1>3, <3>1, SchedulerDistinct DEF SchedulerTypeOK, TaskPCs
  <2> QED BY <1>1, <2>2 DEF SchedulerTypeOK, requestVars
<1>5. \A s \in Runs : tpc'[s] \in Past =>
        s # r /\ tpc'[s] = tpc[s] /\ task'[s] = task[s]
  BY <1>3 DEF SchedulerTypeOK, Past
<1>6. RunInv'
  BY <1>1, <1>5 DEF RunInv, LoopAlone, DownIsQuiet, RunsKnown, MarkedRunning,
                    OneRunAtATime, Past, Between, HasRow
<1> QED BY <1>4, <1>6

LEMMA BeginStep ==
  ASSUME SchedulerIInv, NEW r \in Runs, BeginRun(r)
  PROVE  SchedulerIInv'
<1> USE DEF SchedulerIInv
<1> DEFINE j == task[r].job
<1>1. /\ tpc[r] = "queued" /\ LoopFree
      /\ UNCHANGED <<phase, row, entry, requestVars, runRow, missed, torn, raised>>
  BY DEF BeginRun
<1>2. Alive(r) /\ j \in Jobs
  BY <1>1, TaskOf DEF Alive
<1>3. CASE HasRow(j) /\ row[j].status # "running"
  <2>1. Step(r, "mark")
    BY <1>3 DEF BeginRun
  <2>2. SchedulerTypeOK'
    <3>1. "mark" \in TaskPCs \ {"unused", "over"}
      BY DEF TaskPCs
    <3> QED BY <1>1, <1>2, <2>1, <3>1, StepType
            DEF SchedulerTypeOK, requestVars
  <2>3. /\ tpc'[r] = "mark" /\ task' = task
        /\ \A s \in Runs : s # r => tpc'[s] = tpc[s]
    BY <2>1 DEF Step, SchedulerTypeOK
  <2>4. LoopAlone' /\ DownIsQuiet'
    BY <1>1, <1>2, <2>3
    DEF RunInv, LoopAlone, LoopFree, DownIsQuiet, Between, Alive
  <2>5. RunsKnown' /\ MarkedRunning'
    BY <1>1, <1>3, <2>3, SchedulerDistinct
    DEF RunInv, RunsKnown, MarkedRunning, HasRow
  <2>6. \A s \in Runs : tpc[s] \in Past => task[s].job # j
    BY <1>1, <1>3 DEF RunInv, LoopFree, MarkedRunning, Past
  <2>7. OneRunAtATime'
    BY <2>3, <2>6 DEF RunInv, OneRunAtATime, Past
  <2> QED BY <2>2, <2>4, <2>5, <2>7 DEF RunInv
<1>4. CASE ~(HasRow(j) /\ row[j].status # "running")
  <2>1. Ends(r)
    BY <1>4 DEF BeginRun
  <2>2. SchedulerTypeOK'
    BY <1>1, <2>1, EndsType DEF SchedulerTypeOK, requestVars
  <2>3. \A s \in Runs : tpc'[s] # "over" =>
          tpc'[s] = tpc[s] /\ task'[s] = task[s]
    BY <2>1 DEF Ends, SchedulerTypeOK
  <2>4. RunInv'
    BY <1>1, <2>3
    DEF RunInv, LoopAlone, DownIsQuiet, RunsKnown, MarkedRunning,
        OneRunAtATime, Past, Between, HasRow, Alive
  <2> QED BY <2>2, <2>4
<1> QED BY <1>3, <1>4

\* A status is written to a row that is there, and to no other.
LEMMA StatusRows ==
  ASSUME SchedulerTypeOK, NEW j \in Jobs, NEW s \in {"running", "settled"},
         SetStatus(j, s)
  PROVE  /\ \A k \in Jobs \ {j} : row'[k] = row[k]
         /\ HasRow(j) => row'[j] \in Row /\ row'[j].status = s
         /\ ~HasRow(j) => row'[j] = row[j]
  BY DEF SchedulerTypeOK, SetStatus, HasRow, Row

LEMMA MarkStep ==
  ASSUME SchedulerIInv, NEW r \in Runs, MarkRunning(r)
  PROVE  SchedulerIInv'
<1> USE DEF SchedulerIInv
<1> DEFINE j == task[r].job
<1>1. /\ tpc[r] = "mark" /\ SetStatus(j, "running") /\ Step(r, "insert")
      /\ UNCHANGED <<phase, entry, requestVars, runRow, missed, torn, raised>>
  BY DEF MarkRunning
<1>2. Alive(r) /\ j \in Jobs
  BY <1>1, TaskOf DEF Alive
<1>3. SchedulerTypeOK'
  <2>1. "insert" \in TaskPCs \ {"unused", "over"}
    BY DEF TaskPCs
  <2> QED BY <1>1, <1>2, <2>1, StepType, StatusType
          DEF SchedulerTypeOK, requestVars
<1>4. /\ tpc'[r] = "insert" /\ task' = task
      /\ \A s \in Runs : s # r => tpc'[s] = tpc[s]
  BY <1>1 DEF Step, SchedulerTypeOK
<1>5. /\ \A k \in Jobs \ {j} : row'[k] = row[k]
      /\ HasRow(j) => row'[j] \in Row /\ row'[j].status = "running"
      /\ ~HasRow(j) => row'[j] = row[j]
  BY <1>1, <1>2, StatusRows
<1>6. \A s \in Runs : tpc[s] \in Past /\ s # r => task[s].job # j
  BY <1>1 DEF RunInv, OneRunAtATime, Past
<1>7. LoopAlone' /\ DownIsQuiet' /\ OneRunAtATime'
  BY <1>1, <1>2, <1>4
  DEF RunInv, LoopAlone, DownIsQuiet, OneRunAtATime, Between, Alive
<1>8. RunsKnown'
  <2> SUFFICES ASSUME NEW s \in Runs, tpc'[s] \in Past
               PROVE  row'[task[s].job] # NoRow
    BY <1>4 DEF RunsKnown
  <2>1. tpc[s] \in Past
    BY <1>1, <1>4 DEF Past
  <2>2. task[s].job \in Jobs /\ row[task[s].job] # NoRow
    BY <2>1, TaskOf DEF RunInv, RunsKnown, Past, Alive
  <2> QED BY <1>5, <2>2, SchedulerDistinct
<1>9. MarkedRunning'
  <2> SUFFICES ASSUME NEW s \in Runs, tpc'[s] \in {"insert", "work"},
                      row'[task[s].job] \in Row
               PROVE  row'[task[s].job].status = "running"
    BY <1>4 DEF MarkedRunning, HasRow
  <2>1. CASE s = r
    BY <1>5, <2>1 DEF HasRow
  <2>2. CASE s # r
    <3>1. tpc[s] \in {"insert", "work"} /\ task[s].job \in Jobs
      BY <1>4, <2>2, TaskOf DEF Alive
    <3>2. row'[task[s].job] = row[task[s].job]
      BY <1>5, <1>6, <2>2, <3>1 DEF Past
    <3> QED BY <3>1, <3>2 DEF RunInv, MarkedRunning, HasRow
  <2> QED BY <2>1, <2>2
<1> QED BY <1>3, <1>7, <1>8, <1>9 DEF RunInv

LEMMA InsertStep ==
  ASSUME SchedulerIInv, NEW r \in Runs, InsertRun(r)
  PROVE  SchedulerIInv'
<1> USE DEF SchedulerIInv
<1>1. /\ tpc[r] = "insert" /\ Step(r, "work")
      /\ UNCHANGED <<phase, row, entry, requestVars, missed, torn, raised>>
  BY DEF InsertRun
<1>2. Alive(r) /\ task[r].job \in Jobs
  BY <1>1, TaskOf DEF Alive
<1>3. SchedulerTypeOK'
  <2>1. "work" \in TaskPCs \ {"unused", "over"}
    BY DEF TaskPCs
  <2> DEFINE new == [job |-> task[r].job, status |-> "running"]
  <2>2. new \in RunRow /\ runRow' = [runRow EXCEPT ![r] = new]
    BY <1>2 DEF RunRow, InsertRun
  <2> HIDE DEF new
  <2>3. runRow' \in [Runs -> RunRow \cup {NoRun}]
    BY <2>2 DEF SchedulerTypeOK
  <2> QED BY <1>1, <1>2, <2>1, <2>3, StepType DEF SchedulerTypeOK, requestVars
<1>4. /\ tpc'[r] = "work" /\ task' = task
      /\ \A s \in Runs : s # r => tpc'[s] = tpc[s]
  BY <1>1 DEF Step, SchedulerTypeOK
<1>5. RunInv'
  BY <1>1, <1>4
  DEF RunInv, LoopAlone, DownIsQuiet, RunsKnown, MarkedRunning,
      OneRunAtATime, Past, Between, HasRow, Alive
<1> QED BY <1>3, <1>5

\* A run that settles its job: at the end of its work, or when it cannot
\* insert its row.
LEMMA SettleStep ==
  ASSUME SchedulerIInv, NEW r \in Runs, InsertFails(r) \/ FinishWork(r)
  PROVE  SchedulerIInv'
<1> USE DEF SchedulerIInv
<1> DEFINE j == task[r].job
<1>1. /\ tpc[r] \in {"insert", "work"} /\ SetStatus(j, "settled")
      /\ Ends(r) \/ (LoopFree /\ Step(r, "final"))
      /\ UNCHANGED <<phase, entry, requestVars, runRow, missed, torn, raised>>
  BY DEF InsertFails, FinishWork
<1>2. Alive(r) /\ j \in Jobs
  BY <1>1, TaskOf DEF Alive
<1>3. SchedulerTypeOK'
  <2>1. "final" \in TaskPCs \ {"unused", "over"}
    BY DEF TaskPCs
  <2>2. /\ tpc' \in [Runs -> TaskPCs]
        /\ task' \in [Runs -> Task \cup {NoTask}]
        /\ \A s \in Runs :
              task'[s] = NoTask <=> tpc'[s] \in {"unused", "over"}
    BY <1>1, <1>2, <2>1, StepType, EndsType
  <2>3. row' \in [Jobs -> Row \cup {NoRow, Deleted}]
    BY <1>1, <1>2, StatusType
  <2> QED BY <1>1, <2>2, <2>3 DEF SchedulerTypeOK, requestVars
<1>4. /\ tpc'[r] = "over" \/ (tpc'[r] = "final" /\ LoopFree /\ task'[r] = task[r])
      /\ \A s \in Runs : s # r => tpc'[s] = tpc[s] /\ task'[s] = task[s]
  BY <1>1 DEF Step, Ends, SchedulerTypeOK
<1>5. /\ \A k \in Jobs \ {j} : row'[k] = row[k]
      /\ HasRow(j) => row'[j] \in Row
      /\ ~HasRow(j) => row'[j] = row[j]
  BY <1>1, <1>2, StatusRows
<1>6. \A s \in Runs : tpc[s] \in Past /\ s # r => task[s].job # j
  BY <1>1 DEF RunInv, OneRunAtATime, Past
<1>7. LoopAlone' /\ DownIsQuiet' /\ OneRunAtATime'
  BY <1>1, <1>2, <1>4
  DEF RunInv, LoopAlone, LoopFree, DownIsQuiet, OneRunAtATime, Between, Alive
<1>8. RunsKnown'
  <2> SUFFICES ASSUME NEW s \in Runs, tpc'[s] \in Past
               PROVE  row'[task'[s].job] # NoRow
    BY DEF RunsKnown
  <2>1. tpc[s] \in Past /\ task'[s] = task[s]
    BY <1>1, <1>4 DEF Past
  <2>2. task[s].job \in Jobs /\ row[task[s].job] # NoRow
    BY <2>1, TaskOf DEF RunInv, RunsKnown, Past, Alive
  <2> QED BY <1>5, <2>1, <2>2, SchedulerDistinct
<1>9. MarkedRunning'
  <2> SUFFICES ASSUME NEW s \in Runs, tpc'[s] \in {"insert", "work"},
                      row'[task'[s].job] \in Row
               PROVE  row'[task'[s].job].status = "running"
    BY DEF MarkedRunning, HasRow
  <2>1. /\ s # r /\ task'[s] = task[s]
        /\ tpc[s] \in {"insert", "work"} /\ task[s].job \in Jobs
    BY <1>4, TaskOf DEF Alive
  <2>2. row'[task[s].job] = row[task[s].job]
    BY <1>5, <1>6, <2>1 DEF Past
  <2> QED BY <2>1, <2>2 DEF RunInv, MarkedRunning, HasRow
<1> QED BY <1>3, <1>7, <1>8, <1>9 DEF RunInv

LEMMA EndStep ==
  ASSUME SchedulerIInv, NEW r \in Runs, FinalizeRun(r) \/ RunRaises(r)
  PROVE  SchedulerIInv'
<1> USE DEF SchedulerIInv
<1>1. Ends(r) /\ UNCHANGED <<phase, row, entry, requestVars, missed, torn>>
  BY DEF FinalizeRun, RunRaises
<1>2. runRow' \in [Runs -> RunRow \cup {NoRun}]
  <2>1. CASE RunExists(r) /\ FinalizeRun(r)
    <3> DEFINE new == [runRow[r] EXCEPT !.status = "settled"]
    <3>1. new \in RunRow /\ runRow' = [runRow EXCEPT ![r] = new]
      BY <2>1 DEF RunExists, RunRow, FinalizeRun
    <3> HIDE DEF new
    <3> QED BY <3>1 DEF SchedulerTypeOK
  <2>2. CASE ~(RunExists(r) /\ FinalizeRun(r))
    BY <2>2 DEF SchedulerTypeOK, FinalizeRun, RunRaises
  <2> QED BY <2>1, <2>2
<1>3. raised' \in BOOLEAN
  BY DEF SchedulerTypeOK, FinalizeRun, RunRaises
<1>4. SchedulerTypeOK'
  BY <1>1, <1>2, <1>3, EndsType DEF SchedulerTypeOK, requestVars
<1>5. \A s \in Runs : tpc'[s] # "over" =>
        tpc'[s] = tpc[s] /\ task'[s] = task[s]
  BY <1>1 DEF Ends, SchedulerTypeOK
<1>6. RunInv'
  BY <1>1, <1>5
  DEF RunInv, LoopAlone, DownIsQuiet, RunsKnown, MarkedRunning,
      OneRunAtATime, Past, Between, HasRow, Alive
<1> QED BY <1>4, <1>6

-----------------------------------------------------------------------------
(* Startup and crash                                                         *)

LEMMA StartStep ==
  ASSUME SchedulerIInv, Start \/ StartFails
  PROVE  SchedulerIInv'
<1> USE DEF SchedulerIInv
<1>1. /\ phase = "down" /\ ResetOrphans
      /\ UNCHANGED <<requestVars, tpc, task, torn, raised>>
  BY DEF Start, StartFails
<1>2. PICK S \in SUBSET {j \in Jobs : Enabled(j)} : \E F \in SUBSET S : Rescheduled(S, F)
  BY DEF Start, StartFails, Schedulable
<1>3. SchedulerTypeOK'
  <2>1. row' \in [Jobs -> Row \cup {NoRow, Deleted}]
    <3> SUFFICES ASSUME NEW j \in Jobs
                 PROVE  row'[j] \in Row \cup {NoRow, Deleted}
      BY <1>1 DEF ResetOrphans
    <3>1. JobRunning(j) => [row[j] EXCEPT !.status = "settled"] \in Row
      BY DEF JobRunning, HasRow, Row
    <3> QED BY <1>1, <3>1 DEF ResetOrphans, SchedulerTypeOK
  <2>2. runRow' \in [Runs -> RunRow \cup {NoRun}]
    <3> SUFFICES ASSUME NEW r \in Runs
                 PROVE  runRow'[r] \in RunRow \cup {NoRun}
      BY <1>1 DEF ResetOrphans
    <3>1. RunRunning(r) => [runRow[r] EXCEPT !.status = "settled"] \in RunRow
      BY DEF RunRunning, RunExists, RunRow
    <3> QED BY <1>1, <3>1 DEF ResetOrphans, SchedulerTypeOK
  <2>3. entry' \in [Jobs -> Crons \cup {NoEntry}] /\ missed' \subseteq Jobs
    <3>1. \A j \in S : row[j].cron \in Crons
      BY DEF Enabled, HasRow, Row
    <3> QED BY <1>2, <3>1 DEF Rescheduled, Missed, SchedulerTypeOK
  <2>4. phase' \in {"down", "seed", "up"}
    BY <1>1 DEF Start, StartFails
  <2> QED BY <1>1, <2>1, <2>2, <2>3, <2>4 DEF SchedulerTypeOK, requestVars
<1>4. \A r \in Runs : tpc'[r] \in {"unused", "over"}
  BY <1>1 DEF RunInv, DownIsQuiet, Alive
<1>5. RunInv'
  BY <1>4 DEF RunInv, LoopAlone, DownIsQuiet, RunsKnown, MarkedRunning,
              OneRunAtATime, Past, Between, Alive
<1> QED BY <1>3, <1>5

LEMMA SeedStep ==
  ASSUME SchedulerIInv, SeedJob
  PROVE  SchedulerIInv'
<1> USE DEF SchedulerIInv
<1>1. PICK j \in SystemJobs, c \in SystemCrons :
        /\ row[j] = NoRow
        /\ row' = [row EXCEPT ![j] = NewRow(c)]
        /\ IF c \in Triggerable THEN Store(j, c) ELSE UNCHANGED <<entry, missed>>
  BY DEF SeedJob
<1>2. j \in Jobs /\ c \in Crons
  BY SchedulerAssumption
<1>3. NewRow(c) \in Row
  BY <1>2 DEF NewRow, Row
<1>4. SchedulerTypeOK'
  <2>1. entry' \in [Jobs -> Crons \cup {NoEntry}] /\ missed' \subseteq Jobs
    <3>1. CASE Store(j, c)
      BY <1>2, <3>1, StoreType
    <3>2. CASE UNCHANGED <<entry, missed>>
      BY <3>2 DEF SchedulerTypeOK
    <3> QED
      BY <1>1, <3>1, <3>2
  <2>2. row' \in [Jobs -> Row \cup {NoRow, Deleted}]
    BY <1>1, <1>2, <1>3 DEF SchedulerTypeOK
  <2>3. UNCHANGED <<requestVars, taskVars, torn, raised>> /\ phase' \in {"up", "seed"}
    BY DEF SeedJob
  <2> QED
    BY <2>1, <2>2, <2>3 DEF SchedulerTypeOK, requestVars, taskVars
<1>5. \A k \in Jobs : RowKept(k)
  BY <1>1, <1>2, <1>3, SchedulerDistinct DEF RowKept, SchedulerTypeOK
<1>6. RunInv'
  BY <1>5, RunsUndisturbed DEF SeedJob, taskVars
<1> QED BY <1>4, <1>6

LEMMA CrashStep ==
  ASSUME SchedulerIInv, Crash
  PROVE  SchedulerIInv'
<1> USE DEF SchedulerIInv
<1>1. \A r \in Runs : tpc'[r] \in {"unused", "over"} /\ task'[r] = NoTask
  BY DEF Crash, Alive, SchedulerTypeOK
<1>2. SchedulerTypeOK'
  <2>1. /\ tpc' \in [Runs -> TaskPCs]
        /\ task' \in [Runs -> Task \cup {NoTask}]
        /\ \A s \in Runs :
              task'[s] = NoTask <=> tpc'[s] \in {"unused", "over"}
    BY <1>1 DEF Crash, TaskPCs
  <2>2. /\ rpc' \in [Threads -> RequestPCs]
        /\ req' \in [Threads -> Request \cup {NoRequest}]
        /\ \A u \in Threads : req'[u] = NoRequest <=> rpc'[u] = "idle"
    BY DEF Crash, RequestPCs
  <2>3. torn' \in BOOLEAN
    BY DEF Crash, SchedulerTypeOK
  <2> QED BY <2>1, <2>2, <2>3 DEF SchedulerTypeOK, Crash
<1>3. RunInv'
  BY <1>1 DEF RunInv, LoopAlone, DownIsQuiet, RunsKnown, MarkedRunning,
              OneRunAtATime, Past, Between, Alive
<1> QED BY <1>2, <1>3

-----------------------------------------------------------------------------
(* The invariant over all steps                                              *)

LEMMA SchedulerNextInv ==
  SchedulerIInv /\ [SchedulerNext]_schedulerVars => SchedulerIInv'
<1> SUFFICES ASSUME SchedulerIInv, [SchedulerNext]_schedulerVars
             PROVE  SchedulerIInv'
  OBVIOUS
<1>1. ASSUME NEW t \in Threads, Requests(t) PROVE SchedulerIInv'
  BY <1>1, CreateStep, UpdatesStep, ReadStep DEF Requests
<1>2. ASSUME NEW t \in Threads, RequestSteps(t) PROVE SchedulerIInv'
  BY <1>2, ReadStep, EntryStep, EraseStep, RequestRaisesStep DEF RequestSteps
<1>3. ASSUME NEW j \in Jobs, Fire(j) \/ RunNow(j) PROVE SchedulerIInv'
  BY <1>3, QueueStep
<1>4. ASSUME NEW r \in Runs, RunSteps(r) PROVE SchedulerIInv'
  BY <1>4, BeginStep, MarkStep, InsertStep, SettleStep, EndStep DEF RunSteps
<1>5. CASE Startup
  BY <1>5, StartStep, SeedStep DEF Startup
<1>6. CASE Crash
  BY <1>6, CrashStep
<1>7. CASE UNCHANGED schedulerVars
  BY <1>7 DEF schedulerVars, requestVars, taskVars, SchedulerIInv, RunInv,
    SchedulerTypeOK, LoopAlone, DownIsQuiet, RunsKnown, MarkedRunning,
    OneRunAtATime, Alive, HasRow
<1> QED BY <1>1, <1>2, <1>3, <1>4, <1>5, <1>6, <1>7 DEF SchedulerNext

THEOREM SchedulerInvariant == SchedulerSpec => []SchedulerIInv
BY SchedulerInitInv, SchedulerNextInv, PTL DEF SchedulerSpec

\* Type correctness of the tables, of the requests and of the runs.
THEOREM SchedulerTypeCorrect == SchedulerSpec => []SchedulerTypeOK
<1>1. SchedulerIInv => SchedulerTypeOK
  BY DEF SchedulerIInv
<1> QED BY <1>1, SchedulerInvariant, PTL

\* JobExecutor.run excludes itself: of one job there is one run at a time,
\* whatever the requests, the deletions and the restarts meanwhile.
THEOREM OneRun == SchedulerSpec => []OneRunAtATime
<1>1. SchedulerIInv => OneRunAtATime
  BY DEF SchedulerIInv, RunInv
<1> QED BY <1>1, SchedulerInvariant, PTL

-----------------------------------------------------------------------------
(* What says "running" is being run                                          *)

\* A step that marks nothing and leaves the runs that are marked where they
\* are.
LEMMA AliveUndisturbed ==
  ASSUME RunningIsAlive,
         phase' # "down" /\ ~raised' => phase # "down" /\ ~raised,
         \A j \in Jobs : JobRunning(j)' => JobRunning(j),
         \A r \in Runs : RunRunning(r)' => RunRunning(r),
         \A r \in Runs : tpc[r] \in {"insert", "work", "final"} =>
                            tpc'[r] = tpc[r] /\ task'[r] = task[r]
  PROVE  RunningIsAlive'
<1> SUFFICES ASSUME phase' # "down" /\ ~raised'
             PROVE  /\ \A j \in Jobs : JobRunning(j)' => \E r \in Runs :
                          tpc'[r] \in {"insert", "work"} /\ task'[r].job = j
                    /\ \A r \in Runs : RunRunning(r)' =>
                          tpc'[r] \in {"work", "final"}
  BY DEF RunningIsAlive
<1>1. ASSUME NEW j \in Jobs, JobRunning(j)'
      PROVE  \E r \in Runs : tpc'[r] \in {"insert", "work"} /\ task'[r].job = j
  <2>1. JobRunning(j)
    BY <1>1
  <2>2. PICK r \in Runs : tpc[r] \in {"insert", "work"} /\ task[r].job = j
    BY <2>1 DEF RunningIsAlive
  <2>3. tpc'[r] = tpc[r] /\ task'[r] = task[r]
    BY <2>2
  <2> QED BY <2>2, <2>3
<1>2. ASSUME NEW r \in Runs, RunRunning(r)'
      PROVE  tpc'[r] \in {"work", "final"}
  <2>1. RunRunning(r)
    BY <1>2
  <2>2. tpc[r] \in {"work", "final"}
    BY <2>1 DEF RunningIsAlive
  <2> QED BY <2>2
<1> QED BY <1>1, <1>2

LEMMA AliveInit == SchedulerInit => RunningIsAlive
BY DEF SchedulerInit, RunningIsAlive

\* The rows' statuses are not changed by a request.
LEMMA RequestKeepsAlive ==
  ASSUME SchedulerIInv, RunningIsAlive, NEW t \in Threads,
         Requests(t) \/ RequestSteps(t)
  PROVE  RunningIsAlive'
<1> USE DEF SchedulerIInv
<1>1. UNCHANGED <<phase, tpc, task, raised>>
  BY DEF Requests, RequestSteps, Create, Delete, Update, Reread, RemoveEntry,
         AddEntry, Unschedule, Erase, RequestRaises, taskVars
<1>2. \A r \in Runs : RunRunning(r)' => RunRunning(r)
  <2>1. UNCHANGED runRow \/ Erase(t)
    BY DEF Requests, RequestSteps, Create, Delete, Update, Reread,
           RemoveEntry, AddEntry, Unschedule, RequestRaises, taskVars
  <2>2. CASE UNCHANGED runRow
    BY <2>2 DEF RunRunning, RunExists
  <2>3. CASE Erase(t)
    BY <2>3, SchedulerDistinct DEF Erase, RunRunning, RunExists
  <2> QED BY <2>1, <2>2, <2>3
<1>3. \A j \in Jobs : JobRunning(j)' => JobRunning(j)
  <2>1. CASE UNCHANGED row
    BY <2>1 DEF JobRunning, HasRow
  <2>2. CASE \E c \in Crons : Create(t, c)
    <3>1. PICK c \in Crons, j \in Jobs : row' = [row EXCEPT ![j] = NewRow(c)]
      BY <2>2 DEF Create
    <3> QED BY <3>1 DEF NewRow, JobRunning, HasRow, SchedulerTypeOK
  <2>3. CASE \E j \in Jobs : \/ \E c \in Crons :
                                 Update(t, j, [row[j] EXCEPT !.cron = c])
                            \/ \E b \in BOOLEAN :
                                 Update(t, j, [row[j] EXCEPT !.enabled = b])
    <3>1. PICK j \in Jobs :
            /\ HasRow(j)
            /\ \/ \E c \in Crons :
                    row' = [row EXCEPT ![j] = [row[j] EXCEPT !.cron = c]]
               \/ \E b \in BOOLEAN :
                    row' = [row EXCEPT ![j] = [row[j] EXCEPT !.enabled = b]]
      BY <2>3 DEF Update
    <3>2. HasRow(j) /\ row'[j].status = row[j].status
      BY <3>1 DEF HasRow, Row, SchedulerTypeOK
    <3>3. \A k \in Jobs : k # j => row'[k] = row[k]
      BY <3>1 DEF SchedulerTypeOK
    <3> QED BY <3>2, <3>3 DEF JobRunning, HasRow
  <2>4. CASE Erase(t)
    <3>1. req[t].job \in Jobs
      BY <2>4, ReqOf DEF Erase
    <3> QED BY <2>4, <3>1, SchedulerDistinct
            DEF Erase, JobRunning, HasRow, SchedulerTypeOK
  <2> QED BY <2>1, <2>2, <2>3, <2>4
          DEF Requests, RequestSteps, Delete, Reread, RemoveEntry, AddEntry,
              Unschedule, RequestRaises
<1> QED BY <1>1, <1>2, <1>3, AliveUndisturbed

LEMMA QueueKeepsAlive ==
  ASSUME SchedulerIInv, RunningIsAlive,
         \/ \E j \in Jobs : Fire(j) \/ RunNow(j)
         \/ \E r \in Runs : BeginRun(r)
  PROVE  RunningIsAlive'
<1> USE DEF SchedulerIInv
<1>1. UNCHANGED <<phase, row, runRow, raised>>
  BY DEF Fire, RunNow, BeginRun
<1>2. \A s \in Runs : tpc[s] \in {"insert", "work", "final"} =>
        tpc'[s] = tpc[s] /\ task'[s] = task[s]
  <2>1. CASE \E j \in Jobs : Fire(j) \/ RunNow(j)
    <3>1. PICK j \in Jobs, b \in BOOLEAN : Queue(j, b)
      BY <2>1 DEF Fire, RunNow
    <3> QED BY <3>1, QueuedRun DEF SchedulerTypeOK
  <2>2. CASE \E r \in Runs : BeginRun(r)
    BY <2>2 DEF BeginRun, Step, Ends, SchedulerTypeOK
  <2> QED BY <2>1, <2>2
<1>3. \A j \in Jobs : JobRunning(j)' => JobRunning(j)
  BY <1>1 DEF JobRunning, HasRow
<1>4. \A r \in Runs : RunRunning(r)' => RunRunning(r)
  BY <1>1 DEF RunRunning, RunExists
<1> QED BY <1>1, <1>2, <1>3, <1>4, AliveUndisturbed

LEMMA MarkKeepsAlive ==
  ASSUME SchedulerIInv, RunningIsAlive, NEW r \in Runs, MarkRunning(r)
  PROVE  RunningIsAlive'
<1> USE DEF SchedulerIInv
<1>1. /\ tpc[r] = "mark" /\ SetStatus(task[r].job, "running")
      /\ UNCHANGED <<phase, runRow, raised>>
      /\ Alive(r) /\ task[r].job \in Jobs
  BY TaskOf DEF MarkRunning, Alive
<1>2. /\ tpc'[r] = "insert" /\ task' = task
      /\ \A s \in Runs : s # r => tpc'[s] = tpc[s]
  BY DEF MarkRunning, Step, SchedulerTypeOK
<1>3. ASSUME NEW j \in Jobs, JobRunning(j)', phase' # "down", ~raised'
      PROVE  \E s \in Runs : tpc'[s] \in {"insert", "work"} /\ task'[s].job = j
  <2>1. CASE j = task[r].job
    BY <1>2, <2>1
  <2>2. CASE j # task[r].job
    <3>1. row'[j] = row[j]
      BY <1>1, <2>2, StatusRows
    <3>2. JobRunning(j)
      BY <1>3, <3>1 DEF JobRunning, HasRow
    <3>3. PICK s \in Runs : tpc[s] \in {"insert", "work"} /\ task[s].job = j
      BY <1>1, <1>3, <3>2 DEF RunningIsAlive
    <3> QED BY <1>1, <1>2, <3>3
  <2> QED BY <2>1, <2>2
<1>4. ASSUME NEW s \in Runs, RunRunning(s)', phase' # "down", ~raised'
      PROVE  tpc'[s] \in {"work", "final"}
  <2>1. RunRunning(s)
    BY <1>1, <1>4 DEF RunRunning, RunExists
  <2> QED BY <1>1, <1>2, <1>4, <2>1 DEF RunningIsAlive
<1> QED BY <1>3, <1>4 DEF RunningIsAlive

LEMMA InsertKeepsAlive ==
  ASSUME SchedulerIInv, RunningIsAlive, NEW r \in Runs, InsertRun(r)
  PROVE  RunningIsAlive'
<1> USE DEF SchedulerIInv
<1>1. tpc[r] = "insert" /\ UNCHANGED <<phase, row, raised>>
  BY DEF InsertRun
<1>2. /\ tpc'[r] = "work" /\ task' = task
      /\ \A s \in Runs : s # r => tpc'[s] = tpc[s] /\ runRow'[s] = runRow[s]
  BY DEF InsertRun, Step, SchedulerTypeOK
<1>3. \A j \in Jobs : JobRunning(j)' => JobRunning(j)
  BY <1>1 DEF JobRunning, HasRow
<1>4. \A s \in Runs : s # r /\ RunRunning(s)' => RunRunning(s)
  BY <1>2 DEF RunRunning, RunExists
<1>5. \A s \in Runs : tpc[s] \in {"insert", "work"} =>
        tpc'[s] \in {"insert", "work"} /\ task'[s].job = task[s].job
  BY <1>2
<1> QED BY <1>1, <1>2, <1>3, <1>4, <1>5 DEF RunningIsAlive

\* The run that settles its job was the only one of it.
LEMMA SettleKeepsAlive ==
  ASSUME SchedulerIInv, RunningIsAlive, NEW r \in Runs,
         InsertFails(r) \/ FinishWork(r)
  PROVE  RunningIsAlive'
<1> USE DEF SchedulerIInv
<1>1. /\ tpc[r] \in {"insert", "work"} /\ SetStatus(task[r].job, "settled")
      /\ UNCHANGED <<phase, runRow, raised>>
      /\ Alive(r) /\ task[r].job \in Jobs
  BY TaskOf DEF InsertFails, FinishWork, Alive
<1>2. /\ tpc[r] = "work" => tpc'[r] = "final"
      /\ \A s \in Runs : s # r => tpc'[s] = tpc[s] /\ task'[s] = task[s]
  BY DEF InsertFails, FinishWork, Step, Ends, SchedulerTypeOK
<1>3. ASSUME NEW j \in Jobs, JobRunning(j)', phase' # "down", ~raised'
      PROVE  \E s \in Runs : tpc'[s] \in {"insert", "work"} /\ task'[s].job = j
  <2>1. j # task[r].job
    BY <1>1, <1>3, StatusRows DEF JobRunning, HasRow
  <2>2. row'[j] = row[j]
    BY <1>1, <2>1, StatusRows
  <2>3. JobRunning(j)
    BY <1>3, <2>2 DEF JobRunning, HasRow
  <2>4. PICK s \in Runs : tpc[s] \in {"insert", "work"} /\ task[s].job = j
    BY <1>1, <1>3, <2>3 DEF RunningIsAlive
  <2> QED BY <1>2, <2>1, <2>4
<1>4. ASSUME NEW s \in Runs, RunRunning(s)', phase' # "down", ~raised'
      PROVE  tpc'[s] \in {"work", "final"}
  <2>1. RunRunning(s)
    BY <1>1, <1>4 DEF RunRunning, RunExists
  <2>2. tpc[s] \in {"work", "final"}
    BY <1>1, <1>4, <2>1 DEF RunningIsAlive
  <2> QED BY <1>1, <1>2, <2>2
<1> QED BY <1>3, <1>4 DEF RunningIsAlive

LEMMA FinalizeKeepsAlive ==
  ASSUME SchedulerIInv, RunningIsAlive, NEW r \in Runs, FinalizeRun(r)
  PROVE  RunningIsAlive'
<1> USE DEF SchedulerIInv
<1>1. tpc[r] = "final" /\ UNCHANGED <<phase, row, raised>>
  BY DEF FinalizeRun
<1>2. \A s \in Runs : s # r =>
        tpc'[s] = tpc[s] /\ task'[s] = task[s] /\ runRow'[s] = runRow[s]
  BY DEF FinalizeRun, Ends, SchedulerTypeOK
<1>3. ~RunRunning(r)'
  BY SchedulerDistinct DEF FinalizeRun, RunRunning, RunExists, SchedulerTypeOK,
                           RunRow
<1>4. \A j \in Jobs : JobRunning(j)' => JobRunning(j)
  BY <1>1 DEF JobRunning, HasRow
<1>5. \A s \in Runs : RunRunning(s)' => s # r /\ RunRunning(s)
  BY <1>2, <1>3 DEF RunRunning, RunExists
<1> QED BY <1>1, <1>2, <1>4, <1>5 DEF RunningIsAlive

LEMMA StartKeepsAlive ==
  ASSUME SchedulerIInv, Start \/ StartFails
  PROVE  RunningIsAlive'
<1> USE DEF SchedulerIInv
<1>1. ResetOrphans
  BY DEF Start, StartFails
<1>2. \A j \in Jobs : ~JobRunning(j)'
  <2> SUFFICES ASSUME NEW j \in Jobs PROVE ~JobRunning(j)'
    OBVIOUS
  <2>1. CASE JobRunning(j)
    <3>1. row'[j] = [row[j] EXCEPT !.status = "settled"] /\ row[j] \in Row
      BY <1>1, <2>1 DEF ResetOrphans, JobRunning, HasRow
    <3>2. row'[j].status = "settled"
      BY <3>1 DEF Row
    <3> QED BY <3>2 DEF JobRunning
  <2>2. CASE ~JobRunning(j)
    BY <1>1, <2>2 DEF ResetOrphans, JobRunning, HasRow
  <2> QED BY <2>1, <2>2
<1>3. \A r \in Runs : ~RunRunning(r)'
  <2> SUFFICES ASSUME NEW r \in Runs PROVE ~RunRunning(r)'
    OBVIOUS
  <2>1. CASE RunRunning(r)
    <3>1. /\ runRow'[r] = [runRow[r] EXCEPT !.status = "settled"]
          /\ runRow[r] \in RunRow
      BY <1>1, <2>1 DEF ResetOrphans, RunRunning, RunExists
    <3>2. runRow'[r].status = "settled"
      BY <3>1 DEF RunRow
    <3> QED BY <3>2 DEF RunRunning
  <2>2. CASE ~RunRunning(r)
    BY <1>1, <2>2 DEF ResetOrphans, RunRunning, RunExists
  <2> QED BY <2>1, <2>2
<1> QED BY <1>2, <1>3 DEF RunningIsAlive

LEMMA SeedKeepsAlive ==
  ASSUME SchedulerIInv, RunningIsAlive, SeedJob
  PROVE  RunningIsAlive'
<1> USE DEF SchedulerIInv
<1>1. /\ phase = "seed" /\ UNCHANGED <<tpc, task, runRow, raised>>
  BY DEF SeedJob, taskVars
<1>2. \A j \in Jobs : JobRunning(j)' => JobRunning(j)
  <2>1. PICK j \in SystemJobs, c \in SystemCrons : row' = [row EXCEPT ![j] = NewRow(c)]
    BY DEF SeedJob
  <2> QED BY <2>1 DEF NewRow, JobRunning, HasRow, SchedulerTypeOK
<1>3. \A r \in Runs : RunRunning(r)' => RunRunning(r)
  BY <1>1 DEF RunRunning, RunExists
<1> QED BY <1>1, <1>2, <1>3, AliveUndisturbed

LEMMA AliveNext ==
  ASSUME SchedulerIInv, RunningIsAlive, [SchedulerNext]_schedulerVars
  PROVE  RunningIsAlive'
<1>1. ASSUME NEW t \in Threads, Requests(t) \/ RequestSteps(t)
      PROVE  RunningIsAlive'
  BY <1>1, RequestKeepsAlive
<1>2. ASSUME NEW j \in Jobs, Fire(j) \/ RunNow(j) PROVE RunningIsAlive'
  BY <1>2, QueueKeepsAlive
<1>3. ASSUME NEW r \in Runs, RunSteps(r) PROVE RunningIsAlive'
  <2>1. CASE RunRaises(r)
    BY <2>1 DEF RunRaises, RunningIsAlive
  <2> QED BY <1>3, <2>1, QueueKeepsAlive, MarkKeepsAlive, InsertKeepsAlive,
             SettleKeepsAlive, FinalizeKeepsAlive DEF RunSteps
<1>4. CASE Startup
  BY <1>4, StartKeepsAlive, SeedKeepsAlive DEF Startup
<1>5. CASE Crash
  BY <1>5 DEF Crash, RunningIsAlive
<1>6. CASE UNCHANGED schedulerVars
  <2>1. UNCHANGED <<phase, row, runRow, tpc, task, raised>>
    BY <1>6 DEF schedulerVars, requestVars, taskVars
  <2>2. /\ \A j \in Jobs : JobRunning(j)' => JobRunning(j)
        /\ \A r \in Runs : RunRunning(r)' => RunRunning(r)
    BY <2>1 DEF JobRunning, HasRow, RunRunning, RunExists
  <2> QED BY <2>1, <2>2, AliveUndisturbed
<1> QED BY <1>1, <1>2, <1>3, <1>4, <1>5, <1>6 DEF SchedulerNext

\* No job or run is left at "running" by a crash, a deletion or a failed
\* INSERT, as long as SQLite writes the statuses.
THEOREM RunningAlive == SchedulerSpec => []RunningIsAlive
<1>1. SchedulerIInv /\ RunningIsAlive /\ [SchedulerNext]_schedulerVars
      => RunningIsAlive'
  BY AliveNext
<1> QED BY <1>1, AliveInit, SchedulerInvariant, PTL DEF SchedulerSpec

-----------------------------------------------------------------------------
(* APScheduler follows the table, with one request at a time                 *)

OneRequest == \A t, u \in Threads : t = u
Planned(j) == Enabled(j) /\ row[j].cron \in Triggerable
BusyWith(j) == \E t \in Threads : rpc[t] # "idle" /\ req[t].job = j

\* Of a job that no request is at: nothing but its plan is scheduled, and the
\* plan is, while the process is there, unless an error has kept it out.
Follows(j) == j \notin missed =>
  /\ ~ Planned(j) => entry[j] = NoEntry \/ torn
  /\ phase # "down" /\ Planned(j) => entry[j] = row[j].cron

\* A request that has read the row has its cron and switch, and has removed
\* the entry before it adds one or erases the row.
Requested(t) ==
  LET j == req[t].job IN
    rpc[t] # "idle" =>
      /\ HasRow(j)
      /\ rpc[t] \in {"remove", "add"} => req[t].cron = row[j].cron /\ req[t].enabled = row[j].enabled
      /\ rpc[t] = "add" => req[t].enabled
      /\ rpc[t] \in {"add", "erase"} => entry[j] = NoEntry \/ j \in missed

FollowInv ==
  /\ phase # "up" => \A t \in Threads : rpc[t] = "idle"
  /\ \A j \in Jobs : row[j] = NoRow => entry[j] = NoEntry
  /\ \A j \in Jobs : ~ BusyWith(j) => Follows(j)
  /\ \A t \in Threads : Requested(t)

LEMMA FollowInit == SchedulerInit => FollowInv
<1> SUFFICES ASSUME SchedulerInit PROVE FollowInv
  OBVIOUS
<1>1. /\ \A t \in Threads : rpc[t] = "idle"
      /\ \A j \in Jobs : row[j] = NoRow /\ entry[j] = NoEntry
  BY DEF SchedulerInit
<1>2. phase = "down" /\ \A j \in Jobs : ~ HasRow(j)
  BY <1>1, SchedulerDistinct DEF SchedulerInit, HasRow
<1> QED
  BY <1>1, <1>2 DEF FollowInv, Follows, Planned, Enabled, Requested

\* A step that leaves the plans, the entries and the requests alone.
LEMMA PlansKept ==
  ASSUME FollowInv, UNCHANGED <<phase, entry, rpc, req, missed, torn>>,
         \A j \in Jobs : /\ HasRow(j)' <=> HasRow(j)
                         /\ row'[j] = NoRow => row[j] = NoRow
                         /\ HasRow(j) => row'[j].cron = row[j].cron /\ row'[j].enabled = row[j].enabled,
         SchedulerTypeOK
  PROVE  FollowInv'
<1>1. \A j \in Jobs : (BusyWith(j)' <=> BusyWith(j)) /\ (Planned(j)' <=> Planned(j))
  BY DEF BusyWith, Planned, Enabled
<1>2. \A j \in Jobs : Follows(j) => Follows(j)'
  BY <1>1 DEF Follows, Planned, Enabled
<1>3. ASSUME NEW t \in Threads PROVE Requested(t)'
  <2>1. Requested(t) /\ (rpc[t] # "idle" => req[t].job \in Jobs)
    BY ReqOf DEF FollowInv
  <2> QED
    BY <2>1 DEF Requested
<1> QED
  BY <1>1, <1>2, <1>3 DEF FollowInv

LEMMA StatusKeepsPlans ==
  ASSUME SchedulerTypeOK, FollowInv, NEW j \in Jobs, NEW s \in {"running", "settled"}, SetStatus(j, s),
         UNCHANGED <<phase, entry, rpc, req, missed, torn>>
  PROVE  FollowInv'
<1>1. CASE HasRow(j)
  <2>1. row[j] \in Row /\ row' = [row EXCEPT ![j] = [row[j] EXCEPT !.status = s]]
    BY <1>1 DEF HasRow, SetStatus, SchedulerTypeOK
  <2> DEFINE next == [row[j] EXCEPT !.status = s]
  <2>2. next \in Row /\ next.cron = row[j].cron /\ next.enabled = row[j].enabled
    BY <2>1 DEF Row
  <2> HIDE DEF next
  <2>3. row'[j] = next /\ \A k \in Jobs \ {j} : row'[k] = row[k]
    BY <2>1 DEF next, SchedulerTypeOK
  <2>4. next # NoRow
    BY <2>2, SchedulerDistinct
  <2> QED
    BY <1>1, <2>2, <2>3, <2>4, PlansKept DEF HasRow
<1>2. CASE ~ HasRow(j)
  BY <1>2, PlansKept DEF SetStatus, HasRow
<1> QED
  BY <1>1, <1>2

LEMMA RunsKeepPlans ==
  ASSUME SchedulerIInv, FollowInv, NEW r \in Runs, RunSteps(r)
  PROVE  FollowInv'
<1>1. UNCHANGED <<phase, entry, rpc, req, missed, torn>> /\ Alive(r)
  BY DEF RunSteps, BeginRun, MarkRunning, InsertRun, InsertFails, FinishWork, FinalizeRun, RunRaises,
         requestVars, Alive
<1>2. task[r].job \in Jobs /\ SchedulerTypeOK
  BY <1>1, TaskOf DEF SchedulerIInv
<1>3. CASE UNCHANGED row
  BY <1>1, <1>2, <1>3, PlansKept DEF HasRow
<1>4. CASE \E s \in {"running", "settled"} : SetStatus(task[r].job, s)
  BY <1>1, <1>2, <1>4, StatusKeepsPlans
<1> QED
  BY <1>3, <1>4 DEF RunSteps, BeginRun, MarkRunning, InsertRun, InsertFails, FinishWork, FinalizeRun, RunRaises

\* Only one job has a request, before and after the step of one.
LEMMA OneBusy ==
  ASSUME OneRequest, SchedulerTypeOK, FollowInv, NEW t \in Threads, NEW j \in Jobs,
         phase = "up", UNCHANGED <<phase, torn>>,
         \A k \in Jobs \ {j} : row'[k] = row[k] /\ entry'[k] = entry[k] /\ (k \in missed' <=> k \in missed),
         rpc[t] # "idle" => req[t].job = j,
         rpc'[t] # "idle" => req'[t].job = j,
         row'[j] = NoRow => entry'[j] = NoEntry,
         rpc'[t] = "idle" => Follows(j)',
         Requested(t)'
  PROVE  FollowInv'
<1>1. \A k \in Jobs \ {j} : Follows(k)'
  <2>1. \A k \in Jobs \ {j} : ~ BusyWith(k)
    BY DEF OneRequest, BusyWith
  <2> QED
    BY <2>1 DEF FollowInv, Follows, Planned, Enabled, HasRow
<1>2. rpc'[t] # "idle" => BusyWith(j)'
  BY DEF BusyWith
<1>3. \A u \in Threads : u = t
  BY DEF OneRequest
<1> QED
  BY <1>1, <1>2, <1>3 DEF FollowInv

LEMMA RequestsFollow ==
  ASSUME OneRequest, SchedulerTypeOK, FollowInv, NEW t \in Threads, Requests(t)
  PROVE  FollowInv'
<1>1. phase = "up" /\ rpc[t] = "idle" /\ UNCHANGED <<phase, missed, torn, entry>>
  BY DEF Requests, Create, Delete, Update, Serving
<1>2. ASSUME NEW c \in Crons, Create(t, c) PROVE FollowInv'
  <2>1. PICK j \in Jobs : /\ row[j] = NoRow /\ row' = [row EXCEPT ![j] = NewRow(c)]
                          /\ Go(t, "add", [job |-> j, cron |-> c, enabled |-> TRUE])
    BY <1>2 DEF Create
  <2>2. NewRow(c) \in Row /\ NewRow(c).cron = c /\ NewRow(c).enabled = TRUE
    BY DEF NewRow, Row
  <2>3. row'[j] = NewRow(c) /\ \A k \in Jobs \ {j} : row'[k] = row[k]
    BY <2>1 DEF SchedulerTypeOK
  <2>4. /\ rpc'[t] = "add" /\ req'[t].job = j /\ req'[t].cron = c /\ req'[t].enabled = TRUE
    BY <2>1 DEF Go, SchedulerTypeOK
  <2>5. Requested(t)'
    BY <1>1, <2>1, <2>2, <2>3, <2>4 DEF Requested, HasRow, FollowInv
  <2>6. row'[j] # NoRow
    BY <2>2, <2>3, SchedulerDistinct
  <2> QED
    BY <1>1, <2>3, <2>4, <2>5, <2>6, OneBusy
<1>3. ASSUME NEW j \in Jobs, Delete(t, j) PROVE FollowInv'
  <2>1. HasRow(j) /\ Go(t, "unschedule", Locals(j)) /\ UNCHANGED row
    BY <1>3 DEF Delete
  <2>2. rpc'[t] = "unschedule" /\ req'[t].job = j
    BY <2>1 DEF Go, SchedulerTypeOK, Locals
  <2>3. Requested(t)'
    BY <1>1, <2>1, <2>2 DEF Requested, HasRow
  <2>4. row'[j] # NoRow
    BY <2>1, SchedulerDistinct DEF HasRow
  <2> QED
    BY <1>1, <2>1, <2>2, <2>3, <2>4, OneBusy
<1>4. ASSUME NEW j \in Jobs, NEW new \in Row, Update(t, j, new) PROVE FollowInv'
  <2>1. HasRow(j) /\ Go(t, "reread", Locals(j)) /\ row' = [row EXCEPT ![j] = new]
    BY <1>4 DEF Update
  <2>2. rpc'[t] = "reread" /\ req'[t].job = j
    BY <2>1 DEF Go, SchedulerTypeOK, Locals
  <2>3. row'[j] = new /\ \A k \in Jobs \ {j} : row'[k] = row[k]
    BY <2>1 DEF SchedulerTypeOK
  <2>4. Requested(t)'
    BY <1>1, <2>1, <2>2, <2>3 DEF Requested, HasRow
  <2>5. row'[j] # NoRow
    BY <2>3, SchedulerDistinct
  <2> QED
    BY <1>1, <2>2, <2>3, <2>4, <2>5, OneBusy
<1>5. ASSUME NEW j \in Jobs, NEW c \in Crons, HasRow(j) PROVE [row[j] EXCEPT !.cron = c] \in Row
  BY <1>5 DEF HasRow, Row
<1>6. ASSUME NEW j \in Jobs, NEW b \in BOOLEAN, HasRow(j) PROVE [row[j] EXCEPT !.enabled = b] \in Row
  BY <1>6 DEF HasRow, Row
<1> QED
  BY <1>2, <1>3, <1>4, <1>5, <1>6 DEF Requests, Update

LEMMA RequestStepsFollow ==
  ASSUME OneRequest, SchedulerTypeOK, FollowInv, NEW t \in Threads, RequestSteps(t)
  PROVE  FollowInv'
<1>1. PICK j : j = req[t].job
  OBVIOUS
<1>2. rpc[t] # "idle" /\ UNCHANGED <<phase, torn>>
  BY DEF RequestSteps, Reread, RemoveEntry, AddEntry, Unschedule, Erase, RequestRaises
<1>3. /\ phase = "up" /\ req[t] \in Request /\ j \in Jobs /\ HasRow(j) /\ Requested(t)
  BY <1>1, <1>2, ReqOf DEF FollowInv, Requested
<1>4. row[j] # NoRow /\ row[j] \in Row
  BY <1>3, SchedulerDistinct DEF HasRow
<1>5. ASSUME NEW pc, NEW q, Go(t, pc, q) PROVE rpc'[t] = pc /\ req'[t] = q
  BY <1>5 DEF Go, SchedulerTypeOK
<1>6. ASSUME Done(t) PROVE rpc'[t] = "idle"
  BY <1>5, <1>6 DEF Done
<1>7. CASE Reread(t)
  <2>1. UNCHANGED <<row, entry, missed>> /\ rpc'[t] = "remove" /\ req'[t] = Locals(j)
    BY <1>1, <1>3, <1>5, <1>7 DEF Reread
  <2>2. req'[t].job = j /\ req'[t].cron = row[j].cron /\ req'[t].enabled = row[j].enabled
    BY <2>1 DEF Locals
  <2>3. Requested(t)'
    BY <1>3, <2>1, <2>2 DEF Requested, HasRow
  <2> QED
    BY <1>1, <1>2, <1>3, <1>4, <2>1, <2>2, <2>3, OneBusy
<1>8. CASE RemoveEntry(t)
  <2>1. /\ rpc[t] = "remove" /\ UNCHANGED row /\ (entry'[j] = NoEntry \/ j \in missed')
        /\ \A k \in Jobs \ {j} : entry'[k] = entry[k] /\ (k \in missed' <=> k \in missed)
    BY <1>1, <1>3, <1>8, StoreDoes DEF RemoveEntry
  <2>2. CASE req[t].enabled
    <3>1. rpc'[t] = "add" /\ req'[t] = req[t]
      BY <1>5, <1>8, <2>2 DEF RemoveEntry
    <3>2. Requested(t)'
      BY <1>1, <1>3, <2>1, <2>2, <3>1 DEF Requested, HasRow
    <3> QED
      BY <1>1, <1>2, <1>3, <1>4, <2>1, <3>1, <3>2, OneBusy
  <2>3. CASE ~ req[t].enabled
    <3>1. rpc'[t] = "idle"
      BY <1>6, <1>8, <2>3 DEF RemoveEntry
    <3>2. Follows(j)'
      BY <1>1, <1>3, <2>1, <2>3 DEF Follows, Planned, Enabled, Requested
    <3>3. Requested(t)'
      BY <3>1 DEF Requested
    <3> QED
      BY <1>1, <1>2, <1>3, <1>4, <2>1, <3>1, <3>2, <3>3, OneBusy
  <2> QED
    BY <2>2, <2>3
<1>9. CASE AddEntry(t)
  <2>1. rpc[t] = "add" /\ UNCHANGED row /\ rpc'[t] = "idle"
    BY <1>6, <1>9 DEF AddEntry
  <2>2. /\ entry[j] = NoEntry \/ j \in missed
        /\ req[t].enabled /\ req[t].cron = row[j].cron /\ req[t].enabled = row[j].enabled
    BY <1>1, <1>3, <2>1 DEF Requested
  <2>3. /\ \A k \in Jobs \ {j} : entry'[k] = entry[k] /\ (k \in missed' <=> k \in missed)
        /\ j \notin missed' =>
             entry'[j] = IF row[j].cron \in Triggerable THEN row[j].cron ELSE NoEntry
    <3>1. CASE row[j].cron \in Triggerable
      BY <1>1, <1>3, <1>9, <2>2, <3>1, StoreDoes DEF AddEntry
    <3>2. CASE row[j].cron \notin Triggerable
      BY <1>1, <1>9, <2>2, <3>2 DEF AddEntry
    <3> QED
      BY <3>1, <3>2
  <2>4. Follows(j)'
    BY <1>3, <2>1, <2>2, <2>3 DEF Follows, Planned, Enabled, HasRow
  <2>5. Requested(t)'
    BY <2>1 DEF Requested
  <2> QED
    BY <1>1, <1>2, <1>3, <1>4, <2>1, <2>3, <2>4, <2>5, OneBusy
<1>10. CASE Unschedule(t)
  <2>1. /\ UNCHANGED row /\ (entry'[j] = NoEntry \/ j \in missed')
        /\ \A k \in Jobs \ {j} : entry'[k] = entry[k] /\ (k \in missed' <=> k \in missed)
    BY <1>1, <1>3, <1>10, StoreDoes DEF Unschedule
  <2>2. rpc'[t] = "erase" /\ req'[t] = req[t]
    BY <1>5, <1>10 DEF Unschedule
  <2>3. Requested(t)'
    BY <1>1, <1>3, <2>1, <2>2 DEF Requested, HasRow
  <2> QED
    BY <1>1, <1>2, <1>3, <1>4, <2>1, <2>2, <2>3, OneBusy
<1>11. CASE Erase(t)
  <2>1. rpc[t] = "erase" /\ UNCHANGED <<entry, missed>> /\ rpc'[t] = "idle"
    BY <1>6, <1>11 DEF Erase
  <2>2. row'[j] = Deleted /\ \A k \in Jobs \ {j} : row'[k] = row[k]
    BY <1>1, <1>3, <1>11 DEF Erase, SchedulerTypeOK
  <2>3. (entry'[j] = NoEntry \/ j \in missed') /\ ~ HasRow(j)'
    BY <1>1, <1>3, <2>1, <2>2, SchedulerDistinct DEF Requested, HasRow
  <2>4. Follows(j)'
    BY <2>3 DEF Follows, Planned, Enabled
  <2>5. Requested(t)'
    BY <2>1 DEF Requested
  <2> QED
    BY <1>1, <1>2, <1>3, <2>1, <2>2, <2>3, <2>4, <2>5, SchedulerDistinct, OneBusy
<1>12. CASE RequestRaises(t)
  <2>1. UNCHANGED <<row, entry>> /\ rpc'[t] = "idle" /\ missed' = missed \cup {j}
    BY <1>1, <1>6, <1>12 DEF RequestRaises, Missed
  <2>2. Follows(j)' /\ Requested(t)'
    BY <2>1 DEF Follows, Requested
  <2> QED
    BY <1>1, <1>2, <1>3, <1>4, <2>1, <2>2, OneBusy
<1> QED
  BY <1>7, <1>8, <1>9, <1>10, <1>11, <1>12 DEF RequestSteps

\* Starting, seeding and crashing, while no request is served.
LEMMA QuietFollows ==
  ASSUME FollowInv, \A t \in Threads : rpc'[t] = "idle",
         \A j \in Jobs : Follows(j)',
         \A j \in Jobs : row'[j] = NoRow => entry'[j] = NoEntry
  PROVE  FollowInv'
  BY DEF FollowInv, Requested

\* Orphans are reset: the plans stay.
LEMMA OrphansKeepPlans ==
  ASSUME SchedulerTypeOK, ResetOrphans, NEW j \in Jobs
  PROVE  /\ HasRow(j)' <=> HasRow(j)
         /\ row'[j] = NoRow <=> row[j] = NoRow
         /\ HasRow(j) => row'[j].cron = row[j].cron /\ row'[j].enabled = row[j].enabled
<1>1. row'[j] = IF JobRunning(j) THEN [row[j] EXCEPT !.status = "settled"] ELSE row[j]
  BY DEF ResetOrphans
<1>2. ASSUME HasRow(j)
      PROVE  /\ [row[j] EXCEPT !.status = "settled"] \in Row
             /\ [row[j] EXCEPT !.status = "settled"].cron = row[j].cron
             /\ [row[j] EXCEPT !.status = "settled"].enabled = row[j].enabled
  BY <1>2 DEF HasRow, Row
<1> QED
  BY <1>1, <1>2, SchedulerDistinct DEF HasRow, JobRunning

LEMMA StartFollows == ASSUME SchedulerTypeOK, FollowInv, Startup PROVE FollowInv'
<1>1. phase # "up" /\ UNCHANGED <<rpc, req, torn>>
  BY DEF Startup, Start, StartFails, SeedJob, requestVars
<1>2. /\ \A t \in Threads : rpc'[t] = "idle"
      /\ \A j \in Jobs : Follows(j) /\ (row[j] = NoRow => entry[j] = NoEntry)
  BY <1>1 DEF FollowInv, BusyWith
<1>3. CASE Start
  <2>1. /\ ResetOrphans /\ \A j \in Jobs : Enabled(j) => row[j].cron \in Parseable
        /\ \A j \in Jobs : j \notin missed' =>
             /\ Planned(j) => entry'[j] = row[j].cron
             /\ ~ Planned(j) => entry'[j] = entry[j] /\ j \notin missed
        /\ \A j \in Jobs : ~ Enabled(j) => entry'[j] = entry[j]
    BY <1>3 DEF Start, Rescheduled, Missed, Schedulable, Planned
  <2>2. \A j \in Jobs : /\ HasRow(j)' <=> HasRow(j)
                        /\ row'[j] = NoRow <=> row[j] = NoRow
                        /\ HasRow(j) => row'[j].cron = row[j].cron /\ row'[j].enabled = row[j].enabled
    BY <2>1, OrphansKeepPlans
  <2>3. \A j \in Jobs : row[j] = NoRow => ~ Enabled(j)
    BY SchedulerDistinct DEF Enabled, HasRow
  <2> QED
    BY <1>1, <1>2, <2>1, <2>2, <2>3, QuietFollows DEF Follows, Planned, Enabled
<1>4. CASE StartFails
  <2>1. PICK S \in SUBSET Schedulable : \E F \in SUBSET S :
          /\ \A j \in Jobs : entry'[j] = IF j \in S \ F THEN row[j].cron ELSE entry[j]
          /\ missed' = (missed \ S) \cup F
    BY <1>4 DEF StartFails, Rescheduled, Missed
  <2>2. ResetOrphans /\ phase = "down" /\ phase' = "down"
    BY <1>4 DEF StartFails
  <2>3. \A j \in Jobs : /\ HasRow(j)' <=> HasRow(j)
                        /\ row'[j] = NoRow <=> row[j] = NoRow
                        /\ HasRow(j) => row'[j].cron = row[j].cron /\ row'[j].enabled = row[j].enabled
    BY <2>2, OrphansKeepPlans
  <2>4. \A j \in Jobs : row[j] = NoRow => ~ Enabled(j)
    BY SchedulerDistinct DEF Enabled, HasRow
  <2> QED
    BY <1>1, <1>2, <2>1, <2>2, <2>3, <2>4, QuietFollows DEF Follows, Planned, Enabled, Schedulable
<1>5. CASE SeedJob
  <2>1. PICK j \in SystemJobs, c \in SystemCrons :
          /\ row[j] = NoRow
          /\ row' = [row EXCEPT ![j] = NewRow(c)]
          /\ IF c \in Triggerable THEN Store(j, c) ELSE UNCHANGED <<entry, missed>>
    BY <1>5 DEF SeedJob
  <2>2. /\ j \in Jobs /\ entry[j] = NoEntry
        /\ NewRow(c) \in Row /\ NewRow(c).cron = c /\ NewRow(c) # NoRow
    <3>1. NewRow(c) \in Row /\ NewRow(c).cron = c
      BY SchedulerAssumption DEF NewRow, Row
    <3> QED
      BY <1>2, <2>1, <3>1, SchedulerDistinct, SchedulerAssumption
  <2>3. /\ row'[j] = NewRow(c)
        /\ \A k \in Jobs \ {j} : row'[k] = row[k]
    BY <2>1, <2>2 DEF SchedulerTypeOK
  <2>4. /\ \A k \in Jobs \ {j} : entry'[k] = entry[k] /\ (k \in missed' <=> k \in missed)
        /\ j \notin missed' => entry'[j] = IF c \in Triggerable THEN c ELSE NoEntry
    BY <2>1, <2>2, StoreDoes
  <2>5. Follows(j)'
    BY <2>2, <2>3, <2>4 DEF Follows, Planned, Enabled, HasRow, NewRow
  <2>6. \A k \in Jobs \ {j} : Follows(k)'
    <3>1. phase # "down"
      BY <1>5 DEF SeedJob
    <3> QED
      BY <1>1, <1>2, <2>3, <2>4, <3>1 DEF Follows, Planned, Enabled, HasRow
  <2> QED
    BY <1>2, <2>2, <2>3, <2>4, <2>5, <2>6, QuietFollows
<1> QED
  BY <1>3, <1>4, <1>5 DEF Startup

LEMMA CrashFollows == ASSUME FollowInv, Crash PROVE FollowInv'
<1>1. /\ phase' = "down" /\ torn' = (torn \/ \E t \in Threads : rpc[t] # "idle")
      /\ \A t \in Threads : rpc'[t] = "idle"
      /\ UNCHANGED <<row, entry, missed>>
  BY DEF Crash
<1>2. ASSUME NEW j \in Jobs PROVE Follows(j)'
  BY <1>1 DEF FollowInv, Follows, BusyWith, Planned, Enabled, HasRow
<1> QED
  BY <1>1, <1>2, QuietFollows DEF FollowInv

LEMMA FollowNext ==
  ASSUME OneRequest, SchedulerIInv, FollowInv, [SchedulerNext]_schedulerVars PROVE FollowInv'
<1> USE DEF SchedulerIInv
<1>1. ASSUME NEW t \in Threads, Requests(t) \/ RequestSteps(t) PROVE FollowInv'
  BY <1>1, RequestsFollow, RequestStepsFollow
<1>2. CASE (\E j \in Jobs : Fire(j) \/ RunNow(j)) \/ UNCHANGED schedulerVars
  <2>1. UNCHANGED <<phase, row, entry, rpc, req, missed, torn>>
    BY <1>2 DEF Fire, RunNow, requestVars, schedulerVars
  <2> QED
    BY <2>1, PlansKept DEF HasRow
<1>3. ASSUME NEW r \in Runs, RunSteps(r) PROVE FollowInv'
  BY <1>3, RunsKeepPlans
<1>4. CASE Startup \/ Crash
  BY <1>4, StartFollows, CrashFollows
<1> QED
  BY <1>1, <1>2, <1>3, <1>4 DEF SchedulerNext

\* With one request at a time APScheduler has what the table says, whichever
\* runs, failed starts and crashes there are, but for the jobs of which SQLite
\* or the job store has raised in the last change.
THEOREM EntriesFollowRows ==
  ASSUME OneRequest PROVE SchedulerSpec => []ScheduleFollowsRows
<1>1. FollowInv => ScheduleFollowsRows
  BY DEF FollowInv, ScheduleFollowsRows, BusyWith, Follows, Planned
<1>2. SchedulerIInv /\ FollowInv /\ [SchedulerNext]_schedulerVars => FollowInv'
  BY FollowNext
<1> QED
  BY <1>1, <1>2, FollowInit, SchedulerInvariant, PTL DEF SchedulerSpec
=============================================================================
