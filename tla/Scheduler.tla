----------------------------- MODULE Scheduler -----------------------------
(***************************************************************************)
(* The job scheduler: scheduler.py (the table scheduled_jobs and the        *)
(* entries it keeps in APScheduler), scheduler_api.py (the requests),       *)
(* scheduler_executor.py (the run of a job and its row in job_runs) and     *)
(* scheduler_registry.py (the system jobs).                                 *)
(*                                                                         *)
(* Requests are served by threads; each database transaction and each call  *)
(* of APScheduler is one step of theirs.  Runs are coroutines of the one    *)
(* event loop: between two awaits no other run takes a step, but a request  *)
(* thread may.  Both databases outlive the process.                         *)
(***************************************************************************)
EXTENDS Integers, FiniteSets

CONSTANTS
  Jobs,         \* bound: job ids
  SystemJobs,   \* those of SYSTEM_JOBS, the registry's
  Crons,        \* cron expressions that croniter accepts
  Parseable,    \* those of five fields, which _parse_cron accepts
  Triggerable,  \* those of which CronTrigger then makes a trigger
  SystemCrons,  \* the crons of the system jobs
  Threads,      \* request threads
  Runs,         \* bound: executions of jobs
  MaxMisses,    \* bound: jobs in the history variable missed
  NoRow,        \* no row with this id yet
  Deleted,      \* the row of this id has been deleted
  NoEntry,      \* APScheduler has no job with this id
  NoRun,        \* no row of job_runs
  NoRequest, NoTask

ASSUME SchedulerAssumption ==
  /\ SystemJobs \subseteq Jobs
  /\ Triggerable \subseteq Parseable /\ Parseable \subseteq Crons
  /\ SystemCrons \subseteq Parseable
  /\ NoEntry \notin Crons

\* last_status: "settled" is never run, ok, error or timeout.
Row == [cron : Crons, enabled : BOOLEAN, status : {"running", "settled"}]

\* The job dictionary that a request works with.
Request == [job : Jobs, cron : Crons, enabled : BOOLEAN]
Task == [job : Jobs, scheduled : BOOLEAN]
RunRow == [job : Jobs, status : {"running", "settled"}]

ASSUME SchedulerDistinct ==
  /\ NoRow \notin Row /\ Deleted \notin Row /\ NoRow # Deleted
  /\ NoRequest \notin Request /\ NoTask \notin Task /\ NoRun \notin RunRow

VARIABLES
  phase,    \* of the process: "down", "seed" (startup), "up"
  row,      \* scheduled_jobs
  entry,    \* APScheduler's job store: the cron of each id
  runRow,   \* job_runs
  rpc, req, \* where each request thread is, and its locals
  tpc, task,\* where each run is, and its locals
  missed,   \* history: jobs of which an error has kept the last change from
            \* APScheduler's job store
  torn,     \* history: a crash has cut a request short
  raised    \* history: SQLite has raised while a run wrote its status

requestVars == <<rpc, req>>
taskVars == <<tpc, task, runRow>>
schedulerVars == <<phase, row, entry, requestVars, taskVars, missed, torn, raised>>

RequestPCs == {"idle", "reread", "remove", "add", "unschedule", "erase"}
TaskPCs == {"unused", "queued", "mark", "insert", "work", "final", "over"}

SchedulerTypeOK ==
  /\ phase \in {"down", "seed", "up"}
  /\ row \in [Jobs -> Row \cup {NoRow, Deleted}]
  /\ entry \in [Jobs -> Crons \cup {NoEntry}]
  /\ runRow \in [Runs -> RunRow \cup {NoRun}]
  /\ rpc \in [Threads -> RequestPCs]
  /\ req \in [Threads -> Request \cup {NoRequest}]
  /\ \A t \in Threads : req[t] = NoRequest <=> rpc[t] = "idle"
  /\ tpc \in [Runs -> TaskPCs]
  /\ task \in [Runs -> Task \cup {NoTask}]
  /\ \A r \in Runs : task[r] = NoTask <=> tpc[r] \in {"unused", "over"}
  /\ missed \subseteq Jobs
  /\ torn \in BOOLEAN /\ raised \in BOOLEAN

SchedulerInit ==
  /\ phase = "down"
  /\ row = [j \in Jobs |-> NoRow]
  /\ entry = [j \in Jobs |-> NoEntry]
  /\ runRow = [r \in Runs |-> NoRun]
  /\ rpc = [t \in Threads |-> "idle"]
  /\ req = [t \in Threads |-> NoRequest]
  /\ tpc = [r \in Runs |-> "unused"]
  /\ task = [r \in Runs |-> NoTask]
  /\ missed = {} /\ torn = FALSE /\ raised = FALSE

-----------------------------------------------------------------------------
HasRow(j) == row[j] \in Row

RunExists(r) == runRow[r] \in RunRow
RunRunning(r) == RunExists(r) /\ runRow[r].status = "running"
JobRunning(j) == HasRow(j) /\ row[j].status = "running"

\* Mutant of SetStatus: the row is inserted when it has been deleted.
UpsertStatus(j, s) ==
  row' = [row EXCEPT ![j] = IF HasRow(j) THEN [@ EXCEPT !.status = s]
                            ELSE [status |-> s]]

\* UPDATE scheduled_jobs SET last_status=s: of no row if it is deleted.
SetStatus(j, s) ==
  row' = IF HasRow(j) THEN [row EXCEPT ![j].status = s] ELSE row

NewRow(c) == [cron |-> c, enabled |-> TRUE, status |-> "settled"]

\* A request thread goes on with the locals q.
Go(t, pc, q) ==
  /\ rpc' = [rpc EXCEPT ![t] = pc]
  /\ req' = [req EXCEPT ![t] = q]

Done(t) == Go(t, "idle", NoRequest)

Locals(j) == [job |-> j, cron |-> row[j].cron, enabled |-> row[j].enabled]

Serving(t) == phase = "up" /\ rpc[t] = "idle"

-----------------------------------------------------------------------------
(* scheduler_api: the requests                                               *)

\* create_job: the row is committed, and scheduled by AddEntry.
Create(t, c) ==
  /\ Serving(t)
  /\ \E j \in Jobs \ SystemJobs :
        /\ row[j] = NoRow
        /\ row' = [row EXCEPT ![j] = NewRow(c)]
        /\ Go(t, "add", [job |-> j, cron |-> c, enabled |-> TRUE])
  /\ UNCHANGED <<phase, entry, taskVars, missed, torn, raised>>

\* Mutant of Update: the scheduler is told only of a change of the cron.
UpdateForgetsToggle(t, j, new) ==
  /\ Serving(t) /\ HasRow(j)
  /\ row' = [row EXCEPT ![j] = new]
  /\ IF new.cron # row[j].cron THEN Go(t, "reread", Locals(j)) ELSE Done(t)
  /\ UNCHANGED <<phase, entry, taskVars, missed, torn, raised>>

\* update_job and toggle_job: the row is updated.  (If it is deleted after
\* the check that it exists, the request changes nothing.)
Update(t, j, new) ==
  /\ Serving(t) /\ HasRow(j)
  /\ row' = [row EXCEPT ![j] = new]
  /\ Go(t, "reread", Locals(j))
  /\ UNCHANGED <<phase, entry, taskVars, missed, torn, raised>>

\* job = self.get_job(job_id), in a transaction of its own.
Reread(t) ==
  /\ rpc[t] = "reread"
  /\ LET j == req[t].job
     IN IF HasRow(j) THEN Go(t, "remove", Locals(j)) ELSE Done(t)
  /\ UNCHANGED <<phase, row, entry, taskVars, missed, torn, raised>>

\* Errors have kept the last change of each job of M from the job store.
Missed(M) == missed' = M /\ Cardinality(M) <= MaxMisses

\* A call of APScheduler makes e the entry of j, or its job store raises; the
\* exception is swallowed, and the caller goes on as if nothing were.
Store(j, e) ==
  \/ /\ entry' = [entry EXCEPT ![j] = e]
     /\ missed' = missed \ {j}
  \/ /\ entry[j] # e
     /\ Missed(missed \cup {j})
     /\ UNCHANGED entry

\* _reschedule_one: the entry is removed, and added again if enabled.
RemoveEntry(t) ==
  /\ rpc[t] = "remove"
  /\ Store(req[t].job, NoEntry)
  /\ IF req[t].enabled THEN Go(t, "add", req[t]) ELSE Done(t)
  /\ UNCHANGED <<phase, row, taskVars, torn, raised>>

\* _schedule_job: ValueError if the cron has not five fields, and the request
\* fails; its row stays.  A trigger that CronTrigger refuses is only logged.
AddEntry(t) ==
  /\ rpc[t] = "add"
  /\ IF req[t].cron \in Triggerable
     THEN Store(req[t].job, req[t].cron)
     ELSE UNCHANGED <<entry, missed>>
  /\ Done(t)
  /\ UNCHANGED <<phase, row, taskVars, torn, raised>>

\* delete_job: system jobs are refused ...
Delete(t, j) ==
  /\ Serving(t) /\ HasRow(j) /\ j \notin SystemJobs
  /\ Go(t, "unschedule", Locals(j))
  /\ UNCHANGED <<phase, row, entry, taskVars, missed, torn, raised>>

\* ... the entry goes first ...
Unschedule(t) ==
  /\ rpc[t] = "unschedule"
  /\ Store(req[t].job, NoEntry)
  /\ Go(t, "erase", req[t])
  /\ UNCHANGED <<phase, row, taskVars, torn, raised>>

\* ... then the rows of its runs and its own, in one transaction.
Erase(t) ==
  /\ rpc[t] = "erase"
  /\ row' = [row EXCEPT ![req[t].job] = Deleted]
  /\ runRow' = [r \in Runs |->
                  IF RunExists(r) /\ runRow[r].job = req[t].job
                  THEN NoRun ELSE runRow[r]]
  /\ Done(t)
  /\ UNCHANGED <<phase, entry, tpc, task, missed, torn, raised>>

\* SQLite raises in get_job after the update, or in the deletion after the
\* entry is gone: the request fails half-way.
RequestRaises(t) ==
  /\ rpc[t] \in {"reread", "erase"}
  /\ Missed(missed \cup {req[t].job})
  /\ Done(t)
  /\ UNCHANGED <<phase, row, entry, taskVars, torn, raised>>

-----------------------------------------------------------------------------
(* scheduler_executor: the run of a job                                      *)

\* Nobody is between two awaits.
LoopFree == \A r \in Runs : tpc[r] \notin {"mark", "insert", "final"}

Alive(r) == tpc[r] \notin {"unused", "over"}

Step(r, pc) == tpc' = [tpc EXCEPT ![r] = pc] /\ UNCHANGED task

Ends(r) ==
  /\ tpc' = [tpc EXCEPT ![r] = "over"]
  /\ task' = [task EXCEPT ![r] = NoTask]

\* A run gets an id of its own, whichever.
Unused == {r \in Runs : tpc[r] = "unused"}

Queue(j, scheduled) ==
  /\ Unused # {}
  /\ LET r == CHOOSE r \in Unused : TRUE
     IN /\ tpc' = [tpc EXCEPT ![r] = "queued"]
        /\ task' = [task EXCEPT ![r] = [job |-> j, scheduled |-> scheduled]]

\* APScheduler, external: it submits a job whose time has come, max_instances
\* of which are not running.
Fire(j) ==
  /\ phase = "up" /\ entry[j] # NoEntry
  /\ \A r \in Runs :
        Alive(r) => ~(task[r].scheduled /\ task[r].job = j)
  /\ Queue(j, TRUE)
  /\ UNCHANGED <<phase, row, entry, requestVars, runRow, missed, torn, raised>>

\* run_job_now: a background task that starts after the answer is sent.
RunNow(j) ==
  /\ phase = "up" /\ HasRow(j) /\ row[j].status # "running"
  /\ Queue(j, FALSE)
  /\ UNCHANGED <<phase, row, entry, requestVars, runRow, missed, torn, raised>>

\* Mutant of BeginRun: only the endpoint looks at last_status.
BeginAnyRun(r) ==
  /\ tpc[r] = "queued" /\ LoopFree
  /\ IF HasRow(task[r].job) THEN Step(r, "mark") ELSE Ends(r)
  /\ UNCHANGED <<phase, row, entry, requestVars, runRow, missed, torn, raised>>

\* The row is read: gone, or running already, and there is nothing to do.
BeginRun(r) ==
  /\ tpc[r] = "queued" /\ LoopFree
  /\ LET j == task[r].job
     IN IF HasRow(j) /\ row[j].status # "running"
        THEN Step(r, "mark") ELSE Ends(r)
  /\ UNCHANGED <<phase, row, entry, requestVars, runRow, missed, torn, raised>>

MarkRunning(r) ==
  /\ tpc[r] = "mark"
  /\ SetStatus(task[r].job, "running")
  /\ Step(r, "insert")
  /\ UNCHANGED <<phase, entry, requestVars, runRow, missed, torn, raised>>

InsertRun(r) ==
  /\ tpc[r] = "insert"
  /\ runRow' = [runRow EXCEPT ![r] =
                  [job |-> task[r].job, status |-> "running"]]
  /\ Step(r, "work")
  /\ UNCHANGED <<phase, row, entry, requestVars, missed, torn, raised>>

\* Mutant of InsertFails: the run is given up as it is.
InsertFailsSilently(r) ==
  /\ tpc[r] = "insert"
  /\ Ends(r)
  /\ UNCHANGED <<phase, row, entry, requestVars, runRow, missed, torn, raised>>

\* The INSERT raises, and the job is marked.
InsertFails(r) ==
  /\ tpc[r] = "insert"
  /\ SetStatus(task[r].job, "settled")
  /\ Ends(r)
  /\ UNCHANGED <<phase, entry, requestVars, runRow, missed, torn, raised>>

\* Sections, model and channels have answered, failed or timed out.
FinishWork(r) ==
  /\ tpc[r] = "work" /\ LoopFree
  /\ SetStatus(task[r].job, "settled")
  /\ Step(r, "final")
  /\ UNCHANGED <<phase, entry, requestVars, runRow, missed, torn, raised>>

\* _finalize_run: the row may have been deleted with its job.
FinalizeRun(r) ==
  /\ tpc[r] = "final"
  /\ runRow' = IF RunExists(r)
               THEN [runRow EXCEPT ![r].status = "settled"] ELSE runRow
  /\ Ends(r)
  /\ UNCHANGED <<phase, row, entry, requestVars, missed, torn, raised>>

\* SQLite raises in _update_job_status (or in it after _insert_run) or in
\* _finalize_run: run() ends there.
RunRaises(r) ==
  /\ tpc[r] \in {"mark", "insert", "final"} \/ (tpc[r] = "work" /\ LoopFree)
  /\ Ends(r)
  /\ raised' = TRUE
  /\ UNCHANGED <<phase, row, entry, requestVars, runRow, missed, torn>>

-----------------------------------------------------------------------------
(* Startup and crash                                                         *)

\* Mutant of ResetOrphans: the table job_runs is forgotten.
ResetOrphanJobs ==
  /\ row' = [j \in Jobs |->
               IF JobRunning(j)
               THEN [row[j] EXCEPT !.status = "settled"] ELSE row[j]]
  /\ UNCHANGED runRow

\* _reset_orphaned_jobs, in one transaction.
ResetOrphans ==
  /\ row' = [j \in Jobs |->
               IF JobRunning(j)
               THEN [row[j] EXCEPT !.status = "settled"] ELSE row[j]]
  /\ runRow' = [r \in Runs |->
                  IF RunRunning(r)
                  THEN [runRow[r] EXCEPT !.status = "settled"] ELSE runRow[r]]

Enabled(j) == HasRow(j) /\ row[j].enabled

\* The enabled jobs that APScheduler can take.
Schedulable == {j \in Jobs : Enabled(j) /\ row[j].cron \in Triggerable}

\* _reschedule_all has come to the jobs of S; the job store has raised for
\* those of F.
Rescheduled(S, F) ==
  /\ entry' = [j \in Jobs |-> IF j \in S \ F THEN row[j].cron ELSE entry[j]]
  /\ Missed((missed \ S) \cup F)

\* start(), and the first look of JobRegistry.seed: nothing to do if there
\* is a system job already.
Start ==
  /\ phase = "down"
  /\ \A j \in Jobs : Enabled(j) => row[j].cron \in Parseable
  /\ ResetOrphans
  /\ \E F \in SUBSET Schedulable : Rescheduled(Schedulable, F)
  /\ phase' = IF \E j \in SystemJobs : HasRow(j) THEN "up" ELSE "seed"
  /\ UNCHANGED <<requestVars, tpc, task, torn, raised>>

\* An enabled job cannot be parsed: the exception of _reschedule_all ends the
\* startup, when it has scheduled some of the others.
StartFails ==
  /\ phase = "down"
  /\ \E j \in Jobs : Enabled(j) /\ row[j].cron \notin Parseable
  /\ ResetOrphans
  /\ \E S \in SUBSET Schedulable : \E F \in SUBSET S : Rescheduled(S, F)
  /\ UNCHANGED <<phase, requestVars, tpc, task, torn, raised>>

\* JobRegistry.seed creates the system jobs one after the other.  (A crash
\* between the row and the entry of one is repaired by the next start.)
SeedJob ==
  /\ phase = "seed"
  /\ \E j \in SystemJobs, c \in SystemCrons :
        /\ row[j] = NoRow
        /\ row' = [row EXCEPT ![j] = NewRow(c)]
        /\ IF c \in Triggerable THEN Store(j, c) ELSE UNCHANGED <<entry, missed>>
  /\ phase' = IF Cardinality({j \in SystemJobs : row[j] = NoRow}) = 1
              THEN "up" ELSE "seed"
  /\ UNCHANGED <<requestVars, taskVars, torn, raised>>

\* The process dies or is stopped; the two databases are not touched.
Crash ==
  /\ phase # "down"
  /\ phase' = "down"
  /\ torn' = (torn \/ \E t \in Threads : rpc[t] # "idle")
  /\ rpc' = [t \in Threads |-> "idle"]
  /\ req' = [t \in Threads |-> NoRequest]
  /\ tpc' = [r \in Runs |-> IF Alive(r) THEN "over" ELSE tpc[r]]
  /\ task' = [r \in Runs |-> NoTask]
  /\ UNCHANGED <<row, entry, runRow, missed, raised>>

-----------------------------------------------------------------------------
RequestSteps(t) ==
  \/ Reread(t) \/ RemoveEntry(t) \/ AddEntry(t) \/ Unschedule(t) \/ Erase(t)
  \/ RequestRaises(t)

Requests(t) ==
  \/ \E c \in Crons : Create(t, c)
  \/ \E j \in Jobs :
       \/ Delete(t, j)
       \/ \E c \in Crons : Update(t, j, [row[j] EXCEPT !.cron = c])
       \/ \E b \in BOOLEAN : Update(t, j, [row[j] EXCEPT !.enabled = b])

RunSteps(r) ==
  \/ BeginRun(r) \/ MarkRunning(r) \/ InsertRun(r) \/ InsertFails(r)
  \/ FinishWork(r) \/ FinalizeRun(r) \/ RunRaises(r)

Startup == Start \/ StartFails \/ SeedJob

SchedulerNext ==
  \/ \E t \in Threads : Requests(t) \/ RequestSteps(t)
  \/ \E j \in Jobs : Fire(j) \/ RunNow(j)
  \/ \E r \in Runs : RunSteps(r)
  \/ Startup
  \/ Crash

\* The event loop serves every task, whose awaits have timeouts, and systemd
\* (Restart=) starts the process again.
SchedulerFairness ==
  /\ \A r \in Runs : WF_schedulerVars(RunSteps(r))
  /\ WF_schedulerVars(Startup)

SchedulerSpec == SchedulerInit /\ [][SchedulerNext]_schedulerVars
FairSchedulerSpec == SchedulerSpec /\ SchedulerFairness

-----------------------------------------------------------------------------
(* Properties                                                                *)

\* docs/superpowers/specs/2026-03-23-scheduler-briefing-design.md:286: "no
\* concurrent executions".  Of one job, whether fired or run by hand, at most
\* one run is past its check of last_status, over restarts too.
OneRunAtATime ==
  \A r, s \in Runs :
    /\ tpc[r] \in {"mark", "insert", "work", "final"}
    /\ tpc[s] \in {"mark", "insert", "work", "final"}
    /\ task[r].job = task[s].job
    => r = s

\* The same document, section 10: "no job stays blocked at running after an
\* unexpected restart".  Once the process serves, what says "running", job or
\* run, is being run, unless SQLite has raised; a job marked running that is
\* not would be skipped by every later execution.
RunningIsAlive ==
  phase # "down" /\ ~raised =>
    /\ \A j \in Jobs :
         JobRunning(j) =>
           \E r \in Runs : tpc[r] \in {"insert", "work"} /\ task[r].job = j
    /\ \A r \in Runs : RunRunning(r) => tpc[r] \in {"work", "final"}

\* With one request at a time, APScheduler follows the table when no request
\* is under way: an enabled job is scheduled with its cron, also after crashes
\* and failed starts, if the cron is one that APScheduler takes (a refusal is
\* only logged, and the job then has no entry), and nothing else is
\* scheduled, unless a crash has cut a request short.  Excepted is a job of
\* which SQLite or the job store has raised in its last change or at the last
\* start, which every later change or start puts right.
ScheduleFollowsRows ==
  phase = "up" /\ (\A t \in Threads : rpc[t] = "idle") =>
    \A j \in Jobs \ missed :
      IF Enabled(j) /\ row[j].cron \in Triggerable
      THEN entry[j] = row[j].cron
      ELSE entry[j] = NoEntry \/ torn

\* The same document, section 9: "the job is always marked terminal, even on
\* a partial crash": the row of a run does not stay at "running", unless
\* SQLite has raised.
RunsSettle ==
  \A r \in Runs : RunRunning(r) ~> ~RunRunning(r) \/ raised

\* scheduler.py:72: "Re-add all enabled jobs to APScheduler after restart."
\* The startup that does so comes to an end.
Restarts == phase = "down" ~> phase # "down"
=============================================================================
