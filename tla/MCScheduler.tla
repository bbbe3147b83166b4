---------------------------- MODULE MCScheduler ----------------------------
(* Model-checking instances of Scheduler: a system job and a user's job.    *)
EXTENDS Scheduler

CONSTANTS briefing, custom, five, step, nickname, r1, r2, t1

MCJobs == {briefing, custom}
MCSystemJobs == {briefing}

\* "0 8 * * *"; "*/1440 * * * *", which no CronTrigger can be made of; and
\* "@daily", which croniter accepts too.
MCCrons == {five, step, nickname}
MCParseable == MCCrons \ {nickname}
MCTriggerable == {five}

MCRuns == {r1, r2}
MCThreads == {t1}

\* Two runs of jobs of which no entry is missed or refused, or entries that are and
\* one run: the two share the rows, and neither looks at the other.
VARIABLE scope

InScope ==
  CASE scope = "runs" -> missed = {} /\ \A j \in Jobs : HasRow(j) => row[j].cron # step
    [] scope = "entries" -> Cardinality({r \in Runs : tpc[r] # "unused"}) <= 1

MCSchedulerInit == SchedulerInit /\ scope \in {"runs", "entries"}
MCSchedulerNext == SchedulerNext /\ UNCHANGED scope /\ InScope'

MCSchedulerSpec ==
  MCSchedulerInit /\ [][MCSchedulerNext]_<<schedulerVars, scope>> /\ SchedulerFairness
=============================================================================
