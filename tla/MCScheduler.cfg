\* One request at a time, crashes at any point; two runs, or one and crons that
\* are refused and calls of APScheduler and SQLite that raise.
CONSTANTS
  briefing = briefing
  custom = custom
  five = five
  step = step
  nickname = nickname
  r1 = r1
  r2 = r2
  t1 = t1
  Jobs <- MCJobs
  SystemJobs <- MCSystemJobs
  Crons <- MCCrons
  Parseable <- MCParseable
  Triggerable <- MCTriggerable
  SystemCrons <- MCParseable
  Threads <- MCThreads
  Runs <- MCRuns
  MaxMisses = 1
  NoRow = NoRow
  Deleted = Deleted
  NoEntry = NoEntry
  NoRun = NoRun
  NoRequest = NoRequest
  NoTask = NoTask
SPECIFICATION MCSchedulerSpec
INVARIANT SchedulerTypeOK
INVARIANT OneRunAtATime
INVARIANT RunningIsAlive
INVARIANT ScheduleFollowsRows
PROPERTY RunsSettle
CHECK_DEADLOCK FALSE
