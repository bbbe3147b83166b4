\* Starting again after a user's job got a cron that APScheduler cannot take.
CONSTANTS
  briefing = briefing
  custom = custom
  five = five
  step = step
  nickname = nickname
  r1 = r1
  r2 = r2
  t1 = t1
  Jobs <- MCJobs
  SystemJobs <- MCSystemJobs
  Crons <- MCCrons
  Parseable <- MCParseable
  Triggerable <- MCTriggerable
  SystemCrons <- MCParseable
  Threads <- MCThreads
  Runs <- MCRuns
  MaxMisses = 0
  NoRow = NoRow
  Deleted = Deleted
  NoEntry = NoEntry
  NoRun = NoRun
  NoRequest = NoRequest
  NoTask = NoTask
SPECIFICATION MCSchedulerSpec
PROPERTY Restarts
CHECK_DEADLOCK FALSE
