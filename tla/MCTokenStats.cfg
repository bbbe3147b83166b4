\* Two requests and the shutdown hook.
CONSTANTS
  Requests = {t1, t2}
  Main = main
  Nobody = Nobody
  MaxCost = 2
SPECIFICATION FairTrackerSpec
PROPERTY ShutdownHookRuns
CHECK_DEADLOCK FALSE
