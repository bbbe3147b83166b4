\* Two profiles of the chat chain name the same model.
CONSTANTS
  paid = paid
  backup = backup
  local = local
  m1 = m1
  m2 = m2
  m3 = m3
  t1 = t1
  t2 = t2
  Profiles <- AllProfiles
  Model <- SharedModel
  Configured <- AllProfiles
  Route <- MCRoute
  Threads <- TwoThreads
  NoJob = NoJob
  FailureThreshold = 1
  RecoveryTimeout = 1
SPECIFICATION BreakerSpec
INVARIANT EveryProfileTried
