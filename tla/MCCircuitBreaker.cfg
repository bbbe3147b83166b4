\* Overlapping tasks on one registry; every profile has its own model.
CONSTANTS
  paid = paid
  backup = backup
  local = local
  m1 = m1
  m2 = m2
  m3 = m3
  t1 = t1
  t2 = t2
  Profiles <- AllProfiles
  Model <- OwnModels
  Configured <- NoBackupKey
  Route <- MCRoute
  Threads <- TwoThreads
  NoJob = NoJob
  FailureThreshold = 2
  RecoveryTimeout = 2
SPECIFICATION FairBreakerSpec
INVARIANT BreakerTypeOK
INVARIANT BreakerCounts
INVARIANT UnconfiguredStaysClosed
INVARIANT EveryProfileTried
PROPERTY CoolsDown
