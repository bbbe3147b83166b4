\* Two request threads and the admin on one action type; SQLite may raise.
CONSTANTS
  t1 = t1
  t2 = t2
  shell_read = shell_read
  Threads <- MCThreads
  ActionTypes <- MCActionTypes
  DefaultLevel = "approval_required"
  Threshold = 2
  NoPolicy = NoPolicy
  NoCall = NoCall
  MayRaise = TRUE
  MaxRows = 2
SPECIFICATION FairTrustSpec
INVARIANT TrustTypeOK
INVARIANT EveryRunAudited
INVARIANT PromotesOnlyEnabled
INVARIANT StreakIsAudited
PROPERTY SeededLevelIsAdmins
PROPERTY CallsReturn
CHECK_DEADLOCK FALSE
