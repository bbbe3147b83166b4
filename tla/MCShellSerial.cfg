\* One admin at a time and one agent: the shell keeps its contract.
CONSTANTS
  a1 = a1
  a2 = a2
  g1 = g1
  c1 = c1
  c2 = c2
  shell_write = shell_write
  Threads <- AdminAndAgent
  Admins <- OneAdmin
  Sweepers <- OneAdmin
  ActionTypes <- MCActionTypes
  ShellWrite = shell_write
  ActionIds <- TwoActions
  DefaultLevel = "approval_required"
  Threshold = 2
  NoPolicy = NoPolicy
  NoCall = NoCall
  NoAction = NoAction
  MaxRuns = 2
  MayRaise = FALSE
  MayCrash = FALSE
  MaxRows = 2
SPECIFICATION FairShellSpec
INVARIANT AutoRunsAudited
PROPERTY LifecycleImplemented
CHECK_DEADLOCK FALSE
