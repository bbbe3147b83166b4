\* Two admins: a command runs that is not approved any more.
CONSTANTS
  a1 = a1
  a2 = a2
  g1 = g1
  c1 = c1
  c2 = c2
  shell_write = shell_write
  Threads <- TwoAdmins
  Admins <- TwoAdmins
  Sweepers <- TwoAdmins
  ActionTypes <- MCActionTypes
  ShellWrite = shell_write
  ActionIds <- OneAction
  DefaultLevel = "approval_required"
  Threshold = 2
  NoPolicy = NoPolicy
  NoCall = NoCall
  NoAction = NoAction
  MaxRuns = 3
  MayRaise = FALSE
  MayCrash = FALSE
  MaxRows = 1
SPECIFICATION ShellSpec
PROPERTY RunsOnlyApproved
