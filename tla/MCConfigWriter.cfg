\* Two requests at once, two changes, two seconds.
CONSTANTS
  domain = domain
  proxy = proxy
  old = old
  new = new
  c1 = c1
  c2 = c2
  t1 = t1
  t2 = t2
  Keys <- MCOneKey
  Values <- MCValues
  Garbled = Garbled
  Absent = Absent
  Offered <- MCOffered
  Initials <- MCInitials
  Changes <- MCChanges
  Threads <- MCThreads
  MaxSecond = 1
  NoChange = NoChange
  NoKey = NoKey
  NoBackup = NoBackup
  Unknown = Unknown
SPECIFICATION ConfigSpec
SYMMETRY MCSymmetry
INVARIANT ConfigTypeOK
INVARIANT OnlyApprovedGoesLive
INVARIANT MarkedWasWritten
PROPERTY RollbackRestores
CHECK_DEADLOCK FALSE
