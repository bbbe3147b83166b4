\* Two settings, one request at a time.
CONSTANTS
  domain = domain
  proxy = proxy
  old = old
  new = new
  c1 = c1
  c2 = c2
  t1 = t1
  t2 = t2
  Keys <- MCKeys
  Values <- MCValues
  Garbled = Garbled
  Absent = Absent
  Offered <- MCOffered
  Initials <- MCInstalled
  Changes <- MCChanges
  Threads <- MCOneThread
  MaxSecond = 1
  NoChange = NoChange
  NoKey = NoKey
  NoBackup = NoBackup
  Unknown = Unknown
SPECIFICATION ConfigSpec
INVARIANT SettingChangesItsKey
CHECK_DEADLOCK FALSE
