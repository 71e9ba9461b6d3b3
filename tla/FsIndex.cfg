SPECIFICATION IndexFairSpec
CONSTANTS
  Paths = {1, 2, 3}
  NoId = NoId
  jd = jd
  JdOf <- TheseIds
  Links = {jd, 1}
  StartNotes <- TheseStarts
  MaxChanges = 2
  MaxBuilds = 2
  MaxUnread = 1
INVARIANTS
  IndexTypeOK
  InSync
  EquivalentToRebuild
PROPERTIES
  ChangesReachIndex
CHECK_DEADLOCK FALSE
