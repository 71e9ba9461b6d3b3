SPECIFICATION FairSpec
CONSTANTS
  Sessions = {s1, s2}
  MaxSessions = 1
  MaxFlips = 2
  MaxSlow = 1
INVARIANTS
  KeptFresh
  CapUnlessForgotten
PROPERTIES
  ModeFollowsSocket
CHECK_DEADLOCK FALSE
