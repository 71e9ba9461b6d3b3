SPECIFICATION Spec
CONSTANTS
  Ops = {o1, o2, o3}
  NoOp = NoOp
  Timeout = 1
  Requests <- TheseRequests
  LockMax = 2
  LockMaxPerHolder = 1
  LockTtlMin = 1
  LockTtlMax = 2
  MaxClock = 2
INVARIANTS
  OthersAreTold
PROPERTIES
  NobodyLosesAClaim
SYMMETRY Alike
CHECK_DEADLOCK FALSE
