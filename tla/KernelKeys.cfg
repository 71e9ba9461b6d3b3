SPECIFICATION Spec
CONSTANTS
  Ops = {o1, o2, o3}
  NoOp = NoOp
  Timeout = 1
  key1 = key1
  key2 = key2
  Keys = {key1, key2}
  NoKey = NoKey
  edit = edit
  append = append
  note = note
  Requests = {edit, append}
  Paths = {note}
  PathsOf <- NoPaths
  Records = {}
  AppendRequests = {append}
  NoRev = NoRev
  Ttl = 1
  MaxEntries = 1
  MaxRev = 0
  Asks <- KeyedAsks
SYMMETRY Sym
INVARIANTS
  AtMostOncePerKey
  NobodyIsForgotten
  JournalIsSound
PROPERTY ImplementsSerialWrites
CHECK_DEADLOCK FALSE
