SPECIFICATION FairSpec
CONSTANTS
  Ops = {o1, o2}
  NoOp = NoOp
  Timeout = 1
  key1 = key1
  key2 = key2
  Keys = {key1, key2}
  NoKey = NoKey
  edit = edit
  append = append
  note = note
  Requests = {edit, append}
  Paths = {note}
  PathsOf <- OneNote
  Records = {note}
  AppendRequests = {append}
  NoRev = NoRev
  Ttl = 1
  MaxEntries = 1
  MaxRev = 2
  Asks <- GuardedAsks
INVARIANTS
  IsolatedUnlessAbandoned
  AdoptedOutcomeIsOwn
PROPERTIES
  EveryCallEnds
CHECK_DEADLOCK FALSE
