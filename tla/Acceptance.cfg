SPECIFICATION Spec
CONSTANTS
  p = p
  q = q
  Paths = {p, q}
  NoBaseline = NoBaseline
  Savers = {"accept", "reconcile", "sweep"}
  Rekeys = {1, 2}
  body = body
  value = value
  typed = typed
  AgentEdits = {body, value}
  HumanEdits = {typed}
  ValueOnly = {value}
  Mechanical = {value}
  Late = {body}
  MaxActs = 3
SYMMETRY PathsAlike
INVARIANTS
  AcceptancesAreKept
  AcceptTakesWhatItRead
  HiddenOnlyIfRaced
  NothingIsDestroyed
  AcceptanceFollowsNote
CHECK_DEADLOCK FALSE
