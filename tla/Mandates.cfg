SPECIFICATION Spec
CONSTANTS
  agent = agent
  observer = observer
  pane = pane
  other = other
  Agents = {agent, observer}
  Humans = {pane}
  Callers <- TheseCallers
  Ids <- TheseIds
  Events <- MandateEvents
  None = 0
  Budget = 1
  MaxEvents = 5
  MaxMisled = 3
INVARIANTS
  CacheIsTheRecord
  AmendmentReplaces
  OvershootBounded
  SpentBudgetStops
SYMMETRY Alike
CHECK_DEADLOCK FALSE
