SPECIFICATION FairSpec
CONSTANTS
  p1 = p1
  p2 = p2
  click = click
  again = again
  group = group
  sweep1 = sweep1
  sweep2 = sweep2
  undo = undo
  write1 = write1
  Proposals = {p1, p2}
  Edited = {p1}
  Acts = {sweep1, sweep2, undo}
  ActOf <- TheseActs
  Writes = {write1}
  Occasions <- MandateOccasions
  Digests <- AllDigests
  Gestures <- AllGestures
  NoGesture = NoGesture
  Nobody = Nobody
  Elsewhere = Elsewhere
  MaxElsewhere = 0
  Budget = 1
INVARIANT BudgetOvershotByThoseLetIn
PROPERTY EveryActIsAnswered
CHECK_DEADLOCK FALSE
