SPECIFICATION Spec
CONSTANTS
  p1 = p1
  p2 = p2
  click = click
  again = again
  group = group
  sweep1 = sweep1
  sweep2 = sweep2
  undo = undo
  write1 = write1
  Proposals = {p1, p2}
  Edited = {p1}
  Acts = {click, again, group, undo}
  ActOf <- TheseActs
  Writes = {}
  Occasions <- GestureOccasions
  Digests <- AllDigests
  Gestures <- AllGestures
  NoGesture = NoGesture
  Nobody = Nobody
  Elsewhere = Elsewhere
  MaxElsewhere = 1
  Budget = 1
INVARIANTS
  StandingHasEvidence
  OneSubjectOneClaim
  StandsOnWhatItSaw
  ReportsAreTrue
  AdmittedUnderClaim
CHECK_DEADLOCK FALSE
