SPECIFICATION CutoverSpec
CONSTANTS
  r1 = r1
  cut = cut
  again = again
  bind = bind
  rollback = rollback
  pane = pane
  Cutovers = {cut, again}
  Binds = {bind}
  Rollbacks = {rollback}
  Looks = {pane}
  Records = {r1}
  NoStore = NoStore
  OtherStore = OtherStore
  MaxClicks = 3
  AtOnce = 2
  MaxArrivals = 1
INVARIANTS
  CutoverTypeOK
  GuardTellsTheMarker
  BoundToThisStore
  ImportedOnceAndWhole
PROPERTIES
  OverwritesOnlyWhatItMay
SYMMETRY Alike
CHECK_DEADLOCK FALSE
