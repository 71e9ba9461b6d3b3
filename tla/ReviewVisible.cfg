SPECIFICATION VisibleSpec
CONSTANTS
  note = note
  Notes = {note}
  Eligible = {note}
  Nudges = {nudge}
  Gestures = {gesture}
  Tick = Tick
  Trail = Trail
  Del = Del
  AtOnce = 2
  MaxOthers = 1
PROPERTIES
  ListNeverGoesBack
  OwedIsShown
  SettledRowGoes
CHECK_DEADLOCK FALSE
