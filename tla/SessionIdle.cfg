CONSTANTS
  Dialogs = {d1}
  d1 = d1
SPECIFICATION Spec
INVARIANTS
  WorldIsShown
CHECK_DEADLOCK FALSE
