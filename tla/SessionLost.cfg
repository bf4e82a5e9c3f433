CONSTANTS
  Dialogs = {d1}
  d1 = d1
SPECIFICATION Spec
INVARIANTS
  BlockedIsDisplayed
CHECK_DEADLOCK FALSE
