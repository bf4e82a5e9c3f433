CONSTANTS
  Dialogs = {d1}
  d1 = d1
SPECIFICATION Spec
INVARIANTS
  ConnectingCanEnd
CHECK_DEADLOCK FALSE
