CONSTANTS
  Dialogs = {d1, d2}
  d1 = d1
  d2 = d2
SPECIFICATION LiveSpec
INVARIANTS
  TypeOK
  CountsModals
  OneSocket
  BlockedByModal
  GameHasWorld
PROPERTIES
  LogoutHappens
CHECK_DEADLOCK FALSE
