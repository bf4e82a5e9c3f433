CONSTANTS
  Tree <- MCTree
  Code <- MCCode
  ByteBits = 4
  Packets <- MCPackets
  Size <- MCSize
  MaxSent = 1
  MaxSessions = 2
SPECIFICATION Spec
INVARIANTS
  EveryConnectionInOrder
CHECK_DEADLOCK FALSE
