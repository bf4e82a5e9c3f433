CONSTANTS
  Tree <- MCTree
  Code <- MCCode
  ByteBits = 4
  Packets <- MCPackets
  Size <- MCSize
  MaxSent = 2
  MaxSessions = 2
SPECIFICATION LiveSpec
INVARIANTS
  HandledInOrder
  NothingLeftBehind
PROPERTIES
  NoPacketAfterDisconnect
  EveryPacketHandled
CHECK_DEADLOCK FALSE
