CONSTANTS
  MaxSteps = 3
  MaxSequence = 4
  MaxFlight = 4
  Interference = FALSE
  Tiles <- MCTiles
  Headings <- MCSmoothHeadings
SPECIFICATION ProtocolSpec
INVARIANTS
  SmoothWalking
