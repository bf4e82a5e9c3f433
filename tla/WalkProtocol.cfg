CONSTANTS
  MaxSteps = 2
  MaxSequence = 3
  MaxFlight = 3
  Interference = TRUE
  Tiles <- MCTiles
  Headings <- MCHeadings
SPECIFICATION ProtocolLiveSpec
INVARIANTS
  SettledPosition
  SettledRange
  RecoveryUnderWay
PROPERTIES
  ImplementsWindow
  FailureHeals
  WindowReopens
