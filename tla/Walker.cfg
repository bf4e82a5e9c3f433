CONSTANTS
  MaxSteps = 2
  MaxSequence = 2
  Tiles <- MCTiles
  Headings <- MCHeadings
  Routes <- MCRoutes
SPECIFICATION FollowSpec
INVARIANTS
  TypeOK
  StepLedger
  IndexInBounds
  QueueIsPath
  FollowsPath
