CONSTANTS
  MapTiles <- MCMapTiles
  Starts <- MCStarts
  Targets <- MCTargets
  Worlds <- MCWorlds
  Distance = 0
  MaxNodes = 12
  NoTile = none
  MaxCursors = 2
  MaxPresses = 2
  Macros <- MCMacros
  Delay = 1
  TargetDelay = 2
  BandageDelay = 1
  HelperDelay = 1
  Serials = {sword, cloak}
  BatchSize = 1
  Unknown = unknown
  MaxRevision = 1
  MaxFlight = 2
  Addresses = {a1, a2}
  Gumps = {"book", "notice"}
  Modal <- MCModal
  InWorld = inWorld
  Free = free
  NoObject = nullptr
  near = near
  far = far
  here = here
  there = there
  grass = grass
  wall = wall
  water = water
  hero = hero
  guard = guard
  coin = coin
  arrow = arrow
  Tiles = {here, there}
  BlockOf <- MCBlockOf
  Ground <- MCGround
  GroundZ <- MCGroundZ
  Places <- MCPlaces
  Lift <- MCLift
  Hero = hero
  Others = {guard}
  Things = {coin}
  Effects = {arrow}
  MaxQueue = 1
  MaxShown = 3
  Nobody = nobody
  Away = away
SPECIFICATION PartsSpec
INVARIANTS
  SearchTree
  PathLeads
  FailsRightly
  AnsweredOnce
  NothingForgotten
  PointersLive
  TilesSound
  DrawnInPlace
PROPERTIES
  MacroEnds
  CatchesUp
