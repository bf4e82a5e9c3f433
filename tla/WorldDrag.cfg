CONSTANTS
  player = player
  mobile = mobile
  body = body
  bag = bag
  coin = coin
  corpse = corpse
  Player = player
  Mobiles = {player}
  Items = {bag, coin, corpse}
  Containers = {bag, corpse}
  Corpses = {corpse}
  Movable = {bag}
  Bodies = {}
  LayersOf <- MCLayersOf
  BodyOf <- MCBodyOf
  Cells <- MCCells
  CellOf <- MCCellOf
  Ground = ground
  Null = null
  TwiceDead = FALSE
SPECIFICATION Spec
INVARIANTS
  TypeOK
  HeapSound
PROPERTIES
  OnlyDenyStrands
  ClearWorldFrees
  ForestSpec
