CONSTANTS
  player = player
  mobile = mobile
  body = body
  bag = bag
  coin = coin
  corpse = corpse
  Player = player
  Mobiles = {player, mobile}
  Items = {bag, coin, corpse}
  Containers = {bag, corpse}
  Corpses = {corpse}
  Movable = {}
  Bodies = {body}
  LayersOf <- MCLayersOf
  BodyOf <- MCBodyOf
  Cells <- MCCells
  CellOf <- MCCellOf
  Ground = ground
  Null = null
  TwiceDead = FALSE
SPECIFICATION Spec
INVARIANTS
  HeapSound
  TopResolves
PROPERTIES
  ForestSpec
