----------------------------- MODULE TileLists ------------------------------
(***************************************************************************)
(* What is drawn on each tile of the map (CMapManager, CMapBlock,          *)
(* CRenderWorldObject).  A block of the map is loaded when something needs *)
(* it, with the land and the statics of its tiles, and deleted when it has *)
(* not been used for a while.  What lies or walks on a tile is linked into *)
(* the tile's list by m_PrevXY and m_NextXY, in the order of PriorityZ.    *)
(* The list has no head: it is found from the land, which the block knows. *)
(*                                                                         *)
(* An object's tile and height change in packets and in the animation of   *)
(* its steps; blocks are loaded and deleted on their own.  Every tile here *)
(* has land.  The pieces of multis, and the item that a refusal has left   *)
(* in no list of the world, are left out.                                  *)
(***************************************************************************)
EXTENDS Integers, FiniteSets, SequencesExt

CONSTANTS Tiles, BlockOf,  \* the block of each tile
          Ground,          \* the land of each tile, then its statics
          GroundZ,         \* the PriorityZ of land and statics
          Places,          \* where objects are: a tile and a height
          Lift,            \* what the kind of an object adds to its height
          Hero, Others,    \* g_Player, other mobiles
          Things, Effects, \* items and moving effects
          MaxQueue,        \* bound: steps queued, MAX_STEPS_COUNT
          MaxShown,        \* bound: objects on tiles at once
          Nobody, Away     \* nullptr, and the place of what is on no tile

Objects == {Hero} \cup Others \cup Things \cup Effects
Movers  == {Hero} \cup Others
Fixed   == UNION {Range(Ground[t]) : t \in Tiles}
Drawn   == Objects \cup Fixed
Blocks  == Range(BlockOf)

ASSUME TilesAssumption ==
  /\ IsFiniteSet(Tiles) /\ IsFiniteSet(Drawn)
  /\ BlockOf \in [Tiles -> Blocks]
  /\ \A t \in Tiles : Ground[t] \in Seq(Fixed) /\ Ground[t] # <<>>
  /\ \A t, u \in Tiles : \A i \in DOMAIN Ground[t], j \in DOMAIN Ground[u] :
       Ground[t][i] = Ground[u][j] => t = u /\ i = j
  /\ Fixed \cap Objects = {}
  /\ GroundZ \in [Fixed -> Int] /\ Lift \in [Objects -> Int]
  /\ Places \subseteq Tiles \X Int
  /\ Nobody \notin Drawn /\ Away \notin Places /\ MaxQueue \in Nat /\ MaxShown \in Nat

VARIABLES map,      \* m_Blocks and the links of what is drawn
          place,    \* tile and height of an object, or Away
          m_queue,  \* m_Steps of a mobile, as places
          kept      \* history: taken out of the lists by RemoveRender alone

tileVars == <<map, place, m_queue, kept>>

Land(t) == Ground[t][1]
IsLand(x) == x \in {Land(t) : t \in Tiles}

-----------------------------------------------------------------------------
(* The links. A map m is [loaded, prev, next, prio].                       *)

\* The PriorityZ of x is not read before AddRender sets it again.
RemoveRender(m, x) ==
  LET p == m.prev[x]
      n == m.next[x]
  IN [m EXCEPT
        !.next = [y \in Drawn |-> IF y = x THEN Nobody ELSE IF y = p THEN n ELSE m.next[y]],
        !.prev = [y \in Drawn |-> IF y = x THEN Nobody ELSE IF y = n THEN p ELSE m.prev[y]],
        !.prio[x] = 0]

RemovedFromRender(m, x) == m.prev[x] = Nobody /\ m.next[x] = Nobody

\* From x along the links as far as they lead.
Along(link, x) ==
  LET walk[k \in 0..Cardinality(Drawn)] ==
        [y \in Drawn \cup {Nobody} |->
           IF y = Nobody \/ k = 0 THEN <<>> ELSE <<y>> \o walk[k - 1][link[y]]]
  IN walk[Cardinality(Drawn)][x]

GetRender(m, x) == Last(Along(m.prev, x))
TileList(m, t)  == Along(m.next, GetRender(m, Land(t)))

\* The tile's list, found from what the block knows of the tile besides x.
ListBeside(m, x, t) ==
  LET known == {i \in DOMAIN Ground[t] : Ground[t][i] # x}
  IN  IF known = {} THEN <<>> ELSE Along(m.next, GetRender(m, Ground[t][Min(known)]))

ComesBefore(m, x, y) ==
  \/ m.prio[x] < m.prio[y]
  \/ m.prio[x] = m.prio[y] /\ IsLand(x) /\ ~IsLand(y)

\* How many of the list come first.
Ahead(m, x, list) ==
  LET behind == {i \in DOMAIN list : ComesBefore(m, x, list[i])}
  IN  IF behind = {} THEN Len(list) ELSE Min(behind) - 1

LinkBetween(m, left, x, right) ==
  [m EXCEPT
     !.next = [y \in Drawn |-> IF y = x THEN right ELSE IF y = left THEN x ELSE m.next[y]],
     !.prev = [y \in Drawn |-> IF y = x THEN left ELSE IF y = right THEN x ELSE m.prev[y]]]

(* CMapBlock::AddRender: x after the last of those that come before it.    *)
(* The land itself is put in beginning from a static of the tile.          *)
AddToTile(m0, x, t, z) ==
  LET m    == [RemoveRender(m0, x) EXCEPT !.prio[x] = z]
      list == ListBeside(m, x, t)
      n    == Ahead(m, x, list)
  IN  LinkBetween(m, IF n = 0 THEN Nobody ELSE list[n],
                  x, IF n = Len(list) THEN Nobody ELSE list[n + 1])

-----------------------------------------------------------------------------
(* Blocks *)

TilesOf(B) == {t \in Tiles : BlockOf[t] \in B}

\* The land first, unsorted; the statics; and the land again, in its order.
Building(m, t) ==
  LET later == Append(Tail(Ground[t]), Land(t))
      after[n \in 0..Len(later)] ==
        IF n = 0 THEN [m EXCEPT !.prio[Land(t)] = 0]
        ELSE AddToTile(after[n - 1], later[n], t, GroundZ[later[n]])
  IN  after

LoadTile(m, t) == Building(m, t)[Len(Ground[t])]

Loading(m, tiles) ==
  LET after[n \in 0..Len(tiles)] ==
        IF n = 0 THEN m ELSE LoadTile(after[n - 1], tiles[n])
  IN  after

LoadBlocks(m, B) ==
  LET tiles == SetToSeq(TilesOf(B \ m.loaded))
  IN  Loading([m EXCEPT !.loaded = m.loaded \cup B], tiles)[Len(tiles)]

\* ~CMapBlock unlinks all that is on its tiles.
DeleteBlocks(m, B) ==
  LET gone == UNION {Range(TileList(m, t)) : t \in TilesOf(B \cap m.loaded)}
  IN [loaded |-> m.loaded \ B,
      prev   |-> [x \in Drawn |-> IF x \in gone THEN Nobody ELSE m.prev[x]],
      next   |-> [x \in Drawn |-> IF x \in gone THEN Nobody ELSE m.next[x]],
      prio   |-> [x \in Drawn |-> IF x \in gone THEN 0 ELSE m.prio[x]]]

HasNoExternalDataAtHead(m, b) ==
  \A t \in TilesOf({b}) : GetRender(m, Land(t)) \in Fixed

HasNoExternalData(m, b) ==
  \A t \in TilesOf({b}) : Range(TileList(m, t)) \subseteq Fixed

AddRenderLinked(m, x, at) ==
  AddToTile(LoadBlocks([m EXCEPT !.prev[x] = Nobody, !.next[x] = Nobody], {BlockOf[at[1]]}),
            x, at[1], at[2] + Lift[x])

\* CMapManager::AddRender
AddRender(m, x, at) ==
  AddToTile(LoadBlocks(m, {BlockOf[at[1]]}), x, at[1], at[2] + Lift[x])

Room(x) == Cardinality({o \in Objects \ {x} : place[o] # Away}) < MaxShown

\* MoveToTop of an object on the ground, where it is after the handler.
Show(x, at) ==
  /\ place' = [place EXCEPT ![x] = at]
  /\ map' = AddRender(map, x, at)
  /\ kept' = kept \ {x}

-----------------------------------------------------------------------------
(* The map *)

ClearUnusedBlocks ==
  /\ \E B \in SUBSET {b \in map.loaded : HasNoExternalData(map, b)} :
       map' = DeleteBlocks(map, B)
  /\ UNCHANGED <<place, m_queue, kept>>

\* The frame, the screen and the path search load what they look at.
LoadBlock(b) ==
  /\ b \notin map.loaded
  /\ map' = LoadBlocks(map, {b})
  /\ UNCHANGED <<place, m_queue, kept>>

(* Init(false): all blocks go, the player's comes back; the others around  *)
(* it, which Init loads too, come with LoadBlock.                          *)
Init(m, at) == LoadBlocks(DeleteBlocks(m, Blocks), {BlockOf[at[1]]})

Collecting(m, tiles) ==
  LET upTo[n \in 0..Len(tiles)] ==
        IF n = 0 THEN <<>> ELSE upTo[n - 1] \o TileList(m, tiles[n])
  IN  upTo

Relinking(m, list) ==
  LET after[n \in 0..Len(list)] ==
        IF n = 0 THEN m
        ELSE IF list[n] \in Objects THEN AddRender(after[n - 1], list[n], place[list[n]])
        ELSE after[n - 1]
  IN  after

(* UpdatePatched after ApplyPatches: what was on the blocks is linked      *)
(* again, in its order.                                                    *)
ApplyPatches ==
  /\ LET tiles == SetToSeq(TilesOf(map.loaded))
         list  == Collecting(map, tiles)[Len(tiles)]
     IN map' = Relinking(Init(map, place[Hero]), list)[Len(list)]
  /\ UNCHANGED <<place, m_queue, kept>>

(* Objects of the other map go; members of the party stay in the world.    *)
ChangeMap ==
  /\ map' = AddRender(Init(map, place[Hero]), Hero, place[Hero])
  /\ \E party \in SUBSET {o \in Others : place[o] # Away} :
       LET stay == party \cup {Hero} \cup Effects
       IN /\ place' = [o \in Objects |-> IF o \in stay THEN place[o] ELSE Away]
          /\ m_queue' = [o \in Movers |-> IF o \in stay THEN m_queue[o] ELSE <<>>]
          /\ kept' = party

\* ClearWorld, and a new player.
EnterWorld(at) ==
  /\ map' = AddRender(Init(map, at), Hero, at)
  /\ place' = [o \in Objects |-> IF o = Hero THEN at ELSE Away]
  /\ m_queue' = [o \in Movers |-> <<>>]
  /\ kept' = {}

-----------------------------------------------------------------------------
(* Objects *)

\* UpdateGameObject of an item, or of a mobile that is not in the world yet.
ShowObject(o, at) ==
  /\ o \in Things \/ (o \in Others /\ place[o] = Away)
  /\ Room(o)
  /\ Show(o, at)
  /\ UNCHANGED m_queue

(* UpdateGameObject of a mobile that is: the new place is queued, unless   *)
(* it is where the queue ends or the queue is full.                        *)
UpdateMobile(o, at) ==
  /\ o \in Others /\ place[o] # Away
  /\ \/ /\ Len(m_queue[o]) < MaxQueue
        /\ \/ m_queue' = [m_queue EXCEPT ![o] = Append(@, at)]
           \/ at = Last(<<place[o]>> \o m_queue[o]) /\ UNCHANGED m_queue
        /\ Show(o, place[o])
     \/ /\ Len(m_queue[o]) = MaxQueue
        /\ m_queue' = [m_queue EXCEPT ![o] = <<>>]
        /\ Show(o, at)

\* UpdateCharacter, where the mobile looks the way its last step goes.
UpdateCharacter(o, at) ==
  /\ o \in Others /\ place[o] # Away /\ m_queue[o] # <<>>
  /\ \/ m_queue' = [m_queue EXCEPT ![o] = <<at>>]
     \/ at = Last(m_queue[o]) /\ m_queue' = [m_queue EXCEPT ![o] = <<>>]
  /\ Show(o, Last(m_queue[o]))

\* Walk, before the server has answered.
Walk(at) ==
  /\ Len(m_queue[Hero]) < MaxQueue
  /\ m_queue' = [m_queue EXCEPT ![Hero] = Append(@, at)]
  /\ Show(Hero, place[Hero])

\* UpdatePlayer, DenyWalk.
PlacePlayer(at) ==
  /\ m_queue' = [m_queue EXCEPT ![Hero] = <<>>]
  /\ Show(Hero, at)

(* A step leaves the queue. One that stays on its tile is a turn and does  *)
(* not reach the end of the function, whatever its height; the call that   *)
(* it ends with is the next UpdateAnimationInfo.                           *)
UpdateAnimationInfo(o) ==
  /\ m_queue[o] # <<>>
  /\ m_queue' = [m_queue EXCEPT ![o] = Tail(@)]
  /\ place' = [place EXCEPT ![o] = Head(m_queue[o])]
  /\ map' = IF Head(m_queue[o])[1] = place[o][1] \/ RemovedFromRender(map, o)
            THEN map ELSE AddRender(map, o, Head(m_queue[o]))
  /\ UNCHANGED kept

\* AddEffect, and an effect that moves.
UpdateEffect(e, at) ==
  /\ e \in Effects /\ Room(e)
  /\ place' = [place EXCEPT ![e] = at]
  /\ map' = AddRender(map, e, at)
  /\ UNCHANGED <<m_queue, kept>>

\* The destructor of an object, or RemoveFromContainer of one that goes
\* into a container or onto the cursor.
RemoveObject(o) ==
  /\ o # Hero /\ place[o] # Away
  /\ place' = [place EXCEPT ![o] = Away]
  /\ map' = RemoveRender(map, o)
  /\ m_queue' = [x \in Movers |-> IF x = o THEN <<>> ELSE m_queue[x]]
  /\ kept' = kept \ {o}

\* DeleteObject and the range check of a member of the party.
KeepMember(o) ==
  /\ o \in Others /\ place[o] # Away
  /\ map' = RemoveRender(map, o)
  /\ kept' = kept \cup {o}
  /\ UNCHANGED <<place, m_queue>>

-----------------------------------------------------------------------------
NoMap == [loaded |-> {}, prev |-> [x \in Drawn |-> Nobody],
          next |-> [x \in Drawn |-> Nobody], prio |-> [x \in Drawn |-> 0]]

TilesInit ==
  \E at \in Places :
    /\ map = AddRender(NoMap, Hero, at)
    /\ place = [o \in Objects |-> IF o = Hero THEN at ELSE Away]
    /\ m_queue = [o \in Movers |-> <<>>]
    /\ kept = {}

TilesNext ==
  \/ ClearUnusedBlocks \/ ApplyPatches \/ ChangeMap
  \/ \E b \in Blocks : LoadBlock(b)
  \/ \E o \in Objects : RemoveObject(o) \/ KeepMember(o)
  \/ \E o \in Movers : UpdateAnimationInfo(o)
  \/ \E at \in Places :
       \/ EnterWorld(at) \/ Walk(at) \/ PlacePlayer(at)
       \/ \E o \in Objects : \/ ShowObject(o, at) \/ UpdateMobile(o, at)
                             \/ UpdateCharacter(o, at) \/ UpdateEffect(o, at)

TilesSpec == TilesInit /\ [][TilesNext]_tileVars

-----------------------------------------------------------------------------
(* Properties *)

(* The lists of the tiles are sound: what the links lead to from the head  *)
(* leads back, has the land in it and is sorted by PriorityZ, with the     *)
(* land before what is as high; and what is in no list has no links, so    *)
(* that nothing points to an object that has been freed.                   *)
TilesSound ==
  LET loaded == TilesOf(map.loaded)
      inLists == UNION {Range(TileList(map, t)) : t \in loaded}
  IN /\ \A t \in loaded :
          LET list == TileList(map, t)
          IN /\ Land(t) \in Range(list)
             /\ map.prev[list[1]] = Nobody /\ map.next[Last(list)] = Nobody
             /\ \A i \in 2..Len(list) :
                  /\ map.prev[list[i]] = list[i - 1]
                  /\ map.prio[list[i - 1]] <= map.prio[list[i]]
                  /\ IsLand(list[i]) => map.prio[list[i - 1]] < map.prio[list[i]]
     /\ \A x \in Drawn \ inLists : RemovedFromRender(map, x)

(* Every object is drawn where it is: the lists hold no object on another  *)
(* tile than its own, and every object of the world that lies or walks on  *)
(* the ground is in one, but for members of the party that are out of      *)
(* sight.  This is what UpdateAnimationInfo needs to tell by its links     *)
(* whether a mobile is shown, and what keeps ClearUnusedBlocks from taking *)
(* the ground from under somebody.                                         *)
DrawnInPlace ==
  /\ \A t \in TilesOf(map.loaded) :
       \A x \in Range(TileList(map, t)) \cap Objects : place[x] # Away /\ place[x][1] = t
  /\ \A o \in Objects \ (Effects \cup kept) :
       place[o] # Away =>
         /\ BlockOf[place[o][1]] \in map.loaded
         /\ o \in Range(TileList(map, place[o][1]))
=============================================================================
