------------------------------- MODULE World -------------------------------
(***************************************************************************)
(* The world of objects: CGameWorld's map of serials and the intrusive     *)
(* lists (m_Items, m_Next, m_Prev) that hold the objects on the ground and *)
(* what each of them contains, together with the item on the cursor, which *)
(* the frame takes out of the world and a refusal puts back.               *)
(*                                                                         *)
(* The heap is one value, [obj, first, map]: obj is what is stored at an   *)
(* address, first the m_Items of an owner (the ground's is the world's     *)
(* own), map is m_Map.  The methods are functions from heaps to heaps, the *)
(* packet handlers and the client's steps are the actions.                 *)
(*                                                                         *)
(* Assumed of the server, which is not in the repository: it never puts an *)
(* object into itself or into what it holds, and only containers and       *)
(* mobiles hold items.  Abstractions: Opened is the choice of what         *)
(* ClearNotOpenedItems spares, distance and map number that of what the    *)
(* range check removes, and the end of an animation that of when a body    *)
(* goes.  Multis, the party, the trade box and the gumps are left out.     *)
(*                                                                         *)
(* A definition named after another one and a mistake is that definition   *)
(* with one plausible bug, kept to show which property notices it.         *)
(***************************************************************************)
EXTENDS Integers, FiniteSets, SequencesExt

CONSTANTS Player, Mobiles,  \* serials of the characters, the player among them
          Items,            \* serials of the items
          Containers,       \* the items that may hold others
          Corpses,          \* the containers that are corpses
          Movable,          \* the items the player picks up
          LayersOf,         \* the layers an item may be worn on
          Bodies, BodyOf,   \* serial | 0x80000000, of every mobile but the player
          Cells, CellOf,    \* addresses, and the one a serial is first given
          Ground, Null,
          TwiceDead         \* may a mobile die while its last body is still there

Goods    == Items \ Corpses  \* corpses lie on the ground
Serials  == Mobiles \cup Items \cup Bodies
Others   == Mobiles \ {Player}
Owners   == Serials \cup {Ground}
Layers   == {"none", "worn", "backpack", "shop"}
NoSerial == Ground  \* Container 0xFFFFFFFF

ASSUME SerialsAssumption ==
  /\ Player \in Mobiles
  /\ Corpses \subseteq Containers /\ Containers \subseteq Items
  /\ Movable \subseteq Items
  /\ LayersOf \in [Items -> SUBSET (Layers \ {"none"})]
  /\ BodyOf \in [Others -> Bodies]
  /\ \A m, n \in Others : BodyOf[m] = BodyOf[n] => m = n
  /\ Mobiles \cap Items = {} /\ Bodies \cap (Mobiles \cup Items) = {}
  /\ Ground \notin Serials

ASSUME CellsAssumption ==
  /\ IsFiniteSet(Cells) /\ Ground \notin Cells /\ Null \notin Cells \cup {Ground}
  /\ IsFiniteSet(Serials) /\ Cardinality(Serials) <= Cardinality(Cells)
  /\ CellOf \in [Serials -> Cells]
  /\ TwiceDead \in BOOLEAN

VARIABLES world,    \* the heap
          hand,     \* g_ObjectInHand
          toRemove  \* ObjectToRemove

vars == <<world, hand, toRemove>>

-----------------------------------------------------------------------------
(* The heap.                                                               *)
Pointers == Cells \cup {Null}

Object == [live : BOOLEAN, serial : Owners, cont : Owners,
           next : Pointers, prev : Pointers, layer : Layers]

Heaps == [obj   : [Cells -> Object],
          first : [Cells \cup {Ground} -> Pointers],
          map   : [Serials -> Pointers]]

NoObject == [live |-> FALSE, serial |-> NoSerial, cont |-> NoSerial,
             next |-> Null, prev |-> Null, layer |-> "none"]

EmptyHeap == [obj   |-> [c \in Cells |-> NoObject],
              first |-> [k \in Cells \cup {Ground} |-> Null],
              map   |-> [s \in Serials |-> Null]]

Find(w, s) == IF s \in Serials THEN w.map[s] ELSE Null

(* The list an object believes itself to be in.                            *)
Home(w, c) == IF w.obj[c].cont = NoSerial THEN Ground ELSE Find(w, w.obj[c].cont)

(* The objects from c on; a list that does not end is cut off.             *)
Walk(w) ==
  LET walk[n \in 0..Cardinality(Cells)] ==
        [c \in Pointers |-> IF n = 0 \/ c = Null THEN <<>>
                            ELSE <<c>> \o walk[n - 1][w.obj[c].next]]
  IN  walk

Chain(w, c) == Walk(w)[Cardinality(Cells)][c]

Members(w, k) == Chain(w, w.first[k])

(* An object and all that is in it, in what is in it, ...                  *)
Content(w, cells) == UNION {ToSet(Members(w, x)) : x \in cells}

Spread(w) ==
  LET within[n \in 0..Cardinality(Cells)] ==
        [cells \in SUBSET Cells |->
           IF n = 0 THEN cells ELSE within[n - 1][cells \cup Content(w, cells)]]
  IN  within

Subtree(w, c) == Spread(w)[Cardinality(Cells)][{c}]

Inside(w, s, t) ==
  /\ Find(w, s) # Null /\ Find(w, t) # Null
  /\ Find(w, s) \in Subtree(w, Find(w, t))

New(w, s) ==
  LET free == {c \in Cells : ~w.obj[c].live}
      c == IF CellOf[s] \in free THEN CellOf[s] ELSE CHOOSE x \in free : TRUE
  IN  [w EXCEPT !.obj[c] = [NoObject EXCEPT !.live = TRUE, !.serial = s],
                !.map[s] = c]

-----------------------------------------------------------------------------
(* CGameWorld and CGameObject: the links.                                  *)
Detach(w, c) ==
  [w EXCEPT !.obj[c] = [@ EXCEPT !.next = Null, !.prev = Null, !.cont = NoSerial]]

(* Reject compares serials, RemoveFromContainer addresses.                 *)
IsFirst(w, k, c) ==
  IF k = Ground THEN w.first[k] = c
                ELSE w.obj[w.first[k]].serial = w.obj[c].serial

PopFirst(w, k, n) ==
  [w EXCEPT !.first[k] = n,
            !.obj = IF n = Null THEN @ ELSE [@ EXCEPT ![n].prev = Null]]

BypassOneWay(w, c) ==
  LET p == w.obj[c].prev
  IN  IF p = Null THEN w ELSE [w EXCEPT !.obj[p].next = w.obj[c].next]

Bypass(w, c) ==
  LET n == w.obj[c].next
      p == w.obj[c].prev
      forward == IF p = Null THEN w.obj ELSE [w.obj EXCEPT ![p].next = n]
  IN  [w EXCEPT !.obj =
        IF n = Null THEN forward ELSE [forward EXCEPT ![n].prev = p]]

RemoveFromContainer(w, c) ==
  LET k == Home(w, c)
  IN  IF k = Null THEN Detach(w, c)
      ELSE IF w.first[k] = Null THEN Detach(w, c)
      ELSE IF IsFirst(w, k, c)
           THEN Detach(PopFirst(w, k, w.obj[w.first[k]].next), c)
      ELSE Detach(Bypass(w, c), c)

Link(w, last, c) ==
  [w EXCEPT !.obj[last].next = c,
            !.obj[c] = [@ EXCEPT !.prev = last, !.next = Null]]

AddInFront(w, k, c) ==
  LET u == RemoveFromContainer(w, c)
      n == u.first[k]
      v == IF n = Null THEN u ELSE [u EXCEPT !.obj[n].prev = c, !.obj[c].next = n]
  IN  [v EXCEPT !.first[k] = c,
                !.obj[c].cont = IF k = Ground THEN NoSerial ELSE v.obj[k].serial]

(* AddItem, AddObject of the first object on the ground, and the           *)
(* assignment to m_Items where there is none.                              *)
Add(w, k, c) ==
  LET u == RemoveFromContainer(w, c)
      v == IF u.first[k] = Null THEN [u EXCEPT !.first[k] = c]
           ELSE Link(u, Last(Members(u, k)), c)
  IN  [v EXCEPT !.obj[c].cont = IF k = Ground THEN NoSerial ELSE v.obj[k].serial]

PutEquipment(w, c, k, layer) == [Add(w, k, c) EXCEPT !.obj[c].layer = layer]

MoveToTop(w, c) ==
  LET k == Home(w, c)
      n == w.obj[c].next
      u == IF w.obj[c].prev = Null THEN PopFirst(w, k, n) ELSE Bypass(w, c)
  IN  IF n = Null \/ k = Null THEN w ELSE Link(u, Last(Chain(w, n)), c)

(* GetWorldItem, GetWorldCharacter.                                        *)
GetWorld(w, s) ==
  IF w.map[s] # Null THEN w
  ELSE LET u == New(w, s) IN Add(u, Ground, u.map[s])

DeleteStillMapped(w, c) ==
  LET dead == Subtree(w, c)
  IN  [w EXCEPT !.obj   = [x \in Cells |-> IF x \in dead THEN NoObject ELSE w.obj[x]],
                !.first = [x \in Cells \cup {Ground} |->
                             IF x \in dead THEN Null ELSE w.first[x]]]

DeleteAlone(w, c) ==
  [w EXCEPT !.obj[c] = NoObject, !.first[c] = Null, !.map[w.obj[c].serial] = Null]

(* The destructors delete what the object holds.  Their containers are no  *)
(* longer in the map, so no link of an object that stays is touched.       *)
Delete(w, c) ==
  LET dead == Subtree(w, c)
  IN  [obj   |-> [x \in Cells |-> IF x \in dead THEN NoObject ELSE w.obj[x]],
       first |-> [x \in Cells \cup {Ground} |-> IF x \in dead THEN Null ELSE w.first[x]],
       map   |-> [s \in Serials |->
                    IF \E x \in dead : w.obj[x].serial = s THEN Null ELSE w.map[s]]]

RemoveObject(w, c) == Delete(RemoveFromContainer(w, c), c)

(* The loops that remove some of the objects they walk past.               *)
Removing(w, cells, gone) ==
  LET after[n \in 0..Len(cells)] ==
        IF n = 0 THEN w
        ELSE IF cells[n] \in gone THEN RemoveObject(after[n - 1], cells[n])
        ELSE after[n - 1]
  IN  after

RemoveThose(w, cells, gone) == Removing(w, cells, gone)[Len(cells)]

(* Clear, ClearUnequipped and the loop that closes a corpse's window.      *)
Clear(w, c) == [RemoveThose(w, Members(w, c), Cells) EXCEPT !.first[c] = Null]

ClearUnequipped(w, c) ==
  RemoveThose(w, Members(w, c), {x \in Cells : w.obj[x].layer = "none"})

Empty(w, c) ==
  IF w.obj[c].serial \in Corpses THEN ClearUnequipped(w, c) ELSE Clear(w, c)

ReplaceObject(w, c, s) ==
  [w EXCEPT
     !.map = [[@ EXCEPT ![w.obj[c].serial] = Null] EXCEPT ![s] = c],
     !.obj = [x \in Cells |->
       IF x = c THEN [w.obj[x] EXCEPT !.serial = s]
       ELSE IF x \in ToSet(Members(w, c)) THEN [w.obj[x] EXCEPT !.cont = s]
       ELSE w.obj[x]]]

-----------------------------------------------------------------------------
Held(w, k) == {w.obj[c].serial : c \in ToSet(Members(w, k))}

UpdateWithoutAdding(w, s) ==
  LET u == IF w.map[s] = Null THEN GetWorld(w, s)
           ELSE RemoveFromContainer(w, w.map[s])
  IN  MoveToTop(u, u.map[s])

(* What the server tells of an object.                                     *)
UpdateGameObject(w, s) ==
  LET u == IF w.map[s] = Null THEN GetWorld(w, s)
           ELSE IF w.obj[w.map[s]].cont # NoSerial THEN Add(w, Ground, w.map[s])
           ELSE w
  IN  MoveToTop(u, u.map[s])

UpdateContained(w, s, k) ==
  LET stale == /\ w.map[s] # Null
               /\ k \in Corpses => w.obj[w.map[s]].layer = "none"
      u == GetWorld(IF stale THEN RemoveObject(w, w.map[s]) ELSE w, s)
      c == u.map[s]
  IN  IF Find(w, k) = Null THEN w ELSE MoveToTop(Add(u, u.map[k], c), c)

NoHand == [phase |-> "empty", updated |-> FALSE, serial |-> NoSerial,
           cont |-> NoSerial, layer |-> "none"]

(* UpdateContainedItem forgets a dropped item that has arrived.            *)
Arrived(s) == IF hand.serial = s /\ hand.phase = "dropped" THEN NoHand ELSE hand

Shown(s) ==
  IF hand.serial = s /\ hand.phase = "held" THEN [hand EXCEPT !.updated = TRUE]
  ELSE hand

Playing == world.map[Player] # Null

Holders == Mobiles \cup Containers
MayHold(w, k, s) == k # s /\ ~Inside(w, k, s)

-----------------------------------------------------------------------------
(* The packets.                                                            *)
UpdateItem(s) ==
  /\ Playing
  /\ world' = UpdateGameObject(world, s)
  /\ hand' = Shown(s)
  /\ UNCHANGED toRemove

Wear(w, c, s, layer) ==
  LET u == GetWorld(w, s)
      i == u.map[s]
  IN  MoveToTop(PutEquipment(u, i, c, layer), i)

Wearing(w, c, worn) ==
  LET after[n \in 0..Len(worn)] ==
        IF n = 0 THEN w ELSE Wear(after[n - 1], c, worn[n][1], worn[n][2])
  IN  after

WearAll(w, c, worn) == Wearing(w, c, worn)[Len(worn)]

(* 0x78: the mobile, which of its items had an open window, and what it    *)
(* wears, a sequence of <<item, layer>>.                                   *)
UpdateObject(m, opened, worn) ==
  LET u == IF m = Player THEN world ELSE UpdateGameObject(world, m)
      c == u.map[m]
      v == RemoveThose(u, Members(u, c), {x \in Cells :
             u.obj[x].serial \notin opened /\ u.obj[x].layer # "backpack"})
  IN  /\ Playing
      /\ world' = WearAll(v, c, worn)
      /\ UNCHANGED <<hand, toRemove>>

UpdateContainedItem(s, k) ==
  /\ Playing
  /\ MayHold(world, k, s)
  /\ world' = UpdateContained(world, s, k)
  /\ hand' = Arrived(s)
  /\ UNCHANGED toRemove

UpdateContainedItems(k, s, t) ==
  LET u == IF Find(world, k) = Null THEN world ELSE Empty(world, world.map[k])
  IN  /\ Playing
      /\ s # t /\ MayHold(world, k, s) /\ MayHold(world, k, t)
      /\ world' = UpdateContained(UpdateContained(u, s, k), t, k)
      /\ hand' = IF Arrived(s) # hand THEN Arrived(s) ELSE Arrived(t)
      /\ UNCHANGED toRemove

EquipItem(s, k, layer) ==
  LET u == GetWorld(world, s)
      c == u.map[s]
      v == IF world.map[s] # Null /\ u.obj[c].layer # "backpack"
           THEN Clear(u, c) ELSE u
      w == IF v.map[k] = Null THEN v ELSE PutEquipment(v, c, v.map[k], layer)
  IN  /\ Playing
      /\ MayHold(world, k, s)
      /\ world' = IF layer = "shop" THEN Clear(w, c) ELSE w
      /\ UNCHANGED <<hand, toRemove>>

CorpseEquipment(s, k, layer) ==
  LET c == world.map[s]
  IN  /\ Playing
      /\ c # Null /\ Find(world, k) # Null /\ world.obj[c].cont = k
      /\ world' = PutEquipment(world, c, world.map[k], layer)
      /\ UNCHANGED <<hand, toRemove>>

DeleteObject(s) ==
  LET c == world.map[s]
  IN  /\ Playing
      /\ s # Player /\ c # Null
      /\ world' = RemoveObject(world, c)
      /\ hand' = IF /\ hand.phase = "held"
                    /\ world.obj[c].cont = Player /\ world.obj[c].layer = "none"
                 THEN NoHand ELSE hand
      /\ UNCHANGED toRemove

DisplayDeath(m) ==
  /\ Playing
  /\ world.map[m] # Null
  /\ TwiceDead \/ world.map[BodyOf[m]] = Null
  /\ world' = ReplaceObject(world, world.map[m], BodyOf[m])
  /\ UNCHANGED <<hand, toRemove>>

(* 0x24 empties a container, unless it is a spell book, before its contents*)
(* are sent; the player closes one.                                        *)
OpenContainer(k) ==
  /\ Playing
  /\ world.map[k] # Null
  /\ k \notin Corpses
  /\ world' = Clear(world, world.map[k])
  /\ UNCHANGED <<hand, toRemove>>

CloseContainer(k) ==
  /\ Playing
  /\ world.map[k] # Null
  /\ world' = Empty(world, world.map[k])
  /\ UNCHANGED <<hand, toRemove>>

(* EndDraggingItem and DropItemAccepted.  What the other fields keep is not*)
(* read again: the next pick-up clears them.                               *)
EndDraggingItem ==
  /\ Playing
  /\ hand' = NoHand
  /\ UNCHANGED <<world, toRemove>>

(* The server refuses: the item is put back where it was picked up, unless *)
(* it has been seen since.                                                 *)
PutBack(w, s, k) ==
  LET u == GetWorld(w, s)
      c == u.map[s]
  IN  IF hand.layer = "none" /\ k # NoSerial THEN UpdateContained(w, s, k)
      ELSE IF Find(u, k) = Null THEN MoveToTop(RemoveFromContainer(u, c), c)
      ELSE IF k \in Items THEN RemoveObject(u, c)
      ELSE MoveToTop(PutEquipment(u, c, u.map[k], hand.layer), c)

DenyMoveItem ==
  /\ Playing
  /\ \/ hand.phase = "held"
     \/ hand.phase = "dropped" /\ world.map[hand.serial] = Null
  /\ hand.updated \/ MayHold(world, hand.cont, hand.serial)
  /\ world' = IF hand.updated THEN world ELSE PutBack(world, hand.serial, hand.cont)
  /\ hand' = NoHand
  /\ toRemove' = IF toRemove = hand.serial THEN NoSerial ELSE toRemove

-----------------------------------------------------------------------------
(* The client.                                                             *)
PickupOfHolder(s) ==
  LET c == world.map[s]
  IN  /\ Playing
      /\ hand.phase # "held"
      /\ c # Null
      /\ hand' = [NoHand EXCEPT !.phase = "held", !.serial = s,
                    !.cont = world.obj[c].cont, !.layer = world.obj[c].layer]
      /\ toRemove' = world.obj[c].cont
      /\ UNCHANGED world

PickupItem(s) ==
  LET c == world.map[s]
  IN  /\ Playing
      /\ hand.phase # "held"
      /\ c # Null
      /\ hand' = [NoHand EXCEPT !.phase = "held", !.serial = s,
                    !.cont = world.obj[c].cont, !.layer = world.obj[c].layer]
      /\ toRemove' = s
      /\ UNCHANGED world

(* DropItem and EquipItem of COrion: the server is asked, the item is no   *)
(* longer on the cursor.                                                   *)
DropItem ==
  /\ Playing
  /\ hand.phase = "held"
  /\ hand' = [hand EXCEPT !.phase = "dropped"]
  /\ UNCHANGED <<world, toRemove>>

(* The frame takes what was picked up out of the world.                    *)
RemovePicked ==
  /\ Playing
  /\ toRemove # NoSerial
  /\ world' = IF world.map[toRemove] = Null THEN world
              ELSE RemoveObject(world, world.map[toRemove])
  /\ toRemove' = NoSerial
  /\ UNCHANGED hand

(* The bodies that have fallen.                                            *)
ProcessAnimation(gone) ==
  /\ Playing
  /\ world' = RemoveThose(world, Members(world, Ground),
                          {c \in Cells : world.obj[c].serial \in gone})
  /\ UNCHANGED <<hand, toRemove>>

(* Also the objects of another map when the player changes maps.           *)
RemoveRangedObjects(far) ==
  /\ Playing
  /\ world' = RemoveThose(world, Members(world, Ground),
                          {c \in Cells : world.obj[c].serial \in far})
  /\ UNCHANGED <<hand, toRemove>>

NewWorld == Add(New(EmptyHeap, Player), Ground, CellOf[Player])

ClearWorldFirstOnly ==
  LET u == RemoveObject(world, world.map[Player])
      v == RemoveThose(u, Members(u, Ground), {u.first[Ground]})
  IN  /\ Playing
      /\ world' = [v EXCEPT !.map = [s \in Serials |-> Null], !.first[Ground] = Null]
      /\ hand' = NoHand
      /\ toRemove' = NoSerial

(* ~CGameWorld, and the next session.                                      *)
ClearWorld ==
  LET u == RemoveObject(world, world.map[Player])
      v == RemoveThose(u, Members(u, Ground), Cells)
  IN  /\ Playing
      /\ world' = [v EXCEPT !.map = [s \in Serials |-> Null], !.first[Ground] = Null]
      /\ hand' = NoHand
      /\ toRemove' = NoSerial

Login ==
  /\ ~Playing
  /\ world' = NewWorld
  /\ UNCHANGED <<hand, toRemove>>

Init == world = NewWorld /\ hand = NoHand /\ toRemove = NoSerial

Wearable == {e \in Goods \X Layers : e[2] \in LayersOf[e[1]]}

Next ==
  \/ \E s \in Movable : PickupItem(s)
  \/ \E s \in Items : UpdateItem(s) \/ DeleteObject(s)
  \/ \E m \in Others : DeleteObject(m) \/ DisplayDeath(m)
  \/ \E s \in Goods, k \in Holders : UpdateContainedItem(s, k)
  \/ \E e \in Wearable, m \in Mobiles : EquipItem(e[1], m, e[2])
  \/ \E e \in Wearable, k \in Corpses : CorpseEquipment(e[1], k, e[2])
  \/ \E m \in Mobiles, worn \in BoundedSeq(Wearable, 1) :
       \E opened \in SUBSET (IF world.map[m] = Null THEN {} ELSE Held(world, world.map[m])) :
         UpdateObject(m, opened, worn)
  \/ \E k \in Containers : \/ OpenContainer(k) \/ CloseContainer(k)
                           \/ \E s, t \in Goods : UpdateContainedItems(k, s, t)
  \/ \E gone \in SUBSET (Held(world, Ground) \cap Bodies) : ProcessAnimation(gone)
  \/ \E far \in SUBSET (Held(world, Ground) \ {Player}) : RemoveRangedObjects(far)
  \/ EndDraggingItem \/ DenyMoveItem \/ DropItem \/ RemovePicked
  \/ ClearWorld \/ Login

Spec == Init /\ [][Next]_vars

-----------------------------------------------------------------------------
(* The fields hold what their C++ types allow, and only items are on the   *)
(* cursor or taken out of the world (CObjectOnCursor, ObjectToRemove).     *)
TypeOK ==
  /\ world \in Heaps
  /\ hand \in [phase : {"empty", "held", "dropped"}, updated : BOOLEAN,
               serial : Items \cup {NoSerial}, cont : Owners, layer : Layers]
  /\ toRemove \in Items \cup {NoSerial}

Live == {c \in Cells : world.obj[c].live}

(* Whatever Reject, AddItem, AddObject, MoveToTop and the destructors have *)
(* done to m_Items, m_Next and m_Prev: every list is doubly linked from its*)
(* first object, nothing live points to what was freed, and nothing is     *)
(* written into what was freed.                                            *)
ListsSound ==
  /\ \A k \in Live \cup {Ground} : world.first[k] # Null =>
       world.first[k] \in Live /\ world.obj[world.first[k]].prev = Null
  /\ \A c, d \in Live : (world.obj[c].next = d) <=> (world.obj[d].prev = c)
  /\ \A c \in Live : {world.obj[c].next, world.obj[c].prev} \subseteq Live \cup {Null}
  /\ \A c \in Cells \ Live : world.obj[c] = NoObject /\ world.first[c] = Null

Stray(w, s) ==
  /\ w.map[s] # Null
  /\ w.obj[w.map[s]].cont = NoSerial
  /\ s \notin Held(w, Ground)

(* m_Map, the Container of an object and the lists tell the same story: an *)
(* object is found under its serial, and lies in the list of the owner its *)
(* Container names and in no other. The only ones in no list are those     *)
(* DenyMoveItem has left on the ground.                                    *)
ContainerTells ==
  Playing =>
    /\ \A s \in Serials : world.map[s] # Null =>
         world.map[s] \in Live /\ world.obj[world.map[s]].serial = s
    /\ \A c \in Live :
         /\ world.map[world.obj[c].serial] = c
         /\ Home(world, c) # Null
         /\ \/ Stray(world, world.obj[c].serial)
            \/ c \in ToSet(Members(world, Home(world, c)))
    /\ \A k \in Live \cup {Ground} :
         \A c \in ToSet(Members(world, k)) : Home(world, c) = k

(* Packets, frames and the destructors may come in any order: the links are *)
(* sound, and they, m_Map and the containers tell the same story.           *)
HeapSound == ListsSound /\ ContainerTells

Reaching(w) ==
  LET reach[n \in 0..Cardinality(Cells)] ==
        [c \in Pointers |->
           /\ c # Null /\ n # 0
           /\ w.obj[c].cont = NoSerial \/ reach[n - 1][Find(w, w.obj[c].cont)]]
  IN  reach

(* GetTopObject follows Container through FindWorldObject without a test   *)
(* for null: from any object in m_Map it reaches one that nobody holds.    *)
TopResolves ==
  \A s \in Serials : world.map[s] # Null =>
    Reaching(world)[Cardinality(Cells)][world.map[s]]

(* Only HandleDenyMoveItem takes an object that m_Map knows out of every   *)
(* list, and only the one that was on the cursor.                          *)
OnlyDenyStrands ==
  [][\A s \in Serials : Stray(world', s) /\ ~Stray(world, s) =>
       s = hand.serial /\ hand' = NoHand /\ DenyMoveItem]_vars

(* ~CGameWorld frees every object that is in a list, and all it holds; what*)
(* outlives the world was left in no list, or is held by such an object.   *)
ClearWorldFrees ==
  [][~Playing' => \A c \in Live' :
       \E s \in Serials : Stray(world, s) /\ c \in Subtree(world, world.map[s])]_vars

(* The refinement mapping: m_Map's domain, and the serials of each list.   *)
SerialsIn(k) ==
  LET l == Members(world, k) IN [i \in DOMAIN l |-> world.obj[l[i]].serial]

Forest == INSTANCE ObjectForest WITH
  Objects <- Serials,
  present <- {s \in Serials : world.map[s] # Null},
  list    <- (Ground :> SerialsIn(Ground)) @@
             [s \in Serials |-> IF world.map[s] = Null THEN <<>> ELSE SerialsIn(world.map[s])]

(* Read as lists of serials, the links are what ObjectForest promises: no  *)
(* handler changes the order of those who stay, duplicates an object or    *)
(* leaves behind what a deleted one held.                                  *)
ForestSpec == Forest!Spec
=============================================================================
