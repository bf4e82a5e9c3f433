# A TLA+ verification of the Siebenwind client (OrionUO)

The Siebenwind client is an Ultima Online client written in C++ (`src/OrionUO`).
This directory holds TLA+ models of its core logic, the TLC configurations that
check them on small instances, and proofs that TLAPS checks for every instance.

Run inside this directory, for example:

    tlc -workers 2 -config Walker.cfg MCWalker
    tlc -workers 2 -config ClientParts.cfg MCClientParts
    tlapm WalkerProofs.tla

## 1. The system

The client is one thread and one loop (`OrionApplication.cpp`): every frame it
handles the player's input, reads the socket (`CConnectionManager::Recv`, which
calls the handler of every complete packet), handles packets queued by plugins,
sends the pending property-list requests, and runs `COrion::Process`. Nothing
interleaves inside a handler; what makes the behaviour hard is that one logical
operation (a step, a login, dragging an item) spans many frames and many
packets, that its pieces are recorded in several globals, and that the server,
the connection and the player act between any two of them.

| Component | State | Operations | Hard behaviour |
|---|---|---|---|
| Walk protocol (`Walker/*`, `CGameCharacter::UpdateAnimationInfo`) | `g_Walker` (array of 5 pending steps, two counters, sequence, failure flags), the player's queue `m_Steps`, `g_RemoveRangeXY` | `Walk`, `ConfirmWalk`, `DenyWalk`, `UpdatePlayer`, `EnterWorld`, animation | animation and confirmations in any order, sequence wrap, recovery after a failure |
| Game socket (`Core/Connection`, `Core/PacketMessage`, `Core/PacketReader`, `Network/UOHuffman`) | parser buffer, place in the Huffman tree, connected flag | read, decompress, cut packets, handle, connect, disconnect | reads cut anywhere, handlers that close the connection, reconnection |
| Session (`OrionUO.cpp`, `ConnectionManager`, `ScreenStages/*`, modal gumps) | `g_GameState`, `g_ConnectionScreen`, two sockets, `g_World`, `g_GrayMenuCount`, `g_LogoutAfterClick` | login packets, screens, failed reads, dialogs and questions, logout | packets between a click and the frame that acts on it, lost connection in any state |
| Drag and drop (`ObjectOnCursor`, `COrion::PickupItem`, `DropItem`) | `g_ObjectInHand`, `ObjectToRemove` | pick up, drop, equip, deny, end | answers in any order, an item shown, deleted or refused before the frame has taken it out of the world |
| World object graph (`GameObjects/GameWorld`, `GameObject`, `BaseQueue`) | `m_Map`, `m_Items`, `m_Next`, `m_Prev`, `Container`, `Layer` | show, contain, equip, empty, kill, delete, range check, end of the world | two records of one fact (the list an object is in and the serial of its container), deletion while walking, renamed serials |
| Target cursor and macros (`Target.cpp`, `MacroManager`) | `g_Target` with the packet to be sent, `g_MacroPointer`, three timers | the server shows, replaces and takes back a cursor; click, Escape, healing button, macro, house designer | several answerers, a cursor replaced while one is shown, timers left over from another macro |
| Autowalk and A* (`PathFinder.cpp`) | two lists of 10000 nodes, `m_Path`, `m_PointIndex` | find a path, follow it a step a frame | lists that outlive a search; a path computed once and followed over many frames |
| Property lists (`ObjectPropertiesManager`, `CPacketManager`) | pending serials, the cache of lists with their revisions | announcement, batched request, answer | a revision that changes while a request is under way; a connection that ends |
| Mouse (`SelectedObject`, `PressedObject`, `ClickObject`, `GameInput`, `GumpManager`) | raw pointers to objects and gump elements | press, release, double click, drag, select, draw | what a pointer points to is deleted between two uses |
| Map tiles (`MapManager`, `MapBlock`, `RenderWorldObject`) | blocks, the `m_PrevXY`/`m_NextXY` list of each tile | load, collect, move, animate, change map, patch | an object's tile, its queue of steps and its links are changed by different code |
| FastWalk keys | `m_Keys` | add, take | none: nothing depends on them |
| Party, corpses, trading, custom houses, books, shops, use queue | lists and timers mirrored from packets | | mostly the server's protocols |
| Gump layout, effects, weather, journal | caches and layout | | |
| Plugins, encryption, rendering, fonts, sound, files, configuration | I/O | | |

How they interact: packets drive everything. A walk needs the state `GS_GAME`
of the session; a logout or a new world resets the walker; a failed read of the
game socket opens a modal gump and closes both sockets; a handler may close the
connection whose packet it handles. The follower of a path calls `Walk` like the
player's keys do; a placement of the player, which repairs the walk, does not
stop it. The path search, the cursor, the property lists, the mouse and the
tiles share no state with one another that their properties depend on.

What makes each component correct:

- *Walk protocol*: the two records of the pending steps agree; the array is
  indexed in bounds; the queue is a path; when nothing is under way client and
  server agree on the position; a failure is always repaired; a full window
  opens again.
- *Game socket*: every packet is handled once, whole, in order, without waiting
  for the next, and none after the connection is closed.
- *Session*: the game is blocked only by a gump that can unblock it; the counter
  counts; one socket; no game screen without a world; a confirmed logout
  leaves no socket and no world; every waiting screen has a way out.
- *Drag and drop*: what is picked up leaves the world once, and only a refusal
  may leave an object in no list.
- *Object graph*: lists are doubly linked and point to nothing that was freed;
  the map, the containers' serials and the lists tell the same story; the order
  of those who stay never changes; the end of the world frees them all.
- *Path search*: the lists are a tree of passable steps, a path that is found
  leads to the target, and a search fails only when its nodes are used up or
  there is no way.
- *Autowalk*: the follower knows where on its path the queued steps end.
- *Target cursor*: a cursor is answered once, under its own id, in order, and not
  after it was taken back; a macro that waits for one ends.
- *Property lists*: a list announced and not known is queued, asked for or on its
  way, and arrives at last.
- *Mouse*: no pointer is used after what it points to is gone.
- *Map tiles*: the lists are sound, and each object is in the list of its tile.

## 2. Modules

| Module | Models | Reads on from |
|---|---|---|
| `Walker` | `CWalker`, `CPathFinder::Walk`, the step queue and its animation; any server | |
| `WalkWindow` | what the bookkeeping promises: two FIFO queues of numbers | |
| `WalkProtocol` | `Walker` and a server over a FIFO connection that breaks | `Walker`, instantiates `WalkWindow` |
| `AutoWalk` | the follower of a path beside the walker | `Walker` |
| `WalkerProofs` (also about `AutoWalk`), `WalkProtocolProofs` | proofs | |
| `Geometry` | directions and distances | |
| `PathSearch` | `WalkTo` and `FindPath` | `Geometry` |
| `Targeting` | the target cursor and the macros that wait for it | |
| `PropertyQueue` | property lists: announcement, request, answer | |
| `MousePointers` | what the pointers of the mouse point to | |
| `PathSearchProofs`, `ClientPartsProofs` (the target cursor, the property lists and the mouse) | proofs | |
| `TileLists` | what is drawn on each tile of the map | |
| `TileListsProofs` | proofs | |
| `Huffman` | `CDecompressingCopier`: bit after bit, byte after byte | |
| `GameSocket` | connection, parser and reader loop | `Huffman` |
| `GameSocketProofs` | proofs about both | |
| `Session` | from the login screen into the game and back | |
| `SessionProofs` | proofs | |
| `World` | the world's objects at the level of their links, and the item on the cursor | instantiates `ObjectForest` |
| `WorldProofs` | proofs | |
| `ObjectForest` | what the world promises: ordered lists of objects | |
| `MC*` | values of the constants for TLC; `MCClientParts` holds five parts that share no state | |

### Walker

`m_Step` (a function on `0..MaxSteps-1`), `StepsCount`, `WalkSequence`,
`CurrentWalkSequence`, `UnacceptedPacketsCount`, `WalkingFailed` and
`ResendPacketSended` are the fields of `CWalker`; `m_Steps`, `at` and
`Direction` are the player's. The actions are `Walk(d)`, `UpdateAnimationInfo`
(one step leaves the queue), `ConfirmWalk(n)`, the three packets that place the
player, and `ClearWorld`. `CanWalk` answers anything the code may answer:
blocked, passed, or a diagonal deflected to a neighbour. A turn is displayed at
once and `UpdateAnimationInfo` calls itself for the next step; `turning` makes
that recursion atomic. After a failed confirmation the code sets `StepsCount`
to 0 while steps are still queued, and the animation then counts it below zero;
the model does the same, and `ConfirmWalk` with a negative count behaves as the
C++ loop does.

Left out: time gates, heights, the running bit, forced walks.

### WalkProtocol

Two FIFO queues (TCP) between the client and a server, emptied when the
connection is lost. The server is external and is what the client expects: it
answers every request in order with a confirmation or a denial, confirms only
the sequence it expects, and expects 0 after every packet that places the
player. With `Interference` it also refuses steps and moves the player at will,
and the connection breaks: by a failed read (the game is blocked), or by a
failed `select`, after which the code lets the player walk on in silence.

### PathSearch and AutoWalk

`FindPath` starts a search in a world given by its ways: the pairs of a tile and
a direction for which `CalculateNewZ` passes. `OpenNode` is one turn of the loop
of `OpenNodes`, `CloseCheapest` is `FindCheapestNode`, `TraceBack` one turn of
the loop that fills `m_Path`. The slots of the two arrays break ties between
nodes of equal cost and nothing else, so the lists are sets and any cheapest
node may be chosen; a full list is `skipped`. A cheaper way to an open node
replaces parent and cost but not the direction, as `AddNodeToList` does:
`rerouted` remembers those tiles. The world may be another one at each search.

`AutoWalk` is `ProcessAutowalk` and everything that starts and stops it, beside
`Walker`. A route is any path the search may find. `lost` records what puts the
player off the path: a search begun while steps were queued (the path starts
where the player is displayed, not where the queue ends), a rerouted tile, a
deflected step, a packet that moves or places the player, the end of the world.

### Targeting

`Target` and `MultiPlacement` are the two packets that show a cursor, `Target`
also takes one back; the other actions are what may answer it or drop it.
`m_Data` is the packet that `SendTarget` sends and wipes, reduced to its id (0
when wiped). The server, external, gives each cursor a new id. A macro is a sequence
of codes; `Execute` starts the loop of `MacroManager::Execute` and `ProcessMacro`
is one turn of it, atomic with respect to packets because `executing` excludes
them. All actions that do not wait for a cursor are one, `say`.

### PropertyQueue

A list is its revision. `OPLInfo` and `MegaCliloc` are the two handlers,
`SendMegaClilocRequests` cuts the queue into batches, and `receiving` is true
while the frame is in `Recv`, so that nothing is requested in the middle of it.
Cache and queue outlive the connection; what is under way does not. The test of
`HandleMegaCliloc` for a world is left out: the server sends lists only to a
player in the world.

### MousePointers

An address is free, holds an object of the world, or an element of a gump, and
is used again after it was freed. `Freed` is the destructor of an object,
`Forget` that of a gump, `UpdateContent` the rebuilding of a gump's elements
when it is drawn. In the blocked game only modal gumps are selected, and the
pressed pointers are put aside and back while the game below is drawn
(`RenderBlocked`). The session's other screens are left out.

### TileLists

`map` is the set of loaded blocks with the links and the `PriorityZ` of all that
is drawn. `RemoveRender`, `AddToTile` (`CMapBlock::AddRender`), `LoadBlocks`,
`DeleteBlocks` (`~CMapBlock`) and `AddRender` (`CMapManager::AddRender`) are
functions from maps to maps, and what the code does in a loop is a recursive
function of how many turns it has taken (`Building`, `Loading`, `Collecting`,
`Relinking`). A list has no head: it is found by walking back from the land. Packets (`ShowObject`, `UpdateMobile`, `UpdateCharacter`), the
player (`Walk`, `PlacePlayer`), the animation of steps, effects, the collection
of unused blocks, `ChangeMap`, `ApplyPatches` and `EnterWorld` are the actions.
`kept` are members of the party that were taken out of sight and kept in the
world. Assumed: every tile has land; a mobile that steps over a tile outside
the map would lose its links, and with them its place on the screen.

The order in a list is by the stored `PriorityZ`. A step that changes only the
height is taken for a turn by `UpdateAnimationInfo`, which returns before it
sets `PriorityZ` anew: the mobile is drawn in its old order until it moves on.
The model does the same.

### GameSocket and Huffman

The stream is bits. The server compresses each packet with a prefix code, ends
it with the flush character and pads it to a byte. `AfterBytes` and `AfterBits`
are the loop of the decompressor, as recursive functions of how much it has read. `Receive` takes any prefix of
what is under way, as `recv` does, and decompresses it from the place in the
tree where the last call stopped; `HandlePacket` and `ReadDone` are the turns of
`PacketReader::Read`. The reader's test for a packet is `HasPacket`. The full
output buffer is left out: 4096 bytes of input cannot fill it.

### Session

`gameState` is `g_GameState` with the three screens that create a character
merged into one; `screen` holds what the properties need of
`g_ConnectionScreen`; `stage` says how far the server has let the client come,
and decides which packets may arrive. Modal gumps are a set with the counter
`g_GrayMenuCount` beside it: `AddGump` deletes a second gump of the same type
and serial, as `CGumpManager::AddGump` does, and `DeleteGump` is `~CGump`.

A confirmed logout is only a flag until `Process` acts on it, and packets are
handled in between. `LogoutHappens` says that what comes in between does not
stop it: the player ends on the main screen (`LoggedOut`), with no socket and no
world. It excepts one packet by name: an `ErrorCode` leaves for the connection
screen (`IdleWarned`), and `Process` tests the flag only from `GS_GAME` on, so
socket, world and flag stay as they are until the game is shown again, and may
stay for good. Nothing in the repository says that a logout comes first, so this
is no finding.

### World and ObjectForest

The heap is one value, `[obj, first, map]`: what is stored at each address, the
`m_Items` of each owner (the ground's is the world's own) and `m_Map`. The
methods of `CGameWorld` and `CGameObject` are functions from heaps to heaps that
carry their names or close ones: `RemoveFromContainer` (with `Reject`), `Add`
(`AddItem`, `AddObject`, and the assignment to `m_Items` where there is none),
`MoveToTop`, `GetWorld`, `RemoveObject`, `Clear`, `ReplaceObject`. The packet
handlers, the frame and the player's steps are the actions; each is the whole
handler. `hand` is `g_ObjectInHand` (empty, held or dropped, seen again or not,
where it came from) and `toRemove` is `ObjectToRemove`. A freed address is used
again, so that a stale pointer would hit another object.
`Members` and `Subtree` follow the links for as many steps as there are
addresses, so that they have a value in a heap whose links run in a circle too.

`ObjectForest` has no pointers: the present objects form one ordered list on the
ground and one in each object. A step makes some of them vanish with what they
hold and puts at most two at the end of a list; a mobile that dies is renamed; a
refused move may leave one object in no list. `World` implements it, with the
serials of each list as the mapping.

Assumed of the server, which is not in the repository: it never puts an object
into itself or into what it holds (`MayHold`; `UpdateContainedItem` deletes the
old object before it uses the container it has looked up), only containers and
mobiles hold items, corpses lie on the ground, and a mobile does not die while
its last body is still there (`TwiceDead = FALSE`). With `TwiceDead = TRUE` TLC
finds `HeapSound` (its part `ContainerTells`) violated: the second body takes the
first one's place in `m_Map`, and what the first holds is then unlinked from the
second.

Three abstractions are choices: which items had an open window (`Opened`), which
objects are out of range or on the other map, and when the animation of a body
ends. Multis, boats, the party's exceptions, the trade box and the gumps are
left out; so is the count of a stack, on which no link depends.

One behaviour is kept as the code has it: `HandleDenyMoveItem` of an item picked
up from the ground unlinks it after it has been put back, so that it is drawn
and known by its serial but is in no list. The range check never removes it and
`~CGameWorld` does not free it. `OnlyDenyStrands` and `ClearWorldFrees` say that
this is the only way it can happen.

## 3. Runs

| Run | Question | Result |
|---|---|---|
| `walker` | Is the bookkeeping right whatever the server sends, also while a path is followed? | `TypeOK`, `StepLedger`, `IndexInBounds`, `QueueIsPath`, `FollowsPath` hold |
| `walk_protocol` | Do client and server agree? Does the array implement the two queues? Is a failure repaired, does a full window open? | `SettledPosition`, `SettledRange`, `RecoveryUnderWay`, `FailureHeals`, `WindowReopens` hold; `WalkWindow` is implemented |
| `walk_smooth` | With a cooperative server, is a step ever denied or a confirmation unexpected? | `SmoothWalking` holds |
| `game_socket` | Does fragmentation matter? | `HandledInOrder`, `NothingLeftBehind`, `NoPacketAfterDisconnect`, `EveryPacketHandled` hold |
| `game_socket_reconnect` | And on a connection after one lost inside a symbol? | violated, see below |
| `session` | Blocking, counter, sockets, world, logout | `TypeOK`, `CountsModals`, `OneSocket`, `BlockedByModal`, `GameHasWorld`, `LogoutHappens` (an idle warning excepted) hold |
| `session_lost` | Is a blocked game always displayed? | violated |
| `session_stuck` | Does every connection screen have a way out? | violated |
| `session_idle` | Does a playing user see the game? | violated |
| `world` | Do links, map and containers agree, with deaths and another mobile? | `HeapSound`, `TopResolves` hold; `ObjectForest` is implemented |
| `world_drag` | And with an item on the cursor? | `TypeOK`, `HeapSound`, `OnlyDenyStrands`, `ClearWorldFrees` hold; `ObjectForest` is implemented |
| `client_parts` | Does the search find a way, and only fail rightly? | `SearchTree`, `PathLeads`, `FailsRightly` hold |
| | Is each cursor answered once? Does a macro end? | `AnsweredOnce`, `MacroEnds` hold |
| | Is every property list asked for, and does it arrive? | `NothingForgotten`, `CatchesUp` hold |
| | Is a pointer of the mouse ever stale? | `PointersLive` holds |
| | Are the lists of the tiles sound, and is everything drawn where it is? | `TilesSound`, `DrawnInPlace` hold |

`client_parts` checks five modules at once. They share no variables; a behaviour
chooses one part at its start and the others rest in one initial state, so the
states add up and do not multiply, and each property is checked of the part it
is about (of the resting parts it is checked in their initial states).

### Bounds

- `Walker.cfg`: two slots instead of five and sequences that wrap after 2
  instead of 255. A shift of the array moves one entry onto another, and the wrap
  happens while old numbers are still in the array; the proofs cover every
  number. Three tiles around a corner with the diagonal across it, which may be
  deflected, and three routes: around, across, and one with a rerouted tile.
- `WalkProtocol.cfg`: two slots, numbers up to 3 and `MaxFlight` 3 packets under
  way: a denial can cross a request and a confirmation can cross a move by the
  server (531,358 states). `WalkSmooth.cfg`: three slots, numbers up to 4,
  `MaxFlight` 4 (119,444 states). Both keep the slots below the wrap, as the
  client does (`WindowAssumption`).
- `GameSocket.cfg`: a tree of five symbols and the flush character with codes of
  two and three bits, bytes of four bits, so that a symbol crosses bytes and a
  flush leaves padding; one packet of fixed and two of variable size, two
  connections with two packets each (`MaxSent`, `MaxSessions`).
- `Session.cfg`: two dialogs, so that one can be open while another opens.
  Nothing else is bounded.
- `World.cfg`: the player, another mobile with its body, a bag, a coin and a
  corpse; nothing is picked up. `WorldDrag.cfg`: the player, bag, coin and
  corpse; the bag may be on the cursor. Lists of three and four objects have a
  first, a middle and a last, the bag in the corpse or on a mobile holds the
  coin, so that deletions take subtrees. A mobile is shown with at most one item
  it wears, and a container's contents are two items.
- `ClientParts.cfg`, search: a map of four by four and four worlds, chosen so
  that a tile is rerouted, the start is walled in, a tile can be entered and not
  left, and 12 nodes are too few; a second search runs in another world with the
  lists of the first. Cursor: two cursors (`MaxCursors`), two macros started
  (`MaxPresses`), of four that wait, delay, answer and use bandages. Property
  lists: two serials, batches of one, a list that changes once (`MaxRevision`),
  two packets under way. Mouse: two addresses, a gump of the game and a modal
  one. Tiles: two tiles in two blocks, one with a static below its land; three
  places, two of them on one tile at different heights; the player, a mobile,
  an item and an effect, of which `MaxShown` 3 are on the map at once; one step
  queued (`MaxQueue`), so that the queue is empty, in use and full.

`CHECK_DEADLOCK FALSE` is set for the socket, which stops when its bounds are
used up, and for the session, which may wait for ever on a screen without a
button; that is the subject of `session_stuck`.

### Fairness

The frame loop calls `Recv`, `ProcessAnimation` and `Process` in every frame, so
each of these actions is weakly fair; TCP delivers while the connection lives,
and the external server answers what it reads. Nothing the player does is fair.
A macro is run by every frame, so `Execute` and `ProcessMacro` are weakly fair;
time passes between frames but not inside `Execute`, so `Tick` is strongly fair.
For the property lists frames go on and end (`BeginFrame` and
`SendMegaClilocRequests`), the server answers a request (`AnswerRequest`), and
because a frame reads what is there only while it is receiving, `OPLInfo`,
`MegaCliloc` and the server's `Announce` are strongly fair.

### Disagreements found

1. `game_socket_reconnect`: `CDecompressingCopier` is initialised by its
   constructor only, but lives as long as the program. A connection lost inside
   a symbol leaves the next one in the middle of the tree.
2. `session_lost`: a failed read enters `GS_GAME_BLOCKED` also before there is a
   world, where `COrion::Process` draws nothing: the notice is not shown.
3. `session_stuck`: `Connection::ReadyRead` clears `m_dataReady` on an error, so
   the branches of `CConnectionManager::Recv` for a lost connection are dead,
   and the connection screen stays without a button.
4. `session_idle`: `ErrorCode` with the idle warning takes the player out of the
   live world to a screen that leads to the character list. A logout confirmed
   in the same frame is not carried out there (`LogoutHappens` excepts it).

## 4. Proofs

`WalkerProofs`: `IInv == TypeOK /\ StepLedger` is inductive for every number of
slots, every sequence limit, every map and every set of directions, and whatever
the server sends. `TypeOK` alone is not inductive: that `UpdateAnimationInfo`
indexes inside the array follows only from the ledger, which bounds
`CurrentWalkSequence + Len(m_Steps)`, and after a failure from how far the two
counters may drift apart. `IndexInBounds` is a consequence. `QueueIsPath` is
proved from the invariant step by step.

`WalkProtocolProofs`: the protocol implements the walker (`ProtocolSpec => Spec`,
because what arrives carries tiles of the map and known numbers), so all of the
above holds of it. `RecoveryUnderWay` is proved with an invariant that ties
`ResendPacketSended` to `WalkingFailed`, so that a failed client has asked.

`SettledPosition` says nothing of the states in between, so its invariant
`AgreeInv` has to. The pending steps in the array carry consecutive numbers and
the confirmed ones come first (`PendingInOrder`); the confirmations under way are
numbered in order from the one the client has to get next to the one the server
will send next, and from 0 after a packet that places the player
(`AnswersInOrder`); and (`Agreed`) either client and server are in step, or the
player will be placed: a packet that does so is on its way, a request that the
server will refuse is, or the client waits for nothing and a confirmation that
is on its way will make its walk fail. In step means that the unconfirmed steps
are those of the confirmations and then of the requests under way, and that the
requests lead from where the server holds the player to where the client's queue
ends (`InStep`). `PendingInOrder` is
stated with distances from the end of the array (`LastStep`), which a shift
leaves alone. It needs `WindowAssumption`, `MaxSteps < MaxSequence`: with as many
slots as numbers two pending steps could carry the same one, and `ConfirmWalk`
would find the wrong one. The client's values are 5 and 255. `SettledRange`
follows from the same invariant. `SmoothWalking` adds `SmoothInv`: with a
server that refuses only steps off the map nothing ever places the player but the
packets of a login, so the two are always in step.

The refinement of `WalkWindow` is proved step by step with `WindowInv`: the two
queues are parts of one ascending sequence of numbers that ends with the last
number used (`EndsWith`), so a number appended or taken from the front of one is
appended to or taken from the front of the other in the abstract window as well.

`GameSocketProofs`: however the stream is cut into reads, the handlers see the
packets the server sent. There are two halves. The decompressor is indifferent
to cuts (`DecompressConcat`): reading `a` and then `b` gives the symbols and the
place in the tree that reading `a \o b` gives. This is an induction over the
bytes, and under it over the bits; the library's induction theorem takes an
operator, so `NatSetInduction` states it of a set of numbers and is proved from
the well-foundedness of `<`, and that the recursive functions satisfy their
equations is proved with it (`RunExists`). The other half is framing: the parser
and what is under way, decompressed, are the packets not yet handled put one
behind the other (`Joins`, by the positions where one ends and the next begins),
and `HasPacket` and `WantSize` find exactly the first of them
(`ParserFindsPacket`). The invariant is `SInv`: `InOrder` is the above,
`ClosedEmpty` that a closed connection leaves nothing in the parser, which is
all that `NoPacketAfterDisconnect` needs, and `ReadToEnd` that the loop of
`PacketReader::Read` stops only when no whole packet is left. Of the two tables
nothing is assumed but that one packet compressed alone decompresses to itself
and ends at the top of the tree (`CodeAssumption`, evaluated for the table of the
run), and that the tree's entries are nodes or leaves (`TreeAssumption`). A
connection that began inside the tree is excluded by `leftover`, the finding of
`game_socket_reconnect`.

`SessionProofs`: the five invariants of the session, for every finite set of
dialogs. The invariant adds that where the server has let the client in there is
a world; the counter needs the library's facts about finite sets.

`WalkerProofs`, last part: the client with its follower implements the walker
(`FollowSpec => Spec`), so all that is proved of the walker holds while a path
is followed; and `FollowsPath`, for every route, every map and every server. Its
invariant adds to the walker's that, unless `lost`, the queue ends on the tile
before `m_PointIndex`, which displaying, confirming and failing leave alone.

`PathSearchProofs`: `SInv` is the tree of the two lists (`SearchTree`), where the
goal is while it is looked for (`GoalKept`), that every closed node has had all
its directions tried unless a node found no slot (`Explored`), and that the part
of the path filled so far hangs together (`Traced`). `FailsRightly` needs
`Explored`: when no open node is left the closed tiles are closed under the
passable steps and none of them is near the target, which is the set that
`NoRoute` asks for. It holds for any way to break ties, so also for that of the
arrays.

`ClientPartsProofs`, the target cursor: `AnsweredOnce` is not inductive; `CursorFresh` says in
addition that the cursor that is up is newer than all answers sent.

`ClientPartsProofs`, the property lists: `PInv` adds to the types that the queue holds a serial
once and only within a frame (`QueueKept`), that revisions under way are in
order and not newer than the server's (`Ordered`), that a closed connection
carries nothing (`Offline`), and that what is on its way or asked for is at least
as new as what was announced (`CarriesOn`), which `NothingForgotten` alone does
not say: an old answer under way would satisfy it, and arrive.

`ClientPartsProofs`, the mouse: every pointer is sound in the world as it is
(`AllSound`), elements belong to open gumps (`ElementsOpen`), and in the blocked
game the pressed pointers are of modal gumps (`PressedInModal`). Without the
last, `RenderBlocked` could put a pointer back into a gump that was rebuilt
while it was aside; it holds because `InitScreen` forgets what was pressed.

`WorldProofs`: all that is said of the world but its refinement of
`ObjectForest`, for every set of characters and items, for lists of any length
and any depth of containment. `HeapSound` is far from inductive. It says that a
list is doubly linked, which a ring beside the list also is: an item unlinked
from a ring would be reached from nowhere, and `Last` would not end. And it says
where each object lies, which a bag that holds itself also does: a deletion that
takes the subtree would then delete the holder it was unlinked from. The
invariant `WInv` therefore adds that no list runs in a circle (`ListsEnd`) and
no containment does (`HomesEnd`), both said of sets: in every set of objects
there is one whose predecessor, or whose holder, is not in the set. With these
the recursive functions of the model can be left behind: a chain of links is
exactly the objects whose Container names the owner (`MembersFacts`,
`MembersSet`), and a subtree is the least set closed under containment
(`SubtreeLeast`). The model's loops are recursive functions on numbers; that
they satisfy their equations, and the inductions over them, are proved as in
`GameSocketProofs`.

Each method is described by a relation of the heap before to the heap after:
`RemoveFromContainer` leaves the object in no list and the rest as it was
(`Unlinked`), `Add` moves it under its new owner (`Moved`), `MoveToTop` changes
orders only (`Reordered`), the deletions leave a part of the objects, closed
under holders, as it was (`Pruned`), `GetWorld` adds one on the ground
(`Grown`). The part that needed most care is what the server is assumed to
respect: `MayHold` is a condition on the heap before the handler, and a handler
that empties, deletes or creates first has to carry it along (`Fit`, preserved
by each relation) until the object is moved. A step of a handler is `Tidy`: the
heap stays good, the player stays, and nothing new is in no list; the refusal is
`TidyBut` for the object that was on the cursor, which is `OnlyDenyStrands`.
`TopResolves` is an induction over the number of objects, which removes a
subtree in each turn. `ClearWorldFrees` follows from `Pruned`: who is left when
the ground is empty lies in someone who was in no list before. After the world
is gone its survivors are still linked among themselves but in no map, so `WInv`
says less then (`LinksSound`), which is all that `HeapSound` needs.

The five properties are proved under the hypothesis `~TwiceDead`, as stated in
each theorem, that a mobile does not die while its last body is there: without
it `HeapSound` is false.

`TileListsProofs`: `TilesSound` and `DrawnInPlace`, for any tiles, blocks, objects
and heights. What the links say one step at a time is of little use to a
method that looks for a place in a list, so `TilesInv` says that there are lists
`L`, one of each tile, that the links stand for: nobody is in them twice, `next`
and `prev` are the neighbours, what is in no list has no links, each list is in
the order of `PriorityZ` with the land before what is as high (`Linked`); a
loaded tile has its land and statics, and a tile that is not loaded has an empty
list (`Good`); and who is in which list agrees with where the objects are
(`InPlace`). From the links, `Along` and `GetRender` compute exactly the list
(`TileList`'s walk back from the land finds its head because no list is longer
than there are things to draw). `RemoveRender` and `LinkBetween` are the only
operators whose lemmas look at positions; all others are described by who is in
which list: `AddRender` takes its object out of the list it is in and into one
other, `LoadBlocks` brings the ground of its tiles and moves nothing,
`DeleteBlocks` empties lists, `UpdatePatched` collects the objects of the lists
before `Init` and links each again. That an object is not lost in between needs
`InPlace` of the map before: what was collected is all that was drawn. That the
collection may delete a block needs `HasNoExternalData` to have looked at the
whole list, which the block knows only through the links of its land.

The assumptions are the `ASSUME`s of the modules: at least one slot and one
number, fewer slots than numbers, packets of the size their identifier or their
header says, a code that fits the tree, a map that contains the tile of the initial array, directions among
0..7, finitely many dialogs, serials, addresses, tiles and things to draw,
land on every tile and no piece of the ground on two tiles, an
address for every object, at least one node and one serial in a
batch, ways that stay on the map, and special values that are none of the
ordinary ones.

Only model-checked: all liveness properties (TLAPS has no backend here for
fairness), and that the world implements `ObjectForest` (`ForestSpec`), which adds
to what is proved the order of the lists. Every safety invariant of a passing run
is a theorem. What the tables of the decompressor and of the server decompress
together is evaluated for the table of the run (`CodeAssumption`): for every
table it would be an induction over data.

## 5. Not modelled

See "components" in `PROJECT.json` for the reason of each. In short: drawing,
sound, fonts, file formats, configuration, vendored libraries, and plugins are
I/O or other programs' code; encryption changes bytes and no order.

These are most of the repository. Of the about 111,000 lines of `src/OrionUO`
and its neighbours, fonts, animation data, the layout of some fifty gumps, the
renderer, the options window and the file readers make up the larger part by
far. They keep no state that another component relies on across frames beyond
what is modelled here, so the share of lines that the models stand for is small
and would not grow much without modelling drawing.

Left out on purpose, with the reason: the keys of the fast walk, on which
nothing in the client depends; the party's list, corpses, trade windows, books
and shops, which copy packets into windows; the house designer, but for the
cursor it borrows; the middle mouse button, the queue of items to use, and how
long a click waits; the screens of the session in `MousePointers`; multis and
boats in `World` and `TileLists`; heights in the walk and the search.

## 6. Plan

1. *Done*: the walk protocol and its follower, the path search, the game socket,
   the session, the target cursor with the macros, the property lists, the
   mouse's pointers, with their proofs; the world of objects with drag and drop,
   refined to `ObjectForest`; the lists of the tiles.
2. *Done*: the proofs about the world's heap and the lists of the tiles.
3. The refinement of `ObjectForest`: the relations of `WorldProofs` say who is in
   a list, not in which order; `Moved`, `Reordered` and `Pruned` need a clause
   about `Members` (appended, moved to the end, a subsequence).
4. The pieces of multis, added to `World` and `TileLists` together: they are
   drawn on tiles but belong to an item in the world.
