--------------------------- MODULE SessionProofs ---------------------------
(***************************************************************************)
(* Proofs about module Session, for every set of dialogs.  The invariant   *)
(* adds one fact to the properties: the server only lets a client into the *)
(* world over the game socket, and from EnterWorld on the client has one.  *)
(* The counter needs the finite-set facts: every gump added or deleted     *)
(* changes the number of modal gumps by one.                               *)
(***************************************************************************)
EXTENDS Session, FiniteSetTheorems, TLAPS

(* The types, without the bound of the counter, which CountsModals gives. *)
Types1 ==
  /\ gameState \in States
  /\ screen \in [type : Types, failed : BOOLEAN, completed : BOOLEAN]
  /\ login \in BOOLEAN /\ game \in BOOLEAN /\ isLogin \in BOOLEAN
  /\ world \in BOOLEAN
  /\ packetLoginComplete \in BOOLEAN /\ logoutAfterClick \in BOOLEAN
  /\ deleteAsked \in BOOLEAN
  /\ modal \subseteq Gumps
  /\ grayMenuCount \in Nat
  /\ stage \in Stages

(* Where the server has let the client in, it is in. *)
EnteredHasWorld == stage \in {"entered", "playing"} => world

Inv ==
  /\ Types1
  /\ CountsModals
  /\ OneSocket
  /\ BlockedByModal
  /\ GameHasWorld
  /\ EnteredHasWorld

-----------------------------------------------------------------------------
(* The gumps are finitely many. *)
LEMMA GumpsFinite ==
  /\ IsFiniteSet(Gumps)
  /\ \A S : S \subseteq Gumps => IsFiniteSet(S) /\ Cardinality(S) \in Nat
                                 /\ Cardinality(S) <= Cardinality(Gumps)
<1>1. IsFiniteSet(Notices)
  <2>1. IsFiniteSet({"lost"})
    BY FS_Singleton
  <2>2. IsFiniteSet({"lost"} \cup {"group"})
    BY <2>1, FS_AddElement
  <2>. QED
    BY <2>2 DEF Notices
<1>2. IsFiniteSet(Questions)
  <2>1. IsFiniteSet({"quit"})
    BY FS_Singleton
  <2>2. IsFiniteSet({"quit"} \cup {"attack"})
    BY <2>1, FS_AddElement
  <2>. QED
    BY <2>2 DEF Questions
<1>3. IsFiniteSet(Gumps)
  <2>1. IsFiniteSet(Notices \cup Questions)
    BY <1>1, <1>2, FS_Union
  <2>. QED
    BY <2>1, FS_Union, DialogsAssumption DEF Gumps
<1>. QED
  BY <1>3, FS_Subset, FS_CardinalityType

(* Adding a gump counts it, unless there is a twin. *)
LEMMA AddGumpCounts ==
  ASSUME modal \subseteq Gumps, CountsModals, NEW g \in Gumps, AddGump(g)
  PROVE  /\ modal' \subseteq Gumps /\ modal' \subseteq modal \cup {g}
         /\ modal' # {}
         /\ modal \subseteq modal'
         /\ grayMenuCount' \in Nat
         /\ CountsModals'
<1>1. IsFiniteSet(modal) /\ Cardinality(modal) \in Nat
  BY GumpsFinite
<1>2. CASE modal \cap Twins(g) # {}
  BY <1>1, <1>2 DEF AddGump, CountsModals, gumps
<1>3. CASE modal \cap Twins(g) = {}
  <2>1. g \notin modal
    BY <1>3 DEF Twins
  <2>2. Cardinality(modal \cup {g}) = Cardinality(modal) + 1
    BY <1>1, <2>1, FS_AddElement
  <2>3. modal' = modal \cup {g} /\ grayMenuCount' = grayMenuCount + 1
    BY <1>3 DEF AddGump
  <2>4. grayMenuCount' \in Nat /\ CountsModals'
    BY <1>1, <2>2, <2>3 DEF CountsModals
  <2>. QED
    BY <2>3, <2>4
<1>. QED
  BY <1>2, <1>3

(* Deleting a gump discounts it and leaves the game blocked only by others.*)
LEMMA DeleteGumpCounts ==
  ASSUME modal \subseteq Gumps, CountsModals, NEW g \in modal, DeleteGump(g)
  PROVE  /\ modal' \subseteq modal
         /\ grayMenuCount' \in Nat
         /\ CountsModals'
         /\ gameState' = "game" \/ (gameState' = gameState /\ modal' # {})
<1>1. IsFiniteSet(modal) /\ Cardinality(modal) \in Nat
  BY GumpsFinite
<1>2. IsFiniteSet(modal \ {g}) /\ Cardinality(modal \ {g}) = Cardinality(modal) - 1
  BY <1>1, FS_RemoveElement
<1>3. Cardinality(modal \ {g}) \in Nat
  BY <1>2, FS_CardinalityType
<1>4. Cardinality(modal) > 0
  BY <1>1, <1>2, <1>3
<1>5. grayMenuCount' = Cardinality(modal')
  BY <1>1, <1>2, <1>4 DEF DeleteGump, CountsModals
<1>6. modal \ {g} = {} => Cardinality(modal) = 1
  BY <1>1, <1>2, FS_EmptySet
<1>. QED
  BY <1>1, <1>2, <1>3, <1>5, <1>6 DEF DeleteGump, CountsModals

-----------------------------------------------------------------------------
LEMMA InitInv == Init => Inv
<1>. SUFFICES ASSUME Init PROVE Inv
  OBVIOUS
<1>1. Types1
  BY DEF Init, Types1, Fresh, States, Connecting, Types, Stages
<1>2. CountsModals
  BY FS_EmptySet DEF Init, CountsModals
<1>. QED
  BY <1>1, <1>2
  DEF Init, Inv, OneSocket, BlockedByModal, GameHasWorld, EnteredHasWorld

(* What most actions do: change the screen, and perhaps the stage, outside *)
(* the game.                                                               *)
LEMMA ScreenChanges ==
  ASSUME Inv,
         gameState' \in States \ {"game", "blocked"} \/ gameState' = gameState,
         screen' \in [type : Types, failed : BOOLEAN, completed : BOOLEAN],
         UNCHANGED <<world, gumps>>,
         packetLoginComplete' \in BOOLEAN, logoutAfterClick' \in BOOLEAN,
         deleteAsked' \in BOOLEAN,
         login' \in BOOLEAN, game' \in BOOLEAN, isLogin' \in BOOLEAN,
         OneSocket',
         stage' \in Stages,
         stage' \in {"entered", "playing"} => stage \in {"entered", "playing"}
  PROVE  Inv'
  BY DEF Inv, Types1, CountsModals, OneSocket, BlockedByModal, GameHasWorld,
         EnteredHasWorld, gumps

LEMMA Logging ==
  ASSUME Inv, LogOut,
         packetLoginComplete' \in BOOLEAN, logoutAfterClick' \in BOOLEAN
  PROVE  Inv'
  BY FS_EmptySet
  DEF Inv, Types1, CountsModals, OneSocket, BlockedByModal, GameHasWorld,
      EnteredHasWorld, LogOut, Disconnect, ClearWorld, ClearGumps, InitScreen, States,
      Connecting, Stages

LEMMA FreshType ==
  /\ Fresh \in [type : Types, failed : BOOLEAN, completed : BOOLEAN]
  /\ \A t \in Types, b \in BOOLEAN :
       [Fresh EXCEPT !.type = t, !.failed = b]
         \in [type : Types, failed : BOOLEAN, completed : BOOLEAN]
  BY DEF Fresh, Types

ScreenTypes == [type : Types, failed : BOOLEAN, completed : BOOLEAN]

LEMMA ScreenShown ==
  ASSUME Inv
  PROVE  \A s \in States : InitScreen(s) => gameState' = s /\ screen' \in ScreenTypes
  BY FreshType DEF InitScreen, Inv, Types1, ScreenTypes

LEMMA ConnectingShown ==
  \A s \in States, t \in Types, b \in BOOLEAN :
    InitConnecting(s, t, b) => gameState' = s /\ screen' \in ScreenTypes
  BY FreshType DEF InitConnecting, ScreenTypes

-----------------------------------------------------------------------------
(* Packets that arrive before the game. *)
LEMMA LoginPackets ==
  ASSUME Inv, LoginError \/ ServerList \/ (\E ok \in BOOLEAN : RelayServer(ok))
                \/ CharacterList \/ ResendCharacterList
                \/ CharacterListNotification \/ ErrorCode \/ Talk
  PROVE  Inv'
<1>1. CASE LoginError
  BY <1>1, ScreenChanges
  DEF LoginError, Disconnect, Inv, Types1, OneSocket, Connecting, Types, Stages, flags
<1>2. CASE ServerList
  BY <1>2, ScreenChanges, FreshType
  DEF ServerList, SelectServer, InitScreen, Inv, Types1, OneSocket, Connecting, States,
      Stages, sockets, flags
<1>3. ASSUME NEW ok \in BOOLEAN, RelayServer(ok) PROVE Inv'
  BY <1>3, ScreenChanges
  DEF RelayServer, Inv, Types1, OneSocket, Stages
<1>4. CASE CharacterList
  <2>1. /\ gameState' \in {"character", "create", "gameConnect"}
        /\ screen' \in ScreenTypes
    BY <1>4, ScreenShown, ConnectingShown DEF CharacterList, States, Connecting, Types
  <2>2. /\ stage' \in {"characters", "entering"}
        /\ UNCHANGED <<sockets, world, gumps, flags, deleteAsked>>
    BY <1>4 DEF CharacterList
  <2>. QED
    BY <2>1, <2>2, ScreenChanges
    DEF ScreenTypes, Inv, Types1, OneSocket, Connecting, States, Stages, sockets, flags
<1>5. CASE ResendCharacterList
  <2>1. /\ gameState' \in {"character", "create", "gameConnect"}
        /\ screen' \in ScreenTypes
    BY <1>5, ScreenShown, ConnectingShown
    DEF ResendCharacterList, ListCharacters, CharacterSelection, States, Connecting, Types
  <2>2. /\ stage' \in {stage, "entering"}
        /\ deleteAsked' = FALSE /\ UNCHANGED <<sockets, world, gumps, flags>>
    BY <1>5 DEF ResendCharacterList, ListCharacters, CharacterSelection, Enter
  <2>. QED
    BY <2>1, <2>2, ScreenChanges
    DEF ScreenTypes, Inv, Types1, OneSocket, Connecting, States, Stages, sockets, flags
<1>6. CASE CharacterListNotification
  BY <1>6, ScreenChanges, FreshType
  DEF CharacterListNotification, InitConnecting, Inv, Types1, OneSocket, Connecting,
      States, Types, sockets, flags
<1>7. CASE ErrorCode
  BY <1>7, ScreenChanges, FreshType
  DEF ErrorCode, InitConnecting, Inv, Types1, OneSocket, Connecting, States, Stages,
      Types, sockets, flags
<1>8. CASE Talk
  BY <1>8, ScreenChanges
  DEF Talk, Inv, Types1, OneSocket, Stages, sockets, flags
<1>. QED
  BY <1>1, <1>2, <1>3, <1>4, <1>5, <1>6, <1>7, <1>8

(* EnterWorld deletes the gumps, which cannot leave the game without one.  *)
LEMMA Entering == ASSUME Inv, EnterWorld PROVE Inv'
<1>1. CountsModals'
  BY FS_EmptySet DEF EnterWorld, ClearGumps, CountsModals
<1>2. Types1' /\ OneSocket'
  BY DEF EnterWorld, ClearGumps, StateCleared, Inv, Types1, OneSocket, States, Stages,
         sockets, flags
<1>3. BlockedByModal' /\ GameHasWorld' /\ EnteredHasWorld'
  BY DEF EnterWorld, ClearGumps, StateCleared, Inv, BlockedByModal, GameHasWorld,
         EnteredHasWorld
<1>. QED
  BY <1>1, <1>2, <1>3 DEF Inv

(* The game screen is entered with the world that EnterWorld has made. *)
LEMMA Completing == ASSUME Inv, LoginCompletePacket \/ CharacterStatus PROVE Inv'
<1>1. world /\ UNCHANGED <<world, gumps, sockets>>
  BY DEF LoginCompletePacket, CharacterStatus, Receives, Inv, EnteredHasWorld
<1>2. Types1'
  BY DEF LoginCompletePacket, CharacterStatus, LoginComplete, Inv, Types1, States, Stages,
         gumps, sockets, flags, server
<1>3. gameState' \in {"game", gameState}
  BY DEF LoginCompletePacket, CharacterStatus, LoginComplete
<1>. QED
  BY <1>1, <1>2, <1>3
  DEF Inv, CountsModals, OneSocket, BlockedByModal, GameHasWorld, EnteredHasWorld,
      gumps, sockets

(* A modal gump is opened in a world, or because the connection is lost. *)
LEMMA Blocking ==
  ASSUME Inv, NEW g \in Gumps, AddGump(g),
         world \/ g = "lost",
         UNCHANGED world,
         gameState' = "blocked" \/ gameState' = gameState,
         screen' = screen,
         packetLoginComplete' \in BOOLEAN, logoutAfterClick' \in BOOLEAN,
         deleteAsked' \in BOOLEAN,
         login' \in BOOLEAN, game' \in BOOLEAN, isLogin' \in BOOLEAN,
         OneSocket',
         stage' \in {stage, "none"}
  PROVE  Inv'
<1>1. /\ modal' \subseteq Gumps /\ modal' \subseteq modal \cup {g}
      /\ modal' # {}
      /\ grayMenuCount' \in Nat
      /\ CountsModals'
  BY AddGumpCounts DEF Inv, Types1
<1>2. Types1'
  BY <1>1 DEF Inv, Types1, States, Stages
<1>3. BlockedByModal' /\ GameHasWorld' /\ EnteredHasWorld'
  BY <1>1 DEF Inv, Types1, BlockedByModal, GameHasWorld, EnteredHasWorld
<1>. QED
  BY <1>1, <1>2, <1>3 DEF Inv

LEMMA ModalGumps ==
  ASSUME Inv,
         OnReadFailed \/ AskPlayer \/ (\E d \in Dialogs : OpenDialog(d))
           \/ (\E g \in Gumps : Answer(g))
  PROVE  Inv'
<1>1. CASE OnReadFailed
  <2>1. "lost" \in Gumps
    BY DEF Gumps, Notices
  <2>. QED
    BY <1>1, <2>1, Blocking
    DEF OnReadFailed, Block, InitScreen, Disconnect, Inv, Types1, OneSocket, Connecting,
        flags
<1>2. CASE AskPlayer
  <2>1. PICK g \in {"quit", "attack", "group"} : Block(g)
    BY <1>2 DEF AskPlayer
  <2>2. g \in Gumps
    BY DEF Gumps, Notices, Questions
  <2>. QED
    BY <1>2, <2>1, <2>2, Blocking
    DEF AskPlayer, Block, InitScreen, Inv, Types1, OneSocket, Connecting, sockets,
        flags, server
<1>3. ASSUME NEW d \in Dialogs, OpenDialog(d) PROVE Inv'
  <2>1. d \in Gumps
    BY DEF Gumps
  <2>. QED
    BY <1>3, <2>1, Blocking
    DEF OpenDialog, InitScreen, Inv, Types1, OneSocket, Connecting, sockets, flags,
        server
<1>4. ASSUME NEW g \in Gumps, Answer(g) PROVE Inv'
  <2>1. CASE UNCHANGED <<gameState, gumps>> /\ logoutAfterClick' = TRUE
    BY <1>4, <2>1, ScreenChanges
    DEF Answer, Inv, Types1, OneSocket, sockets, server
  <2>2. CASE g # "lost" /\ DeleteGump(g) /\ UNCHANGED logoutAfterClick
    <3>1. /\ modal' \subseteq modal /\ grayMenuCount' \in Nat /\ CountsModals'
          /\ gameState' = "game" \/ (gameState' = gameState /\ modal' # {})
      BY <1>4, <2>2, DeleteGumpCounts DEF Answer, Inv, Types1
    <3>2. world /\ UNCHANGED <<screen, sockets, world, packetLoginComplete, server>>
      BY <1>4, <2>2 DEF Answer, Inv, GameHasWorld
    <3>3. Types1' /\ OneSocket'
      BY <2>2, <3>1, <3>2 DEF Inv, Types1, OneSocket, States, sockets, server
    <3>4. BlockedByModal' /\ GameHasWorld' /\ EnteredHasWorld'
      BY <3>1, <3>2 DEF Inv, BlockedByModal, GameHasWorld, EnteredHasWorld, server
    <3>. QED
      BY <3>1, <3>3, <3>4 DEF Inv
  <2>. QED
    BY <1>4, <2>1, <2>2 DEF Answer
<1>. QED
  BY <1>1, <1>2, <1>3, <1>4

(* The player on the screens before the game. *)
LEMMA LoginScreens ==
  ASSUME Inv, (\E ok \in BOOLEAN : Connect(ok)) \/ ServerSelection \/ SelectCharacter
                \/ VisitScreen \/ LeaveConnectionScreen \/ ConfirmDeletion
                \/ SelectFailed
  PROVE  Inv'
<1>1. ASSUME NEW ok \in BOOLEAN, Connect(ok) PROVE Inv'
  BY <1>1, ScreenChanges, FreshType
  DEF Connect, InitConnecting, Inv, Types1, OneSocket, Connecting, States, Stages, Types,
      flags
<1>2. CASE ServerSelection
  BY <1>2, ScreenChanges, FreshType
  DEF ServerSelection, SelectServer, InitScreen, Inv, Types1, OneSocket, Connecting,
      States, Stages, sockets, flags
<1>3. CASE SelectCharacter
  BY <1>3, ScreenChanges, FreshType
  DEF SelectCharacter, CharacterSelection, Enter, InitConnecting, Inv, Types1, OneSocket,
      Connecting, States, Stages, Types, sockets, flags
<1>4. CASE VisitScreen
  <2>1. /\ gameState' \in {"character", "create", "delete", "gameConnect"}
        /\ screen' \in ScreenTypes
    BY <1>4, ScreenShown, ConnectingShown DEF VisitScreen, States, Connecting, Types
  <2>2. /\ stage' \in {stage, "entering"}
        /\ UNCHANGED <<sockets, world, gumps, flags, deleteAsked>>
    BY <1>4 DEF VisitScreen, Enter
  <2>. QED
    BY <2>1, <2>2, ScreenChanges
    DEF ScreenTypes, Inv, Types1, OneSocket, Connecting, States, Stages, sockets, flags
<1>5. CASE LeaveConnectionScreen
  BY <1>5, ScreenChanges
  DEF LeaveConnectionScreen, InitScreen, Inv, Types1, OneSocket, Connecting, States,
      sockets, flags, server
<1>6. CASE ConfirmDeletion
  BY <1>6, ScreenChanges
  DEF ConfirmDeletion, Inv, Types1, OneSocket, sockets, flags
<1>7. CASE SelectFailed
  BY <1>7, ScreenChanges
  DEF SelectFailed, Disconnect, Inv, Types1, OneSocket, Stages, flags
<1>. QED
  BY <1>1, <1>2, <1>3, <1>4, <1>5, <1>6, <1>7

LEMMA LogsOut == ASSUME Inv, Logout \/ LeaveServerList \/ Process PROVE Inv'
  BY Logging DEF Logout, LeaveServerList, Process, Inv, Types1, flags

LEMMA NextInv == Inv /\ [Next]_vars => Inv'
<1>. SUFFICES ASSUME Inv, [Next]_vars PROVE Inv'
  OBVIOUS
<1>1. CASE Packet
  BY <1>1, LoginPackets, Entering, Completing, ModalGumps, LogsOut DEF Packet
<1>2. CASE Player
  BY <1>2, LoginScreens, ModalGumps, LogsOut DEF Player
<1>3. CASE OnReadFailed \/ SelectFailed \/ Process
  BY <1>3, ModalGumps, LoginScreens, LogsOut
<1>4. CASE UNCHANGED vars
  BY <1>4
  DEF vars, sockets, gumps, flags, server, Inv, Types1, CountsModals, OneSocket,
      BlockedByModal, GameHasWorld, EnteredHasWorld
<1>. QED
  BY <1>1, <1>2, <1>3, <1>4 DEF Next

-----------------------------------------------------------------------------
THEOREM Inductive == Spec => []Inv
  BY InitInv, NextInv, PTL DEF Spec

(* Every variable of every reachable state has its type; the counter never *)
(* exceeds the number of gumps there can be.                               *)
THEOREM TypeCorrect == Spec => []TypeOK
<1>1. Inv => TypeOK
  BY GumpsFinite DEF Inv, Types1, TypeOK, CountsModals
<1>. QED
  BY <1>1, Inductive, PTL

(* g_GrayMenuCount is the number of modal gumps. *)
THEOREM CounterHolds == Spec => []CountsModals
  BY Inductive, PTL DEF Inv

(* The socket that Recv reads is the only one connected. *)
THEOREM SocketHolds == Spec => []OneSocket
  BY Inductive, PTL DEF Inv

(* A blocked game has a gump that ends the blocking. *)
THEOREM BlockingHolds == Spec => []BlockedByModal
  BY Inductive, PTL DEF Inv

(* The game screen has a world, and modal gumps do not survive theirs. *)
THEOREM WorldHolds == Spec => []GameHasWorld
  BY Inductive, PTL DEF Inv
=============================================================================
