------------------------------ MODULE Session ------------------------------
(***************************************************************************)
(* One client from the login screen into the game and back: g_GameState and*)
(* the screens, the login and the game socket (CConnectionManager), the    *)
(* world, and the modal gumps that block the game (CGump::Blocked and      *)
(* g_GrayMenuCount).                                                       *)
(*                                                                         *)
(* Everything runs on one thread, once a frame: the player's events, the   *)
(* packets of the socket in use, then COrion::Process.  So a packet may    *)
(* arrive between a click and the Process that acts on it.                 *)
(*                                                                         *)
(* Abstractions: the profession, appearance and town screens are one state *)
(* "create"; the auto-login check box and the contents of the lists become *)
(* a choice of what the handler does with them.                            *)
(*                                                                         *)
(* A definition named after another one and a mistake is that definition   *)
(* with one plausible bug, kept to show which property notices it.         *)
(***************************************************************************)
EXTENDS Integers, FiniteSets

CONSTANT Dialogs  \* text entry dialogs and gray menus the server opens

Notices   == {"lost", "group"}       \* GT_NOTIFY, serial 0
Questions == {"quit", "attack"}      \* GT_QUESTION, serial 0
Gumps     == Notices \cup Questions \cup Dialogs

ASSUME DialogsAssumption ==
  IsFiniteSet(Dialogs) /\ Dialogs \cap (Notices \cup Questions) = {}

VARIABLES gameState,            \* g_GameState
          screen,               \* g_ConnectionScreen
          login, game,          \* the two sockets are connected
          isLogin,              \* m_IsLoginSocket: the socket Recv reads
          world,                \* g_World # nullptr
          modal,                \* the gumps with Blocked set
          grayMenuCount,        \* g_GrayMenuCount
          packetLoginComplete,  \* g_PacketLoginComplete
          logoutAfterClick,     \* g_LogoutAfterClick
          stage,                \* the server: how far this client has come
          deleteAsked           \* the server owes an answer to a deletion

sockets == <<login, game, isLogin>>
gumps   == <<modal, grayMenuCount>>
flags   == <<packetLoginComplete, logoutAfterClick>>
server  == <<stage, deleteAsked>>
vars    == <<gameState, screen, sockets, world, gumps, flags, server>>

Connecting == {"mainConnect", "serverConnect", "delete", "gameConnect"}
States     == Connecting \cup {"main", "server", "character", "create", "game", "blocked"}
Types      == {"login", "characterList", "selectProfession", "gameLogin", "game"}
Stages     == {"none", "login", "listed", "selected", "gameLogin", "characters",
               "entering", "refused", "entered", "playing"}

-----------------------------------------------------------------------------
(* Screens.  All connecting states share one screen, which InitScreen      *)
(* clears.                                                                 *)
Fresh == [type |-> "login", failed |-> FALSE, completed |-> FALSE]

InitScreen(state) ==
  /\ gameState' = state
  /\ screen' = IF state \in Connecting THEN Fresh ELSE screen

InitConnecting(state, type, failed) ==
  /\ gameState' = state
  /\ screen' = [Fresh EXCEPT !.type = type, !.failed = failed]

-----------------------------------------------------------------------------
(* Modal gumps.  The constructor counts the gump, the destructor discounts *)
(* it and the last one returns to the game.  AddGump deletes the new gump  *)
(* when there is one of its type and serial.                               *)
Twins(g) ==
  IF g \in Notices THEN Notices ELSE IF g \in Questions THEN Questions ELSE {g}

AddGumpKeepsTwin(g) == modal' = modal \cup {g} /\ grayMenuCount' = grayMenuCount + 1

AddGump(g) ==
  IF modal \cap Twins(g) # {} THEN UNCHANGED gumps
  ELSE modal' = modal \cup {g} /\ grayMenuCount' = grayMenuCount + 1

DeleteGumpStaysBlocked(g) ==
  /\ modal' = modal \ {g}
  /\ grayMenuCount' = IF grayMenuCount > 0 THEN grayMenuCount - 1 ELSE 0
  /\ UNCHANGED gameState

DeleteGump(g) ==
  /\ modal' = modal \ {g}
  /\ grayMenuCount' = IF grayMenuCount > 0 THEN grayMenuCount - 1 ELSE 0
  /\ gameState' = IF grayMenuCount <= 1 THEN "game" ELSE gameState

Block(g) == AddGump(g) /\ InitScreen("blocked")

-----------------------------------------------------------------------------
(* COrion and CConnectionManager *)

ClearGumpsKeepsCount == modal' = {} /\ UNCHANGED grayMenuCount

ClearGumps == modal' = {} /\ grayMenuCount' = 0

ClearWorld == world' = FALSE /\ ClearGumps

(* What ~CGump makes of the state when ClearWorld deletes the gumps. *)
StateCleared == IF modal # {} THEN "game" ELSE gameState

Disconnect ==
  /\ login' = FALSE /\ game' = FALSE
  /\ stage' = "none" /\ deleteAsked' = FALSE
  /\ UNCHANGED isLogin

LogOutStays ==
  /\ Disconnect
  /\ ClearWorld
  /\ gameState' = StateCleared
  /\ UNCHANGED screen

LogOut ==
  /\ Disconnect
  /\ ClearWorld
  /\ InitScreen("main")

(* The world, if there is one, stays. *)
Connect(ok) ==
  /\ gameState \in {"main", "character"}
  /\ InitConnecting("mainConnect", "login", ~ok)
  /\ login' = ok /\ game' = FALSE /\ isLogin' = TRUE
  /\ stage' = (IF ok THEN "login" ELSE "none") /\ deleteAsked' = FALSE
  /\ UNCHANGED <<world, gumps, flags>>

ProcessInGame ==
  /\ logoutAfterClick /\ gameState = "game"
  /\ logoutAfterClick' = FALSE
  /\ LogOut
  /\ UNCHANGED packetLoginComplete

(* COrion::Process, in the states from GS_GAME on. *)
Process ==
  /\ logoutAfterClick /\ gameState \in {"game", "blocked"}
  /\ logoutAfterClick' = FALSE
  /\ LogOut
  /\ UNCHANGED packetLoginComplete

-----------------------------------------------------------------------------
(* The socket in use fails.  A failed read ends in OnReadFailed, whatever  *)
(* the state; a failed select closes the socket and nothing else, because  *)
(* Disconnect clears the m_dataReady that CConnectionManager::Recv tests.  *)
Receiving == IF isLogin THEN login ELSE game

OnReadFailed ==
  /\ Receiving
  /\ Block("lost")
  /\ Disconnect
  /\ UNCHANGED <<world, flags>>

SelectFailed ==
  /\ Receiving
  /\ Disconnect
  /\ UNCHANGED <<gameState, screen, world, gumps, flags>>

-----------------------------------------------------------------------------
(* Packets.  Which one may come depends on how far the server let the      *)
(* client come; the answer to a deletion comes before any later answer.    *)
Receives(stages) == Receiving /\ stage \in stages /\ ~deleteAsked

LoginError ==
  /\ Receives({"login", "selected", "gameLogin", "entering"})
  /\ gameState \in Connecting \ {"delete"}
  /\ screen' = [screen EXCEPT !.failed = TRUE]
  /\ Disconnect
  /\ UNCHANGED <<gameState, world, gumps, flags>>

SelectServer ==
  /\ InitScreen("serverConnect")
  /\ stage' = IF login THEN "selected" ELSE stage
  /\ UNCHANGED deleteAsked

ServerList ==
  /\ Receives({"login"})
  /\ \/ SelectServer
     \/ InitScreen("server") /\ stage' = "listed" /\ UNCHANGED deleteAsked
  /\ UNCHANGED <<sockets, world, gumps, flags>>

RelayServerKeepsLogin(ok) ==
  /\ Receives({"selected"})
  /\ isLogin' = FALSE /\ game' = ok
  /\ screen' = [screen EXCEPT !.failed = @ \/ ~ok]
  /\ packetLoginComplete' = FALSE
  /\ stage' = IF ok THEN "gameLogin" ELSE "none"
  /\ UNCHANGED <<gameState, login, world, gumps, logoutAfterClick, deleteAsked>>

RelayServer(ok) ==
  /\ Receives({"selected"})
  /\ login' = FALSE /\ isLogin' = FALSE /\ game' = ok
  /\ screen' = [screen EXCEPT !.failed = @ \/ ~ok]
  /\ packetLoginComplete' = FALSE
  /\ stage' = IF ok THEN "gameLogin" ELSE "none"
  /\ UNCHANGED <<gameState, world, gumps, logoutAfterClick, deleteAsked>>

(* The server lets a client in that waits in its character list. *)
Enter == stage' = IF game /\ stage = "characters" THEN "entering" ELSE stage

CharacterSelection == InitConnecting("gameConnect", "game", FALSE) /\ Enter

ListCharacters ==
  \/ InitScreen("character") /\ UNCHANGED stage
  \/ InitScreen("create") /\ UNCHANGED stage
  \/ CharacterSelection

CharacterList ==
  /\ Receives({"gameLogin"})
  /\ \/ InitScreen("character") /\ stage' = "characters"
     \/ InitScreen("create") /\ stage' = "characters"
     \/ InitConnecting("gameConnect", "game", FALSE) /\ stage' = "entering"
  /\ UNCHANGED <<sockets, world, gumps, flags, deleteAsked>>

ResendCharacterList ==
  /\ Receiving /\ deleteAsked
  /\ ListCharacters
  /\ deleteAsked' = FALSE
  /\ UNCHANGED <<sockets, world, gumps, flags>>

CharacterListNotification ==
  /\ Receiving /\ deleteAsked
  /\ InitConnecting("delete", "characterList", TRUE)
  /\ deleteAsked' = FALSE
  /\ UNCHANGED <<sockets, world, gumps, flags, stage>>

(* A refused character, or the idle warning to a player in the world. *)
ErrorCode ==
  /\ Receives({"entering", "entered", "playing"})
  /\ stage' = IF stage = "entering" THEN "characters" ELSE stage
  /\ InitConnecting("delete", "gameLogin", FALSE)
  /\ UNCHANGED <<sockets, world, gumps, flags, deleteAsked>>

(* A message before the world is the server's refusal. *)
Talk ==
  /\ Receives({"entering"})
  /\ ~world /\ gameState = "gameConnect"
  /\ screen' = [screen EXCEPT !.failed = TRUE]
  /\ stage' = "refused"
  /\ UNCHANGED <<gameState, sockets, world, gumps, flags, deleteAsked>>

(* A second EnterWorld replaces the world. *)
EnterWorld ==
  /\ Receives({"entering", "entered", "playing"})
  /\ ClearGumps
  /\ gameState' = StateCleared
  /\ world' = TRUE
  /\ stage' = IF stage = "entering" THEN "entered" ELSE stage
  /\ UNCHANGED <<screen, sockets, flags, deleteAsked>>

LoginComplete ==
  IF screen.completed THEN UNCHANGED <<gameState, screen>>
  ELSE gameState' = "game" /\ screen' = [screen EXCEPT !.completed = TRUE]

LoginCompletePacket ==
  /\ Receives({"entered", "playing"})
  /\ packetLoginComplete' = TRUE
  /\ stage' = "playing"
  /\ LoginComplete
  /\ UNCHANGED <<sockets, world, gumps, logoutAfterClick, deleteAsked>>

CharacterStatus ==
  /\ Receives({"entered", "playing"})
  /\ world /\ packetLoginComplete
  /\ LoginComplete
  /\ UNCHANGED <<sockets, world, gumps, flags, server>>

(* A text entry dialog or a gray menu. *)
OpenDialog(d) ==
  /\ Receives({"entered", "playing"})
  /\ world
  /\ AddGump(d)
  /\ IF grayMenuCount = 0 THEN InitScreen("blocked") ELSE UNCHANGED <<gameState, screen>>
  /\ UNCHANGED <<sockets, world, flags, server>>

Logout ==
  /\ Receives({"playing"})
  /\ LogOut
  /\ UNCHANGED flags

-----------------------------------------------------------------------------
(* The player, on the screens before the game *)

ServerSelection ==
  /\ gameState = "server"
  /\ SelectServer
  /\ UNCHANGED <<sockets, world, gumps, flags>>

LeaveServerList ==
  /\ gameState = "server"
  /\ LogOut
  /\ UNCHANGED flags

SelectCharacter ==
  /\ gameState = "character"
  /\ CharacterSelection
  /\ UNCHANGED <<sockets, world, gumps, flags, deleteAsked>>

(* Between the list, the deletion question and the screens of a new        *)
(* character; the last one sends the new character and waits.              *)
VisitScreen ==
  /\ \/ /\ gameState = "character"
        /\ InitConnecting("delete", "characterList", FALSE) \/ InitScreen("create")
        /\ UNCHANGED stage
     \/ /\ gameState = "create"
        /\ \/ InitScreen("character") /\ UNCHANGED stage
           \/ InitConnecting("gameConnect", "selectProfession", FALSE) /\ UNCHANGED stage
           \/ InitConnecting("gameConnect", "game", TRUE) /\ UNCHANGED stage
           \/ InitConnecting("gameConnect", "login", FALSE) /\ Enter
  /\ UNCHANGED <<sockets, world, gumps, flags, deleteAsked>>

(* The buttons and keys of the connection screen. *)
LeaveConnectionScreen ==
  /\ gameState \in Connecting
  /\ \/ screen.type = "characterList" /\ InitScreen("character")
     \/ screen.type = "selectProfession" /\ InitScreen("create")
     \/ screen.type = "game" /\ screen.failed /\ InitScreen("character")
     \/ screen.type = "gameLogin" /\ InitScreen("character")
     \/ screen.type = "login" /\ screen.failed /\ InitScreen("main")
  /\ UNCHANGED <<sockets, world, gumps, flags, server>>

ConfirmDeletion ==
  /\ gameState \in Connecting /\ screen.type = "characterList"
  /\ game /\ stage = "characters"
  /\ deleteAsked' = TRUE
  /\ UNCHANGED <<gameState, screen, sockets, world, gumps, flags, stage>>

(* The player, in the game *)

AskPlayer ==
  /\ gameState = "game" /\ world
  /\ \E g \in {"quit", "attack", "group"} : Block(g)
  /\ UNCHANGED <<sockets, world, flags, server>>

(* The quit question and the notice of a lost connection log out, later;   *)
(* every other answer closes the gump.                                     *)
Answer(g) ==
  /\ gameState = "blocked" /\ g \in modal
  /\ \/ /\ g \in {"quit", "lost"}
        /\ logoutAfterClick' = TRUE
        /\ UNCHANGED <<gameState, gumps>>
     \/ /\ g # "lost"
        /\ DeleteGump(g)
        /\ UNCHANGED logoutAfterClick
  /\ UNCHANGED <<screen, sockets, world, packetLoginComplete, server>>

-----------------------------------------------------------------------------
Init ==
  /\ gameState = "main" /\ screen = Fresh
  /\ login = FALSE /\ game = FALSE /\ isLogin = TRUE
  /\ world = FALSE
  /\ modal = {} /\ grayMenuCount = 0
  /\ packetLoginComplete = FALSE /\ logoutAfterClick = FALSE
  /\ stage = "none" /\ deleteAsked = FALSE

Packet ==
  \/ LoginError \/ ServerList \/ \E ok \in BOOLEAN : RelayServer(ok)
  \/ CharacterList \/ ResendCharacterList \/ CharacterListNotification
  \/ ErrorCode \/ Talk \/ EnterWorld \/ LoginCompletePacket \/ CharacterStatus
  \/ \E d \in Dialogs : OpenDialog(d)
  \/ Logout

Player ==
  \/ \E ok \in BOOLEAN : Connect(ok)
  \/ ServerSelection \/ LeaveServerList \/ SelectCharacter \/ VisitScreen
  \/ LeaveConnectionScreen \/ ConfirmDeletion \/ AskPlayer
  \/ \E g \in Gumps : Answer(g)

Next == Packet \/ Player \/ OnReadFailed \/ SelectFailed \/ Process

Spec == Init /\ [][Next]_vars

(* Process runs every frame; nothing else has to happen. *)
LiveSpec == Spec /\ WF_vars(Process)

-----------------------------------------------------------------------------
(* Properties *)

(* Every variable has its type. *)
TypeOK ==
  /\ gameState \in States
  /\ screen \in [type : Types, failed : BOOLEAN, completed : BOOLEAN]
  /\ {login, game, isLogin, world, packetLoginComplete, logoutAfterClick,
      deleteAsked} \subseteq BOOLEAN
  /\ modal \subseteq Gumps
  /\ grayMenuCount \in 0..Cardinality(Gumps)
  /\ stage \in Stages

(* The counter counts the modal gumps, although a constructor, a destructor*)
(* and ClearWorld each change it on their own: with a count too high the   *)
(* game would stay blocked when the last one is closed.                    *)
CountsModals == grayMenuCount = Cardinality(modal)

(* Only one socket is ever connected, and it is the one Recv reads: no     *)
(* packet of the other one waits unread.                                   *)
OneSocket == ~(login /\ game) /\ (login => isLogin) /\ (game => ~isLogin)

(* The game is never blocked for nothing: there is a gump whose closing, or*)
(* whose answer, ends the blocking.                                        *)
BlockedByModal == gameState = "blocked" => modal # {}

(* The game screen is never shown without a world, and no gump survives its*)
(* world: the only one that blocks without a world is the notice of a      *)
(* connection lost on the way.                                             *)
GameHasWorld ==
  /\ gameState = "game" => world
  /\ \A g \in modal : world \/ g = "lost"

LoggedOut == gameState = "main" /\ ~login /\ ~game /\ ~world

IdleWarned == gameState = "delete" /\ screen.type = "gameLogin"

(* A player in the game who has confirmed to log out, or the end of the    *)
(* connection, is logged out: without a socket and a world, on the main    *)
(* screen, whatever packets, dialogs and failed reads come between the     *)
(* click and Process.  The exception is an ErrorCode handled in between:   *)
(* its screen is not one Process logs out from, so socket and world stay.  *)
(* It does not use up the click: back in the game, the player is again one *)
(* who has confirmed.                                                      *)
LogoutHappens ==
  logoutAfterClick /\ gameState \in {"game", "blocked"} ~> LoggedOut \/ IdleWarned

(* A player the server plays with sees the game.  It does not hold: the    *)
(* idle warning, an ErrorCode, leaves the game for the connection screen,  *)
(* whose button leads to the character list.                               *)
WorldIsShown == stage = "playing" => gameState \in {"game", "blocked"}

(* A connection screen that offers no button waits for a packet that may   *)
(* still come.  It does not hold: SelectFailed closes the socket and leaves*)
(* the screen as it is, and a login error on the way into the game leads   *)
(* back to the character list, where a character can be selected without a *)
(* connection.                                                             *)
ConnectingCanEnd ==
  gameState \in Connecting /\ screen.type \in {"login", "game"} /\ ~screen.failed
    => Receiving

(* In the blocked state everything is displayed.  It does not hold: a read *)
(* that fails before the world exists blocks the game, and COrion::Process *)
(* draws neither the game nor the notice without a world.                  *)
BlockedIsDisplayed == gameState = "blocked" => world
=============================================================================
