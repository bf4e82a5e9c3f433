---------------------------- MODULE WalkProtocol ----------------------------
(***************************************************************************)
(* The client of module Walker talking to a server over a TCP connection:  *)
(* one FIFO queue of packets each way, emptied when the connection is lost.*)
(*                                                                         *)
(* The server is not in this repository.  It is modelled from what the     *)
(* client expects of it: it answers every walk request, in order, with a   *)
(* confirmation that repeats the sequence or with a denial that carries    *)
(* the position it holds; it confirms only the sequence it expects and     *)
(* expects 0 after every packet that places the player; it answers a       *)
(* resend request with the position of the player.  It may also place the  *)
(* player on its own (a gate, a game master, a wall that was not there).   *)
(***************************************************************************)
EXTENDS Walker, FiniteSets

CONSTANTS MaxFlight,     \* bound: packets under way, both directions
          Interference   \* TRUE: the server refuses and moves the player at
                         \* will and the connection breaks

ASSUME MaxFlightAssumption == MaxFlight \in Nat \ {0}
ASSUME InterferenceAssumption == Interference \in BOOLEAN

(* The numbers of the pending steps, and of the next one, are all different *)
(* (5 steps, 256 numbers): ConfirmWalk finds a step by its number alone.    *)
ASSUME WindowAssumption == MaxSteps < MaxSequence

VARIABLES toServer, toClient,  \* the two directions of the game socket
          server,              \* the position the server holds, and the
                               \* sequence it expects next
          session              \* "playing"; "blocked", "silent": the socket is
                               \* closed, the world still there; "entering":
                               \* world cleared, the server will let us in

protocolVars == <<vars, toServer, toClient, server, session>>

Request(d, n)  == [type |-> "walk", dir |-> d, seq |-> n]
Resend         == [type |-> "resend"]
Confirm(n)     == [type |-> "confirm", seq |-> n]
Deny(s)        == [type |-> "deny", at |-> s.at, dir |-> s.dir]
Update(s)      == [type |-> "update", at |-> s.at, dir |-> s.dir]
Enter(s)       == [type |-> "enter", at |-> s.at, dir |-> s.dir]

InFlight == Len(toServer) + Len(toClient)

-----------------------------------------------------------------------------
(* The client *)

(* Walk needs the state GS_GAME and a player.  It sends the step it has    *)
(* just queued; a closed socket drops it.                                  *)
ClientWalk(d) ==
  /\ session \in {"playing", "silent"}
  /\ InFlight < MaxFlight
  /\ Walk(d)
  /\ toServer' = IF session = "playing"
                 THEN Append(toServer, Request(m_Steps'[Len(m_Steps')].dir, WalkSequence))
                 ELSE toServer
  /\ UNCHANGED <<toClient, server, session>>

ClientAnimate ==
  /\ session # "entering"
  /\ UpdateAnimationInfo
  /\ UNCHANGED <<toServer, toClient, server, session>>

Arrives(type) ==
  /\ toClient # <<>>
  /\ Head(toClient).type = type
  /\ toClient' = Tail(toClient)
  /\ UNCHANGED server

ClientConfirmedSilently ==
  /\ Arrives("confirm")
  /\ ConfirmWalk(Head(toClient).seq)
  /\ UNCHANGED <<toServer, session>>

ClientConfirmed ==
  /\ Arrives("confirm")
  /\ ConfirmWalk(Head(toClient).seq)
  /\ toServer' = IF ResendPacketSended' /\ ~ResendPacketSended
                 THEN Append(toServer, Resend) ELSE toServer
  /\ UNCHANGED session

ClientPlaced ==
  LET m == Head(toClient)
  IN /\ \/ Arrives("deny") /\ HandleDenyWalk(m.at, m.dir)
        \/ Arrives("update") /\ UpdatePlayer(m.at, m.dir)
     /\ UNCHANGED <<toServer, session>>

ClientEntered ==
  /\ Arrives("enter")
  /\ EnterWorld(Head(toClient).at, Head(toClient).dir)
  /\ session' = "playing"
  /\ UNCHANGED toServer

ClientReceive == ClientConfirmed \/ ClientPlaced \/ ClientEntered

(* The player leaves, or the connection was lost and the player goes on:   *)
(* LogOut closes the socket and ClearWorld resets the walker and deletes   *)
(* the player with its queue; then the player logs in again.               *)
Relogin ==
  /\ Interference
  /\ session # "entering"
  /\ ClearWorld
  /\ session' = "entering"
  /\ server' = [server EXCEPT !.expected = 0]
  /\ toServer' = <<>>
  /\ toClient' = <<Enter(server)>>

-----------------------------------------------------------------------------
(* The connection.  A failed read blocks the game (OnReadFailed); a failed *)
(* select only closes the socket, and the player walks on in a world that  *)
(* nobody updates (Connection::ReadyRead).                                 *)

LoseConnection ==
  /\ Interference
  /\ session = "playing"
  /\ session' \in {"blocked", "silent"}
  /\ toServer' = <<>> /\ toClient' = <<>>
  /\ UNCHANGED <<vars, server>>

-----------------------------------------------------------------------------
(* The server *)

ServerNext(n) == IF n = MaxSequence THEN 1 ELSE n + 1

(* A step in the direction faced is a move, any other only a turn. *)
ServerStep(d) ==
  IF d = server.dir THEN GetNewXY(d, server.at) ELSE server.at

ServerGrant ==
  LET m == Head(toServer)
  IN /\ m.seq = server.expected
     /\ ServerStep(m.dir) \in Tiles
     /\ server' = [at |-> ServerStep(m.dir), dir |-> m.dir,
                   expected |-> ServerNext(m.seq)]
     /\ toClient' = Append(toClient, Confirm(m.seq))

ServerRefuse ==
  LET m == Head(toServer)
  IN /\ \/ Interference
        \/ m.seq # server.expected
        \/ ServerStep(m.dir) \notin Tiles
     /\ server' = [server EXCEPT !.expected = 0]
     /\ toClient' = Append(toClient, Deny(server))

ServerReceive ==
  /\ toServer # <<>>
  /\ toServer' = Tail(toServer)
  /\ \/ Head(toServer).type = "walk" /\ (ServerGrant \/ ServerRefuse)
     \/ /\ Head(toServer).type = "resend"
        /\ server' = [server EXCEPT !.expected = 0]
        /\ toClient' = Append(toClient, Update(server))
  /\ UNCHANGED <<vars, session>>

ServerMovesPlayer ==
  /\ Interference
  /\ session = "playing"
  /\ InFlight < MaxFlight
  /\ \E t \in Tiles, d \in Headings :
       server' = [at |-> t, dir |-> d, expected |-> 0]
  /\ toClient' = Append(toClient, Update(server'))
  /\ UNCHANGED <<vars, toServer, session>>

-----------------------------------------------------------------------------
ProtocolInit ==
  /\ Init
  /\ toServer = <<>> /\ toClient = <<>>
  /\ server = [at |-> at, dir |-> Direction, expected |-> 0]
  /\ session = "playing"

ProtocolNext ==
  \/ \E d \in Headings : ClientWalk(d)
  \/ ClientAnimate
  \/ ClientReceive
  \/ Relogin
  \/ LoseConnection
  \/ ServerReceive
  \/ ServerMovesPlayer

ProtocolSpec == ProtocolInit /\ [][ProtocolNext]_protocolVars

(* The main loop calls Recv and ProcessAnimation every frame, TCP delivers,*)
(* and the server answers what it reads.  Nobody has to walk.              *)
ProtocolFairness ==
  /\ WF_protocolVars(ClientAnimate)
  /\ WF_protocolVars(ClientReceive)
  /\ WF_protocolVars(ServerReceive)

ProtocolLiveSpec == ProtocolSpec /\ ProtocolFairness

-----------------------------------------------------------------------------
(* Properties *)

(* The packets under way never exceed the bound, resend requests included. *)
ProtocolTypeOK ==
  /\ TypeOK
  /\ server \in [at : Tiles, dir : Headings, expected : Sequences]
  /\ session \in {"playing", "blocked", "silent", "entering"}
  /\ InFlight <= MaxFlight

(* When nothing is under way the server's position is where the client's   *)
(* queue of steps ends, whatever was denied, moved or resent before, and   *)
(* no confirmation is missing.                                             *)
Settled == session = "playing" /\ toServer = <<>> /\ toClient = <<>>

SettledPosition ==
  Settled => /\ Predicted.at = server.at /\ Predicted.dir = server.dir
             /\ UnacceptedPacketsCount = 0

(* The centre from which far objects are removed is then the tile where    *)
(* the server holds the player.                                            *)
SettledRange == Settled => RemoveRange = server.at

(* A client that has stopped walking is never left waiting: the resend     *)
(* request it sent, or a packet that places it, is still under way.        *)
Occurs(type, queue) == \E i \in 1..Len(queue) : queue[i].type = type

RecoveryUnderWay ==
  session = "playing" /\ WalkingFailed =>
    \/ Occurs("resend", toServer)
    \/ Occurs("update", toClient)
    \/ Occurs("deny", toClient)

(* Without interference walking is smooth: however confirmations and the   *)
(* animation interleave, and however the numbers wrap, the server denies   *)
(* no step and the client fails on no confirmation.                        *)
SmoothWalking ==
  ~Interference => ~WalkingFailed /\ ~Occurs("deny", toClient)

(* A failure ends, unless the connection does. *)
FailureHeals ==
  session = "playing" /\ WalkingFailed ~> session # "playing" \/ ~WalkingFailed

(* A full window of steps opens again, unless the connection ends. *)
WindowReopens ==
  session = "playing" /\ StepsCount = MaxSteps
    ~> session # "playing" \/ StepsCount < MaxSteps

-----------------------------------------------------------------------------
(* The array implements the two queues of WalkWindow. *)

(* The elements of a set of indexes in increasing order. *)
Ascending(indexes) ==
  [k \in 1..Cardinality(indexes) |->
     CHOOSE i \in indexes : Cardinality({j \in indexes : j < i}) = k - 1]

Numbers(indexes) ==
  [k \in 1..Cardinality(indexes) |-> m_Step[Ascending(indexes)[k]].Sequence]

Undisplayed == CurrentWalkSequence..StepsCount - 1
Unconfirmed == {i \in 0..StepsCount - 1 : ~m_Step[i].Accepted}

ToShow     == IF WalkingFailed THEN <<>> ELSE Numbers(Undisplayed)
ToConfirm  == IF WalkingFailed THEN <<>> ELSE Numbers(Unconfirmed)
NextNumber == IF WalkingFailed THEN 0 ELSE WalkSequence

Window == INSTANCE WalkWindow WITH
  Window <- MaxSteps, LastNumber <- MaxSequence,
  toShow <- ToShow, toConfirm <- ToConfirm, next <- NextNumber

(* Each pending step is displayed once and confirmed once, in the order    *)
(* of the requests.                                                        *)
ImplementsWindow == Window!Spec
=============================================================================
