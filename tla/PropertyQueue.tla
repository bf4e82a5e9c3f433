--------------------------- MODULE PropertyQueue ----------------------------
(***************************************************************************)
(* The tooltips: what the client knows of each object's property list      *)
(* (CObjectPropertiesManager), and the requests for the lists it lacks     *)
(* (CPacketManager::m_MegaClilocRequests).                                 *)
(*                                                                         *)
(* A property list is its revision.  The server announces the revision of  *)
(* an object when it shows it and whenever it changes; the client asks for *)
(* the list if it has another one, and all requests of a frame leave in    *)
(* packets of at most BatchSize serials.  The cache and the queue outlive  *)
(* the connection; what is under way does not.                             *)
(*                                                                         *)
(* The server is external: it answers each serial of a request, in order,  *)
(* with the list as it is when it reads the request.                       *)
(***************************************************************************)
EXTENDS Integers, SequencesExt

CONSTANTS Serials,
          BatchSize,    \* 50
          Unknown,      \* no property list
          MaxRevision,  \* bound: how often a list changes
          MaxFlight     \* bound: packets under way

ASSUME SerialsAssumption == IsFiniteSet(Serials)
ASSUME BatchAssumption == BatchSize \in Nat \ {0}
ASSUME PropertyBounds ==
  MaxRevision \in Nat /\ MaxFlight \in Nat \ {0} /\ Unknown \notin Nat

VARIABLES m_MegaClilocRequests,
          m_Map,       \* the revision of each list the client has
          tooltips,    \* g_TooltipsEnabled, set by the server's flags
          receiving,   \* the frame is in ConnectionManager::Recv
          revision,    \* the server's lists
          announced,   \* what it has announced on this connection
          toServer, toClient,
          connected

propertyClient == <<m_MegaClilocRequests, m_Map, tooltips, receiving>>
propertyServer == <<revision, announced>>
propertyVars   == <<propertyClient, propertyServer, toServer, toClient, connected>>

Info(s, r)  == [type |-> "info", serial |-> s, revision |-> r]
List(s, r)  == [type |-> "list", serial |-> s, revision |-> r]
UnderWay    == Len(toServer) + Len(toClient)

-----------------------------------------------------------------------------
(* The client *)

RevisionCheck(s, r) == m_Map[s] = r

AddTwice(s) == m_MegaClilocRequests' = Append(m_MegaClilocRequests, s)

AddMegaClilocRequest(s) ==
  m_MegaClilocRequests' = IF Contains(m_MegaClilocRequests, s)
                          THEN m_MegaClilocRequests
                          ELSE Append(m_MegaClilocRequests, s)

Arrives(type) ==
  /\ receiving /\ toClient # <<>>
  /\ Head(toClient).type = type
  /\ toClient' = Tail(toClient)
  /\ UNCHANGED <<propertyServer, toServer, connected, tooltips, receiving>>

OPLInfo ==
  LET m == Head(toClient)
  IN /\ Arrives("info")
     /\ IF tooltips /\ ~RevisionCheck(m.serial, m.revision)
        THEN AddMegaClilocRequest(m.serial)
        ELSE UNCHANGED m_MegaClilocRequests
     /\ UNCHANGED m_Map

MegaCliloc ==
  LET m == Head(toClient)
  IN /\ Arrives("list")
     /\ m_Map' = [m_Map EXCEPT ![m.serial] = m.revision]
     /\ UNCHANGED m_MegaClilocRequests

(* A frame reads what has arrived, then sends the requests.                *)
BeginFrame ==
  /\ ~receiving
  /\ receiving' = TRUE
  /\ UNCHANGED <<m_MegaClilocRequests, m_Map, tooltips, propertyServer,
                 toServer, toClient, connected>>

BatchesLoseRest(queue) ==
  IF queue = <<>> THEN <<>> ELSE <<SubSeq(queue, 1, BatchSize)>>

\* The packets of CPacketMegaClilocRequest that empty the queue.
Batches(queue) ==
  [i \in 1..((Len(queue) + BatchSize - 1) \div BatchSize) |->
     SubSeq(queue, (i - 1) * BatchSize + 1,
            IF i * BatchSize < Len(queue) THEN i * BatchSize ELSE Len(queue))]

\* Clients before 5.0.0a send the same serials one by one.
SendMegaClilocRequests ==
  /\ receiving
  /\ receiving' = FALSE
  /\ IF tooltips
     THEN /\ m_MegaClilocRequests' = <<>>
          /\ toServer' = IF connected THEN toServer \o Batches(m_MegaClilocRequests)
                                      ELSE toServer
     ELSE UNCHANGED <<m_MegaClilocRequests, toServer>>
  /\ UNCHANGED <<m_Map, tooltips, propertyServer, toClient, connected>>

-----------------------------------------------------------------------------
(* The connection and the world.  The flags of the character list decide   *)
(* about tooltips; the server shows objects only after it has let the      *)
(* client into the world.                                                  *)

Disconnect ==
  /\ connected
  /\ connected' = FALSE
  /\ toServer' = <<>> /\ toClient' = <<>>
  /\ announced' = [s \in Serials |-> Unknown]
  /\ UNCHANGED <<m_MegaClilocRequests, m_Map, tooltips, receiving, revision>>

Login ==
  /\ ~connected /\ ~receiving
  /\ connected' = TRUE
  /\ tooltips' \in BOOLEAN
  /\ UNCHANGED <<m_MegaClilocRequests, m_Map, receiving, propertyServer, toServer, toClient>>

-----------------------------------------------------------------------------
(* The server *)

Announce(s) ==
  /\ connected /\ UnderWay < MaxFlight
  /\ announced[s] # revision[s]
  /\ announced' = [announced EXCEPT ![s] = revision[s]]
  /\ toClient' = Append(toClient, Info(s, revision[s]))
  /\ UNCHANGED <<propertyClient, revision, toServer, connected>>

Change(s) ==
  /\ revision[s] < MaxRevision
  /\ revision' = [revision EXCEPT ![s] = @ + 1]
  /\ UNCHANGED <<propertyClient, announced, toServer, toClient, connected>>

AnswerRequest ==
  /\ toServer # <<>>
  /\ toServer' = Tail(toServer)
  /\ toClient' = toClient \o [i \in 1..Len(Head(toServer)) |->
                                List(Head(toServer)[i], revision[Head(toServer)[i]])]
  /\ UNCHANGED <<propertyClient, propertyServer, connected>>

-----------------------------------------------------------------------------
PropertyInit ==
  /\ m_MegaClilocRequests = <<>>
  /\ m_Map = [s \in Serials |-> Unknown]
  /\ tooltips = FALSE /\ receiving = FALSE
  /\ revision = [s \in Serials |-> 0]
  /\ announced = [s \in Serials |-> Unknown]
  /\ toServer = <<>> /\ toClient = <<>>
  /\ connected = FALSE

PropertyNext ==
  \/ BeginFrame \/ OPLInfo \/ MegaCliloc \/ SendMegaClilocRequests
  \/ Disconnect \/ Login
  \/ \E s \in Serials : Announce(s) \/ Change(s)
  \/ AnswerRequest

(* Frames go on, a frame reads what is there before it ends, the server    *)
(* announces what has changed and answers what it reads.                   *)
PropertyFairness ==
  /\ WF_propertyVars(BeginFrame) /\ SF_propertyVars(OPLInfo) /\ SF_propertyVars(MegaCliloc)
  /\ WF_propertyVars(SendMegaClilocRequests) /\ WF_propertyVars(AnswerRequest)
  /\ \A s \in Serials : SF_propertyVars(Announce(s))

PropertySpec == PropertyInit /\ [][PropertyNext]_propertyVars /\ PropertyFairness

-----------------------------------------------------------------------------
(* Properties *)

(* Nothing is forgotten: if the list the client has is not the one the     *)
(* server announced on this connection, the announcement, a request or the *)
(* answer is still on its way, or tooltips are off.  The serial is in the  *)
(* queue once, and the queue is empty between frames.                      *)
Pending(s) ==
  \/ \E i \in 1..Len(toClient) : toClient[i].serial = s
  \/ Contains(m_MegaClilocRequests, s)
  \/ \E i \in 1..Len(toServer) : Contains(toServer[i], s)

NothingForgotten ==
  /\ \A s \in Serials :
       connected /\ tooltips /\ announced[s] # Unknown =>
         Pending(s) \/ (m_Map[s] # Unknown /\ m_Map[s] >= announced[s])
  /\ IsInjective(m_MegaClilocRequests)
  /\ m_MegaClilocRequests = <<>> \/ receiving

(* Once the server's lists stop changing the client has all of them,       *)
(* unless the connection ends.                                             *)
CatchesUp ==
  connected /\ tooltips ~> ~connected \/ m_Map = revision
=============================================================================
