------------------------- MODULE WalkProtocolProofs -------------------------
(***************************************************************************)
(* Proofs about module WalkProtocol, for every window, every bound on the  *)
(* packets under way, with and without interference.                       *)
(*                                                                         *)
(* The protocol restricts what the server sends and adds a connection that *)
(* breaks; its client is still the client of Walker, so what WalkerProofs  *)
(* shows of Walker!Spec holds of the protocol.                             *)
(***************************************************************************)
EXTENDS WalkProtocol, WalkerProofs, FiniteSetTheorems

USE MaxStepsAssumption, MaxSequenceAssumption, TilesAssumption, HeadingsAssumption

(* What arrives carries tiles of the map and sequence numbers. *)
Packets == [type : {"confirm"}, seq : Sequences]
             \cup [type : {"deny", "update", "enter"}, at : Tiles, dir : Headings]

Requests == [type : {"walk"}, dir : Headings, seq : Sequences] \cup [type : {"resend"}]

NetworkOK ==
  /\ toClient \in Seq(Packets)
  /\ toServer \in Seq(Requests)
  /\ server \in [at : Tiles, dir : Headings, expected : Sequences]

-----------------------------------------------------------------------------
(* Queues of packets *)

LEMMA OccursAppend ==
  ASSUME NEW S, NEW q \in Seq(S), NEW m \in S, NEW type,
         Occurs(type, q) \/ m.type = type
  PROVE  Occurs(type, Append(q, m))
<1>1. /\ Append(q, m) \in Seq(S)
      /\ Len(Append(q, m)) = Len(q) + 1
      /\ Append(q, m)[Len(q) + 1] = m
      /\ \A i \in 1..Len(q) : Append(q, m)[i] = q[i]
  BY AppendProperties
<1>2. Len(q) \in Nat
  OBVIOUS
<1>3. CASE m.type = type
  BY <1>1, <1>2, <1>3 DEF Occurs
<1>4. CASE Occurs(type, q)
  <2>1. PICK i \in 1..Len(q) : q[i].type = type
    BY <1>4 DEF Occurs
  <2> QED BY <1>1, <1>2, <2>1 DEF Occurs
<1> QED BY <1>3, <1>4

LEMMA OccursTail ==
  ASSUME NEW S, NEW q \in Seq(S), q # <<>>, NEW type,
         Occurs(type, q), Head(q).type # type
  PROVE  Occurs(type, Tail(q))
<1>1. PICK i \in 1..Len(q) : q[i].type = type
  BY DEF Occurs
<1>2. /\ Head(q) = q[1] /\ Len(Tail(q)) = Len(q) - 1 /\ Len(q) \in Nat
      /\ \A j \in 1..Len(Tail(q)) : Tail(q)[j] = q[j + 1]
  BY HeadTailProperties
<1>3. i - 1 \in 1..Len(Tail(q)) /\ (i - 1) + 1 = i
  BY <1>1, <1>2
<1> QED BY <1>1, <1>2, <1>3 DEF Occurs

-----------------------------------------------------------------------------
(* The packets under way are well formed *)

LEMMA ServerNextType == \A n \in Sequences : ServerNext(n) \in Sequences
BY DEF ServerNext, Sequences

LEMMA ExpectsZeroType ==
  ASSUME NetworkOK
  PROVE  [server EXCEPT !.expected = 0] \in
           [at : Tiles, dir : Headings, expected : Sequences]
BY DEF NetworkOK, Sequences

LEMMA NetworkInit == ProtocolInit => NetworkOK
<1> SUFFICES ASSUME ProtocolInit PROVE NetworkOK
  OBVIOUS
<1>1. toClient \in Seq(Packets) /\ toServer \in Seq(Requests)
  BY EmptySeq DEF ProtocolInit
<1>2. server \in [at : Tiles, dir : Headings, expected : Sequences]
  BY DEF ProtocolInit, Init, Sequences
<1> QED BY <1>1, <1>2 DEF NetworkOK

LEMMA NetworkNext ==
  ASSUME TypeOK, NetworkOK, TypeOK', [ProtocolNext]_protocolVars
  PROVE  NetworkOK'
<1> USE DEF NetworkOK
<1>1. ASSUME NEW type, Arrives(type)
      PROVE  toClient' \in Seq(Packets) /\ server' = server
  BY <1>1, HeadTailProperties DEF Arrives
<1>2. CASE \E d \in Headings : ClientWalk(d)
  <2>1. PICK d \in Headings : ClientWalk(d)
    BY <1>2
  <2>2. PICK c \in CanWalk(d, Predicted.at) : m_Steps' = Append(m_Steps, StepTaken(c))
    BY <2>1 DEF ClientWalk, Walk, PushStep
  <2>3. StepTaken(c) \in WalkData
    BY StepTakenType
  <2>4. m_Steps'[Len(m_Steps')] = StepTaken(c)
    BY <2>2, <2>3, AppendProperties DEF TypeOK
  <2>5. Request(m_Steps'[Len(m_Steps')].dir, WalkSequence) \in Requests
    BY <2>3, <2>4 DEF Request, Requests, WalkData, TypeOK
  <2> QED BY <2>1, <2>5, AppendProperties DEF ClientWalk
<1>3. CASE ClientAnimate
  BY <1>3 DEF ClientAnimate
<1>4. CASE ClientConfirmed
  <2>1. Resend \in Requests
    BY DEF Resend, Requests
  <2>2. toServer' \in Seq(Requests)
    BY <1>4, <2>1, AppendProperties DEF ClientConfirmed
  <2> QED BY <1>1, <1>4, <2>2 DEF ClientConfirmed
<1>5. CASE ClientPlaced
  BY <1>1, <1>5 DEF ClientPlaced
<1>6. CASE ClientEntered
  BY <1>1, <1>6 DEF ClientEntered
<1>7. CASE Relogin
  <2>1. server' \in [at : Tiles, dir : Headings, expected : Sequences]
    BY <1>7, ExpectsZeroType DEF Relogin
  <2>2. Enter(server) \in Packets
    BY DEF Enter, Packets
  <2> QED BY <1>7, <2>1, <2>2, EmptySeq DEF Relogin
<1>8. CASE LoseConnection
  BY <1>8, EmptySeq DEF LoseConnection
<1>9. CASE ServerReceive
  <2>1. Head(toServer) \in Requests /\ toServer' \in Seq(Requests)
    BY <1>9, HeadTailProperties DEF ServerReceive
  <2> DEFINE m == Head(toServer)
  <2>2. CASE m.type = "walk" /\ ServerGrant
    <3>1. m \in [type : {"walk"}, dir : Headings, seq : Sequences]
      BY <2>1, <2>2 DEF Requests
    <3>2. Confirm(m.seq) \in Packets
      BY <3>1 DEF Confirm, Packets
    <3>3. server' \in [at : Tiles, dir : Headings, expected : Sequences]
      BY <2>2, <3>1, ServerNextType DEF ServerGrant
    <3> QED BY <2>1, <2>2, <3>2, <3>3, AppendProperties DEF ServerGrant
  <2>3. CASE ServerRefuse
    <3>1. Deny(server) \in Packets
      BY DEF Deny, Packets
    <3>2. server' \in [at : Tiles, dir : Headings, expected : Sequences]
      BY <2>3, ExpectsZeroType DEF ServerRefuse
    <3> QED BY <2>1, <2>3, <3>1, <3>2, AppendProperties DEF ServerRefuse
  <2>4. CASE /\ server' = [server EXCEPT !.expected = 0]
             /\ toClient' = Append(toClient, Update(server))
    <3>1. Update(server) \in Packets
      BY DEF Update, Packets
    <3>2. server' \in [at : Tiles, dir : Headings, expected : Sequences]
      BY <2>4, ExpectsZeroType
    <3> QED BY <2>1, <2>4, <3>1, <3>2, AppendProperties
  <2> QED BY <1>9, <2>2, <2>3, <2>4 DEF ServerReceive
<1>10. CASE ServerMovesPlayer
  <2>1. server' \in [at : Tiles, dir : Headings, expected : Sequences]
    BY <1>10 DEF ServerMovesPlayer, Sequences
  <2>2. Update(server') \in Packets
    BY <2>1 DEF Update, Packets
  <2> QED BY <1>10, <2>1, <2>2, AppendProperties DEF ServerMovesPlayer
<1>11. CASE UNCHANGED protocolVars
  BY <1>11 DEF protocolVars
<1> QED
  BY <1>2, <1>3, <1>4, <1>5, <1>6, <1>7, <1>8, <1>9, <1>10, <1>11
     DEF ProtocolNext, ClientReceive

-----------------------------------------------------------------------------
(* Every step of the protocol is a step of the client, or none of its own. *)

LEMMA ProtocolStep ==
  ASSUME NetworkOK, [ProtocolNext]_protocolVars
  PROVE  [Next]_vars
<1>1. CASE \E d \in Headings : ClientWalk(d)
  BY <1>1 DEF ClientWalk, Next
<1>2. CASE ClientAnimate
  BY <1>2 DEF ClientAnimate, Next
<1>3. ASSUME NEW type, Arrives(type)
      PROVE  Head(toClient) \in Packets /\ Head(toClient).type = type
  BY <1>3, HeadTailProperties DEF Arrives, NetworkOK
<1>4. CASE ClientConfirmed
  <2>1. Head(toClient).seq \in Sequences
    BY <1>3, <1>4 DEF ClientConfirmed, Packets
  <2> QED BY <1>4, <2>1 DEF ClientConfirmed, Next
<1>5. CASE ClientPlaced
  <2>1. Head(toClient).at \in Tiles /\ Head(toClient).dir \in Headings
    BY <1>3, <1>5 DEF ClientPlaced, Packets
  <2> QED BY <1>5, <2>1 DEF ClientPlaced, Next
<1>6. CASE ClientEntered
  <2>1. Head(toClient).at \in Tiles /\ Head(toClient).dir \in Headings
    BY <1>3, <1>6 DEF ClientEntered, Packets
  <2> QED BY <1>6, <2>1 DEF ClientEntered, Next
<1>7. CASE Relogin
  BY <1>7 DEF Relogin, Next
<1>8. CASE LoseConnection \/ ServerReceive \/ ServerMovesPlayer
  BY <1>8 DEF LoseConnection, ServerReceive, ServerMovesPlayer
<1>9. CASE UNCHANGED protocolVars
  BY <1>9 DEF protocolVars
<1> QED
  BY <1>1, <1>2, <1>4, <1>5, <1>6, <1>7, <1>8, <1>9 DEF ProtocolNext, ClientReceive

LEMMA NetworkCorrect == ProtocolSpec => [](IInv /\ NetworkOK)
<1>1. ProtocolInit => IInv /\ NetworkOK
  BY NetworkInit, InitIInv DEF ProtocolInit
<1>2. IInv /\ NetworkOK /\ [ProtocolNext]_protocolVars => (IInv /\ NetworkOK)'
  BY ProtocolStep, NextIInv, NetworkNext DEF IInv
<1> QED BY <1>1, <1>2, PTL DEF ProtocolSpec

(* The client of the protocol is the client of module Walker: a server     *)
(* that keeps the protocol is one of the servers Walker allows.            *)
THEOREM ProtocolImplementsWalker == ProtocolSpec => Spec
<1>1. ProtocolInit => Init
  BY DEF ProtocolInit
<1>2. NetworkOK /\ [ProtocolNext]_protocolVars => [Next]_vars
  BY ProtocolStep
<1> QED BY <1>1, <1>2, NetworkCorrect, PTL DEF ProtocolSpec, Spec

-----------------------------------------------------------------------------
(* Recovery *)

(* The flag that limits the client to one resend request is only up while  *)
(* walking has failed: without this a failure could go unreported.         *)
RecoveryInv == RecoveryUnderWay /\ (ResendPacketSended => WalkingFailed)

LEMMA ResetRecovers ==
  ASSUME Reset
  PROVE  RecoveryInv'
BY DEF Reset, RecoveryInv, RecoveryUnderWay

LEMMA ConfirmKeepsRecovery ==
  ASSUME NetworkOK, RecoveryInv, ClientConfirmed
  PROVE  RecoveryInv'
<1>1. /\ toClient \in Seq(Packets) /\ toClient # <<>>
      /\ Head(toClient).type = "confirm" /\ toClient' = Tail(toClient)
  BY DEF ClientConfirmed, Arrives, NetworkOK
<1>2. \/ UNCHANGED <<WalkingFailed, ResendPacketSended>>
      \/ WalkingFailed' = TRUE /\ ResendPacketSended' = TRUE
  BY DEF ClientConfirmed, ConfirmWalk, AcceptStep, RetireFirst, FailWalking
<1>3. session' = session
  BY DEF ClientConfirmed
<1>4. Resend \in Requests /\ Resend.type = "resend" /\ toServer \in Seq(Requests)
  BY DEF Resend, Requests, NetworkOK
<1>5. CASE WalkingFailed
  <2>1. \A type \in {"update", "deny"} : Occurs(type, toClient) => Occurs(type, toClient')
    BY <1>1, OccursTail
  <2>2. Occurs("resend", toServer) => Occurs("resend", toServer')
    BY <1>4, OccursAppend DEF ClientConfirmed
  <2> QED BY <1>2, <1>3, <1>5, <2>1, <2>2 DEF RecoveryInv, RecoveryUnderWay
<1>6. CASE ~WalkingFailed /\ WalkingFailed'
  <2>1. toServer' = Append(toServer, Resend)
    BY <1>2, <1>6 DEF RecoveryInv, ClientConfirmed
  <2>2. Occurs("resend", toServer')
    BY <1>4, <2>1, OccursAppend
  <2> QED BY <1>2, <1>6, <2>2 DEF RecoveryInv, RecoveryUnderWay
<1>7. CASE ~WalkingFailed /\ ~WalkingFailed'
  BY <1>2, <1>7 DEF RecoveryInv, RecoveryUnderWay
<1> QED BY <1>5, <1>6, <1>7

(* What the server reads or sends leaves a recovery under way. *)
LEMMA ServerKeepsRecovery ==
  ASSUME NetworkOK, NetworkOK', RecoveryInv, ServerReceive \/ ServerMovesPlayer
  PROVE  RecoveryInv'
<1>1. UNCHANGED <<WalkingFailed, ResendPacketSended, session>>
  BY DEF ServerReceive, ServerMovesPlayer, vars, walker
<1>2. ASSUME NEW m, toClient' = Append(toClient, m), NEW type,
             Occurs(type, toClient) \/ m.type = type
      PROVE  Occurs(type, toClient')
  <2>1. toClient \in Seq(Packets \cup {m}) /\ m \in Packets \cup {m}
    <3>1. \A i \in 1..Len(toClient) : toClient[i] \in Packets \cup {m}
      BY ElementOfSeq DEF NetworkOK
    <3> QED BY <3>1 DEF NetworkOK
  <2> QED BY <1>2, <2>1, OccursAppend
<1>3. \E m : toClient' = Append(toClient, m)
  BY DEF ServerReceive, ServerGrant, ServerRefuse, ServerMovesPlayer
<1>4. \A type : Occurs(type, toClient) => Occurs(type, toClient')
  BY <1>2, <1>3
<1>5. Occurs("resend", toServer) =>
        Occurs("resend", toServer') \/ Occurs("update", toClient')
  <2>1. CASE ServerMovesPlayer
    BY <2>1 DEF ServerMovesPlayer
  <2>2. CASE ServerReceive /\ Head(toServer).type = "walk"
    BY <2>2, OccursTail DEF ServerReceive, NetworkOK
  <2>3. CASE ServerReceive /\ Head(toServer).type # "walk"
    <3>1. toClient' = Append(toClient, Update(server))
      BY <2>3 DEF ServerReceive
    <3>2. Update(server).type = "update"
      BY DEF Update
    <3> QED BY <1>2, <3>1, <3>2
  <2> QED BY <2>1, <2>2, <2>3
<1> QED BY <1>1, <1>4, <1>5 DEF RecoveryInv, RecoveryUnderWay

LEMMA RecoveryNext ==
  ASSUME NetworkOK, NetworkOK', RecoveryInv, [ProtocolNext]_protocolVars
  PROVE  RecoveryInv'
<1>1. CASE \E d \in Headings : ClientWalk(d)
  <2>1. UNCHANGED <<WalkingFailed, ResendPacketSended>> /\ ~WalkingFailed
    BY <1>1 DEF ClientWalk, Walk, WalkGuard
  <2> QED BY <2>1 DEF RecoveryInv, RecoveryUnderWay
<1>2. CASE ClientAnimate
  BY <1>2 DEF ClientAnimate, UpdateAnimationInfo, RecoveryInv, RecoveryUnderWay
<1>3. CASE ClientConfirmed
  BY <1>3, ConfirmKeepsRecovery
<1>4. CASE ClientPlaced
  BY <1>4, ResetRecovers DEF ClientPlaced, HandleDenyWalk, UpdatePlayer, Relocate
<1>5. CASE ClientEntered
  BY <1>5, ResetRecovers DEF ClientEntered, EnterWorld, Relocate
<1>6. CASE Relogin
  BY <1>6, ResetRecovers DEF Relogin, ClearWorld
<1>7. CASE LoseConnection
  BY <1>7 DEF LoseConnection, vars, walker, RecoveryInv, RecoveryUnderWay
<1>8. CASE ServerReceive \/ ServerMovesPlayer
  BY <1>8, ServerKeepsRecovery
<1>9. CASE UNCHANGED protocolVars
  BY <1>9 DEF protocolVars, vars, walker, RecoveryInv, RecoveryUnderWay
<1> QED
  BY <1>1, <1>2, <1>3, <1>4, <1>5, <1>6, <1>7, <1>8, <1>9 DEF ProtocolNext, ClientReceive

LEMMA RecoveryCorrect == ProtocolSpec => []RecoveryInv
<1>1. ProtocolInit => RecoveryInv
  BY DEF ProtocolInit, Init, RecoveryInv, RecoveryUnderWay
<1>2. NetworkOK /\ NetworkOK' /\ RecoveryInv /\ [ProtocolNext]_protocolVars => RecoveryInv'
  BY RecoveryNext
<1> QED BY <1>1, <1>2, NetworkCorrect, PTL DEF ProtocolSpec

(* A client that has stopped walking always has a resend request or a      *)
(* packet that places it under way: walking never fails for good.          *)
THEOREM RecoveryHolds == ProtocolSpec => []RecoveryUnderWay
<1>1. RecoveryInv => RecoveryUnderWay
  BY DEF RecoveryInv
<1> QED BY <1>1, RecoveryCorrect, PTL

-----------------------------------------------------------------------------
(* Confirmations arrive in the order of the requests                       *)

(* The numbers go 0, 1, ..., MaxSequence, 1, ...: m is k requests after n. *)
Ahead(m, n, k) == m - n = k \/ m - n = k - MaxSequence

(* The number of the i-th pending step, and of the next one requested. *)
Number(i) == IF i = StepsCount THEN WalkSequence ELSE m_Step[i].Sequence

StepsNumbered ==
  \A j \in 0..StepsCount :
    /\ j > 0 => Number(j) # 0
    /\ \A i \in 0..j - 1 : Ahead(Number(j), Number(i), j - i)

FirstUnaccepted == StepsCount - UnacceptedPacketsCount

(* The confirmed steps come first, and none of them has been displayed. *)
AcceptedFirst ==
  /\ UnacceptedPacketsCount \in 0..StepsCount
  /\ \A i \in 0..StepsCount - 1 : m_Step[i].Accepted <=> i < FirstUnaccepted
  /\ FirstUnaccepted > 0 => CurrentWalkSequence = 0

PendingInOrder == ~WalkingFailed => StepsNumbered /\ AcceptedFirst

NextToConfirm == Number(FirstUnaccepted)

(* The k-th pending step from the end: its place in the array changes when *)
(* an earlier step leaves it, its distance from the end does not.          *)
LastStep(k) == m_Step[StepsCount - k]

-----------------------------------------------------------------------------
(* What the client does to the pending steps *)

LEMMA SuccessorAhead ==
  ASSUME NEW m \in Sequences, NEW n \in Sequences, m # 0, Ahead(m, n, 1)
  PROVE  m = ServerNext(n)
BY DEF Ahead, ServerNext, Sequences

LEMMA NumberType ==
  ASSUME TypeOK, NEW i \in 0..StepsCount
  PROVE  Number(i) \in Sequences
<1>1. i # StepsCount => i \in Slots
  BY DEF TypeOK, Slots
<1> QED BY <1>1 DEF TypeOK, Number, StepInfo

(* The search of ConfirmWalk finds the one entry with the number: pending  *)
(* steps, and the next one, have different numbers.                        *)
LEMMA SearchFinds ==
  ASSUME TypeOK, StepsNumbered, NEW f \in 0..StepsCount,
         NEW i \in 0..MaxSteps, StopsAt(i, Number(f))
  PROVE  i = f
<1>1. StepsCount \in 0..MaxSteps /\ MaxSteps < MaxSequence
  BY WindowAssumption DEF TypeOK
<1>2. CASE i = StepsCount
  <2>1. CASE f < StepsCount
    <3>1. f \in Slots /\ f < i
      BY <1>1, <1>2, <2>1 DEF Slots
    <3> QED BY <2>1, <3>1 DEF StopsAt, Number
  <2> QED BY <1>1, <1>2, <2>1
<1>3. CASE i < StepsCount
  <2>1. Number(i) = Number(f)
    BY <1>1, <1>3 DEF StopsAt, Number
  <2>2. Number(i) \in Sequences /\ Number(f) \in Sequences
    BY <1>1, <1>3, NumberType
  <2>3. i < f => Ahead(Number(f), Number(i), f - i)
    BY <1>1, <1>3 DEF StepsNumbered
  <2>4. f < i => Ahead(Number(i), Number(f), i - f)
    BY <1>1, <1>3 DEF StepsNumbered
  <2> QED BY <1>1, <1>3, <2>1, <2>2, <2>3, <2>4 DEF Ahead, Sequences
<1> QED BY <1>1, <1>2, <1>3 DEF StopsAt

(* A new step gets the next number, behind the pending ones; the one to    *)
(* confirm next stays the same.                                            *)
LEMMA WalkKeepsOrder ==
  ASSUME IInv, PendingInOrder, NEW d \in Headings, Walk(d)
  PROVE  /\ PendingInOrder'
         /\ NextToConfirm' = NextToConfirm
         /\ UnacceptedPacketsCount' = UnacceptedPacketsCount + 1
         /\ \A k \in 1..StepsCount : LastStep(k + 1)' = LastStep(k)
<1>1. /\ ~WalkingFailed /\ ~WalkingFailed'
      /\ StepsCount \in Slots /\ StepsCount' = StepsCount + 1
      /\ CurrentWalkSequence' = CurrentWalkSequence
      /\ UnacceptedPacketsCount' = UnacceptedPacketsCount + 1
      /\ WalkSequence' = NextSequence(WalkSequence)
  BY DEF Walk, WalkGuard, PushStep, IInv, TypeOK, StepLedger, LedgerAgrees, Slots
<1>2. /\ m_Step'[StepsCount].Sequence = WalkSequence
      /\ m_Step'[StepsCount].Accepted = FALSE
      /\ \A j \in Slots : j # StepsCount => m_Step'[j] = m_Step[j]
  BY <1>1 DEF Walk, PushStep, IInv, TypeOK
<1>3. StepsNumbered /\ AcceptedFirst
  BY <1>1 DEF PendingInOrder
<1>4. ASSUME NEW i \in 0..StepsCount
      PROVE  Number(i)' = Number(i)
  <2>1. i # StepsCount + 1 /\ StepsCount \in Int
    BY <1>1 DEF Slots
  <2>2. CASE i = StepsCount
    BY <1>1, <1>2, <2>1, <2>2 DEF Number
  <2>3. CASE i # StepsCount
    <3>1. i \in Slots
      BY <1>1, <2>3 DEF Slots
    <3> QED BY <1>1, <1>2, <2>1, <2>3, <3>1 DEF Number
  <2> QED BY <2>2, <2>3
<1>5. \A j : j = StepsCount + 1 => Number(j)' = NextSequence(WalkSequence)
  BY <1>1 DEF Number
<1>6. StepsNumbered'
  <2>1. ASSUME NEW i \in 0..StepsCount
        PROVE  Ahead(NextSequence(WalkSequence), Number(i), StepsCount + 1 - i)
    <3>1. i < StepsCount => Ahead(WalkSequence, Number(i), StepsCount - i)
      BY <1>1, <1>3 DEF StepsNumbered, Number, Slots
    <3>2. i = StepsCount => Number(i) = WalkSequence
      BY DEF Number
    <3>3. Number(i) \in Sequences /\ WalkSequence \in Sequences
      BY NumberType DEF IInv, TypeOK
    <3> QED
      BY <1>1, <3>1, <3>2, <3>3, WindowAssumption DEF Ahead, NextSequence, Sequences, Slots
  <2>2. NextSequence(WalkSequence) # 0
    BY DEF NextSequence, IInv, TypeOK, Sequences
  <2> SUFFICES ASSUME NEW j \in 0..StepsCount + 1
               PROVE  /\ j > 0 => Number(j)' # 0
                      /\ \A i \in 0..j - 1 : Ahead(Number(j)', Number(i)', j - i)
    BY <1>1 DEF StepsNumbered, Ahead
  <2>3. StepsCount \in Nat
    BY <1>1 DEF Slots
  <2>4. CASE j = StepsCount + 1
    BY <1>4, <1>5, <2>1, <2>2, <2>3, <2>4
  <2>5. CASE j \in 0..StepsCount
    <3>1. \A i \in 0..j - 1 : i \in 0..StepsCount
      BY <2>3, <2>5
    <3> QED BY <1>3, <1>4, <2>5, <3>1 DEF StepsNumbered
  <2> QED BY <2>3, <2>4, <2>5
<1>7. AcceptedFirst' /\ FirstUnaccepted' = FirstUnaccepted
  BY <1>1, <1>2, <1>3 DEF AcceptedFirst, FirstUnaccepted, Slots
<1>8. NextToConfirm' = NextToConfirm
  <2>1. FirstUnaccepted \in 0..StepsCount
    BY <1>1, <1>3 DEF AcceptedFirst, FirstUnaccepted, Slots
  <2> QED BY <1>4, <1>7, <2>1 DEF NextToConfirm
<1>9. \A k \in 1..StepsCount : LastStep(k + 1)' = LastStep(k)
  BY <1>1, <1>2 DEF LastStep, Slots
<1> QED BY <1>1, <1>6, <1>7, <1>8, <1>9 DEF PendingInOrder

LEMMA AnimateKeepsOrder ==
  ASSUME IInv, ~WalkingFailed, PendingInOrder, UpdateAnimationInfo
  PROVE  /\ PendingInOrder'
         /\ NextToConfirm' = NextToConfirm
         /\ \A k \in 1..StepsCount' : LastStep(k)' = LastStep(k)
<1> DEFINE n == CurrentWalkSequence
<1>1. /\ StepsCount \in 1..MaxSteps /\ n \in 0..StepsCount - 1
      /\ n \in Slots /\ n \in Nat
      /\ m_Step \in [Slots -> StepInfo]
      /\ StepsNumbered /\ AcceptedFirst
      /\ UNCHANGED <<WalkSequence, UnacceptedPacketsCount, WalkingFailed>>
  <2>1. Len(m_Steps) \in Nat \ {0} /\ m_Steps # <<>>
    BY DEF UpdateAnimationInfo, IInv, TypeOK
  <2> QED
    BY <2>1 DEF UpdateAnimationInfo, IInv, TypeOK, StepLedger, LedgerAgrees,
                PendingInOrder, Slots
<1>2. UnacceptedPacketsCount \in 0..StepsCount /\ FirstUnaccepted \in 0..StepsCount
  BY <1>1 DEF AcceptedFirst, FirstUnaccepted
<1>3. CASE m_Step[n].Accepted
  <2>1. /\ m_Step' = WithoutStep(n) /\ StepsCount' = StepsCount - 1
        /\ CurrentWalkSequence' = n
    BY <1>3 DEF UpdateAnimationInfo, RetireOrCount
  <2>2. n = 0 /\ FirstUnaccepted > 0
    BY <1>1, <1>2, <1>3 DEF AcceptedFirst
  <2>3. \A j \in Slots : j + 1 < StepsCount => m_Step'[j] = m_Step[j + 1]
    BY <1>1, <2>1, <2>2 DEF WithoutStep, Slots
  <2>4. ASSUME NEW i \in 0..StepsCount - 1
        PROVE  Number(i)' = Number(i + 1)
    <3>1. CASE i = StepsCount - 1
      BY <1>1, <2>1, <3>1 DEF Number
    <3>2. CASE i # StepsCount - 1
      <4>1. i \in Slots /\ i + 1 < StepsCount
        BY <1>1, <3>2 DEF Slots
      <4> QED BY <1>1, <2>1, <2>3, <3>2, <4>1 DEF Number
    <3> QED BY <3>1, <3>2
  <2>5. StepsNumbered'
    <3> SUFFICES ASSUME NEW j \in 0..StepsCount - 1
                 PROVE  /\ j > 0 => Number(j)' # 0
                        /\ \A i \in 0..j - 1 : Ahead(Number(j)', Number(i)', j - i)
      BY <2>1 DEF StepsNumbered, Ahead
    <3>1. Number(j)' = Number(j + 1) /\ j + 1 \in 0..StepsCount /\ j + 1 > 0
      BY <1>1, <2>4
    <3>2. ASSUME NEW i \in 0..j - 1
          PROVE  Ahead(Number(j)', Number(i)', j - i)
      <4>1. Number(i)' = Number(i + 1) /\ i + 1 \in 0..(j + 1) - 1
        BY <1>1, <2>4
      <4>2. Ahead(Number(j + 1), Number(i + 1), (j + 1) - (i + 1))
        BY <1>1, <3>1, <4>1 DEF StepsNumbered
      <4> QED BY <1>1, <3>1, <4>1, <4>2
    <3> QED BY <1>1, <3>1, <3>2 DEF StepsNumbered
  <2>6. FirstUnaccepted' = FirstUnaccepted - 1
    BY <1>1, <1>2, <2>1 DEF FirstUnaccepted
  <2>7. AcceptedFirst'
    BY <1>1, <1>2, <2>1, <2>2, <2>3, <2>6 DEF AcceptedFirst, FirstUnaccepted, Slots
  <2>8. NextToConfirm' = NextToConfirm
    <3>1. /\ FirstUnaccepted - 1 \in 0..StepsCount - 1
          /\ (FirstUnaccepted - 1) + 1 = FirstUnaccepted
      BY <1>1, <1>2, <2>2 DEF FirstUnaccepted
    <3>2. \A i \in 0..StepsCount - 1 : FirstUnaccepted' = i => NextToConfirm' = Number(i)'
      BY DEF NextToConfirm
    <3> QED BY <2>4, <2>6, <3>1, <3>2 DEF NextToConfirm
  <2>9. ASSUME NEW k \in 1..StepsCount - 1
        PROVE  LastStep(k)' = LastStep(k)
    <3>1. /\ StepsCount - 1 - k \in Slots /\ (StepsCount - 1 - k) + 1 < StepsCount
          /\ (StepsCount - 1 - k) + 1 = StepsCount - k
      BY <1>1 DEF Slots
    <3> QED BY <2>1, <2>3, <3>1 DEF LastStep
  <2> QED BY <2>1, <2>5, <2>7, <2>8, <2>9 DEF PendingInOrder
<1>4. CASE ~m_Step[n].Accepted
  <2>1. /\ m_Step' = m_Step /\ StepsCount' = StepsCount
        /\ CurrentWalkSequence' = n + 1
    BY <1>4 DEF UpdateAnimationInfo, RetireOrCount
  <2>2. FirstUnaccepted <= 0
    BY <1>1, <1>2, <1>4 DEF AcceptedFirst, FirstUnaccepted
  <2>3. FirstUnaccepted' = FirstUnaccepted
    BY <1>1, <2>1 DEF FirstUnaccepted
  <2>4. \A i : Number(i)' = Number(i)
    BY <1>1, <2>1 DEF Number
  <2>5. StepsNumbered'
    BY <1>1, <2>1, <2>4 DEF StepsNumbered
  <2>6. AcceptedFirst'
    BY <1>1, <1>2, <2>1, <2>2, <2>3 DEF AcceptedFirst
  <2>7. NextToConfirm' = NextToConfirm
    BY <1>1, <2>1, <2>3 DEF NextToConfirm, Number
  <2> QED BY <2>1, <2>5, <2>6, <2>7 DEF PendingInOrder, LastStep
<1> QED BY <1>3, <1>4

(* The confirmation that is next in order is found, and it is the first    *)
(* unconfirmed step that is confirmed; with no such step the walk fails.   *)
LEMMA ConfirmKeepsOrder ==
  ASSUME IInv, ~WalkingFailed, PendingInOrder, ConfirmWalk(NextToConfirm)
  PROVE  \/ UnacceptedPacketsCount = 0 /\ WalkingFailed'
         \/ /\ UnacceptedPacketsCount > 0 /\ ~WalkingFailed'
            /\ PendingInOrder'
            /\ UnacceptedPacketsCount' = UnacceptedPacketsCount - 1
            /\ NextToConfirm' = ServerNext(NextToConfirm)
            /\ RemoveRange' = LastStep(UnacceptedPacketsCount).at
            /\ \A k \in 1..StepsCount' :
                 /\ LastStep(k)'.at = LastStep(k).at
                 /\ LastStep(k)'.Sequence = LastStep(k).Sequence
<1> DEFINE f == FirstUnaccepted
<1>1. /\ StepsNumbered /\ AcceptedFirst /\ StepsCount \in 0..MaxSteps
      /\ m_Step \in [Slots -> StepInfo]
      /\ UnacceptedPacketsCount \in 0..StepsCount
      /\ f \in 0..StepsCount /\ f = StepsCount - UnacceptedPacketsCount
      /\ CurrentWalkSequence \in 0..StepsCount
  <2>1. StepsNumbered /\ AcceptedFirst
    BY DEF PendingInOrder
  <2>2. m_Step \in [Slots -> StepInfo] /\ StepsCount \in Int
    BY DEF IInv, TypeOK
  <2>3. /\ StepsCount \in 0..MaxSteps /\ UnacceptedPacketsCount \in 0..StepsCount
        /\ CurrentWalkSequence \in 0..StepsCount
    <3>1. UnacceptedPacketsCount \in 0..StepsCount
      BY <2>1 DEF AcceptedFirst
    <3>2. StepsCount = CurrentWalkSequence + Len(m_Steps)
      BY DEF IInv, StepLedger, LedgerAgrees
    <3>3. /\ StepsCount <= MaxSteps /\ StepsCount \in Int
          /\ CurrentWalkSequence \in Nat /\ m_Steps \in Seq(WalkData)
      BY DEF IInv, TypeOK
    <3> QED BY <3>1, <3>2, <3>3
  <2>4. f = StepsCount - UnacceptedPacketsCount
    BY DEF FirstUnaccepted
  <2> QED BY <2>1, <2>2, <2>3, <2>4
<1>2. /\ WalkSequence' = WalkSequence
      /\ UnacceptedPacketsCount' =
           IF UnacceptedPacketsCount # 0 THEN UnacceptedPacketsCount - 1 ELSE 0
  BY DEF ConfirmWalk
<1>3. AcceptStep(f) \/ RetireFirst(f) \/ FailWalking(f)
  <2>1. PICK i \in 0..MaxSteps :
          /\ StopsAt(i, Number(f))
          /\ AcceptStep(i) \/ RetireFirst(i) \/ FailWalking(i)
    BY DEF ConfirmWalk, NextToConfirm
  <2>2. i = f
    BY <1>1, <2>1, SearchFinds DEF IInv
  <2> QED BY <2>1, <2>2
<1>4. CASE f = StepsCount
  <2>1. FailWalking(f) /\ UnacceptedPacketsCount = 0
    BY <1>1, <1>3, <1>4 DEF AcceptStep, RetireFirst, IsBadStep
  <2> QED BY <2>1 DEF FailWalking
<1>5. CASE f # StepsCount
  <2>1. /\ f \in Slots /\ f + 1 \in 0..StepsCount /\ f < StepsCount
        /\ UnacceptedPacketsCount \in 1..StepsCount
        /\ UnacceptedPacketsCount' = UnacceptedPacketsCount - 1
        /\ ~FailWalking(f)
    BY <1>1, <1>2, <1>5 DEF Slots, FailWalking, IsBadStep, AcceptedFirst
  <2>2. Number(f + 1) = ServerNext(Number(f))
    <3>1. /\ Number(f + 1) \in Sequences /\ Number(f) \in Sequences
          /\ Number(f + 1) # 0 /\ Ahead(Number(f + 1), Number(f), 1)
      <4>1. f \in 0..(f + 1) - 1 /\ (f + 1) - f = 1 /\ f + 1 > 0
        BY <1>1
      <4>2. Ahead(Number(f + 1), Number(f), (f + 1) - f) /\ Number(f + 1) # 0
        BY <1>1, <2>1, <4>1 DEF StepsNumbered
      <4> HIDE DEF f
      <4> QED BY <1>1, <2>1, <4>1, <4>2, NumberType DEF IInv
    <3> QED BY <3>1, SuccessorAhead
  <2>3. LastStep(UnacceptedPacketsCount) = m_Step[f]
    BY <1>1 DEF LastStep
  <2>4. CASE AcceptStep(f)
    <3>1. /\ m_Step' = [m_Step EXCEPT ![f].Accepted = TRUE]
          /\ RemoveRange' = m_Step[f].at
          /\ UNCHANGED <<StepsCount, CurrentWalkSequence, WalkingFailed>>
          /\ f >= CurrentWalkSequence
      BY <2>4 DEF AcceptStep
    <3>2. \A j \in Slots : /\ m_Step'[j].at = m_Step[j].at
                           /\ m_Step'[j].Sequence = m_Step[j].Sequence
                           /\ m_Step'[j].Accepted <=> (j = f \/ m_Step[j].Accepted)
      BY <1>1, <2>1, <3>1 DEF StepInfo
    <3>3. \A i \in 0..StepsCount : Number(i)' = Number(i)
      BY <1>1, <1>2, <3>1, <3>2 DEF Number, Slots
    <3>4. StepsNumbered'
      BY <1>1, <3>1, <3>3 DEF StepsNumbered
    <3>5. FirstUnaccepted' = f + 1
      BY <1>1, <2>1, <3>1 DEF FirstUnaccepted
    <3>6. AcceptedFirst'
      BY <1>1, <2>1, <3>1, <3>2, <3>5 DEF AcceptedFirst, Slots
    <3>7. NextToConfirm' = Number(f + 1)
      <4>1. \A i : FirstUnaccepted' = i => NextToConfirm' = Number(i)'
        BY DEF NextToConfirm
      <4>2. \A i \in 0..StepsCount : FirstUnaccepted' = i => NextToConfirm' = Number(i)
        BY <3>3, <4>1
      <4> HIDE DEF f
      <4> QED BY <2>1, <3>5, <4>2
    <3>8. ASSUME NEW k \in 1..StepsCount
          PROVE  /\ LastStep(k)'.at = LastStep(k).at
                 /\ LastStep(k)'.Sequence = LastStep(k).Sequence
      <4>1. StepsCount - k \in Slots
        BY <1>1, <2>1 DEF Slots
      <4> QED BY <3>1, <3>2, <4>1 DEF LastStep
    <3> QED BY <2>1, <2>2, <2>3, <3>1, <3>4, <3>6, <3>7, <3>8
            DEF PendingInOrder, NextToConfirm
  <2>5. CASE RetireFirst(f)
    <3>1. /\ f = 0 /\ CurrentWalkSequence > 0
      BY <1>1, <2>5 DEF RetireFirst, IsBadStep
    <3>2. /\ m_Step' = WithoutStep(0)
          /\ RemoveRange' = m_Step[0].at
          /\ StepsCount' = StepsCount - 1
          /\ WalkingFailed' = WalkingFailed
      BY <2>5 DEF RetireFirst
    <3>3. \A j \in Slots : j + 1 < StepsCount => m_Step'[j] = m_Step[j + 1]
      BY <3>2 DEF WithoutStep, Slots
    <3>4. ASSUME NEW i \in 0..StepsCount - 1
          PROVE  Number(i)' = Number(i + 1)
      <4>1. CASE i = StepsCount - 1
        BY <1>1, <1>2, <3>2, <4>1 DEF Number
      <4>2. CASE i # StepsCount - 1
        <5>1. i \in Slots /\ i + 1 < StepsCount
          BY <1>1, <4>2 DEF Slots
        <5> QED BY <1>1, <1>2, <3>2, <3>3, <4>2, <5>1 DEF Number
      <4> QED BY <4>1, <4>2
    <3>5. StepsNumbered'
      <4> SUFFICES ASSUME NEW j \in 0..StepsCount - 1
                   PROVE  /\ j > 0 => Number(j)' # 0
                          /\ \A i \in 0..j - 1 : Ahead(Number(j)', Number(i)', j - i)
        BY <3>2 DEF StepsNumbered, Ahead
      <4>1. Number(j)' = Number(j + 1) /\ j + 1 \in 0..StepsCount /\ j + 1 > 0
        BY <1>1, <3>4
      <4>2. ASSUME NEW i \in 0..j - 1
            PROVE  Ahead(Number(j)', Number(i)', j - i)
        <5>1. Number(i)' = Number(i + 1) /\ i + 1 \in 0..(j + 1) - 1
          BY <1>1, <3>4
        <5>2. Ahead(Number(j + 1), Number(i + 1), (j + 1) - (i + 1))
          BY <1>1, <4>1, <5>1 DEF StepsNumbered
        <5> QED BY <1>1, <4>1, <5>1, <5>2
      <4> QED BY <1>1, <4>1, <4>2 DEF StepsNumbered
    <3>6. FirstUnaccepted' = 0
      BY <1>1, <2>1, <3>1, <3>2 DEF FirstUnaccepted
    <3>7. AcceptedFirst'
      <4>1. \A i \in 0..StepsCount - 1 : ~m_Step[i].Accepted
        BY <1>1, <3>1 DEF AcceptedFirst
      <4>2. \A i \in 0..StepsCount' - 1 : ~m_Step'[i].Accepted
        BY <1>1, <3>2, <3>3, <4>1 DEF Slots
      <4> QED BY <1>1, <2>1, <3>1, <3>2, <3>6, <4>2 DEF AcceptedFirst
    <3>8. NextToConfirm' = Number(f + 1)
      <4>1. NextToConfirm' = Number(0)'
        BY <3>6 DEF NextToConfirm
      <4> QED BY <1>1, <2>1, <3>1, <3>4, <4>1
    <3>9. ASSUME NEW k \in 1..StepsCount - 1
          PROVE  LastStep(k)' = LastStep(k)
      <4>1. /\ StepsCount - 1 - k \in Slots /\ (StepsCount - 1 - k) + 1 < StepsCount
            /\ (StepsCount - 1 - k) + 1 = StepsCount - k
        BY <1>1, <2>1, <3>1 DEF Slots
      <4> QED BY <3>2, <3>3, <4>1 DEF LastStep
    <3> QED BY <2>1, <2>2, <2>3, <3>1, <3>2, <3>5, <3>7, <3>8, <3>9
            DEF PendingInOrder, NextToConfirm
  <2> QED BY <1>3, <2>1, <2>4, <2>5
<1> QED BY <1>4, <1>5

(* Nothing pending: the first number is expected. *)
LEMMA ResetKeepsOrder ==
  ASSUME Reset
  PROVE  PendingInOrder' /\ NextToConfirm' = 0
<1>1. /\ StepsCount' = 0 /\ UnacceptedPacketsCount' = 0 /\ WalkSequence' = 0
      /\ FirstUnaccepted' = 0 /\ CurrentWalkSequence' = 0
  BY DEF Reset, FirstUnaccepted
<1>2. NextToConfirm' = 0
  BY <1>1 DEF NextToConfirm, Number
<1>3. StepsNumbered' /\ AcceptedFirst'
  BY <1>1 DEF StepsNumbered, AcceptedFirst
<1> QED BY <1>2, <1>3 DEF PendingInOrder

-----------------------------------------------------------------------------
(* The answers under way                                                   *)

Connected == session \in {"playing", "entering"}

(* What the server expects once it has sent p, which is also the number of *)
(* the confirmation that may follow p.                                     *)
After(p) == IF p.type = "confirm" THEN ServerNext(p.seq) ELSE 0

ConfirmsFollow ==
  \A k \in 1..Len(toClient) - 1 :
    toClient[k + 1].type = "confirm" => toClient[k + 1].seq = After(toClient[k])

LastSent ==
  LET last == toClient[Len(toClient)]
  IN toClient # <<>> =>
       /\ server.expected = After(last)
       /\ last.type # "confirm" => last.at = server.at /\ last.dir = server.dir

FirstReceived ==
  ~WalkingFailed =>
    /\ toClient = <<>> => server.expected = NextToConfirm
    /\ toClient # <<>> /\ toClient[1].type = "confirm" => toClient[1].seq = NextToConfirm

(* Confirmations are numbered in order from the one the client has to get  *)
(* next to the one the server will send next, and from 0 after a packet    *)
(* that places the player.                                                 *)
AnswersInOrder ==
  IF Connected THEN ConfirmsFollow /\ LastSent /\ FirstReceived
               ELSE toClient = <<>> /\ toServer = <<>>

LEMMA SendKeepsAnswers ==
  ASSUME NetworkOK, AnswersInOrder, Connected, Connected', NEW p \in Packets,
         toClient' = Append(toClient, p),
         server'.expected = After(p),
         p.type = "confirm" => p.seq = server.expected,
         p.type # "confirm" => p.at = server'.at /\ p.dir = server'.dir,
         WalkingFailed' = WalkingFailed, NextToConfirm' = NextToConfirm
  PROVE  AnswersInOrder'
<1> DEFINE n == Len(toClient)
<1>1. /\ n \in Nat
      /\ toClient' # <<>> /\ Len(toClient') = n + 1
      /\ \A i \in 1..n : toClient'[i] = toClient[i]
      /\ toClient'[n + 1] = p
  BY AppendProperties DEF NetworkOK
<1>2. n = 0 <=> toClient = <<>>
  BY EmptySeq DEF NetworkOK
<1>3. ConfirmsFollow /\ LastSent /\ FirstReceived
  BY DEF AnswersInOrder
<1>4. ConfirmsFollow'
  <2> SUFFICES ASSUME NEW k \in 1..n, toClient'[k + 1].type = "confirm"
               PROVE  toClient'[k + 1].seq = After(toClient'[k])
    BY <1>1 DEF ConfirmsFollow, After, ServerNext
  <2>1. CASE k = n
    BY <1>1, <1>2, <1>3, <2>1 DEF LastSent
  <2>2. CASE k # n
    <3>1. k \in 1..n - 1 /\ k + 1 \in 1..n
      BY <1>1, <2>2
    <3> QED BY <1>1, <1>3, <3>1 DEF ConfirmsFollow
  <2> QED BY <2>1, <2>2
<1>5. LastSent'
  BY <1>1 DEF LastSent, After, ServerNext
<1>6. FirstReceived'
  <2>1. CASE n = 0
    BY <1>1, <1>2, <1>3, <2>1 DEF FirstReceived
  <2>2. CASE n # 0
    <3>1. toClient'[1] = toClient[1]
      BY <1>1, <2>2
    <3> QED BY <1>1, <1>2, <1>3, <2>2, <3>1 DEF FirstReceived
  <2> QED BY <2>1, <2>2
<1> QED BY <1>4, <1>5, <1>6 DEF AnswersInOrder

LEMMA ReceiveKeepsAnswers ==
  ASSUME NetworkOK, AnswersInOrder, Connected, Connected',
         toClient # <<>>, toClient' = Tail(toClient), server' = server,
         ~WalkingFailed' => NextToConfirm' = After(Head(toClient))
  PROVE  AnswersInOrder'
<1> DEFINE n == Len(toClient)
<1>1. /\ n \in Nat \ {0} /\ Len(toClient') = n - 1
      /\ Head(toClient) = toClient[1]
      /\ \A i \in 1..n - 1 : toClient'[i] = toClient[i + 1]
      /\ toClient' \in Seq(Packets)
  BY HeadTailProperties, EmptySeq DEF NetworkOK
<1>2. n = 1 <=> toClient' = <<>>
  <2>1. toClient' = <<>> <=> Len(toClient') = 0
    BY <1>1, EmptySeq
  <2> QED BY <1>1, <2>1
<1>3. ConfirmsFollow /\ LastSent
  BY DEF AnswersInOrder
<1>4. ConfirmsFollow'
  <2> SUFFICES ASSUME NEW k \in 1..n - 2, toClient'[k + 1].type = "confirm"
               PROVE  toClient'[k + 1].seq = After(toClient'[k])
    BY <1>1 DEF ConfirmsFollow, After, ServerNext
  <2>1. k \in 1..n - 1 /\ k + 1 \in 1..n - 1
    BY <1>1
  <2> QED BY <1>1, <1>3, <2>1 DEF ConfirmsFollow
<1>5. LastSent'
  <2>1. CASE toClient' # <<>>
    <3>1. n - 1 \in 1..n - 1 /\ (n - 1) + 1 = n
      BY <1>1, <1>2, <2>1
    <3>2. toClient'[Len(toClient')] = toClient[Len(toClient)]
      BY <1>1, <3>1
    <3> QED BY <1>3, <3>2 DEF LastSent, After, ServerNext
  <2> QED BY <2>1 DEF LastSent
<1>6. FirstReceived'
  <2>1. CASE n = 1
    BY <1>1, <1>2, <1>3, <2>1 DEF FirstReceived, LastSent
  <2>2. CASE n # 1
    <3>1. 1 \in 1..n - 1 /\ toClient'[1] = toClient[2]
      BY <1>1, <2>2
    <3> QED BY <1>1, <1>2, <1>3, <2>2, <3>1 DEF FirstReceived, ConfirmsFollow
  <2> QED BY <2>1, <2>2
<1> QED BY <1>4, <1>5, <1>6 DEF AnswersInOrder

-----------------------------------------------------------------------------
(* What client and server owe each other                                   *)

(* The server will place the player. *)
PlacingUnderWay == \E k \in 1..Len(toClient) : toClient[k].type # "confirm"

(* The server will answer every request with a confirmation. *)
RequestsExpected ==
  \A k \in 1..Len(toServer) :
    /\ toServer[k].type = "walk"
    /\ toServer[k].seq = IF k = 1 THEN server.expected ELSE ServerNext(toServer[k - 1].seq)

(* The client was placed and waits for nothing, so the first confirmation  *)
(* of a step it asked for before makes its walk fail.                      *)
NothingAsked == ~WalkingFailed /\ WalkSequence = 0 /\ InFlight > 0

StepFrom(p, d) == [at |-> IF d = p.dir THEN GetNewXY(d, p.at) ELSE p.at, dir |-> d]

(* Where the i-th request under way puts the player, by the client's record. *)
Requested(i) ==
  IF i = 0 THEN [at |-> server.at, dir |-> server.dir]
  ELSE [at |-> LastStep(Len(toServer) + 1 - i).at, dir |-> toServer[i].dir]

(* The unconfirmed steps are those of the confirmations and then of the    *)
(* requests under way, and the requests lead from where the server holds   *)
(* the player to where the client's queue ends.                            *)
InStep ==
  /\ ~WalkingFailed
  /\ UnacceptedPacketsCount = Len(toClient) + Len(toServer)
  /\ \A i \in 1..Len(toServer) : Requested(i) = StepFrom(Requested(i - 1), toServer[i].dir)
  /\ Predicted = Requested(Len(toServer))
  /\ server.at = IF toClient = <<>> THEN RemoveRange ELSE LastStep(Len(toServer) + 1).at

(* Whatever was refused, moved, resent or asked in vain: either client and *)
(* server are in step, or something under way will make the server place   *)
(* the player.                                                             *)
Agreed ==
  Connected => PlacingUnderWay \/ ~RequestsExpected \/ NothingAsked \/ InStep

AgreeInv == PendingInOrder /\ AnswersInOrder /\ Agreed

-----------------------------------------------------------------------------
(* Queues of packets *)

LEMMA SendPlacing ==
  ASSUME NetworkOK, NEW p \in Packets, toClient' = Append(toClient, p),
         PlacingUnderWay \/ p.type # "confirm"
  PROVE  PlacingUnderWay'
<1>1. /\ Len(toClient) \in Nat /\ Len(toClient') = Len(toClient) + 1
      /\ \A i \in 1..Len(toClient) : toClient'[i] = toClient[i]
      /\ toClient'[Len(toClient) + 1] = p
  BY AppendProperties DEF NetworkOK
<1> QED BY <1>1 DEF PlacingUnderWay

LEMMA ConfirmLeavesPlacing ==
  ASSUME NetworkOK, toClient # <<>>, toClient' = Tail(toClient),
         Head(toClient).type = "confirm", PlacingUnderWay
  PROVE  PlacingUnderWay'
<1>1. /\ Head(toClient) = toClient[1] /\ Len(toClient) \in Nat
      /\ Len(toClient') = Len(toClient) - 1
      /\ \A i \in 1..Len(toClient) - 1 : toClient'[i] = toClient[i + 1]
  BY HeadTailProperties DEF NetworkOK
<1>2. PICK k \in 1..Len(toClient) : toClient[k].type # "confirm"
  BY DEF PlacingUnderWay
<1>3. k - 1 \in 1..Len(toClient) - 1 /\ (k - 1) + 1 = k
  BY <1>1, <1>2
<1> QED BY <1>1, <1>2, <1>3 DEF PlacingUnderWay

LEMMA AskKeepsUnexpected ==
  ASSUME NetworkOK, NEW r \in Requests, toServer' = Append(toServer, r),
         server' = server, ~RequestsExpected
  PROVE  ~RequestsExpected'
<1>1. /\ Len(toServer) \in Nat /\ Len(toServer') = Len(toServer) + 1
      /\ \A i \in 1..Len(toServer) : toServer'[i] = toServer[i]
  BY AppendProperties DEF NetworkOK
<1>2. PICK k \in 1..Len(toServer) :
        ~(/\ toServer[k].type = "walk"
          /\ toServer[k].seq = IF k = 1 THEN server.expected
                                        ELSE ServerNext(toServer[k - 1].seq))
  BY DEF RequestsExpected
<1>3. /\ k \in 1..Len(toServer') /\ toServer'[k] = toServer[k]
      /\ k # 1 => toServer'[k - 1] = toServer[k - 1]
  BY <1>1, <1>2
<1> QED BY <1>2, <1>3 DEF RequestsExpected, ServerNext

(* A resend request is never answered with a confirmation. *)
LEMMA ResendUnexpected ==
  ASSUME NetworkOK, toServer' = Append(toServer, Resend)
  PROVE  ~RequestsExpected'
<1>1. Resend \in Requests /\ Resend.type # "walk"
  BY DEF Resend, Requests
<1>2. Len(toServer') = Len(toServer) + 1 /\ Len(toServer) \in Nat
      /\ toServer'[Len(toServer) + 1] = Resend
  BY <1>1, AppendProperties DEF NetworkOK
<1>3. Len(toServer) + 1 \in 1..Len(toServer')
  BY <1>2
<1> QED BY <1>1, <1>2, <1>3 DEF RequestsExpected

LEMMA ServerNextPositive ==
  ASSUME NEW n \in Sequences
  PROVE  ServerNext(n) # 0
BY DEF ServerNext, Sequences

(* The first request after a placement does not continue older ones. *)
LEMMA FreshUnexpected ==
  ASSUME NetworkOK, NEW d \in Headings, toServer' = Append(toServer, Request(d, 0)),
         server' = server,
         toServer # <<>> \/ server.expected # 0
  PROVE  ~RequestsExpected'
<1> DEFINE n == Len(toServer)
<1>1. Request(d, 0) \in Requests /\ Request(d, 0).seq = 0
  BY DEF Request, Requests, Sequences
<1>2. /\ Len(toServer') = n + 1 /\ n \in Nat
      /\ toServer'[n + 1] = Request(d, 0)
      /\ \A i \in 1..n : toServer'[i] = toServer[i] /\ toServer[i] \in Requests
  BY <1>1, AppendProperties, ElementOfSeq DEF NetworkOK
<1> HIDE DEF n
<1>3. n + 1 \in 1..Len(toServer')
  BY <1>2
<1> SUFFICES ASSUME RequestsExpected' PROVE FALSE
  OBVIOUS
<1>4. CASE n = 0
  <2>1. toServer = <<>>
    BY <1>4, EmptySeq DEF NetworkOK, n
  <2> QED BY <1>1, <1>2, <1>3, <1>4, <2>1 DEF RequestsExpected
<1>5. CASE n # 0
  <2>1. n \in 1..n /\ n \in 1..Len(toServer') /\ n + 1 # 1 /\ (n + 1) - 1 = n
    BY <1>2, <1>5
  <2>2. toServer'[n].type = "walk" /\ ServerNext(toServer'[n].seq) = 0
    BY <1>1, <1>2, <1>3, <2>1 DEF RequestsExpected, ServerNext
  <2>3. toServer'[n].seq \in Sequences
    BY <1>2, <2>1, <2>2 DEF Requests
  <2> QED BY <2>2, <2>3, ServerNextPositive
<1> QED BY <1>4, <1>5

-----------------------------------------------------------------------------
(* The queue of steps ends where it did, or with the step requested.       *)

LEMMA WalkPredicts ==
  ASSUME TypeOK, NEW d \in Headings, Walk(d)
  PROVE  /\ Predicted' = StepFrom(Predicted, Predicted'.dir)
         /\ Predicted' \in WalkData
         /\ m_Steps'[Len(m_Steps')] = Predicted'
         /\ StepsCount \in Slots => m_Step'[StepsCount].at = Predicted'.at
<1>1. PICK c \in CanWalk(d, Predicted.at) :
        (Predicted.dir = d => c.passed) /\ PushStep(StepTaken(c))
  BY DEF Walk
<1> DEFINE s == StepTaken(c)
<1>2. s \in WalkData
  BY <1>1, StepTakenType
<1>3. s = StepFrom(Predicted, s.dir)
  <2>1. CASE c = [passed |-> FALSE, dir |-> d, at |-> Predicted.at]
    BY <1>1, <2>1 DEF StepTaken, StepFrom
  <2>2. ASSUME NEW e, c = [passed |-> TRUE, dir |-> e, at |-> GetNewXY(e, Predicted.at)]
        PROVE  s = StepFrom(Predicted, s.dir)
    BY <2>2 DEF StepTaken, StepFrom
  <2> QED BY <2>1, <2>2 DEF CanWalk
<1> HIDE DEF s
<1>4. /\ m_Steps' = Append(m_Steps, s) /\ m_Steps' # <<>>
      /\ m_Steps'[Len(m_Steps')] = s
  BY <1>1, <1>2, AppendProperties DEF PushStep, s, TypeOK
<1>5. Predicted' = s
  BY <1>4 DEF Predicted
<1>6. ASSUME StepsCount \in Slots
      PROVE  m_Step'[StepsCount].at = s.at
  BY <1>1, <1>6 DEF PushStep, s, TypeOK
<1> QED BY <1>2, <1>3, <1>4, <1>5, <1>6

LEMMA AnimateKeepsPredicted ==
  ASSUME TypeOK, UpdateAnimationInfo
  PROVE  Predicted' = Predicted
<1>1. /\ m_Steps \in Seq(WalkData) /\ m_Steps # <<>>
      /\ Len(m_Steps) \in Nat \ {0} /\ Head(m_Steps) = m_Steps[1]
      /\ m_Steps[1] \in WalkData
      /\ m_Steps' = Tail(m_Steps) /\ Len(m_Steps') = Len(m_Steps) - 1
      /\ \A i \in 1..Len(m_Steps) - 1 : m_Steps'[i] = m_Steps[i + 1]
      /\ m_Steps' \in Seq(WalkData)
  BY HeadTailProperties, EmptySeq DEF UpdateAnimationInfo, TypeOK
<1>2. [at |-> at', dir |-> Direction'] = m_Steps[1]
  BY <1>1 DEF UpdateAnimationInfo, WalkData
<1>3. CASE Len(m_Steps) = 1
  <2>1. m_Steps' = <<>>
    <3>1. Len(m_Steps') = 0
      BY <1>1, <1>3
    <3> QED BY <1>1, <3>1, EmptySeq
  <2> QED BY <1>1, <1>2, <1>3, <2>1 DEF Predicted
<1>4. CASE Len(m_Steps) # 1
  <2>1. Len(m_Steps) - 1 \in 1..Len(m_Steps) - 1 /\ (Len(m_Steps) - 1) + 1 = Len(m_Steps)
    BY <1>1, <1>4
  <2>2. m_Steps' # <<>>
    <3>1. Len(m_Steps') # 0
      BY <1>1, <2>1
    <3> QED BY <3>1, EmptySeq
  <2> QED BY <1>1, <2>1, <2>2 DEF Predicted
<1> QED BY <1>3, <1>4

-----------------------------------------------------------------------------
(* Steps that keep client and server in step                               *)

LEMMA WalkKeepsStep ==
  ASSUME IInv, NetworkOK, PendingInOrder, InStep, Connected,
         NEW d \in Headings, Walk(d), UNCHANGED <<toClient, server>>,
         toServer' = Append(toServer, Request(m_Steps'[Len(m_Steps')].dir, WalkSequence))
  PROVE  InStep'
<1> DEFINE n == Len(toServer)
           r == Request(Predicted'.dir, WalkSequence)
<1>1. /\ Predicted' = StepFrom(Predicted, Predicted'.dir)
      /\ Predicted' \in WalkData
      /\ toServer' = Append(toServer, r)
  BY WalkPredicts DEF IInv
<1>2. r \in Requests /\ r.dir = Predicted'.dir
  BY <1>1 DEF Request, Requests, WalkData, IInv, TypeOK
<1>3. /\ n \in Nat /\ Len(toServer') = n + 1
      /\ \A i \in 1..n : toServer'[i] = toServer[i]
      /\ toServer'[n + 1] = r
  BY <1>1, <1>2, AppendProperties DEF NetworkOK
<1>4. /\ UnacceptedPacketsCount' = UnacceptedPacketsCount + 1
      /\ \A k \in 1..StepsCount : LastStep(k + 1)' = LastStep(k)
      /\ ~WalkingFailed' /\ RemoveRange' = RemoveRange
      /\ StepsCount \in Slots /\ StepsCount' = StepsCount + 1
  <2>1. /\ UnacceptedPacketsCount' = UnacceptedPacketsCount + 1
        /\ \A k \in 1..StepsCount : LastStep(k + 1)' = LastStep(k)
    BY WalkKeepsOrder
  <2> QED
    BY <2>1 DEF Walk, WalkGuard, PushStep, IInv, TypeOK, StepLedger, LedgerAgrees, Slots
<1>5. /\ UnacceptedPacketsCount = Len(toClient) + n
      /\ Len(toClient) \in Nat /\ StepsCount \in Nat
      /\ Len(toClient) + n <= StepsCount
  BY <1>4 DEF InStep, NetworkOK, PendingInOrder, AcceptedFirst, Slots
<1>6. LastStep(1)'.at = Predicted'.at
  <2>1. m_Step'[StepsCount].at = Predicted'.at
    BY <1>4, WalkPredicts DEF IInv
  <2>2. LastStep(1)' = m_Step'[StepsCount]
    BY <1>4 DEF LastStep, Slots
  <2> QED BY <2>1, <2>2
<1> HIDE DEF n, r
<1>7. ASSUME NEW i \in 0..n
      PROVE  Requested(i)' = Requested(i)
  <2>1. CASE i = 0
    BY <2>1 DEF Requested
  <2>2. CASE i # 0
    <3>1. /\ n + 1 - i \in 1..StepsCount /\ (n + 1 - i) + 1 = n + 2 - i
          /\ i \in 1..n /\ Len(toServer') + 1 - i = n + 2 - i
      BY <1>3, <1>5, <2>2
    <3>2. \A k : k = n + 2 - i => LastStep(k)' = LastStep(n + 1 - i)
      BY <1>4, <3>1
    <3>3. Requested(i)' = [at |-> LastStep(Len(toServer) + 1 - i)'.at, dir |-> toServer'[i].dir]
      BY <2>2 DEF Requested
    <3>4. LastStep(Len(toServer) + 1 - i)' = m_Step'[StepsCount' - (Len(toServer') + 1 - i)]
      BY DEF LastStep
    <3>5. LastStep(Len(toServer) + 1 - i)' = LastStep(n + 1 - i)
      <4>1. \A k : LastStep(k)' = m_Step'[StepsCount' - k]
        BY DEF LastStep
      <4> QED BY <3>1, <3>2, <3>4, <4>1
    <3> QED BY <1>3, <2>2, <3>1, <3>3, <3>5 DEF Requested, n
  <2> QED BY <2>1, <2>2
<1>8. \A i : i = n + 1 => Requested(i)' = Predicted'
  <2> SUFFICES ASSUME NEW i, i = n + 1 PROVE Requested(i)' = Predicted'
    OBVIOUS
  <2>1. Requested(i)' = [at |-> m_Step'[StepsCount' - (Len(toServer') + 1 - i)].at,
                         dir |-> toServer'[i].dir]
    BY <1>3 DEF Requested, LastStep
  <2>2. Len(toServer') + 1 - i = 1
    BY <1>3
  <2>3. m_Step'[StepsCount' - 1].at = Predicted'.at
    BY <1>6 DEF LastStep
  <2> QED BY <1>1, <1>2, <1>3, <2>1, <2>2, <2>3 DEF WalkData
<1>9. ASSUME NEW i \in 1..n + 1
      PROVE  Requested(i)' = StepFrom(Requested(i - 1)', toServer'[i].dir)
  <2>1. i - 1 \in 0..n
    BY <1>3
  <2>2. Requested(i - 1)' = Requested(i - 1)
    BY <1>7, <2>1
  <2>3. CASE i = n + 1
    <3>1. Requested(n) = Predicted /\ i - 1 = n
      BY <1>3, <2>3 DEF InStep, n
    <3> QED BY <1>1, <1>2, <1>3, <1>8, <2>2, <2>3, <3>1
  <2>4. CASE i \in 1..n
    BY <1>3, <1>7, <2>2, <2>4 DEF InStep, n
  <2> QED BY <1>3, <2>3, <2>4
<1>10. server'.at = IF toClient' = <<>> THEN RemoveRange'
                                       ELSE LastStep(Len(toServer) + 1)'.at
  <2>1. CASE toClient = <<>>
    BY <1>4, <2>1 DEF InStep
  <2>2. CASE toClient # <<>>
    <3>1. n + 1 \in 1..StepsCount /\ Len(toServer') + 1 = (n + 1) + 1
      <4>1. Len(toClient) # 0
        BY <2>2, EmptySeq DEF NetworkOK
      <4> QED BY <1>3, <1>5, <4>1
    <3>2. LastStep(Len(toServer) + 1)' = LastStep(n + 1)
      <4>1. \A k : LastStep(k)' = m_Step'[StepsCount' - k]
        BY DEF LastStep
      <4>2. LastStep(Len(toServer) + 1)' = m_Step'[StepsCount' - (Len(toServer') + 1)]
        BY DEF LastStep
      <4> QED BY <1>4, <3>1, <4>1, <4>2
    <3> QED BY <2>2, <3>2 DEF InStep, n
  <2> QED BY <2>1, <2>2
<1>11. UnacceptedPacketsCount' = Len(toClient') + Len(toServer')
  BY <1>3, <1>4, <1>5
<1>12. Predicted' = Requested(Len(toServer))'
  <2>1. Requested(Len(toServer))' = [at |-> m_Step'[StepsCount' - (Len(toServer') + 1 - Len(toServer'))].at, dir |-> toServer'[Len(toServer')].dir]
    BY <1>3 DEF Requested, LastStep
  <2>2. \A i : i = Len(toServer') =>
          Requested(i)' = [at |-> m_Step'[StepsCount' - (Len(toServer') + 1 - i)].at, dir |-> toServer'[i].dir]
    BY <1>3 DEF Requested, LastStep
  <2> QED BY <1>3, <1>8, <2>1, <2>2
<1> QED BY <1>3, <1>4, <1>9, <1>10, <1>11, <1>12 DEF InStep

(* A step of the client that sends nothing and leaves the steps of the     *)
(* requests under way alone. *)
LEMMA RequestedFrame ==
  ASSUME NetworkOK, UNCHANGED <<toServer, server>>,
         \A k \in 1..Len(toServer) : LastStep(k)'.at = LastStep(k).at,
         NEW i \in 0..Len(toServer)
  PROVE  Requested(i)' = Requested(i)
<1>1. Len(toServer) \in Nat
  BY DEF NetworkOK
<1>2. CASE i = 0
  BY <1>2 DEF Requested
<1>3. CASE i # 0
  <2>1. Len(toServer) + 1 - i \in 1..Len(toServer)
    BY <1>1, <1>3
  <2>2. \A k \in 1..Len(toServer) : m_Step'[StepsCount' - k].at = LastStep(k).at
    BY DEF LastStep
  <2> QED BY <1>3, <2>1, <2>2 DEF Requested, LastStep
<1> QED BY <1>2, <1>3

LEMMA AnimateKeepsStep ==
  ASSUME IInv, NetworkOK, PendingInOrder, InStep, UpdateAnimationInfo,
         UNCHANGED <<toServer, toClient, server>>
  PROVE  InStep'
<1> DEFINE n == Len(toServer)
<1>1. /\ n \in Nat /\ Len(toClient) \in Nat
      /\ UnacceptedPacketsCount = Len(toClient) + n
      /\ ~WalkingFailed
  BY DEF InStep, NetworkOK
<1>2. \A k \in 1..UnacceptedPacketsCount : LastStep(k)' = LastStep(k)
  <2>1. PendingInOrder' /\ \A k \in 1..StepsCount' : LastStep(k)' = LastStep(k)
    BY <1>1, AnimateKeepsOrder
  <2>2. UnacceptedPacketsCount \in 0..StepsCount' /\ StepsCount' \in Int
    BY <1>1, <2>1 DEF UpdateAnimationInfo, RetireOrCount, PendingInOrder, AcceptedFirst,
                      IInv, TypeOK
  <2> QED BY <2>1, <2>2
<1>3. UNCHANGED <<UnacceptedPacketsCount, WalkingFailed, RemoveRange>>
  BY DEF UpdateAnimationInfo
<1>4. Predicted' = Predicted
  BY AnimateKeepsPredicted DEF IInv
<1>5. \A k \in 1..n : LastStep(k)'.at = LastStep(k).at
  BY <1>1, <1>2
<1>6. \A i \in 0..n : Requested(i)' = Requested(i)
  BY <1>5, RequestedFrame
<1>7. \A i \in 1..n : Requested(i)' = StepFrom(Requested(i - 1)', toServer[i].dir)
  <2> SUFFICES ASSUME NEW i \in 1..n
               PROVE  Requested(i)' = StepFrom(Requested(i - 1)', toServer[i].dir)
    OBVIOUS
  <2>1. i \in 0..n /\ i - 1 \in 0..n
    BY <1>1
  <2> QED BY <1>6, <2>1 DEF InStep
<1>8. Predicted' = Requested(Len(toServer))'
  <2>1. \A i : i = Len(toServer) => Requested(i)' = Requested(Len(toServer))'
    BY DEF Requested, LastStep
  <2>2. n \in 0..n /\ Predicted = Requested(n)
    BY <1>1 DEF InStep
  <2> QED BY <1>4, <1>6, <2>1, <2>2
<1>9. toClient # <<>> => LastStep(Len(toServer) + 1)' = LastStep(n + 1)
  <2> SUFFICES ASSUME toClient # <<>> PROVE LastStep(Len(toServer) + 1)' = LastStep(n + 1)
    OBVIOUS
  <2>1. Len(toClient) # 0
    BY EmptySeq DEF NetworkOK
  <2>2. n + 1 \in 1..UnacceptedPacketsCount
    BY <1>1, <2>1
  <2>3. \A k \in 1..UnacceptedPacketsCount : m_Step'[StepsCount' - k] = LastStep(k)
    BY <1>2 DEF LastStep
  <2> QED BY <2>2, <2>3 DEF LastStep
<1>10. server'.at = IF toClient' = <<>> THEN RemoveRange'
                                       ELSE LastStep(Len(toServer) + 1)'.at
  BY <1>3, <1>9 DEF InStep
<1>11. UnacceptedPacketsCount' = Len(toClient') + Len(toServer')
  BY <1>1, <1>3
<1> QED BY <1>1, <1>3, <1>7, <1>8, <1>10, <1>11 DEF InStep

LEMMA ConfirmKeepsStep ==
  ASSUME IInv, NetworkOK, PendingInOrder, InStep, ConfirmWalk(NextToConfirm),
         toClient # <<>>, toClient' = Tail(toClient), UNCHANGED <<toServer, server>>
  PROVE  InStep' /\ ~WalkingFailed'
<1> DEFINE n == Len(toServer)
           u == UnacceptedPacketsCount
<1>1. /\ n \in Nat /\ Len(toClient) \in Nat \ {0} /\ u = Len(toClient) + n
      /\ Len(toClient') = Len(toClient) - 1 /\ toClient' \in Seq(Packets)
      /\ ~WalkingFailed
  BY HeadTailProperties, EmptySeq DEF InStep, NetworkOK
<1>2. /\ u > 0 /\ ~WalkingFailed'
      /\ UnacceptedPacketsCount' = u - 1
      /\ RemoveRange' = LastStep(u).at
      /\ \A k \in 1..u - 1 : LastStep(k)'.at = LastStep(k).at
  <2>1. /\ u > 0 /\ ~WalkingFailed' /\ PendingInOrder'
        /\ UnacceptedPacketsCount' = u - 1
        /\ RemoveRange' = LastStep(u).at
        /\ \A k \in 1..StepsCount' : LastStep(k)'.at = LastStep(k).at
    BY <1>1, ConfirmKeepsOrder
  <2>2. u - 1 \in 0..StepsCount'
    BY <2>1 DEF PendingInOrder, AcceptedFirst
  <2>3. StepsCount' \in Int
    BY DEF ConfirmWalk, AcceptStep, RetireFirst, FailWalking, IInv, TypeOK
  <2> QED BY <2>1, <2>2, <2>3
<1> HIDE DEF u
<1>3. Predicted' = Predicted
  BY DEF ConfirmWalk, player, Predicted
<1>4. \A k \in 1..n : LastStep(k)'.at = LastStep(k).at
  BY <1>1, <1>2
<1>5. \A i \in 0..n : Requested(i)' = Requested(i)
  BY <1>4, RequestedFrame
<1>6. \A i \in 1..n : Requested(i)' = StepFrom(Requested(i - 1)', toServer[i].dir)
  <2> SUFFICES ASSUME NEW i \in 1..n
               PROVE  Requested(i)' = StepFrom(Requested(i - 1)', toServer[i].dir)
    OBVIOUS
  <2>1. i \in 0..n /\ i - 1 \in 0..n
    BY <1>1
  <2> QED BY <1>5, <2>1 DEF InStep
<1>7. Predicted' = Requested(Len(toServer))'
  <2>1. \A i : i = Len(toServer) => Requested(i)' = Requested(Len(toServer))'
    BY DEF Requested, LastStep
  <2>2. n \in 0..n /\ Predicted = Requested(n)
    BY <1>1 DEF InStep
  <2> QED BY <1>3, <1>5, <2>1, <2>2
<1>8. server'.at = IF toClient' = <<>> THEN RemoveRange'
                                      ELSE LastStep(Len(toServer) + 1)'.at
  <2>1. server.at = LastStep(n + 1).at
    BY DEF InStep
  <2>2. CASE toClient' = <<>>
    <3>1. Len(toClient') = 0
      BY <2>2, EmptySeq
    <3>2. u = n + 1
      BY <1>1, <3>1
    <3> QED BY <1>2, <2>1, <2>2, <3>2
  <2>3. CASE toClient' # <<>>
    <3>1. Len(toClient') # 0
      BY <1>1, <2>3, EmptySeq
    <3>2. n + 1 \in 1..u - 1
      BY <1>1, <3>1
    <3>3. \A k \in 1..u - 1 : m_Step'[StepsCount' - k].at = LastStep(k).at
      BY <1>2 DEF LastStep
    <3>4. LastStep(Len(toServer) + 1)'.at = LastStep(n + 1).at
      BY <3>2, <3>3 DEF LastStep
    <3> QED BY <2>1, <2>3, <3>4
  <2> QED BY <2>2, <2>3
<1>9. UnacceptedPacketsCount' = Len(toClient') + Len(toServer')
  BY <1>1, <1>2
<1> QED BY <1>2, <1>6, <1>7, <1>8, <1>9 DEF InStep

LEMMA GrantKeepsStep ==
  ASSUME IInv, NetworkOK, InStep, toServer # <<>>, toServer' = Tail(toServer),
         Head(toServer) \in [type : {"walk"}, dir : Headings, seq : Sequences],
         ServerGrant, UNCHANGED vars
  PROVE  InStep'
<1> DEFINE n == Len(toServer)
           m == Head(toServer)
<1>1. /\ n \in Nat \ {0} /\ m = toServer[1]
      /\ Len(toServer') = n - 1
      /\ \A i \in 1..n - 1 : toServer'[i] = toServer[i + 1]
  BY HeadTailProperties, EmptySeq DEF NetworkOK
<1>2. /\ server'.at = ServerStep(m.dir) /\ server'.dir = m.dir
      /\ toClient' = Append(toClient, Confirm(m.seq))
  BY DEF ServerGrant
<1>3. /\ Len(toClient') = Len(toClient) + 1 /\ toClient' # <<>> /\ Len(toClient) \in Nat
  <2>1. Confirm(m.seq) \in Packets
    BY DEF Confirm, Packets
  <2> QED BY <1>2, <2>1, AppendProperties DEF NetworkOK
<1>4. /\ UNCHANGED <<UnacceptedPacketsCount, WalkingFailed, RemoveRange, StepsCount, m_Step>>
      /\ Predicted' = Predicted
      /\ \A k : LastStep(k)' = LastStep(k)
  BY DEF vars, walker, player, Predicted, LastStep
<1> HIDE DEF n, m
<1>5. Requested(1) = [at |-> server'.at, dir |-> server'.dir]
  <2>1. Requested(1) = StepFrom(Requested(0), toServer[1].dir)
    <3>1. 1 \in 1..n /\ 1 - 1 = 0
      BY <1>1
    <3> QED BY <3>1 DEF InStep, n
  <2> QED BY <1>1, <1>2, <2>1 DEF StepFrom, Requested, ServerStep
<1>6. ASSUME NEW i \in 0..n - 1
      PROVE  Requested(i)' = Requested(i + 1)
  <2>1. CASE i = 0
    BY <1>5, <2>1 DEF Requested
  <2>2. CASE i # 0
    <3>1. /\ i \in 1..n - 1 /\ i + 1 # 0
          /\ Len(toServer') + 1 - i = n + 1 - (i + 1)
      BY <1>1, <2>2
    <3>2. Requested(i)' = [at |-> m_Step[StepsCount - (Len(toServer') + 1 - i)].at,
                           dir |-> toServer'[i].dir]
      BY <1>4, <2>2 DEF Requested, LastStep
    <3> QED BY <1>1, <3>1, <3>2 DEF Requested, LastStep, n
  <2> QED BY <2>1, <2>2
<1>7. ASSUME NEW i \in 1..n - 1
      PROVE  Requested(i)' = StepFrom(Requested(i - 1)', toServer'[i].dir)
  <2>1. /\ i \in 0..n - 1 /\ i - 1 \in 0..n - 1 /\ (i - 1) + 1 = i
        /\ i + 1 \in 1..n /\ (i + 1) - 1 = i
    BY <1>1
  <2>2. Requested(i + 1) = StepFrom(Requested(i), toServer[i + 1].dir)
    BY <2>1 DEF InStep, n
  <2>3. Requested(i)' = Requested(i + 1) /\ Requested(i - 1)' = Requested(i)
    BY <1>6, <2>1
  <2> QED BY <1>1, <2>2, <2>3
<1>8. Predicted' = Requested(Len(toServer))'
  <2>1. \A i : i = Len(toServer') => Requested(i)' = Requested(Len(toServer))'
    BY DEF Requested, LastStep
  <2>2. n - 1 \in 0..n - 1 /\ (n - 1) + 1 = n /\ Predicted = Requested(n)
    BY <1>1 DEF InStep, n
  <2>3. Requested(Len(toServer))' = Requested(n)
    <3>1. \A i \in 0..n - 1 : i = n - 1 => Requested(Len(toServer))' = Requested(i + 1)
      BY <1>1, <1>6, <2>1
    <3> QED BY <2>2, <3>1
  <2> QED BY <1>4, <2>2, <2>3
<1>9. server'.at = LastStep(Len(toServer) + 1)'.at
  <2>1. \A k : k = Len(toServer') + 1 => LastStep(Len(toServer) + 1)' = LastStep(k)
    BY <1>4 DEF LastStep
  <2>2. LastStep(Len(toServer) + 1)' = LastStep(n)
    <3>1. n = Len(toServer') + 1
      BY <1>1
    <3> QED BY <2>1, <3>1
  <2>3. Requested(1).at = LastStep(n).at
    <3>1. Len(toServer) + 1 - 1 = n /\ n # 0
      BY <1>1 DEF n
    <3> QED BY <3>1 DEF Requested
  <2> QED BY <1>5, <2>2, <2>3
<1>10. UnacceptedPacketsCount' = Len(toClient') + Len(toServer')
  BY <1>1, <1>3, <1>4 DEF InStep, n
<1> QED BY <1>1, <1>3, <1>4, <1>7, <1>8, <1>9, <1>10 DEF InStep

(* The last packet under way places the client: nothing else is owed. *)
LEMMA PlacedInStep ==
  ASSUME NetworkOK, LastSent, Len(toClient) = 1, toServer = <<>>,
         Head(toClient).type # "confirm",
         Relocate(Head(toClient).at, Head(toClient).dir),
         toClient' = Tail(toClient), UNCHANGED <<toServer, server>>
  PROVE  InStep'
<1>1. /\ toClient # <<>> /\ Head(toClient) = toClient[1] /\ Len(toClient') = 0
      /\ toClient' \in Seq(Packets) /\ Len(toServer') = 0
  <2>1. toClient # <<>>
    BY EmptySeq
  <2> QED BY <2>1, HeadTailProperties, EmptySeq DEF NetworkOK
<1>2. toClient' = <<>>
  BY <1>1, EmptySeq
<1>3. server.at = Head(toClient).at /\ server.dir = Head(toClient).dir
  BY <1>1 DEF LastSent
<1>4. /\ ~WalkingFailed' /\ UnacceptedPacketsCount' = 0
      /\ RemoveRange' = server.at
      /\ Predicted' = [at |-> server.at, dir |-> server.dir]
  BY <1>3 DEF Relocate, Reset, Predicted
<1>5. Requested(Len(toServer))' = [at |-> server'.at, dir |-> server'.dir]
  BY <1>1 DEF Requested
<1> QED BY <1>1, <1>2, <1>4, <1>5 DEF InStep

-----------------------------------------------------------------------------
(* The invariant: one lemma for each kind of step                          *)

LEMMA AgreeInit == ProtocolInit => AgreeInv
<1> SUFFICES ASSUME ProtocolInit PROVE AgreeInv
  OBVIOUS
<1>1. /\ ~WalkingFailed /\ StepsCount = 0 /\ UnacceptedPacketsCount = 0
      /\ WalkSequence = 0 /\ CurrentWalkSequence = 0 /\ FirstUnaccepted = 0
      /\ m_Steps = <<>> /\ RemoveRange = at
  BY DEF ProtocolInit, Init, FirstUnaccepted
<1>2. /\ toClient = <<>> /\ toServer = <<>> /\ Len(toClient) = 0 /\ Len(toServer) = 0
      /\ session = "playing"
      /\ server = [at |-> at, dir |-> Direction, expected |-> 0]
  BY EmptySeq DEF ProtocolInit
<1>3. PendingInOrder
  BY <1>1 DEF PendingInOrder, StepsNumbered, AcceptedFirst
<1>4. NextToConfirm = 0
  BY <1>1 DEF NextToConfirm, Number
<1>5. AnswersInOrder
  BY <1>2, <1>4 DEF AnswersInOrder, Connected, ConfirmsFollow, LastSent, FirstReceived
<1>6. InStep
  BY <1>1, <1>2 DEF InStep, Requested, Predicted
<1> QED BY <1>3, <1>5, <1>6 DEF AgreeInv, Agreed

LEMMA WalkAgrees ==
  ASSUME IInv, NetworkOK, AgreeInv, NEW d \in Headings, ClientWalk(d)
  PROVE  AgreeInv'
<1>1. Walk(d) /\ session' = session /\ UNCHANGED <<toClient, server>>
  BY DEF ClientWalk
<1>2. PendingInOrder' /\ NextToConfirm' = NextToConfirm
  BY <1>1, WalkKeepsOrder DEF AgreeInv
<1>3. ~WalkingFailed /\ ~WalkingFailed'
  BY <1>1 DEF Walk, WalkGuard
<1> DEFINE r == Request(m_Steps'[Len(m_Steps')].dir, WalkSequence)
<1>4. CASE ~Connected
  <2>1. session = "silent" /\ ~Connected'
    BY <1>1, <1>4 DEF ClientWalk, Connected
  <2>2. toServer' = toServer
    BY <2>1 DEF ClientWalk
  <2> QED
    BY <1>1, <1>2, <1>4, <2>1, <2>2 DEF AgreeInv, AnswersInOrder, Agreed
<1>5. CASE Connected
  <2>1. session = "playing" /\ Connected'
    BY <1>1, <1>5 DEF ClientWalk, Connected
  <2>2. toServer' = Append(toServer, r)
    BY <2>1 DEF ClientWalk
  <2>3. m_Steps'[Len(m_Steps')].dir \in Headings
    BY <1>1, WalkPredicts DEF IInv, WalkData
  <2>4. r \in Requests
    BY <2>3 DEF Request, Requests, IInv, TypeOK
  <2>5. AnswersInOrder'
    BY <1>1, <1>2, <1>3, <1>5, <2>1
       DEF AgreeInv, AnswersInOrder, ConfirmsFollow, LastSent, FirstReceived
  <2>6. CASE PlacingUnderWay
    BY <1>1, <1>2, <2>5, <2>6 DEF AgreeInv, Agreed, PlacingUnderWay
  <2>7. CASE ~RequestsExpected
    <3>1. ~RequestsExpected'
      BY <1>1, <2>2, <2>4, <2>7, AskKeepsUnexpected
    <3> QED BY <1>2, <2>5, <3>1 DEF AgreeInv, Agreed
  <2>8. CASE NothingAsked /\ ~PlacingUnderWay
    <3>1. toServer # <<>> \/ server.expected # 0
      <4>1. CASE toServer = <<>>
        <5>1. toClient # <<>>
          <6>1. Len(toServer) = 0
            BY <4>1, EmptySeq
          <6>2. Len(toClient) # 0
            BY <2>8, <6>1 DEF NothingAsked, InFlight, NetworkOK
          <6> QED BY <6>2, EmptySeq
        <5>2. Len(toClient) \in 1..Len(toClient)
          BY <5>1, EmptySeq DEF NetworkOK
        <5>3. toClient[Len(toClient)].type = "confirm" /\ toClient[Len(toClient)] \in Packets
          BY <2>8, <5>2, ElementOfSeq DEF PlacingUnderWay, NetworkOK
        <5>4. toClient[Len(toClient)].seq \in Sequences
          BY <5>3 DEF Packets
        <5>5. server.expected = ServerNext(toClient[Len(toClient)].seq)
          BY <1>5, <5>1, <5>3 DEF AgreeInv, AnswersInOrder, LastSent, After
        <5> QED BY <5>4, <5>5, ServerNextPositive
      <4> QED BY <4>1
    <3>2. ~RequestsExpected'
      BY <1>1, <2>2, <2>3, <2>8, <3>1, FreshUnexpected DEF NothingAsked
    <3> QED BY <1>2, <2>5, <3>2 DEF AgreeInv, Agreed
  <2>9. CASE InStep
    <3>1. InStep'
      BY <1>1, <1>5, <2>2, <2>9, WalkKeepsStep DEF AgreeInv
    <3> QED BY <1>2, <2>5, <3>1 DEF AgreeInv, Agreed
  <2> QED BY <1>5, <2>6, <2>7, <2>8, <2>9 DEF AgreeInv, Agreed
<1> QED BY <1>4, <1>5

LEMMA AnimateAgrees ==
  ASSUME IInv, NetworkOK, AgreeInv, ClientAnimate
  PROVE  AgreeInv'
<1>1. /\ UpdateAnimationInfo /\ UNCHANGED <<toServer, toClient, server, session>>
      /\ UNCHANGED <<WalkingFailed, WalkSequence>>
  BY DEF ClientAnimate, UpdateAnimationInfo
<1>2. ~WalkingFailed => PendingInOrder' /\ NextToConfirm' = NextToConfirm
  BY <1>1, AnimateKeepsOrder DEF AgreeInv
<1>3. PendingInOrder'
  BY <1>1, <1>2 DEF PendingInOrder
<1>4. AnswersInOrder'
  BY <1>1, <1>2
     DEF AgreeInv, AnswersInOrder, Connected, ConfirmsFollow, LastSent, FirstReceived
<1>5. Agreed'
  <2>1. PlacingUnderWay => PlacingUnderWay'
    BY <1>1 DEF PlacingUnderWay
  <2>2. ~RequestsExpected => ~RequestsExpected'
    BY <1>1 DEF RequestsExpected
  <2>3. NothingAsked => NothingAsked'
    BY <1>1 DEF NothingAsked, InFlight
  <2>4. InStep => InStep'
    BY <1>1, AnimateKeepsStep DEF AgreeInv
  <2> QED BY <1>1, <2>1, <2>2, <2>3, <2>4 DEF AgreeInv, Agreed, Connected
<1> QED BY <1>3, <1>4, <1>5 DEF AgreeInv

LEMMA ConfirmAgrees ==
  ASSUME IInv, NetworkOK, RecoveryInv, AgreeInv, ClientConfirmed
  PROVE  AgreeInv'
<1> DEFINE m == Head(toClient)
<1>1. /\ toClient # <<>> /\ m.type = "confirm" /\ toClient' = Tail(toClient)
      /\ server' = server /\ session' = session /\ ConfirmWalk(m.seq)
      /\ m = toClient[1]
  BY HeadTailProperties DEF ClientConfirmed, Arrives, NetworkOK
<1>2. Connected /\ Connected' /\ AnswersInOrder
  BY <1>1 DEF AgreeInv, AnswersInOrder, Connected
<1>3. ~WalkingFailed => m.seq = NextToConfirm
  BY <1>1, <1>2 DEF AnswersInOrder, FirstReceived
<1>4. WalkingFailed => WalkingFailed'
  BY <1>1 DEF ConfirmWalk, AcceptStep, RetireFirst, FailWalking
<1>5. ~WalkingFailed' =>
        /\ PendingInOrder' /\ NextToConfirm' = ServerNext(m.seq)
        /\ UnacceptedPacketsCount > 0
  BY <1>1, <1>3, <1>4, ConfirmKeepsOrder DEF AgreeInv
<1>6. PendingInOrder'
  BY <1>5 DEF PendingInOrder
<1>7. AnswersInOrder'
  BY <1>1, <1>2, <1>5, ReceiveKeepsAnswers DEF After
<1>8. toServer' = toServer \/ toServer' = Append(toServer, Resend)
  BY DEF ClientConfirmed
<1>9. ASSUME ~WalkingFailed, WalkingFailed'
      PROVE  ~RequestsExpected'
  <2>1. ResendPacketSended' /\ ~ResendPacketSended
    BY <1>1, <1>9 DEF RecoveryInv, ConfirmWalk, AcceptStep, RetireFirst, FailWalking
  <2> QED BY <2>1, ResendUnexpected DEF ClientConfirmed
<1>10. Agreed'
  <2>1. CASE PlacingUnderWay
    <3>1. PlacingUnderWay'
      BY <1>1, <2>1, ConfirmLeavesPlacing
    <3> QED BY <3>1 DEF Agreed
  <2>2. CASE ~RequestsExpected
    <3>1. ~RequestsExpected'
      <4>1. CASE toServer' = toServer
        BY <1>1, <2>2, <4>1 DEF RequestsExpected
      <4>2. CASE toServer' = Append(toServer, Resend)
        BY <4>2, ResendUnexpected
      <4> QED BY <1>8, <4>1, <4>2
    <3> QED BY <3>1 DEF Agreed
  <2>3. CASE NothingAsked
    <3>1. ~WalkingFailed /\ StepsCount = 0 /\ UnacceptedPacketsCount = 0
      <4>1. StepsNumbered /\ AcceptedFirst /\ StepsCount \in Int
        BY <2>3 DEF NothingAsked, AgreeInv, PendingInOrder, IInv, TypeOK
      <4>2. StepsCount \in 0..StepsCount
        BY <4>1 DEF AcceptedFirst
      <4>3. StepsCount = 0
        BY <2>3, <4>1, <4>2 DEF NothingAsked, StepsNumbered, Number
      <4> QED BY <2>3, <4>1, <4>3 DEF NothingAsked, AcceptedFirst
    <3> QED BY <1>5, <1>9, <3>1 DEF Agreed
  <2>4. CASE InStep /\ WalkingFailed'
    BY <1>9, <2>4 DEF InStep, Agreed
  <2>5. CASE InStep /\ ~WalkingFailed'
    <3>1. toServer' = toServer
      <4>1. ResendPacketSended' = ResendPacketSended
        BY <1>1, <2>5 DEF ConfirmWalk, AcceptStep, RetireFirst, FailWalking
      <4> QED BY <4>1 DEF ClientConfirmed
    <3>2. InStep'
      BY <1>1, <1>3, <2>5, <3>1, ConfirmKeepsStep DEF AgreeInv, InStep
    <3> QED BY <3>2 DEF Agreed
  <2> QED BY <1>2, <2>1, <2>2, <2>3, <2>4, <2>5 DEF AgreeInv, Agreed
<1> QED BY <1>6, <1>7, <1>10 DEF AgreeInv

(* A packet that places the player. *)
LEMMA PlacedAgrees ==
  ASSUME IInv, NetworkOK, AgreeInv, ClientPlaced \/ ClientEntered
  PROVE  AgreeInv'
<1> DEFINE m == Head(toClient)
<1>1. /\ toClient # <<>> /\ m.type # "confirm" /\ toClient' = Tail(toClient)
      /\ UNCHANGED <<server, toServer>> /\ Relocate(m.at, m.dir)
      /\ session' = session \/ session' = "playing"
  BY DEF ClientPlaced, ClientEntered, Arrives, HandleDenyWalk, UpdatePlayer, EnterWorld
<1>2. Connected /\ Connected'
  BY <1>1 DEF AgreeInv, AnswersInOrder, Connected
<1>3. PendingInOrder' /\ NextToConfirm' = 0
  BY <1>1, ResetKeepsOrder DEF Relocate
<1>4. AnswersInOrder'
  BY <1>1, <1>2, <1>3, ReceiveKeepsAnswers DEF AgreeInv, After
<1>5. ~WalkingFailed' /\ WalkSequence' = 0
  BY <1>1 DEF Relocate, Reset
<1>6. Agreed'
  <2>1. /\ Len(toClient) \in Nat \ {0} /\ Len(toClient') = Len(toClient) - 1
        /\ Len(toServer) \in Nat
    BY <1>1, HeadTailProperties, EmptySeq DEF NetworkOK
  <2>2. CASE Len(toClient') + Len(toServer') > 0
    BY <1>5, <2>2, <2>1 DEF Agreed, NothingAsked, InFlight
  <2>3. CASE ~(Len(toClient') + Len(toServer') > 0)
    <3>1. Len(toClient) = 1 /\ Len(toServer) = 0
      BY <1>1, <2>1, <2>3
    <3>2. toServer = <<>>
      BY <3>1, EmptySeq DEF NetworkOK
    <3>3. InStep'
      BY <1>1, <1>2, <3>1, <3>2, PlacedInStep DEF AgreeInv, AnswersInOrder
    <3> QED BY <3>3 DEF Agreed
  <2> QED BY <2>2, <2>3
<1> QED BY <1>3, <1>4, <1>6 DEF AgreeInv

LEMMA ReloginAgrees ==
  ASSUME NetworkOK, AgreeInv, Relogin
  PROVE  AgreeInv'
<1>1. PendingInOrder'
  BY ResetKeepsOrder DEF Relogin, ClearWorld
<1>2. /\ toClient' = <<Enter(server)>> /\ session' = "entering"
      /\ server' = [server EXCEPT !.expected = 0]
  BY DEF Relogin
<1>3. /\ Len(toClient') = 1 /\ toClient'[1] = Enter(server) /\ toClient' # <<>>
      /\ Enter(server).type # "confirm"
      /\ Enter(server).at = server.at /\ Enter(server).dir = server.dir
  BY <1>2 DEF Enter
<1>4. server'.expected = 0 /\ server'.at = server.at /\ server'.dir = server.dir
  BY <1>2 DEF NetworkOK
<1>5. AnswersInOrder'
  BY <1>2, <1>3, <1>4
     DEF AnswersInOrder, Connected, ConfirmsFollow, LastSent, FirstReceived, After
<1>6. PlacingUnderWay'
  BY <1>3 DEF PlacingUnderWay
<1> QED BY <1>1, <1>5, <1>6 DEF AgreeInv, Agreed

LEMMA LoseAgrees ==
  ASSUME AgreeInv, LoseConnection
  PROVE  AgreeInv'
<1>1. UNCHANGED <<WalkingFailed, StepsCount, m_Step, UnacceptedPacketsCount,
                  WalkSequence, CurrentWalkSequence>>
  BY DEF LoseConnection, vars, walker
<1>2. PendingInOrder'
  BY <1>1 DEF AgreeInv, PendingInOrder, StepsNumbered, AcceptedFirst, Number,
              FirstUnaccepted
<1>3. ~Connected' /\ toClient' = <<>> /\ toServer' = <<>>
  BY DEF LoseConnection, Connected
<1> QED BY <1>2, <1>3 DEF AgreeInv, AnswersInOrder, Agreed

LEMMA ServerAgrees ==
  ASSUME IInv, NetworkOK, NetworkOK', AgreeInv, ServerReceive \/ ServerMovesPlayer
  PROVE  AgreeInv'
<1>1. UNCHANGED <<vars, session>>
  BY DEF ServerReceive, ServerMovesPlayer
<1>2. UNCHANGED <<WalkingFailed, StepsCount, m_Step, UnacceptedPacketsCount,
                  WalkSequence, CurrentWalkSequence>>
  BY <1>1 DEF vars, walker
<1>3. PendingInOrder' /\ NextToConfirm' = NextToConfirm
  BY <1>2 DEF AgreeInv, PendingInOrder, StepsNumbered, AcceptedFirst, Number,
              FirstUnaccepted, NextToConfirm
<1>4. Connected /\ Connected'
  BY <1>1 DEF AgreeInv, AnswersInOrder, Connected, ServerReceive, ServerMovesPlayer
<1>5. ASSUME NEW p \in Packets, toClient' = Append(toClient, p), p.type # "confirm",
             server'.expected = 0, p.at = server'.at, p.dir = server'.dir
      PROVE  AgreeInv'
  <2>1. AnswersInOrder'
    BY <1>2, <1>3, <1>4, <1>5, SendKeepsAnswers DEF AgreeInv, After
  <2>2. PlacingUnderWay'
    BY <1>5, SendPlacing
  <2> QED BY <1>3, <2>1, <2>2 DEF AgreeInv, Agreed
<1>6. CASE ServerMovesPlayer
  <2>1. /\ server'.expected = 0 /\ server'.at \in Tiles /\ server'.dir \in Headings
        /\ toClient' = Append(toClient, Update(server'))
    BY <1>6 DEF ServerMovesPlayer
  <2> QED BY <1>5, <2>1 DEF Update, Packets
<1>7. CASE ServerReceive
  <2> DEFINE m == Head(toServer)
  <2>1. /\ toServer # <<>> /\ toServer' = Tail(toServer) /\ m \in Requests
        /\ server \in [at : Tiles, dir : Headings, expected : Sequences]
    BY <1>7, HeadTailProperties DEF ServerReceive, NetworkOK
  <2>2. CASE /\ server' = [server EXCEPT !.expected = 0]
             /\ toClient' = Append(toClient, Deny(server)) \/ toClient' = Append(toClient, Update(server))
    <3>1. server'.expected = 0 /\ server'.at = server.at /\ server'.dir = server.dir
      BY <2>1, <2>2
    <3>2. /\ Deny(server) \in Packets /\ Deny(server).type # "confirm"
          /\ Deny(server).at = server.at /\ Deny(server).dir = server.dir
      BY <2>1 DEF Deny, Packets
    <3>3. /\ Update(server) \in Packets /\ Update(server).type # "confirm"
          /\ Update(server).at = server.at /\ Update(server).dir = server.dir
      BY <2>1 DEF Update, Packets
    <3> QED BY <1>5, <2>2, <3>1, <3>2, <3>3
  <2>3. CASE m.type = "walk" /\ ServerGrant
    <3>1. m \in [type : {"walk"}, dir : Headings, seq : Sequences]
      BY <2>1, <2>3 DEF Requests
    <3> DEFINE p == Confirm(m.seq)
    <3>2. /\ p \in Packets /\ p.type = "confirm" /\ p.seq = m.seq
      BY <3>1 DEF Confirm, Packets
    <3>3. /\ toClient' = Append(toClient, p) /\ m.seq = server.expected
          /\ server'.expected = ServerNext(m.seq)
      BY <2>3 DEF ServerGrant
    <3> HIDE DEF p
    <3>4. AnswersInOrder'
      BY <1>2, <1>3, <1>4, <3>2, <3>3, SendKeepsAnswers DEF AgreeInv, After
    <3>5. Agreed'
      <4>1. CASE PlacingUnderWay
        BY <3>2, <3>3, <4>1, SendPlacing DEF Agreed
      <4>2. CASE ~RequestsExpected
        <5>1. /\ m = toServer[1] /\ Len(toServer') = Len(toServer) - 1
              /\ Len(toServer) \in Nat \ {0}
              /\ \A i \in 1..Len(toServer) - 1 : toServer'[i] = toServer[i + 1]
          BY <2>1, HeadTailProperties, EmptySeq DEF NetworkOK
        <5>2. PICK k \in 1..Len(toServer) :
                ~(/\ toServer[k].type = "walk"
                  /\ toServer[k].seq = IF k = 1 THEN server.expected
                                                ELSE ServerNext(toServer[k - 1].seq))
          BY <4>2 DEF RequestsExpected
        <5>3. k # 1
          BY <2>3, <3>3, <5>1, <5>2
        <5>4. /\ k - 1 \in 1..Len(toServer') /\ toServer'[k - 1] = toServer[k]
              /\ k - 1 # 1 => toServer'[(k - 1) - 1] = toServer[k - 1]
              /\ k - 1 = 1 => toServer[k - 1] = m
          BY <5>1, <5>2, <5>3
        <5>5. ~RequestsExpected'
          BY <3>3, <5>2, <5>3, <5>4 DEF RequestsExpected, ServerNext
        <5> QED BY <5>5 DEF Agreed
      <4>3. CASE NothingAsked
        <5>1. Len(toClient') = Len(toClient) + 1 /\ Len(toClient) \in Nat
          BY <3>2, <3>3, AppendProperties DEF NetworkOK
        <5>2. Len(toServer') \in Nat
          BY DEF NetworkOK
        <5> QED BY <1>2, <4>3, <5>1, <5>2 DEF NothingAsked, InFlight, Agreed
      <4>4. CASE InStep
        <5>1. InStep'
          BY <1>1, <2>1, <2>3, <3>1, <4>4, GrantKeepsStep
        <5> QED BY <5>1 DEF Agreed
      <4> QED BY <1>4, <4>1, <4>2, <4>3, <4>4 DEF AgreeInv, Agreed
    <3> QED BY <1>3, <3>4, <3>5 DEF AgreeInv
  <2> QED BY <1>7, <2>2, <2>3 DEF ServerReceive, ServerRefuse
<1> QED BY <1>6, <1>7

LEMMA AgreeNext ==
  ASSUME IInv, NetworkOK, NetworkOK', RecoveryInv, AgreeInv, [ProtocolNext]_protocolVars
  PROVE  AgreeInv'
<1>1. CASE \E d \in Headings : ClientWalk(d)
  BY <1>1, WalkAgrees
<1>2. CASE ClientAnimate
  BY <1>2, AnimateAgrees
<1>3. CASE ClientConfirmed
  BY <1>3, ConfirmAgrees
<1>4. CASE ClientPlaced \/ ClientEntered
  BY <1>4, PlacedAgrees
<1>5. CASE Relogin
  BY <1>5, ReloginAgrees
<1>6. CASE LoseConnection
  BY <1>6, LoseAgrees
<1>7. CASE ServerReceive \/ ServerMovesPlayer
  BY <1>7, ServerAgrees
<1>8. CASE UNCHANGED protocolVars
  <2>1. UNCHANGED <<toServer, toClient, server, session, m_Step, StepsCount, WalkSequence,
                    CurrentWalkSequence, UnacceptedPacketsCount, WalkingFailed,
                    m_Steps, at, Direction, RemoveRange>>
    BY <1>8 DEF protocolVars, vars, walker, player
  <2>2. PendingInOrder' /\ NextToConfirm' = NextToConfirm
    BY <2>1 DEF AgreeInv, PendingInOrder, StepsNumbered, AcceptedFirst, Number,
                FirstUnaccepted, NextToConfirm
  <2>3. AnswersInOrder'
    BY <2>1, <2>2
       DEF AgreeInv, AnswersInOrder, Connected, ConfirmsFollow, LastSent, FirstReceived
  <2>4. Agreed'
    <3>1. \A i : Requested(i)' = Requested(i)
      BY <2>1 DEF Requested, LastStep
    <3>2. Predicted' = Predicted /\ InFlight' = InFlight
      BY <2>1 DEF Predicted, InFlight
    <3>3. Requested(Len(toServer))' = Requested(Len(toServer))
      BY <2>1 DEF Requested, LastStep
    <3>4. LastStep(Len(toServer) + 1)' = LastStep(Len(toServer) + 1)
      BY <2>1 DEF LastStep
    <3>5. InStep => InStep'
      <4> SUFFICES ASSUME InStep PROVE InStep'
        OBVIOUS
      <4>1. \A i \in 1..Len(toServer) : Requested(i)' = StepFrom(Requested(i - 1)', toServer[i].dir)
        BY <3>1 DEF InStep
      <4> QED BY <2>1, <3>2, <3>3, <3>4, <4>1 DEF InStep
    <3>6. PlacingUnderWay' = PlacingUnderWay /\ RequestsExpected' = RequestsExpected
      BY <2>1 DEF PlacingUnderWay, RequestsExpected
    <3> QED BY <2>1, <3>2, <3>5, <3>6 DEF AgreeInv, Agreed, Connected, NothingAsked
  <2> QED BY <2>2, <2>3, <2>4 DEF AgreeInv
<1> QED BY <1>1, <1>2, <1>3, <1>4, <1>5, <1>6, <1>7, <1>8 DEF ProtocolNext, ClientReceive

LEMMA AgreeCorrect == ProtocolSpec => []AgreeInv
<1>1. ProtocolInit => AgreeInv
  BY AgreeInit
<1>2. /\ IInv /\ NetworkOK /\ NetworkOK' /\ RecoveryInv /\ AgreeInv
      /\ [ProtocolNext]_protocolVars
      => AgreeInv'
  BY AgreeNext
<1> QED BY <1>1, <1>2, NetworkCorrect, RecoveryCorrect, PTL DEF ProtocolSpec

LEMMA SettledInStep ==
  ASSUME NetworkOK, AgreeInv, Settled
  PROVE  InStep /\ Len(toClient) = 0 /\ Len(toServer) = 0
<1>1. Connected /\ toClient = <<>> /\ toServer = <<>>
      /\ Len(toClient) = 0 /\ Len(toServer) = 0
  BY EmptySeq DEF Settled, Connected
<1>2. ~PlacingUnderWay /\ RequestsExpected
  BY <1>1 DEF PlacingUnderWay, RequestsExpected
<1>3. ~NothingAsked
  BY <1>1 DEF NothingAsked, InFlight
<1> QED BY <1>1, <1>2, <1>3 DEF AgreeInv, Agreed

(* Whenever nothing is under way the client's steps end exactly where the  *)
(* server holds the player, and no confirmation is missing: no sequence of *)
(* denials, placements, resends, stale requests and reconnections makes    *)
(* the two disagree for good.                                              *)
THEOREM SettledPositionHolds == ProtocolSpec => []SettledPosition
<1>1. NetworkOK /\ AgreeInv => SettledPosition
  <2> SUFFICES ASSUME NetworkOK, AgreeInv, Settled
               PROVE  /\ Predicted.at = server.at /\ Predicted.dir = server.dir
                      /\ UnacceptedPacketsCount = 0
    BY DEF SettledPosition
  <2>1. InStep /\ Len(toClient) = 0 /\ Len(toServer) = 0
    BY SettledInStep
  <2> QED BY <2>1 DEF InStep, Requested
<1> QED BY <1>1, NetworkCorrect, AgreeCorrect, PTL

(* The centre from which far objects are removed is then the tile where    *)
(* the server holds the player.                                            *)
THEOREM SettledRangeHolds == ProtocolSpec => []SettledRange
<1>1. NetworkOK /\ AgreeInv => SettledRange
  <2> SUFFICES ASSUME NetworkOK, AgreeInv, Settled
               PROVE  RemoveRange = server.at
    BY DEF SettledRange
  <2>1. InStep
    BY SettledInStep
  <2> QED BY <2>1 DEF InStep, Settled
<1> QED BY <1>1, NetworkCorrect, AgreeCorrect, PTL

-----------------------------------------------------------------------------
(* Walking without interference                                            *)

(* The client's next number is the one the server will expect. *)
NextRequest ==
  WalkSequence = IF toServer = <<>> THEN server.expected
                 ELSE ServerNext(toServer[Len(toServer)].seq)

SmoothInv ==
  /\ session = "playing" /\ ~PlacingUnderWay
  /\ RequestsExpected /\ NextRequest /\ InStep

LEMMA SmoothInit == ProtocolInit => SmoothInv
<1> SUFFICES ASSUME ProtocolInit PROVE SmoothInv
  OBVIOUS
<1>1. /\ toClient = <<>> /\ toServer = <<>> /\ Len(toClient) = 0 /\ Len(toServer) = 0
      /\ session = "playing" /\ m_Steps = <<>> /\ RemoveRange = at
      /\ WalkSequence = 0 /\ ~WalkingFailed /\ UnacceptedPacketsCount = 0
      /\ server = [at |-> at, dir |-> Direction, expected |-> 0]
  BY EmptySeq DEF ProtocolInit, Init
<1>2. InStep
  BY <1>1 DEF InStep, Requested, Predicted
<1> QED BY <1>1, <1>2 DEF SmoothInv, PlacingUnderWay, RequestsExpected, NextRequest

LEMMA SmoothWalk ==
  ASSUME IInv, NetworkOK, AgreeInv, SmoothInv, NEW d \in Headings, ClientWalk(d)
  PROVE  SmoothInv'
<1> DEFINE r == Request(m_Steps'[Len(m_Steps')].dir, WalkSequence)
           n == Len(toServer)
<1>1. /\ Walk(d) /\ session = "playing" /\ session' = session
      /\ UNCHANGED <<toClient, server>> /\ toServer' = Append(toServer, r)
  BY DEF ClientWalk, SmoothInv
<1>2. m_Steps'[Len(m_Steps')].dir \in Headings
  BY <1>1, WalkPredicts DEF IInv, WalkData
<1>3. r \in Requests /\ r.type = "walk" /\ r.seq = WalkSequence
  BY <1>2 DEF Request, Requests, IInv, TypeOK
<1>4. /\ n \in Nat /\ Len(toServer') = n + 1 /\ toServer' # <<>>
      /\ \A i \in 1..n : toServer'[i] = toServer[i]
      /\ toServer'[n + 1] = r
      /\ toServer = <<>> <=> n = 0
  BY <1>1, <1>3, AppendProperties, EmptySeq DEF NetworkOK
<1>5. InStep'
  BY <1>1, WalkKeepsStep DEF AgreeInv, SmoothInv, Connected
<1> HIDE DEF r, n
<1>6. RequestsExpected'
  <2> SUFFICES ASSUME NEW k \in 1..n + 1
               PROVE  /\ toServer'[k].type = "walk"
                      /\ toServer'[k].seq = IF k = 1 THEN server'.expected
                                            ELSE ServerNext(toServer'[k - 1].seq)
    BY <1>4 DEF RequestsExpected, ServerNext
  <2>1. CASE k = n + 1
    <3>1. CASE n = 0
      BY <1>1, <1>3, <1>4, <2>1, <3>1 DEF SmoothInv, NextRequest
    <3>2. CASE n # 0
      <4>1. k # 1 /\ k - 1 = n /\ n \in 1..n
        BY <1>4, <2>1, <3>2
      <4> QED BY <1>1, <1>3, <1>4, <2>1, <3>2, <4>1 DEF SmoothInv, NextRequest, n
    <3> QED BY <3>1, <3>2
  <2>2. CASE k \in 1..n
    <3>1. k # 1 => k - 1 \in 1..n
      BY <1>4, <2>2
    <3> QED BY <1>1, <1>4, <2>2, <3>1 DEF SmoothInv, RequestsExpected, n
  <2> QED BY <1>4, <2>1, <2>2
<1>7. NextRequest'
  <2>1. WalkSequence' = ServerNext(WalkSequence)
    BY <1>1 DEF Walk, PushStep, NextSequence, ServerNext
  <2> QED BY <1>3, <1>4, <2>1 DEF NextRequest, ServerNext
<1> QED BY <1>1, <1>5, <1>6, <1>7 DEF SmoothInv, PlacingUnderWay

LEMMA SmoothConfirm ==
  ASSUME IInv, NetworkOK, RecoveryInv, AgreeInv, SmoothInv, ClientConfirmed
  PROVE  SmoothInv'
<1> DEFINE m == Head(toClient)
<1>1. /\ toClient # <<>> /\ m.type = "confirm" /\ toClient' = Tail(toClient)
      /\ server' = server /\ session' = session /\ ConfirmWalk(m.seq)
      /\ m = toClient[1] /\ Len(toClient') = Len(toClient) - 1 /\ Len(toClient) \in Nat
      /\ \A i \in 1..Len(toClient) - 1 : toClient'[i] = toClient[i + 1]
  BY HeadTailProperties DEF ClientConfirmed, Arrives, NetworkOK
<1>2. Connected /\ ~WalkingFailed
  BY DEF SmoothInv, Connected, InStep
<1>3. m.seq = NextToConfirm
  BY <1>1, <1>2 DEF AgreeInv, AnswersInOrder, FirstReceived
<1>4. ~WalkingFailed'
  <2>1. UnacceptedPacketsCount > 0
    <3>1. Len(toClient) # 0 /\ Len(toServer) \in Nat
      BY <1>1, EmptySeq DEF NetworkOK
    <3> QED BY <1>1, <3>1 DEF SmoothInv, InStep
  <2> QED BY <1>1, <1>2, <1>3, <2>1, ConfirmKeepsOrder DEF AgreeInv
<1>5. toServer' = toServer /\ WalkSequence' = WalkSequence
  <2>1. ResendPacketSended' = ResendPacketSended /\ WalkSequence' = WalkSequence
    BY <1>1, <1>4 DEF ConfirmWalk, AcceptStep, RetireFirst, FailWalking
  <2> QED BY <2>1 DEF ClientConfirmed
<1>6. InStep'
  BY <1>1, <1>3, <1>5, ConfirmKeepsStep DEF AgreeInv, SmoothInv
<1>7. ~PlacingUnderWay'
  <2>1. \A i \in 1..Len(toClient) - 1 : i + 1 \in 1..Len(toClient)
    BY <1>1
  <2> QED BY <1>1, <2>1 DEF SmoothInv, PlacingUnderWay
<1>8. RequestsExpected' /\ NextRequest'
  BY <1>1, <1>5 DEF SmoothInv, RequestsExpected, NextRequest, ServerNext
<1> QED BY <1>1, <1>6, <1>7, <1>8 DEF SmoothInv

(* The server grants every request: it expects its number, and the client  *)
(* has recorded a tile of the map for it.                                  *)
LEMMA SmoothServer ==
  ASSUME ~Interference, IInv, NetworkOK, AgreeInv, SmoothInv, ServerReceive
  PROVE  SmoothInv'
<1> DEFINE m == Head(toServer)
           n == Len(toServer)
<1>1. /\ toServer # <<>> /\ toServer' = Tail(toServer) /\ m \in Requests
      /\ m = toServer[1] /\ Len(toServer') = n - 1 /\ n \in Nat \ {0}
      /\ \A i \in 1..n - 1 : toServer'[i] = toServer[i + 1]
      /\ UNCHANGED <<vars, session>> /\ WalkSequence' = WalkSequence
      /\ toServer' \in Seq(Requests)
  BY HeadTailProperties, EmptySeq DEF ServerReceive, NetworkOK, vars, walker
<1>2. m.type = "walk" /\ m.seq = server.expected
  <2>1. 1 \in 1..Len(toServer)
    BY <1>1
  <2> QED BY <1>1, <2>1 DEF SmoothInv, RequestsExpected
<1>3. m \in [type : {"walk"}, dir : Headings, seq : Sequences]
  BY <1>1, <1>2 DEF Requests
<1>4. ServerStep(m.dir) \in Tiles
  <2>1. Requested(1) = StepFrom(Requested(0), m.dir)
    <3>1. 1 \in 1..Len(toServer) /\ 1 - 1 = 0
      BY <1>1
    <3> QED BY <1>1, <3>1 DEF SmoothInv, InStep
  <2>2. Requested(1).at = ServerStep(m.dir)
    BY <2>1 DEF StepFrom, Requested, ServerStep
  <2>3. Requested(1).at = LastStep(n).at
    <3>1. Len(toServer) + 1 - 1 = n
      BY <1>1
    <3> QED BY <3>1 DEF Requested
  <2>4. LastStep(n).at \in Tiles
    <3>1. UnacceptedPacketsCount \in 0..StepsCount /\ ~WalkingFailed
      BY DEF SmoothInv, InStep, AgreeInv, PendingInOrder, AcceptedFirst
    <3>2. StepsCount - n \in Slots
      <4>1. Len(toClient) \in Nat /\ UnacceptedPacketsCount = Len(toClient) + n
        BY DEF SmoothInv, InStep, NetworkOK
      <4>2. StepsCount \in Int /\ StepsCount <= MaxSteps
        BY DEF IInv, TypeOK
      <4> HIDE DEF n
      <4> QED BY <1>1, <3>1, <4>1, <4>2 DEF Slots
    <3> QED BY <3>2 DEF LastStep, IInv, TypeOK, StepInfo
  <2> QED BY <2>2, <2>3, <2>4
<1>5. ServerGrant
  BY <1>2, <1>4 DEF ServerReceive, ServerRefuse
<1>6. InStep'
  BY <1>1, <1>3, <1>5, GrantKeepsStep DEF SmoothInv
<1>7. server'.expected = ServerNext(m.seq) /\ toClient' = Append(toClient, Confirm(m.seq))
  BY <1>5 DEF ServerGrant
<1> HIDE DEF n, m
<1>8. ~PlacingUnderWay'
  <2>1. Confirm(m.seq) \in Packets /\ Confirm(m.seq).type = "confirm"
    BY <1>3 DEF Confirm, Packets
  <2>2. /\ Len(toClient') = Len(toClient) + 1 /\ Len(toClient) \in Nat
        /\ \A i \in 1..Len(toClient) : toClient'[i] = toClient[i]
        /\ toClient'[Len(toClient) + 1] = Confirm(m.seq)
    BY <1>7, <2>1, AppendProperties DEF NetworkOK
  <2> QED BY <2>1, <2>2 DEF SmoothInv, PlacingUnderWay
<1>9. RequestsExpected'
  <2> SUFFICES ASSUME NEW k \in 1..n - 1
               PROVE  /\ toServer'[k].type = "walk"
                      /\ toServer'[k].seq = IF k = 1 THEN server'.expected
                                            ELSE ServerNext(toServer'[k - 1].seq)
    BY <1>1 DEF RequestsExpected, ServerNext
  <2>1. /\ k + 1 \in 1..n /\ k + 1 # 1 /\ (k + 1) - 1 = k
        /\ k # 1 => k - 1 \in 1..n - 1 /\ (k - 1) + 1 = k
    BY <1>1
  <2>2. toServer[k + 1].type = "walk" /\ toServer[k + 1].seq = ServerNext(toServer[k].seq)
    BY <2>1 DEF SmoothInv, RequestsExpected, n
  <2> QED BY <1>1, <1>7, <2>1, <2>2
<1>10. NextRequest'
  <2>1. WalkSequence = ServerNext(toServer[n].seq)
    BY <1>1 DEF SmoothInv, NextRequest, n
  <2>2. CASE n = 1
    <3>1. toServer' = <<>>
      <4>1. Len(toServer') = 0
        BY <1>1, <2>2
      <4> QED BY <1>1, <4>1, EmptySeq
    <3> QED BY <1>1, <1>7, <2>1, <2>2, <3>1 DEF NextRequest
  <2>3. CASE n # 1
    <3>1. n - 1 \in 1..n - 1 /\ (n - 1) + 1 = n /\ Len(toServer') # 0
      BY <1>1, <2>3
    <3>2. toServer' # <<>>
      BY <3>1, EmptySeq
    <3>3. toServer'[Len(toServer')] = toServer[n]
      BY <1>1, <3>1
    <3> QED BY <1>1, <2>1, <3>2, <3>3 DEF NextRequest, ServerNext
  <2> QED BY <2>2, <2>3
<1> QED BY <1>1, <1>6, <1>8, <1>9, <1>10 DEF SmoothInv

LEMMA SmoothNext ==
  ASSUME ~Interference, IInv, NetworkOK, RecoveryInv, AgreeInv, SmoothInv,
         [ProtocolNext]_protocolVars
  PROVE  SmoothInv'
<1>1. CASE \E d \in Headings : ClientWalk(d)
  BY <1>1, SmoothWalk
<1>2. CASE ClientAnimate
  <2>1. /\ UpdateAnimationInfo /\ WalkSequence' = WalkSequence
        /\ UNCHANGED <<toServer, toClient, server, session>>
    BY <1>2 DEF ClientAnimate, UpdateAnimationInfo
  <2>2. InStep'
    BY <2>1, AnimateKeepsStep DEF AgreeInv, SmoothInv
  <2> QED
    BY <2>1, <2>2 DEF SmoothInv, PlacingUnderWay, RequestsExpected, NextRequest, ServerNext
<1>3. CASE ClientConfirmed
  BY <1>3, SmoothConfirm
<1>4. ~ClientPlaced /\ ~ClientEntered
  <2>1. toClient # <<>> => Head(toClient).type = "confirm"
    <3> SUFFICES ASSUME toClient # <<>> PROVE Head(toClient).type = "confirm"
      OBVIOUS
    <3>1. 1 \in 1..Len(toClient) /\ Head(toClient) = toClient[1]
      BY HeadTailProperties, EmptySeq DEF NetworkOK
    <3> QED BY <3>1 DEF SmoothInv, PlacingUnderWay
  <2> QED BY <2>1 DEF ClientPlaced, ClientEntered, Arrives
<1>5. ~Relogin /\ ~LoseConnection /\ ~ServerMovesPlayer
  BY DEF Relogin, LoseConnection, ServerMovesPlayer
<1>6. CASE ServerReceive
  BY <1>6, SmoothServer
<1>7. CASE UNCHANGED protocolVars
  <2>1. UNCHANGED <<toServer, toClient, server, session, m_Step, StepsCount, WalkSequence,
                    UnacceptedPacketsCount, WalkingFailed, m_Steps, at, Direction, RemoveRange>>
    BY <1>7 DEF protocolVars, vars, walker, player
  <2>2. \A i : Requested(i)' = Requested(i)
    BY <2>1 DEF Requested, LastStep
  <2>3. /\ Predicted' = Predicted
        /\ Requested(Len(toServer))' = Requested(Len(toServer))
        /\ LastStep(Len(toServer) + 1)' = LastStep(Len(toServer) + 1)
    BY <2>1 DEF Predicted, Requested, LastStep
  <2>4. \A i \in 1..Len(toServer) : Requested(i)' = StepFrom(Requested(i - 1)', toServer[i].dir)
    BY <2>2 DEF SmoothInv, InStep
  <2>5. InStep'
    BY <2>1, <2>3, <2>4 DEF SmoothInv, InStep
  <2> QED
    BY <2>1, <2>5 DEF SmoothInv, PlacingUnderWay, RequestsExpected, NextRequest, ServerNext
<1> QED
  BY <1>1, <1>2, <1>3, <1>4, <1>5, <1>6, <1>7 DEF ProtocolNext, ClientReceive

(* With a server that refuses only what it does not expect, no             *)
(* interleaving of walking, animation and confirmations and no wrap of the *)
(* numbers makes a walk fail or a step be denied, however long the window. *)
THEOREM SmoothWalkingHolds == ProtocolSpec => []SmoothWalking
<1>1. CASE Interference
  <2>1. SmoothWalking
    BY <1>1 DEF SmoothWalking
  <2> QED BY <2>1, PTL
<1>2. CASE ~Interference
  <2>1. ProtocolInit => SmoothInv
    BY SmoothInit
  <2>2. /\ IInv /\ NetworkOK /\ RecoveryInv /\ AgreeInv /\ SmoothInv
        /\ [ProtocolNext]_protocolVars
        => SmoothInv'
    BY <1>2, SmoothNext
  <2>3. SmoothInv => SmoothWalking
    BY DEF SmoothInv, SmoothWalking, InStep, Occurs, PlacingUnderWay
  <2> QED
    BY <2>1, <2>2, <2>3, NetworkCorrect, RecoveryCorrect, AgreeCorrect, PTL DEF ProtocolSpec
<1> QED BY <1>1, <1>2

-----------------------------------------------------------------------------
(* The array implements the two queues of WalkWindow                       *)

(* The indexes of an interval in increasing order. *)
LEMMA AscendingInterval ==
  ASSUME NEW a \in Int, NEW n \in Nat
  PROVE  /\ Cardinality(a..a + n - 1) = n
         /\ \A k \in 1..n : Ascending(a..a + n - 1)[k] = a + k - 1
<1> DEFINE indexes == a..a + n - 1
           place(i) == Cardinality({j \in indexes : j < i})
<1>1. Cardinality(indexes) = n
  BY FS_Interval
<1>2. ASSUME NEW i \in indexes
      PROVE  place(i) = i - a
  <2>1. {j \in indexes : j < i} = a..i - 1
    OBVIOUS
  <2>2. Cardinality(a..i - 1) = i - a
    <3>1. i - 1 \in Int /\ (a > i - 1 <=> i = a)
      OBVIOUS
    <3> QED BY <3>1, FS_Interval
  <2> QED BY <2>1, <2>2
<1>3. ASSUME NEW k \in 1..n
      PROVE  Ascending(indexes)[k] = a + k - 1
  <2>1. a + k - 1 \in indexes /\ place(a + k - 1) = k - 1
    BY <1>2
  <2>2. \A i \in indexes : place(i) = k - 1 => i = a + k - 1
    BY <1>2
  <2> HIDE DEF place
  <2>3. (CHOOSE i \in indexes : place(i) = k - 1) = a + k - 1
    BY <2>1, <2>2
  <2>4. Ascending(indexes)[k] = CHOOSE i \in indexes : place(i) = k - 1
    BY <1>1 DEF Ascending, place
  <2> QED BY <2>3, <2>4
<1> QED BY <1>1, <1>3

(* q holds the numbers of the last n pending steps. *)
EndsWith(q, n) ==
  /\ n \in 0..StepsCount
  /\ q \in Seq(Sequences) /\ Len(q) = n
  /\ \A k \in 1..n : q[k] = LastStep(n + 1 - k).Sequence

(* The steps to show are the last ones, and so are the ones to confirm. *)
WindowInv ==
  ~WalkingFailed =>
    EndsWith(ToShow, Len(m_Steps)) /\ EndsWith(ToConfirm, UnacceptedPacketsCount)

LEMMA NumbersOfInterval ==
  ASSUME TypeOK, NEW n \in 0..StepsCount
  PROVE  EndsWith(Numbers(StepsCount - n..StepsCount - 1), n)
<1> DEFINE a == StepsCount - n
           q == [k \in 1..n |-> LastStep(n + 1 - k).Sequence]
<1>1. StepsCount \in 0..MaxSteps /\ n \in Nat /\ a \in Int /\ a + n - 1 = StepsCount - 1
  BY DEF TypeOK
<1>2. \A k \in 1..n : a + k - 1 = StepsCount - (n + 1 - k)
  BY <1>1
<1>3. q \in Seq(Sequences) /\ Len(q) = n
  <2>1. \A k \in 1..n : LastStep(n + 1 - k) \in StepInfo
    BY <1>1 DEF LastStep, TypeOK, Slots
  <2>2. q \in [1..n -> Sequences]
    BY <2>1 DEF StepInfo
  <2> HIDE DEF q
  <2> QED BY <1>1, <2>2, SeqDef, LenProperties
<1> HIDE DEF a
<1>4. /\ Cardinality(a..a + n - 1) = n
      /\ \A k \in 1..n : Ascending(a..a + n - 1)[k] = a + k - 1
  BY <1>1, AscendingInterval
<1>5. /\ Cardinality(a..StepsCount - 1) = n
      /\ \A k \in 1..n : Ascending(a..StepsCount - 1)[k] = StepsCount - (n + 1 - k)
  BY <1>1, <1>2, <1>4
<1>6. Numbers(a..StepsCount - 1) = q
  BY <1>5 DEF Numbers, LastStep
<1> QED BY <1>3, <1>6 DEF EndsWith, a

LEMMA WindowQueues ==
  ASSUME IInv, PendingInOrder
  PROVE  WindowInv
<1> SUFFICES ASSUME ~WalkingFailed
             PROVE  EndsWith(ToShow, Len(m_Steps)) /\ EndsWith(ToConfirm, UnacceptedPacketsCount)
  BY DEF WindowInv
<1>1. /\ StepsCount \in 0..MaxSteps /\ CurrentWalkSequence \in Nat
      /\ UnacceptedPacketsCount \in 0..StepsCount
      /\ \A i \in 0..StepsCount - 1 : m_Step[i].Accepted <=> i < FirstUnaccepted
      /\ CurrentWalkSequence = StepsCount - Len(m_Steps)
      /\ Len(m_Steps) \in 0..StepsCount
      /\ TypeOK
  BY DEF PendingInOrder, AcceptedFirst, IInv, TypeOK, StepLedger, LedgerAgrees
<1>2. Undisplayed = StepsCount - Len(m_Steps)..StepsCount - 1
  BY <1>1 DEF Undisplayed
<1>3. Unconfirmed = StepsCount - UnacceptedPacketsCount..StepsCount - 1
  BY <1>1 DEF Unconfirmed, FirstUnaccepted
<1>4. EndsWith(ToShow, Len(m_Steps))
  BY <1>1, <1>2, NumbersOfInterval DEF ToShow
<1>5. EndsWith(ToConfirm, UnacceptedPacketsCount)
  BY <1>1, <1>3, NumbersOfInterval DEF ToConfirm
<1> QED BY <1>4, <1>5

LEMMA AppendEqual ==
  ASSUME NEW S, NEW q \in Seq(S), NEW x \in S, NEW r \in Seq(S),
         Len(r) = Len(q) + 1, r[Len(q) + 1] = x, \A k \in 1..Len(q) : r[k] = q[k]
  PROVE  r = Append(q, x)
<1>1. /\ Append(q, x) \in Seq(S) /\ Len(Append(q, x)) = Len(q) + 1 /\ Len(q) \in Nat
      /\ Append(q, x)[Len(q) + 1] = x /\ \A k \in 1..Len(q) : Append(q, x)[k] = q[k]
  BY AppendProperties
<1>2. \A k \in 1..Len(r) : r[k] = Append(q, x)[k]
  BY <1>1
<1> QED BY <1>1, <1>2, SeqEqual

LEMMA TailEqual ==
  ASSUME NEW S, NEW q \in Seq(S), q # <<>>, NEW r \in Seq(S),
         Len(r) = Len(q) - 1, \A k \in 1..Len(r) : r[k] = q[k + 1]
  PROVE  r = Tail(q)
BY HeadTailProperties, SeqEqual

(* A step asked for joins both queues, with the next number. *)
LEMMA WalkRequests ==
  ASSUME IInv, PendingInOrder, WindowInv, WindowInv', NEW d \in Headings, Walk(d)
  PROVE  Window!Request
<1> DEFINE s == Len(m_Steps)
           u == UnacceptedPacketsCount
<1>1. /\ ~WalkingFailed /\ ~WalkingFailed'
      /\ StepsCount \in 0..MaxSteps - 1 /\ StepsCount' = StepsCount + 1
      /\ StepsCount \in Slots
      /\ s \in Nat /\ Len(m_Steps') = s + 1
      /\ WalkSequence \in Sequences /\ WalkSequence' = NextSequence(WalkSequence)
      /\ UnacceptedPacketsCount' = u + 1
      /\ m_Step'[StepsCount].Sequence = WalkSequence
  BY DEF Walk, WalkGuard, PushStep, IInv, TypeOK, StepLedger, LedgerAgrees, Slots
<1>2. \A k \in 1..StepsCount : LastStep(k + 1)' = LastStep(k)
  BY WalkKeepsOrder
<1>3. LastStep(1)'.Sequence = WalkSequence
  BY <1>1 DEF LastStep, Slots
<1>4. /\ EndsWith(ToShow, s) /\ EndsWith(ToConfirm, u)
      /\ EndsWith(ToShow, s)' /\ EndsWith(ToConfirm, u)'
  BY <1>1 DEF WindowInv
<1>5. ToShow' = Append(ToShow, WalkSequence)
  <2>1. ASSUME NEW k \in 1..s
        PROVE  ToShow'[k] = ToShow[k]
    <3>1. /\ s + 1 - k \in 1..StepsCount /\ (s + 1) + 1 - k = (s + 1 - k) + 1
          /\ k \in 1..s + 1
      BY <1>1, <1>4 DEF EndsWith
    <3>2. ToShow'[k] = m_Step'[StepsCount' - ((s + 1) + 1 - k)].Sequence
      BY <1>1, <1>4, <3>1 DEF EndsWith, LastStep
    <3>3. m_Step'[StepsCount' - ((s + 1 - k) + 1)] = LastStep(s + 1 - k)
      BY <1>2, <3>1 DEF LastStep
    <3> QED BY <1>4, <3>1, <3>2, <3>3 DEF EndsWith
  <2>2. ToShow'[s + 1] = WalkSequence
    BY <1>1, <1>3, <1>4 DEF EndsWith, LastStep
  <2> QED BY <1>1, <1>4, <2>1, <2>2, AppendEqual DEF EndsWith
<1>6. ToConfirm' = Append(ToConfirm, WalkSequence)
  <2>1. ASSUME NEW k \in 1..u
        PROVE  ToConfirm'[k] = ToConfirm[k]
    <3>1. /\ u + 1 - k \in 1..StepsCount /\ (u + 1) + 1 - k = (u + 1 - k) + 1
          /\ k \in 1..u + 1
      BY <1>1, <1>4 DEF EndsWith
    <3>2. ToConfirm'[k] = m_Step'[StepsCount' - ((u + 1) + 1 - k)].Sequence
      BY <1>1, <1>4, <3>1 DEF EndsWith, LastStep
    <3>3. m_Step'[StepsCount' - ((u + 1 - k) + 1)] = LastStep(u + 1 - k)
      BY <1>2, <3>1 DEF LastStep
    <3> QED BY <1>4, <3>1, <3>2, <3>3 DEF EndsWith
  <2>2. ToConfirm'[u + 1] = WalkSequence
    BY <1>1, <1>3, <1>4 DEF EndsWith, LastStep
  <2> QED BY <1>1, <1>4, <2>1, <2>2, AppendEqual DEF EndsWith
<1>7. Len(ToShow) < MaxSteps /\ Len(ToConfirm) < MaxSteps
  BY <1>1, <1>4 DEF EndsWith
<1> QED BY <1>1, <1>5, <1>6, <1>7 DEF Window!Request, NextNumber, NextSequence

(* After a failure nothing is to be shown or confirmed any more. *)
LEMMA FailedStutters ==
  ASSUME WalkingFailed, WalkingFailed'
  PROVE  UNCHANGED Window!vars
BY DEF Window!vars, ToShow, ToConfirm, NextNumber

(* The step displayed is the first of those to show; whether its entry is  *)
(* dropped or only counted, the steps to confirm stay.                     *)
LEMMA AnimateShows ==
  ASSUME IInv, PendingInOrder, WindowInv, WindowInv', ~WalkingFailed, UpdateAnimationInfo
  PROVE  Window!Show
<1> DEFINE s == Len(m_Steps)
           u == UnacceptedPacketsCount
<1>1. /\ ~WalkingFailed' /\ WalkSequence' = WalkSequence /\ u' = u
      /\ s \in Nat \ {0} /\ Len(m_Steps') = s - 1
  BY HeadTailProperties, EmptySeq DEF UpdateAnimationInfo, IInv, TypeOK
<1>2. \A k \in 1..StepsCount' : m_Step'[StepsCount' - k] = LastStep(k)
  BY AnimateKeepsOrder DEF LastStep
<1>3. /\ EndsWith(ToShow, s) /\ EndsWith(ToConfirm, u)
      /\ EndsWith(ToShow, s)' /\ EndsWith(ToConfirm, u)'
  BY <1>1 DEF WindowInv
<1>4. StepsCount \in Int /\ StepsCount' \in Int
  BY DEF UpdateAnimationInfo, RetireOrCount, IInv, TypeOK
<1>5. ToShow # <<>> /\ ToShow' = Tail(ToShow)
  <2>1. ToShow # <<>>
    BY <1>1, <1>3, EmptySeq DEF EndsWith
  <2>2. ASSUME NEW k \in 1..s - 1
        PROVE  ToShow'[k] = ToShow[k + 1]
    <3>1. /\ s - k \in 1..StepsCount' /\ (s - 1) + 1 - k = s - k
          /\ k + 1 \in 1..s /\ s + 1 - (k + 1) = s - k
      BY <1>1, <1>3, <1>4 DEF EndsWith
    <3>2. ToShow'[k] = m_Step'[StepsCount' - ((s - 1) + 1 - k)].Sequence
      BY <1>1, <1>3 DEF EndsWith, LastStep
    <3> QED BY <1>2, <1>3, <3>1, <3>2 DEF EndsWith
  <2>3. /\ ToShow \in Seq(Sequences) /\ ToShow' \in Seq(Sequences)
        /\ Len(ToShow) = s /\ Len(ToShow') = s - 1
    BY <1>1, <1>3 DEF EndsWith
  <2> QED BY <2>1, <2>2, <2>3, TailEqual
<1>6. ToConfirm' = ToConfirm
  <2>1. ASSUME NEW k \in 1..u
        PROVE  ToConfirm'[k] = ToConfirm[k]
    <3>1. u + 1 - k \in 1..StepsCount'
      BY <1>1, <1>3, <1>4 DEF EndsWith
    <3>2. ToConfirm'[k] = m_Step'[StepsCount' - (u + 1 - k)].Sequence
      BY <1>1, <1>3 DEF EndsWith, LastStep
    <3> QED BY <1>2, <1>3, <3>1, <3>2 DEF EndsWith
  <2> QED BY <1>1, <1>3, <2>1, SeqEqual DEF EndsWith
<1> QED BY <1>1, <1>5, <1>6 DEF Window!Show, NextNumber

(* A confirmation in order confirms the first step not yet confirmed, and  *)
(* the steps to show stay; with nothing to confirm the walk fails and all  *)
(* steps are abandoned.                                                    *)
LEMMA ConfirmConfirms ==
  ASSUME IInv, PendingInOrder, WindowInv, WindowInv', ~WalkingFailed,
         ConfirmWalk(NextToConfirm)
  PROVE  Window!Confirm \/ Window!Abandon
<1> DEFINE s == Len(m_Steps)
           u == UnacceptedPacketsCount
<1>1. CASE WalkingFailed'
  BY <1>1 DEF Window!Abandon, ToShow, ToConfirm, NextNumber
<1>2. CASE ~WalkingFailed'
  <2>1. /\ u > 0 /\ UnacceptedPacketsCount' = u - 1
        /\ WalkSequence' = WalkSequence /\ m_Steps' = m_Steps
        /\ \A k \in 1..StepsCount' :
             m_Step'[StepsCount' - k].Sequence = LastStep(k).Sequence
    BY <1>2, ConfirmKeepsOrder DEF ConfirmWalk, player, LastStep
  <2>2. StepsCount \in Int /\ StepsCount' \in Int /\ u \in Nat
    BY DEF ConfirmWalk, AcceptStep, RetireFirst, FailWalking, IInv, TypeOK
  <2>3. /\ EndsWith(ToShow, s) /\ EndsWith(ToConfirm, u)
        /\ EndsWith(ToShow, s)' /\ EndsWith(ToConfirm, u)'
    BY <1>2 DEF WindowInv
  <2>4. ToShow' = ToShow
    <3>1. ASSUME NEW k \in 1..s
          PROVE  ToShow'[k] = ToShow[k]
      <4>1. s + 1 - k \in 1..StepsCount'
        BY <2>1, <2>2, <2>3 DEF EndsWith
      <4>2. ToShow'[k] = m_Step'[StepsCount' - (s + 1 - k)].Sequence
        BY <2>1, <2>3 DEF EndsWith, LastStep
      <4> QED BY <2>1, <2>3, <4>1, <4>2 DEF EndsWith
    <3> QED BY <2>1, <2>3, <3>1, SeqEqual DEF EndsWith
  <2>5. ToConfirm # <<>> /\ ToConfirm' = Tail(ToConfirm)
    <3>1. ToConfirm # <<>>
      BY <2>1, <2>3, EmptySeq DEF EndsWith
    <3>2. ASSUME NEW k \in 1..u - 1
          PROVE  ToConfirm'[k] = ToConfirm[k + 1]
      <4>1. /\ u - k \in 1..StepsCount' /\ (u - 1) + 1 - k = u - k
            /\ k + 1 \in 1..u /\ u + 1 - (k + 1) = u - k
        BY <2>1, <2>2, <2>3 DEF EndsWith
      <4>2. ToConfirm'[k] = m_Step'[StepsCount' - ((u - 1) + 1 - k)].Sequence
        BY <2>1, <2>3 DEF EndsWith, LastStep
      <4>3. ToConfirm[k + 1] = LastStep(u - k).Sequence
        BY <2>3, <4>1 DEF EndsWith
      <4> QED BY <2>1, <4>1, <4>2, <4>3
    <3>3. /\ ToConfirm \in Seq(Sequences) /\ ToConfirm' \in Seq(Sequences)
          /\ Len(ToConfirm) = u /\ Len(ToConfirm') = u - 1
      BY <2>1, <2>3 DEF EndsWith
    <3> QED BY <3>1, <3>2, <3>3, TailEqual
  <2> QED BY <1>2, <2>1, <2>4, <2>5 DEF Window!Confirm, NextNumber
<1> QED BY <1>1, <1>2

(* The server has placed the player, or the world is gone. *)
LEMMA ResetAbandons ==
  ASSUME Reset, IInv', WindowInv'
  PROVE  Window!Abandon
<1>1. ~WalkingFailed' /\ StepsCount' = 0 /\ WalkSequence' = 0
  BY DEF Reset
<1>2. /\ ToShow' \in Seq(Sequences) /\ Len(ToShow') = 0
      /\ ToConfirm' \in Seq(Sequences) /\ Len(ToConfirm') = 0
  <2>1. EndsWith(ToShow, Len(m_Steps))' /\ EndsWith(ToConfirm, UnacceptedPacketsCount)'
    BY <1>1 DEF WindowInv
  <2>2. \A n \in 0..StepsCount' : n = 0
    BY <1>1
  <2> QED BY <2>1, <2>2 DEF EndsWith
<1>3. ToShow' = <<>> /\ ToConfirm' = <<>>
  BY <1>2, EmptySeq
<1> QED BY <1>1, <1>3 DEF Window!Abandon, NextNumber

(* The array is an implementation of the two queues of WalkWindow: however *)
(* confirmations, denials and the animation interleave, every pending step *)
(* is displayed once and confirmed once, each in the order of the requests,*)
(* no more steps than the array holds are pending, and only a placement or *)
(* a confirmation nobody waits for abandons them.                          *)
THEOREM WindowImplemented == ProtocolSpec => ImplementsWindow
<1>1. ProtocolInit /\ IInv /\ WindowInv => Window!Init
  <2> SUFFICES ASSUME ProtocolInit, IInv, WindowInv PROVE Window!Init
    OBVIOUS
  <2>1. ~WalkingFailed /\ StepsCount = 0 /\ WalkSequence = 0
    BY DEF ProtocolInit, Init
  <2>2. /\ ToShow \in Seq(Sequences) /\ Len(ToShow) = 0
        /\ ToConfirm \in Seq(Sequences) /\ Len(ToConfirm) = 0
    <3>1. EndsWith(ToShow, Len(m_Steps)) /\ EndsWith(ToConfirm, UnacceptedPacketsCount)
      BY <2>1 DEF WindowInv
    <3>2. \A n \in 0..StepsCount : n = 0
      BY <2>1
    <3> QED BY <3>1, <3>2 DEF EndsWith
  <2>3. ToShow = <<>> /\ ToConfirm = <<>>
    BY <2>2, EmptySeq
  <2> QED BY <2>1, <2>3 DEF Window!Init, NextNumber
<1>2. /\ IInv /\ IInv' /\ NetworkOK /\ AgreeInv /\ WindowInv /\ WindowInv'
      /\ [ProtocolNext]_protocolVars
      => [Window!Next]_(Window!vars)
  <2> SUFFICES ASSUME IInv, IInv', NetworkOK, AgreeInv, WindowInv, WindowInv',
                      [ProtocolNext]_protocolVars
               PROVE  Window!Next \/ UNCHANGED Window!vars
    OBVIOUS
  <2>1. PendingInOrder
    BY DEF AgreeInv
  <2>2. CASE \E d \in Headings : ClientWalk(d)
    BY <2>1, <2>2, WalkRequests DEF ClientWalk, Window!Next
  <2>3. CASE ClientAnimate
    <3>1. UpdateAnimationInfo /\ WalkingFailed' = WalkingFailed
      BY <2>3 DEF ClientAnimate, UpdateAnimationInfo
    <3> QED BY <2>1, <3>1, AnimateShows, FailedStutters DEF Window!Next
  <2>4. CASE ClientConfirmed
    <3>1. /\ toClient # <<>> /\ Head(toClient).type = "confirm"
          /\ ConfirmWalk(Head(toClient).seq)
          /\ toClient[1] = Head(toClient)
      BY <2>4, HeadTailProperties DEF ClientConfirmed, Arrives, NetworkOK
    <3>2. CASE WalkingFailed
      BY <3>1, <3>2, FailedStutters DEF ConfirmWalk, AcceptStep, RetireFirst, FailWalking
    <3>3. CASE ~WalkingFailed
      <4>1. Head(toClient).seq = NextToConfirm
        BY <3>1, <3>3 DEF AgreeInv, AnswersInOrder, FirstReceived, Connected
      <4> QED BY <2>1, <3>1, <3>3, <4>1, ConfirmConfirms DEF Window!Next
    <3> QED BY <3>2, <3>3
  <2>5. CASE ClientPlaced \/ ClientEntered \/ Relogin
    <3>1. Reset
      BY <2>5 DEF ClientPlaced, ClientEntered, Relogin, HandleDenyWalk, UpdatePlayer,
                  EnterWorld, Relocate, ClearWorld
    <3> QED BY <3>1, ResetAbandons DEF Window!Next
  <2>6. CASE LoseConnection \/ ServerReceive \/ ServerMovesPlayer \/ UNCHANGED protocolVars
    <3>1. UNCHANGED <<m_Step, StepsCount, WalkSequence, CurrentWalkSequence, WalkingFailed>>
      BY <2>6 DEF LoseConnection, ServerReceive, ServerMovesPlayer, protocolVars, vars, walker
    <3> QED
      BY <3>1 DEF Window!vars, ToShow, ToConfirm, NextNumber, Numbers, Ascending,
                  Undisplayed, Unconfirmed
  <2> QED
    BY <2>2, <2>3, <2>4, <2>5, <2>6 DEF ProtocolNext, ClientReceive
<1>3. IInv /\ AgreeInv => WindowInv
  BY WindowQueues DEF AgreeInv
<1> QED
  BY <1>1, <1>2, <1>3, NetworkCorrect, AgreeCorrect, PTL
     DEF ProtocolSpec, ImplementsWindow, Window!Spec
=============================================================================
