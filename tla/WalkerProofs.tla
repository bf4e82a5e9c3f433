---------------------------- MODULE WalkerProofs ----------------------------
(***************************************************************************)
(* Proofs about module Walker, for every length of the array, every wrap   *)
(* of the sequence numbers, every map and every server.                    *)
(*                                                                         *)
(* StepLedger cannot be separated from TypeOK: that m_Step is only indexed *)
(* inside its bounds follows from the ledger, and that the ledger survives *)
(* a shift of the array follows from the indexes being inside its bounds.  *)
(* Their conjunction is inductive.                                         *)
(*                                                                         *)
(* The last part is about module AutoWalk, for every set of routes.  The   *)
(* follower takes its steps with CPathFinder::Walk, so the walker beside   *)
(* it is the walker of module Walker and keeps what is proved there.       *)
(* FollowsPath becomes inductive when it also says that the path followed  *)
(* is one of the routes and, unless the player is lost, that its           *)
(* directions lead along it.                                               *)
(***************************************************************************)
EXTENDS AutoWalk, SequenceTheorems, TLAPS

IInv == TypeOK /\ StepLedger

USE MaxStepsAssumption, MaxSequenceAssumption, TilesAssumption, HeadingsAssumption

-----------------------------------------------------------------------------
(* What the helpers return *)

(* The next step starts at a tile of the map, in a direction in use. *)
LEMMA PredictedType ==
  ASSUME TypeOK
  PROVE  Predicted \in WalkData
<1>1. CASE m_Steps = <<>>
  BY <1>1 DEF TypeOK, Predicted, WalkData
<1>2. CASE m_Steps # <<>>
  <2>1. m_Steps \in Seq(WalkData)
    BY DEF TypeOK
  <2>2. Len(m_Steps) \in 1..Len(m_Steps)
    BY <1>2, <2>1, EmptySeq
  <2>3. m_Steps[Len(m_Steps)] \in WalkData
    BY <2>1, <2>2, ElementOfSeq
  <2> QED BY <1>2, <2>3 DEF Predicted
<1> QED BY <1>1, <1>2

(* Removing an entry keeps the array an array of steps. *)
LEMMA WithoutStepType ==
  ASSUME TypeOK, NEW i \in Nat
  PROVE  WithoutStep(i) \in [Slots -> StepInfo]
<1>1. ASSUME NEW j \in Slots
      PROVE  (IF j >= i /\ j + 1 < StepsCount THEN m_Step[j + 1] ELSE m_Step[j])
               \in StepInfo
  <2>1. CASE j >= i /\ j + 1 < StepsCount
    <3>1. j + 1 \in Slots
      BY <2>1 DEF TypeOK, Slots
    <3> QED BY <2>1, <3>1 DEF TypeOK
  <2>2. CASE ~(j >= i /\ j + 1 < StepsCount)
    BY <2>2 DEF TypeOK
  <2> QED BY <2>1, <2>2
<1> QED BY <1>1 DEF WithoutStep

(* An answer of CanWalk is a tile of the map and a direction in use. *)
LEMMA CanWalkType ==
  ASSUME NEW d \in Headings, NEW t \in Tiles, NEW c \in CanWalk(d, t)
  PROVE  c.at \in Tiles /\ c.dir \in Headings
BY DEF CanWalk

LEMMA StepTakenType ==
  ASSUME TypeOK, NEW d \in Headings, NEW c \in CanWalk(d, Predicted.at)
  PROVE  StepTaken(c) \in WalkData
<1>1. Predicted \in WalkData
  BY PredictedType
<1>2. c.at \in Tiles /\ c.dir \in Headings
  BY <1>1, CanWalkType DEF WalkData
<1> QED BY <1>1, <1>2 DEF StepTaken, WalkData

-----------------------------------------------------------------------------
(* The inductive invariant: one lemma for each kind of step *)

LEMMA InitIInv == Init => IInv
<1> SUFFICES ASSUME Init PROVE IInv
  OBVIOUS
<1>1. TypeOK
  <2>1. m_Step \in [Slots -> StepInfo]
    BY DEF Init, StepInfo, Sequences
  <2>2. m_Steps \in Seq(WalkData)
    BY EmptySeq DEF Init
  <2>3. /\ StepsCount \in -MaxSteps..MaxSteps
        /\ CurrentWalkSequence \in 0..MaxSteps
        /\ WalkSequence \in Sequences
        /\ UnacceptedPacketsCount \in Nat
    BY DEF Init, Sequences
  <2>4. /\ WalkingFailed \in BOOLEAN /\ ResendPacketSended \in BOOLEAN
        /\ turning \in BOOLEAN
    BY DEF Init
  <2> QED BY <2>1, <2>2, <2>3, <2>4 DEF Init, TypeOK
<1>2. StepLedger
  BY DEF Init, StepLedger, LedgerAgrees
<1> QED BY <1>1, <1>2 DEF IInv

LEMMA WalkIInv ==
  ASSUME IInv, NEW d \in Headings, Walk(d)
  PROVE  IInv'
<1> USE DEF IInv
<1>1. PICK c \in CanWalk(d, Predicted.at) : PushStep(StepTaken(c))
  BY DEF Walk
<1> DEFINE step == StepTaken(c)
<1>2. step \in WalkData
  BY StepTakenType
<1>3. StepsCount = CurrentWalkSequence + Len(m_Steps) /\ ~WalkingFailed
  BY DEF Walk, WalkGuard, StepLedger, LedgerAgrees
<1>4. StepsCount \in Slots
  BY <1>3 DEF Walk, WalkGuard, TypeOK, Slots
<1>5. Len(m_Steps) \in Nat /\ m_Steps \in Seq(WalkData)
  BY DEF TypeOK
<1>6. TypeOK'
  <2>1. m_Step' \in [Slots -> StepInfo]
    <3>1. [Sequence |-> WalkSequence, Accepted |-> FALSE, at |-> step.at] \in StepInfo
      BY <1>2 DEF TypeOK, StepInfo, WalkData
    <3> HIDE DEF step
    <3>2. m_Step' = [m_Step EXCEPT ![StepsCount] =
                       [Sequence |-> WalkSequence, Accepted |-> FALSE, at |-> step.at]]
      BY <1>1 DEF PushStep, step
    <3> QED BY <1>4, <3>1, <3>2 DEF TypeOK
  <2>2. StepsCount' \in -MaxSteps..MaxSteps
    BY <1>1, <1>4 DEF PushStep, Slots
  <2>3. WalkSequence' \in Sequences
    BY <1>1 DEF PushStep, NextSequence, Sequences, TypeOK
  <2>4. UnacceptedPacketsCount' \in Nat
    BY <1>1 DEF PushStep, TypeOK
  <2>5. m_Steps' \in Seq(WalkData)
    BY <1>1, <1>2, <1>5, AppendProperties DEF PushStep
  <2> QED
    BY <2>1, <2>2, <2>3, <2>4, <2>5 DEF Walk, TypeOK
<1>7. StepLedger'
  <2> HIDE DEF step
  <2>1. /\ Len(m_Steps') = Len(m_Steps) + 1
        /\ \A i \in 1..Len(m_Steps) : m_Steps'[i] = m_Steps[i]
        /\ m_Steps'[Len(m_Steps) + 1] = step
    BY <1>1, <1>2, <1>5, AppendProperties DEF PushStep, step
  <2>2. /\ m_Step'[StepsCount].at = step.at
        /\ \A j \in Slots : j # StepsCount => m_Step'[j] = m_Step[j]
    BY <1>1, <1>4 DEF PushStep, TypeOK, step
  <2>3. StepsCount' = CurrentWalkSequence' + Len(m_Steps')
    BY <1>1, <1>3, <1>5, <2>1 DEF PushStep, Walk, TypeOK
  <2>4. ASSUME NEW i \in 1..Len(m_Steps')
        PROVE  m_Step'[CurrentWalkSequence' + i - 1].at = m_Steps'[i].at
    <3>1. CASE i = Len(m_Steps')
      <4>1. CurrentWalkSequence' + i - 1 = StepsCount
        BY <1>3, <1>5, <2>1, <3>1 DEF Walk, TypeOK
      <4> QED BY <2>1, <2>2, <3>1, <4>1
    <3>2. CASE i # Len(m_Steps')
      <4>1. i \in 1..Len(m_Steps)
        BY <1>5, <2>1, <3>2
      <4>2. /\ CurrentWalkSequence' + i - 1 \in Slots
            /\ CurrentWalkSequence' + i - 1 # StepsCount
        BY <1>3, <1>4, <1>5, <4>1 DEF Walk, TypeOK, Slots
      <4>3. m_Step[CurrentWalkSequence + i - 1].at = m_Steps[i].at
        BY <1>3, <4>1 DEF StepLedger, LedgerAgrees
      <4> QED BY <2>1, <2>2, <4>1, <4>2, <4>3 DEF Walk
    <3> QED BY <3>1, <3>2
  <2> QED
    BY <1>3, <2>3, <2>4 DEF StepLedger, LedgerAgrees, Walk
<1> QED BY <1>6, <1>7

LEMMA UpdateAnimationInfoIInv ==
  ASSUME IInv, UpdateAnimationInfo
  PROVE  IInv'
<1> USE DEF IInv
<1> DEFINE n == CurrentWalkSequence
<1>1. /\ m_Steps \in Seq(WalkData) /\ m_Steps # <<>>
      /\ Len(m_Steps) \in Nat \ {0}
      /\ n \in Int /\ StepsCount \in Int
  BY DEF UpdateAnimationInfo, TypeOK
<1>2. n \in Slots
  BY <1>1 DEF StepLedger, LedgerAgrees, LedgerDrains, TypeOK, Slots
<1>3. /\ m_Steps' = Tail(m_Steps) /\ m_Steps' \in Seq(WalkData)
      /\ Len(m_Steps') = Len(m_Steps) - 1
      /\ \A i \in 1..Len(m_Steps') : m_Steps'[i] = m_Steps[i + 1]
  BY <1>1, HeadTailProperties DEF UpdateAnimationInfo
<1>4. Head(m_Steps) \in WalkData
  BY <1>1, HeadTailProperties
<1>5. /\ m_Step' \in [Slots -> StepInfo]
      /\ \/ /\ m_Step' = WithoutStep(n)
            /\ StepsCount' = StepsCount - 1
            /\ CurrentWalkSequence' = n
         \/ /\ m_Step' = m_Step
            /\ StepsCount' = StepsCount
            /\ CurrentWalkSequence' = n + 1
  <2>1. WithoutStep(n) \in [Slots -> StepInfo]
    BY <1>2, WithoutStepType DEF Slots
  <2> QED
    BY <2>1 DEF UpdateAnimationInfo, RetireOrCount, TypeOK
<1>6. TypeOK'
  <2>1. StepsCount' \in -MaxSteps..MaxSteps /\ CurrentWalkSequence' \in 0..MaxSteps
    <3>1. /\ StepsCount \in -MaxSteps..MaxSteps
          /\ n + Len(m_Steps) - MaxSteps <= StepsCount
      BY <1>1, <1>2 DEF StepLedger, LedgerAgrees, LedgerDrains, TypeOK, Slots
    <3>2. n + 1 \in 0..MaxSteps /\ n \in 0..MaxSteps /\ StepsCount - 1 \in -MaxSteps..MaxSteps
      BY <1>1, <1>2, <3>1 DEF Slots
    <3> HIDE DEF n
    <3> QED BY <1>5, <3>1, <3>2
  <2>2. at' \in Tiles /\ Direction' \in Headings
    BY <1>4 DEF UpdateAnimationInfo, WalkData
  <2>3. turning' \in BOOLEAN
    BY DEF UpdateAnimationInfo
  <2> QED
    BY <1>3, <1>5, <2>1, <2>2, <2>3 DEF UpdateAnimationInfo, TypeOK
<1>7. StepLedger'
  <2>1. WalkingFailed' = WalkingFailed
    BY DEF UpdateAnimationInfo
  <2>2. CASE WalkingFailed
    BY <1>1, <1>2, <1>3, <1>5, <2>1, <2>2 DEF StepLedger, LedgerDrains, Slots
  <2>3. CASE ~WalkingFailed
    <3>1. StepsCount = n + Len(m_Steps)
      BY <2>3 DEF StepLedger, LedgerAgrees
    <3>2. StepsCount' = CurrentWalkSequence' + Len(m_Steps')
      BY <1>1, <1>3, <1>5, <3>1
    <3>3. ASSUME NEW i \in 1..Len(m_Steps')
          PROVE  m_Step'[CurrentWalkSequence' + i - 1].at = m_Steps'[i].at
      <4>1. i + 1 \in 1..Len(m_Steps) /\ i \in Nat \ {0}
        BY <1>1, <1>3
      <4>2. m_Step[n + i].at = m_Steps[i + 1].at
        <5>1. n + (i + 1) - 1 = n + i
          BY <1>1, <4>1
        <5> QED BY <2>3, <4>1, <5>1 DEF StepLedger, LedgerAgrees
      <4>3. CASE m_Step' = m_Step /\ CurrentWalkSequence' = n + 1
        <5>1. CurrentWalkSequence' + i - 1 = n + i
          BY <1>1, <4>1, <4>3
        <5> QED BY <1>3, <4>2, <4>3, <5>1
      <4>4. CASE m_Step' = WithoutStep(n) /\ CurrentWalkSequence' = n
        <5> DEFINE j == n + i - 1
        <5>1. j \in Slots /\ j >= n /\ j + 1 < StepsCount /\ j + 1 = n + i
          BY <1>1, <1>2, <3>1, <4>1 DEF TypeOK, Slots
        <5>2. WithoutStep(n)[j] = m_Step[j + 1]
          BY <5>1 DEF WithoutStep
        <5> QED BY <1>3, <4>2, <4>4, <5>1, <5>2
      <4> QED BY <1>5, <4>3, <4>4
    <3> QED
      BY <2>1, <2>3, <3>2, <3>3 DEF StepLedger, LedgerAgrees
  <2> QED BY <2>2, <2>3
<1> QED BY <1>6, <1>7

LEMMA ConfirmWalkIInv ==
  ASSUME IInv, NEW sequence \in Sequences, ConfirmWalk(sequence)
  PROVE  IInv'
<1> USE DEF IInv
<1> DEFINE n == CurrentWalkSequence
<1>1. PICK i \in 0..MaxSteps :
        /\ StopsAt(i, sequence)
        /\ AcceptStep(i) \/ RetireFirst(i) \/ FailWalking(i)
  BY DEF ConfirmWalk
<1>2. /\ UNCHANGED <<WalkSequence, m_Steps, at, Direction, turning>>
      /\ UnacceptedPacketsCount' \in Nat
  BY DEF ConfirmWalk, player, TypeOK
<1>3. Len(m_Steps) \in Nat /\ n \in Int /\ StepsCount \in Int
  BY DEF TypeOK
<1>4. Len(m_Steps) <= MaxSteps
  BY <1>3 DEF StepLedger, LedgerAgrees, LedgerDrains, TypeOK
<1>5. CASE AcceptStep(i)
  <2>1. i \in Slots
    BY <1>1, <1>5 DEF AcceptStep, IsBadStep, StopsAt, TypeOK, Slots
  <2>2. /\ m_Step' = [m_Step EXCEPT ![i].Accepted = TRUE]
        /\ m_Step' \in [Slots -> StepInfo]
        /\ \A j \in Slots : m_Step'[j].at = m_Step[j].at
    <3>1. m_Step \in [Slots -> StepInfo] /\ m_Step[i] \in StepInfo
      BY <2>1 DEF TypeOK
    <3>2. m_Step' = [m_Step EXCEPT ![i] = [m_Step[i] EXCEPT !.Accepted = TRUE]]
      BY <1>5 DEF AcceptStep
    <3>3. /\ [m_Step[i] EXCEPT !.Accepted = TRUE] \in StepInfo
          /\ [m_Step[i] EXCEPT !.Accepted = TRUE].at = m_Step[i].at
      BY <3>1 DEF StepInfo
    <3> QED BY <1>5, <2>1, <3>1, <3>2, <3>3 DEF AcceptStep
  <2>3. RemoveRange' \in Tiles
    BY <1>5, <2>1 DEF AcceptStep, TypeOK, StepInfo
  <2>4. TypeOK'
    BY <1>2, <1>5, <2>2, <2>3 DEF AcceptStep, TypeOK
  <2>5. StepLedger'
    <3>1. CASE WalkingFailed
      BY <1>2, <1>5, <3>1 DEF AcceptStep, StepLedger, LedgerDrains
    <3>2. CASE ~WalkingFailed
      <4>1. ASSUME NEW k \in 1..Len(m_Steps)
            PROVE  n + k - 1 \in Slots
        BY <1>3, <3>2 DEF StepLedger, LedgerAgrees, TypeOK, Slots
      <4> QED
        BY <1>2, <1>5, <2>2, <3>2, <4>1 DEF AcceptStep, StepLedger, LedgerAgrees
    <3> QED BY <3>1, <3>2
  <2> QED BY <2>4, <2>5
<1>6. CASE RetireFirst(i)
  <2>1. i = 0 /\ n > 0
    BY <1>6 DEF RetireFirst, IsBadStep, TypeOK
  <2>2. m_Step' = WithoutStep(0) /\ m_Step' \in [Slots -> StepInfo]
    BY <1>6, WithoutStepType DEF RetireFirst
  <2>3. RemoveRange' \in Tiles
    BY <1>6 DEF RetireFirst, TypeOK, StepInfo, Slots
  <2>4. /\ StepsCount' = StepsCount - 1 /\ CurrentWalkSequence' = n - 1
        /\ UNCHANGED <<WalkingFailed, ResendPacketSended>>
    BY <1>6 DEF RetireFirst
  <2>5. TypeOK'
    <3>1. StepsCount' \in -MaxSteps..MaxSteps /\ CurrentWalkSequence' \in 0..MaxSteps
      BY <1>3, <2>1, <2>4 DEF StepLedger, LedgerAgrees, LedgerDrains, TypeOK
    <3> QED BY <1>2, <2>2, <2>3, <2>4, <3>1 DEF TypeOK
  <2>6. StepLedger'
    <3>1. CASE WalkingFailed
      BY <1>2, <1>3, <2>4, <3>1 DEF StepLedger, LedgerDrains
    <3>2. CASE ~WalkingFailed
      <4>1. StepsCount = n + Len(m_Steps)
        BY <3>2 DEF StepLedger, LedgerAgrees
      <4>2. ASSUME NEW k \in 1..Len(m_Steps')
            PROVE  m_Step'[CurrentWalkSequence' + k - 1].at = m_Steps'[k].at
        <5> DEFINE j == n - 1 + k - 1
        <5>1. k \in 1..Len(m_Steps) /\ m_Steps'[k] = m_Steps[k]
          BY <1>2
        <5>2. j \in Slots /\ j >= 0 /\ j + 1 < StepsCount /\ j + 1 = n + k - 1
          BY <1>3, <2>1, <4>1, <5>1 DEF TypeOK, Slots
        <5>3. WithoutStep(0)[j] = m_Step[n + k - 1]
          BY <5>2 DEF WithoutStep
        <5>4. m_Step[n + k - 1].at = m_Steps[k].at
          BY <3>2, <5>1 DEF StepLedger, LedgerAgrees
        <5> QED BY <2>2, <2>4, <5>1, <5>3, <5>4
      <4> QED
        BY <1>2, <1>3, <2>4, <3>2, <4>1, <4>2 DEF StepLedger, LedgerAgrees
    <3> QED BY <3>1, <3>2
  <2> QED BY <2>5, <2>6
<1>7. CASE FailWalking(i)
  <2>1. TypeOK'
    BY <1>2, <1>7 DEF FailWalking, TypeOK
  <2>2. StepLedger'
    BY <1>2, <1>3, <1>4, <1>7 DEF FailWalking, StepLedger, LedgerDrains
  <2> QED BY <2>1, <2>2
<1> QED BY <1>1, <1>5, <1>6, <1>7

LEMMA RelocateIInv ==
  ASSUME IInv, NEW t \in Tiles, NEW d \in Headings, Relocate(t, d) \/ ClearWorld
  PROVE  IInv'
<1>1. TypeOK'
  <2>1. m_Steps' \in Seq(WalkData)
    BY EmptySeq DEF Relocate, ClearWorld
  <2>2. /\ StepsCount' \in -MaxSteps..MaxSteps
        /\ CurrentWalkSequence' \in 0..MaxSteps
        /\ WalkSequence' \in Sequences
        /\ UnacceptedPacketsCount' \in Nat
    BY DEF Relocate, ClearWorld, Reset, Sequences
  <2>3. WalkingFailed' \in BOOLEAN /\ ResendPacketSended' \in BOOLEAN
    BY DEF Relocate, ClearWorld, Reset
  <2> QED BY <2>1, <2>2, <2>3 DEF IInv, Relocate, ClearWorld, Reset, TypeOK
<1>2. StepLedger'
  BY DEF Relocate, ClearWorld, Reset, StepLedger, LedgerAgrees
<1> QED BY <1>1, <1>2 DEF IInv

LEMMA StutterIInv ==
  ASSUME IInv, UNCHANGED vars
  PROVE  IInv'
BY DEF IInv, vars, walker, player, TypeOK, StepLedger, LedgerAgrees, LedgerDrains

LEMMA NextIInv ==
  ASSUME IInv, [Next]_vars
  PROVE  IInv'
<1>1. CASE \E d \in Headings : Walk(d)
  BY <1>1, WalkIInv
<1>2. CASE UpdateAnimationInfo
  BY <1>2, UpdateAnimationInfoIInv
<1>3. CASE \E n \in Sequences : ConfirmWalk(n)
  BY <1>3, ConfirmWalkIInv
<1>4. CASE \E t \in Tiles, d \in Headings :
             HandleDenyWalk(t, d) \/ UpdatePlayer(t, d) \/ EnterWorld(t, d)
  BY <1>4, RelocateIInv DEF HandleDenyWalk, UpdatePlayer, EnterWorld
<1>5. CASE ClearWorld
  BY <1>5, RelocateIInv DEF IInv, TypeOK
<1>6. CASE UNCHANGED vars
  BY <1>6, StutterIInv
<1> QED BY <1>1, <1>2, <1>3, <1>4, <1>5, <1>6 DEF Next

THEOREM Inductive == Spec => []IInv
<1>1. Init => IInv
  BY InitIInv
<1>2. IInv /\ [Next]_vars => IInv'
  BY NextIInv
<1> QED BY <1>1, <1>2, PTL DEF Spec

-----------------------------------------------------------------------------
(* The theorems *)

(* Every variable of the client keeps its type, whatever the server sends. *)
THEOREM TypeCorrect == Spec => []TypeOK
<1>1. IInv => TypeOK
  BY DEF IInv
<1> QED BY <1>1, Inductive, PTL

(* m_Step and m_Steps agree about the pending steps unless walking has     *)
(* failed, and then drift apart by no more than the steps drained.         *)
THEOREM LedgerHolds == Spec => []StepLedger
<1>1. IInv => StepLedger
  BY DEF IInv
<1> QED BY <1>1, Inductive, PTL

(* UpdateAnimationInfo and Walk never index m_Step outside its bounds.     *)
THEOREM NeverOutOfBounds == Spec => []IndexInBounds
<1>1. IInv => IndexInBounds
  <2> SUFFICES ASSUME IInv PROVE IndexInBounds
    OBVIOUS
  <2>1. Len(m_Steps) \in Nat /\ (m_Steps # <<>> => Len(m_Steps) > 0)
    BY DEF IInv, TypeOK
  <2> QED
    BY <2>1 DEF IInv, IndexInBounds, TypeOK, StepLedger, LedgerAgrees, LedgerDrains,
                WalkGuard, Slots
<1> QED BY <1>1, Inductive, PTL

-----------------------------------------------------------------------------
(* The queue of steps is a path.  The types are all it needs of IInv.      *)

(* Whatever CanWalk answers, Walk turns on the spot or moves one tile.     *)
LEMMA StepTakenFollows ==
  ASSUME NEW d, NEW c \in CanWalk(d, Predicted.at),
         Predicted.dir = d => c.passed
  PROVE  Follows(StepTaken(c), Predicted)
<1>1. CASE c = [passed |-> FALSE, dir |-> d, at |-> Predicted.at]
  BY <1>1 DEF StepTaken, Follows
<1>2. ASSUME NEW e, c = [passed |-> TRUE, dir |-> e, at |-> GetNewXY(e, Predicted.at)]
      PROVE  Follows(StepTaken(c), Predicted)
  BY <1>2 DEF StepTaken, Follows
<1> QED BY <1>1, <1>2 DEF CanWalk

LEMMA WalkKeepsPath ==
  ASSUME TypeOK, QueueIsPath, NEW d \in Headings, Walk(d)
  PROVE  QueueIsPath'
<1>1. PICK c \in CanWalk(d, Predicted.at) :
        (Predicted.dir = d => c.passed) /\ PushStep(StepTaken(c))
  BY DEF Walk
<1> DEFINE step == StepTaken(c)
<1>2. step \in WalkData /\ Follows(step, Predicted)
  BY <1>1, StepTakenType, StepTakenFollows
<1> HIDE DEF step
<1>3. m_Steps \in Seq(WalkData) /\ Len(m_Steps) \in Nat
  BY DEF TypeOK
<1>4. /\ Len(m_Steps') = Len(m_Steps) + 1
      /\ \A i \in 1..Len(m_Steps) : m_Steps'[i] = m_Steps[i]
      /\ m_Steps'[Len(m_Steps) + 1] = step
  BY <1>1, <1>2, <1>3, AppendProperties DEF PushStep, step
<1>5. at' = at /\ Direction' = Direction
  BY DEF Walk
<1>6. ASSUME NEW i \in 1..Len(m_Steps')
      PROVE  Follows(m_Steps'[i], Before(i)')
  <2>1. CASE i \in 1..Len(m_Steps)
    <3>1. Before(i)' = Before(i)
      <4>1. CASE i = 1
        BY <1>5, <4>1 DEF Before
      <4>2. CASE i # 1
        <5>1. i - 1 \in 1..Len(m_Steps)
          BY <1>3, <2>1, <4>2
        <5> QED BY <1>4, <4>2, <5>1 DEF Before
      <4> QED BY <4>1, <4>2
    <3> QED BY <1>4, <2>1, <3>1 DEF QueueIsPath
  <2>2. CASE i = Len(m_Steps) + 1
    <3>1. Before(i)' = Predicted
      <4>1. CASE m_Steps = <<>>
        BY <1>5, <2>2, <4>1 DEF Before, Predicted
      <4>2. CASE m_Steps # <<>>
        <5>1. i # 1 /\ i - 1 = Len(m_Steps) /\ i - 1 \in 1..Len(m_Steps)
          BY <1>3, <2>2, <4>2, EmptySeq
        <5> QED BY <1>4, <4>2, <5>1 DEF Before, Predicted
      <4> QED BY <4>1, <4>2
    <3> QED BY <1>2, <1>4, <2>2, <3>1
  <2> QED BY <1>3, <1>4, <2>1, <2>2
<1> QED BY <1>6 DEF QueueIsPath

LEMMA AnimationKeepsPath ==
  ASSUME TypeOK, QueueIsPath, UpdateAnimationInfo
  PROVE  QueueIsPath'
<1>1. m_Steps \in Seq(WalkData) /\ m_Steps # <<>> /\ Len(m_Steps) \in Nat \ {0}
  BY EmptySeq DEF UpdateAnimationInfo, TypeOK
<1>2. /\ Len(m_Steps') = Len(m_Steps) - 1
      /\ \A i \in 1..Len(m_Steps') : m_Steps'[i] = m_Steps[i + 1]
      /\ Head(m_Steps) = m_Steps[1] /\ m_Steps[1] \in WalkData
  BY <1>1, HeadTailProperties DEF UpdateAnimationInfo
<1>3. [at |-> at', dir |-> Direction'] = m_Steps[1]
  BY <1>2 DEF UpdateAnimationInfo, WalkData
<1>4. ASSUME NEW i \in 1..Len(m_Steps')
      PROVE  Follows(m_Steps'[i], Before(i)')
  <2>1. i + 1 \in 1..Len(m_Steps) /\ i + 1 # 1
    BY <1>1, <1>2
  <2>2. Before(i)' = Before(i + 1)
    <3>1. CASE i = 1
      BY <1>3, <2>1, <3>1 DEF Before
    <3>2. CASE i # 1
      <4>1. i - 1 \in 1..Len(m_Steps') /\ (i - 1) + 1 = i /\ (i + 1) - 1 = i
        BY <1>1, <1>2, <3>2
      <4> QED BY <1>2, <2>1, <3>2, <4>1 DEF Before
    <3> QED BY <3>1, <3>2
  <2> QED BY <1>2, <2>1, <2>2 DEF QueueIsPath
<1> QED BY <1>4 DEF QueueIsPath

(* The queue is always a path from where the player stands: the player is  *)
(* never displayed on a tile he could not have walked to from the last one,*)
(* except where the server puts him.                                       *)
THEOREM PathHolds == Spec => []QueueIsPath
<1>1. Init => QueueIsPath
  BY DEF Init, QueueIsPath
<1>2. ASSUME TypeOK, QueueIsPath, [Next]_vars
      PROVE  QueueIsPath'
  <2>1. CASE \E d \in Headings : Walk(d)
    BY <1>2, <2>1, WalkKeepsPath
  <2>2. CASE UpdateAnimationInfo
    BY <1>2, <2>2, AnimationKeepsPath
  <2>3. CASE \E n \in Sequences : ConfirmWalk(n)
    BY <1>2, <2>3 DEF ConfirmWalk, player, QueueIsPath, Before
  <2>4. CASE \E t \in Tiles, d \in Headings :
               HandleDenyWalk(t, d) \/ UpdatePlayer(t, d) \/ EnterWorld(t, d)
    BY <2>4 DEF HandleDenyWalk, UpdatePlayer, EnterWorld, Relocate, QueueIsPath
  <2>5. CASE ClearWorld
    BY <2>5 DEF ClearWorld, QueueIsPath
  <2>6. CASE UNCHANGED vars
    BY <1>2, <2>6 DEF vars, player, QueueIsPath, Before
  <2> QED BY <1>2, <2>1, <2>2, <2>3, <2>4, <2>5, <2>6 DEF Next
<1> QED BY <1>1, <1>2, TypeCorrect, PTL DEF Spec

-----------------------------------------------------------------------------
(* The follower of a path *)

PathKept ==
  /\ m_PointIndex \in Nat /\ lost \in BOOLEAN
  /\ AutoWalking => m_Path \in Routes

OnPath == AutoWalking /\ ~lost => ~Misdirects(m_Path)

FInv == PathKept /\ OnPath /\ FollowsPath

-----------------------------------------------------------------------------
(* The follower is a walker *)

(* A route names directions in use. *)
LEMMA RouteType ==
  ASSUME NEW r \in Routes, NEW i \in 1..Len(r)
  PROVE  r[i] \in WalkData /\ r[i].dir \in Headings
<1>1. r \in Seq(WalkData)
  BY RoutesAssumption
<1>2. r[i] \in WalkData
  BY <1>1, ElementOfSeq
<1> QED BY <1>2 DEF WalkData

LEMMA FollowWalks ==
  ASSUME NEW r \in Routes, NEW i \in Nat, NEW off, Follow(r, i, off)
  PROVE  /\ [Next]_vars
         /\ m_PointIndex' \in Nat
         /\ AutoWalking' => m_Path' = r
<1>1. r \in Seq(WalkData) /\ Len(r) \in Nat
  BY RoutesAssumption
<1>2. CASE i < Len(r)
  <2>1. i + 1 \in 1..Len(r)
    BY <1>1, <1>2
  <2>2. r[i + 1].dir \in Headings
    BY <2>1, RouteType
  <2>3. m_PointIndex' \in Nat
    BY <1>2 DEF Follow
  <2>4. \/ Walk(r[i + 1].dir) /\ m_Path' = r
        \/ AutoWalking' = FALSE /\ UNCHANGED vars
    BY <1>2 DEF Follow, StopAutoWalk
  <2> QED BY <2>2, <2>3, <2>4 DEF Next
<1>3. CASE ~(i < Len(r))
  BY <1>3 DEF Follow, StopAutoWalk
<1> QED BY <1>2, <1>3

LEMMA InitKept == FollowInit => PathKept
<1>1. FollowInit => m_PointIndex \in Nat
  BY DEF FollowInit
<1>2. FollowInit => lost \in BOOLEAN /\ (AutoWalking => m_Path \in Routes)
  BY DEF FollowInit
<1> QED BY <1>1, <1>2 DEF PathKept

(* Every step of the follower is a step of the walker, or none, and keeps  *)
(* the path among the routes.                                              *)
LEMMA FollowNextWalks ==
  ASSUME PathKept, [FollowNext]_followVars
  PROVE  [Next]_vars
<1> USE DEF PathKept
<1>1. CASE ProcessAutowalk
  BY <1>1, FollowWalks DEF ProcessAutowalk
<1>2. ASSUME NEW r \in Routes, WalkTo(r)
      PROVE  [Next]_vars
  BY <1>2, FollowWalks DEF WalkTo
<1>3. CASE WalkToFails \/ CancelAutoWalk
  BY <1>3 DEF WalkToFails, CancelAutoWalk
<1>4. CASE \E d \in Headings : WalkByHand(d) \/ MovePlayer(d)
  BY <1>4 DEF WalkByHand, MovePlayer, Next
<1>5. CASE PutElsewhere
  BY <1>5 DEF PutElsewhere, Next
<1>6. CASE UpdateAnimationInfo /\ UNCHANGED autoWalk
  BY <1>6 DEF Next
<1>7. CASE \E n \in Sequences : ConfirmWalk(n) /\ UNCHANGED autoWalk
  BY <1>7 DEF Next
<1>8. CASE UNCHANGED followVars
  BY <1>8 DEF followVars
<1> QED BY <1>1, <1>2, <1>3, <1>4, <1>5, <1>6, <1>7, <1>8 DEF FollowNext

LEMMA PathStaysKept ==
  ASSUME PathKept, [FollowNext]_followVars
  PROVE  PathKept'
<1> USE DEF PathKept
<1>1. CASE ProcessAutowalk
  <2>1. m_PointIndex' \in Nat /\ (AutoWalking' => m_Path' = m_Path) /\ m_Path \in Routes
    BY <1>1, FollowWalks DEF ProcessAutowalk
  <2>2. lost' \in BOOLEAN
    BY <1>1 DEF ProcessAutowalk, Follow
  <2> QED BY <2>1, <2>2
<1>2. ASSUME NEW r \in Routes, WalkTo(r)
      PROVE  PathKept'
  <2>1. m_PointIndex' \in Nat /\ (AutoWalking' => m_Path' = r)
    BY <1>2, FollowWalks DEF WalkTo
  <2>2. lost' \in BOOLEAN
    BY <1>2 DEF WalkTo, Follow, Misdirects
  <2> QED BY <2>1, <2>2
<1>3. CASE WalkToFails \/ CancelAutoWalk
  BY <1>3 DEF WalkToFails, CancelAutoWalk, StopAutoWalk
<1>4. CASE \E d \in Headings : WalkByHand(d) \/ MovePlayer(d)
  <2>1. UNCHANGED <<AutoWalking, m_Path, m_PointIndex>>
    BY <1>4 DEF WalkByHand, MovePlayer, autoWalk
  <2>2. lost' = TRUE \/ lost' = lost
    BY <1>4 DEF WalkByHand, MovePlayer, autoWalk
  <2> QED BY <2>1, <2>2
<1>5. CASE PutElsewhere
  BY <1>5 DEF PutElsewhere
<1>6. CASE UNCHANGED autoWalk
  BY <1>6 DEF autoWalk
<1> QED BY <1>1, <1>2, <1>3, <1>4, <1>5, <1>6 DEF FollowNext, followVars

(* The client with its path follower is a client that walks: everything    *)
(* proved of Walker for every server holds while a path is followed.       *)
THEOREM FollowerImplementsWalker == FollowSpec => Spec
<1>1. FollowInit => Init /\ PathKept
  BY InitKept DEF FollowInit
<1>2. PathKept /\ [FollowNext]_followVars => PathKept'
  BY PathStaysKept
<1>3. PathKept /\ [FollowNext]_followVars => [Next]_vars
  BY FollowNextWalks
<1> QED BY <1>1, <1>2, <1>3, PTL DEF FollowSpec, Spec

-----------------------------------------------------------------------------
(* Where the queue of steps ends *)

(* Displaying the front step leaves the end of the queue where it is. *)
LEMMA AnimationKeepsEnd ==
  ASSUME TypeOK, UpdateAnimationInfo
  PROVE  Predicted'.at = Predicted.at
<1>1. m_Steps \in Seq(WalkData) /\ m_Steps # <<>> /\ Len(m_Steps) \in Nat \ {0}
  BY EmptySeq DEF UpdateAnimationInfo, TypeOK
<1>2. /\ m_Steps' = Tail(m_Steps) /\ m_Steps' \in Seq(WalkData)
      /\ Len(m_Steps') = Len(m_Steps) - 1
      /\ \A i \in 1..Len(m_Steps') : m_Steps'[i] = m_Steps[i + 1]
      /\ Head(m_Steps) = m_Steps[1]
  BY <1>1, HeadTailProperties DEF UpdateAnimationInfo
<1>3. CASE m_Steps' = <<>>
  <2>1. Len(m_Steps) = 1
    <3>1. Len(m_Steps') = 0
      BY <1>3, EmptySeq
    <3> QED BY <1>1, <1>2, <3>1
  <2> QED BY <1>1, <1>2, <1>3, <2>1 DEF Predicted, UpdateAnimationInfo
<1>4. CASE m_Steps' # <<>>
  <2>1. Len(m_Steps') \in 1..Len(m_Steps') /\ Len(m_Steps') + 1 = Len(m_Steps)
    BY <1>1, <1>2, <1>4, EmptySeq
  <2>2. m_Steps'[Len(m_Steps')] = m_Steps[Len(m_Steps)]
    BY <1>2, <2>1
  <2> QED BY <1>1, <1>4, <2>2 DEF Predicted
<1> QED BY <1>3, <1>4

(* A step that is not deflected turns on the spot, or moves along its      *)
(* direction if the queue ends in that direction already.                  *)
LEMMA WalkMovesEnd ==
  ASSUME TypeOK, NEW d \in Headings, Walk(d)
  PROVE  /\ Predicted' = m_Steps'[Len(m_Steps')]
         /\ m_Steps'[Len(m_Steps')].dir = d =>
              Predicted'.at = IF Predicted.dir = d THEN GetNewXY(d, Predicted.at)
                                                   ELSE Predicted.at
<1>1. PICK c \in CanWalk(d, Predicted.at) :
        (Predicted.dir = d => c.passed) /\ PushStep(StepTaken(c))
  BY DEF Walk
<1> DEFINE step == StepTaken(c)
<1>2. step \in WalkData /\ m_Steps \in Seq(WalkData) /\ Len(m_Steps) \in Nat
  BY StepTakenType DEF TypeOK
<1> HIDE DEF step
<1>3. /\ Len(m_Steps') = Len(m_Steps) + 1
      /\ m_Steps'[Len(m_Steps) + 1] = step
      /\ m_Steps' \in Seq(WalkData)
  BY <1>1, <1>2, AppendProperties DEF PushStep, step
<1>4. Predicted' = m_Steps'[Len(m_Steps')] /\ m_Steps'[Len(m_Steps')] = step
  BY <1>2, <1>3, EmptySeq DEF Predicted
<1>5. step.dir = c.dir /\ step.at = IF c.dir = Predicted.dir THEN c.at ELSE Predicted.at
  BY DEF step, StepTaken
<1>6. Predicted.dir = d /\ c.dir = d => c.at = GetNewXY(d, Predicted.at)
  <2>1. CASE c = [passed |-> FALSE, dir |-> d, at |-> Predicted.at]
    BY <1>1, <2>1
  <2>2. ASSUME NEW e, c = [passed |-> TRUE, dir |-> e, at |-> GetNewXY(e, Predicted.at)]
        PROVE  c.dir = d => c.at = GetNewXY(d, Predicted.at)
    BY <2>2
  <2> QED BY <2>1, <2>2 DEF CanWalk
<1> QED BY <1>4, <1>5, <1>6

-----------------------------------------------------------------------------
(* The follower keeps its place *)

LEMMA FollowKeepsPlace ==
  ASSUME TypeOK, NEW r \in Routes, NEW off \in BOOLEAN, NEW i \in Nat, Follow(r, i, off),
         ~off => i \in 1..Len(r) /\ Predicted.at = r[i].at /\ ~Misdirects(r)
  PROVE  (OnPath /\ FollowsPath)'
<1> SUFFICES ASSUME AutoWalking', ~lost'
             PROVE  /\ ~Misdirects(m_Path')
                    /\ m_PointIndex' \in 1..Len(m_Path')
                    /\ Predicted'.at = m_Path'[m_PointIndex'].at
  BY DEF OnPath, FollowsPath, Misdirects
<1> DEFINE d == r[i + 1].dir
<1>1. r \in Seq(WalkData) /\ Len(r) \in Nat
  BY RoutesAssumption
<1>2. /\ i < Len(r) /\ Walk(d) /\ m_Path' = r
      /\ m_PointIndex' = IF Predicted.dir = d THEN i + 1 ELSE i
      /\ ~off /\ m_Steps'[Len(m_Steps')].dir = d
  BY DEF Follow, StopAutoWalk
<1>3. i \in 1..Len(r) /\ i + 1 \in 2..Len(r) /\ (i + 1) - 1 = i
  BY <1>1, <1>2
<1>4. d \in Headings
  BY <1>3, RouteType
<1>5. r[i + 1].at = GetNewXY(d, r[i].at)
  BY <1>2, <1>3 DEF Misdirects
<1>6. Predicted'.at = IF Predicted.dir = d THEN GetNewXY(d, Predicted.at) ELSE Predicted.at
  BY <1>2, <1>4, WalkMovesEnd
<1> HIDE DEF d
<1> QED BY <1>1, <1>2, <1>3, <1>5, <1>6

LEMMA NextFInv ==
  ASSUME TypeOK, FInv, [FollowNext]_followVars
  PROVE  FInv'
<1>1. PathKept'
  BY PathStaysKept DEF FInv
<1>2. (OnPath /\ FollowsPath)'
  <2>1. CASE ProcessAutowalk
    BY <2>1, FollowKeepsPlace DEF ProcessAutowalk, FInv, PathKept, OnPath, FollowsPath
  <2>2. ASSUME NEW r \in Routes, WalkTo(r)
        PROVE  (OnPath /\ FollowsPath)'
    <3> DEFINE off == Predicted.at # at \/ Misdirects(r)
    <3>1. /\ off \in BOOLEAN
          /\ ~off => 1 \in 1..Len(r) /\ Predicted.at = r[1].at /\ ~Misdirects(r)
      BY <2>2, RoutesAssumption DEF WalkTo, Misdirects
    <3>2. CASE Follow(r, 1, off)
      <4> HIDE DEF off
      <4> QED BY <3>1, <3>2, FollowKeepsPlace
    <3>3. CASE m_Path' = r /\ m_PointIndex' = 1 /\ lost' = off /\ UNCHANGED vars
      <4>1. Predicted' = Predicted
        BY <3>3 DEF vars, player, Predicted
      <4>2. ~lost' => /\ 1 \in 1..Len(m_Path') /\ ~Misdirects(m_Path')
                      /\ Predicted'.at = m_Path'[1].at
        <5> HIDE DEF off
        <5> QED BY <3>1, <3>3, <4>1
      <4> QED BY <3>3, <4>2 DEF OnPath, FollowsPath, Misdirects
    <3> QED BY <2>2, <3>2, <3>3 DEF WalkTo
  <2>3. CASE WalkToFails \/ CancelAutoWalk
    BY <2>3 DEF WalkToFails, CancelAutoWalk, StopAutoWalk, OnPath, FollowsPath
  <2>4. CASE \E d \in Headings : WalkByHand(d) \/ MovePlayer(d)
    BY <2>4 DEF WalkByHand, MovePlayer, autoWalk, OnPath, FollowsPath
  <2>5. CASE PutElsewhere
    BY <2>5 DEF PutElsewhere, OnPath, FollowsPath
  <2>6. ASSUME UNCHANGED autoWalk, Predicted'.at = Predicted.at
        PROVE  (OnPath /\ FollowsPath)'
    BY <2>6 DEF autoWalk, OnPath, FollowsPath, Misdirects, FInv
  <2>7. CASE UpdateAnimationInfo /\ UNCHANGED autoWalk
    BY <2>6, <2>7, AnimationKeepsEnd
  <2>8. CASE \E n \in Sequences : ConfirmWalk(n) /\ UNCHANGED autoWalk
    BY <2>6, <2>8 DEF ConfirmWalk, player, Predicted
  <2>9. CASE UNCHANGED followVars
    BY <2>6, <2>9 DEF followVars, vars, player, Predicted
  <2> QED BY <2>1, <2>2, <2>3, <2>4, <2>5, <2>7, <2>8, <2>9 DEF FollowNext
<1> QED BY <1>1, <1>2 DEF FInv

(* On every map and along every path the search may find, whatever the     *)
(* server confirms, denies or moves: as long as nothing has put the player *)
(* off the path, the queued steps end on the tile before the one           *)
(* m_PointIndex points to.                                                 *)
THEOREM FollowerKeepsPlace == FollowSpec => []FollowsPath
<1>1. FollowInit => FInv
  BY InitKept DEF FollowInit, FInv, OnPath, FollowsPath
<1>2. TypeOK /\ FInv /\ [FollowNext]_followVars => FInv'
  BY NextFInv
<1>3. FInv => FollowsPath
  BY DEF FInv
<1> QED BY <1>1, <1>2, <1>3, FollowerImplementsWalker, TypeCorrect, PTL DEF FollowSpec
=============================================================================
