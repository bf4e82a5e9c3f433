------------------------------- MODULE Walker -------------------------------
(***************************************************************************)
(* The client half of the walk protocol: CWalker (Walker/Walker.cpp), the  *)
(* step queue of the player (CGameCharacter::m_Steps), the function that   *)
(* asks the server for a step (CPathFinder::Walk) and the animation that   *)
(* consumes the queue (CGameCharacter::UpdateAnimationInfo).               *)
(*                                                                         *)
(* The client walks ahead of the server.  Every step is recorded twice: in *)
(* the fixed array m_Step, until the server has confirmed it and it has    *)
(* been displayed, and in the queue m_Steps, until it has been displayed.  *)
(* The server is not part of this module: ConfirmWalk, HandleDenyWalk,     *)
(* UpdatePlayer and EnterWorld take any argument, so what is shown here    *)
(* holds whatever the server sends.  WalkProtocol composes the module with *)
(* a server.                                                               *)
(*                                                                         *)
(* Abstractions: the time gate LastStepRequestTime, BlockMoving and the    *)
(* death screen only delay a step, and Walk is never forced; heights and   *)
(* the running bit take no part in the bookkeeping.                        *)
(*                                                                         *)
(* A definition named after another one and a mistake (ResetKeepsDisplayed,*)
(* WalkGuardOffByOne, ...) is not part of the model: it is that definition *)
(* with one plausible bug, kept to show which property notices it.         *)
(***************************************************************************)
EXTENDS Geometry, Sequences

CONSTANTS MaxSteps,     \* MAX_STEPS_COUNT, the length of m_Step
          MaxSequence,  \* 0xFF, after which WalkSequence restarts at 1
          Tiles,        \* the <<x, y>> of the map
          Headings      \* the directions in use, some of 0..7

ASSUME MaxStepsAssumption == MaxSteps \in Nat \ {0}
ASSUME MaxSequenceAssumption == MaxSequence \in Nat \ {0}
ASSUME TilesAssumption == Tiles \subseteq Int \X Int /\ <<0, 0>> \in Tiles
ASSUME HeadingsAssumption == Headings \subseteq 0..7

VARIABLES m_Step,                  \* CWalker: the array of steps, [0..4]
          StepsCount,              \*   entries of m_Step in use
          WalkSequence,            \*   the number of the next request
          CurrentWalkSequence,     \*   entries displayed, not yet confirmed
          UnacceptedPacketsCount,
          WalkingFailed,
          ResendPacketSended,
          m_Steps,                 \* the player: steps not yet displayed
          at,                      \*   its tile (m_X, m_Y)
          Direction,
          RemoveRange,             \* g_RemoveRangeXY, the last tile granted
          turning                  \* UpdateAnimationInfo is about to recurse

walker == <<m_Step, StepsCount, WalkSequence, CurrentWalkSequence,
            UnacceptedPacketsCount, WalkingFailed, ResendPacketSended>>
player == <<m_Steps, at, Direction, turning>>
vars   == <<walker, player, RemoveRange>>

Slots     == 0..MaxSteps - 1
Sequences == 0..MaxSequence
StepInfo  == [Sequence : Sequences, Accepted : BOOLEAN, at : Tiles]
WalkData  == [at : Tiles, dir : Headings]

-----------------------------------------------------------------------------
(* What CanWalk may answer: a blocked way leaves its arguments alone, a    *)
(* blocked diagonal is deflected to one of its two neighbours.  Creatures  *)
(* and items come and go, so any tile may be blocked at any time.          *)
Deflections(d) == IF d % 2 = 1 THEN {d, (d + 1) % 8, (d - 1) % 8} ELSE {d}

CanWalk(d, t) ==
  {[passed |-> FALSE, dir |-> d, at |-> t]} \cup
  {[passed |-> TRUE, dir |-> e, at |-> GetNewXY(e, t)] :
     e \in {f \in Deflections(d) \cap Headings : GetNewXY(f, t) \in Tiles}}

(* Where the queue of steps ends: the next step starts there. *)
PredictedIgnoresQueue == [at |-> at, dir |-> Direction]

Predicted == IF m_Steps = <<>> THEN [at |-> at, dir |-> Direction]
                               ELSE m_Steps[Len(m_Steps)]

-----------------------------------------------------------------------------
(* CWalker *)

ResetKeepsDisplayed ==
  /\ UnacceptedPacketsCount' = 0
  /\ StepsCount' = 0
  /\ WalkSequence' = 0
  /\ WalkingFailed' = FALSE
  /\ ResendPacketSended' = FALSE
  /\ UNCHANGED <<m_Step, CurrentWalkSequence>>

ResetKeepsResendFlag ==
  /\ UnacceptedPacketsCount' = 0
  /\ StepsCount' = 0
  /\ WalkSequence' = 0
  /\ CurrentWalkSequence' = 0
  /\ WalkingFailed' = FALSE
  /\ UNCHANGED <<m_Step, ResendPacketSended>>

Reset ==
  /\ UnacceptedPacketsCount' = 0
  /\ StepsCount' = 0
  /\ WalkSequence' = 0
  /\ CurrentWalkSequence' = 0
  /\ WalkingFailed' = FALSE
  /\ ResendPacketSended' = FALSE
  /\ UNCHANGED m_Step

(* Where the search of ConfirmWalk stops: at the first entry in use with   *)
(* this sequence, or behind the last one; at 0 if StepsCount is negative.  *)
StopsAt(i, sequence) ==
  /\ \A j \in Slots : j < i => m_Step[j].Sequence # sequence
  /\ \/ i < StepsCount /\ m_Step[i].Sequence = sequence
     \/ i = StepsCount
     \/ i = 0 /\ StepsCount < 0

IsBadStep(i) == i = StepsCount \/ (i < CurrentWalkSequence /\ i # 0)

AcceptStepKeepsRange(i) ==
  /\ ~IsBadStep(i) /\ i >= CurrentWalkSequence
  /\ m_Step' = [m_Step EXCEPT ![i].Accepted = TRUE]
  /\ UNCHANGED <<RemoveRange, StepsCount, CurrentWalkSequence, WalkingFailed,
                 ResendPacketSended>>

AcceptStep(i) ==
  /\ ~IsBadStep(i) /\ i >= CurrentWalkSequence
  /\ m_Step' = [m_Step EXCEPT ![i].Accepted = TRUE]
  /\ RemoveRange' = m_Step[i].at
  /\ UNCHANGED <<StepsCount, CurrentWalkSequence, WalkingFailed, ResendPacketSended>>

(* The array with entry i removed; the last entry stays behind as it was. *)
WithoutNextStep(i) ==
  [j \in Slots |-> IF j > i /\ j + 1 < StepsCount THEN m_Step[j + 1] ELSE m_Step[j]]

WithoutStep(i) ==
  [j \in Slots |-> IF j >= i /\ j + 1 < StepsCount THEN m_Step[j + 1] ELSE m_Step[j]]

RetireFirstKeepsIndex(i) ==
  /\ ~IsBadStep(i) /\ i < CurrentWalkSequence
  /\ m_Step' = WithoutStep(0)
  /\ RemoveRange' = m_Step[0].at
  /\ StepsCount' = StepsCount - 1
  /\ UNCHANGED <<CurrentWalkSequence, WalkingFailed, ResendPacketSended>>

RetireFirst(i) ==
  /\ ~IsBadStep(i) /\ i < CurrentWalkSequence
  /\ m_Step' = WithoutStep(0)
  /\ RemoveRange' = m_Step[0].at
  /\ StepsCount' = StepsCount - 1
  /\ CurrentWalkSequence' = CurrentWalkSequence - 1
  /\ UNCHANGED <<WalkingFailed, ResendPacketSended>>

FailWalking(i) ==
  /\ IsBadStep(i)
  /\ ResendPacketSended' = TRUE
  /\ WalkingFailed' = TRUE
  /\ StepsCount' = 0
  /\ CurrentWalkSequence' = 0
  /\ UNCHANGED <<m_Step, RemoveRange>>

ConfirmWalk(sequence) ==
  /\ ~turning
  /\ UnacceptedPacketsCount' =
       IF UnacceptedPacketsCount # 0 THEN UnacceptedPacketsCount - 1 ELSE 0
  /\ \E i \in 0..MaxSteps :
       /\ StopsAt(i, sequence)
       /\ AcceptStep(i) \/ RetireFirst(i) \/ FailWalking(i)
  /\ UNCHANGED <<WalkSequence, player>>

(* The server places the player: all steps are forgotten. *)
RelocateKeepsQueue(tile, d) ==
  /\ ~turning
  /\ Reset
  /\ at' = tile
  /\ RemoveRange' = tile
  /\ Direction' = d
  /\ UNCHANGED <<m_Steps, turning>>

Relocate(tile, d) ==
  /\ ~turning
  /\ Reset
  /\ m_Steps' = <<>>
  /\ at' = tile
  /\ RemoveRange' = tile
  /\ Direction' = d
  /\ UNCHANGED turning

HandleDenyWalk(tile, d) == Relocate(tile, d)
UpdatePlayer(tile, d)   == Relocate(tile, d)
EnterWorld(tile, d)     == Relocate(tile, d)

(* The world is deleted, the player and its queue with it. *)
ClearWorld ==
  /\ ~turning
  /\ Reset
  /\ m_Steps' = <<>>
  /\ UNCHANGED <<at, Direction, RemoveRange, turning>>

-----------------------------------------------------------------------------
(* CPathFinder::Walk *)

NextSequenceFromZero(n) == IF n = MaxSequence THEN 0 ELSE n + 1

NextSequence(n) == IF n = MaxSequence THEN 1 ELSE n + 1

WalkGuardOffByOne == ~WalkingFailed /\ StepsCount <= MaxSteps

WalkGuard == ~WalkingFailed /\ StepsCount < MaxSteps

(* The step that results when CanWalk answers c: the player moves when it  *)
(* already faces the direction it ends up with, otherwise it turns.        *)
StepTaken(c) ==
  [at |-> IF c.dir = Predicted.dir THEN c.at ELSE Predicted.at, dir |-> c.dir]

PushStep(step) ==
  /\ m_Step' = [m_Step EXCEPT ![StepsCount] =
                  [Sequence |-> WalkSequence, Accepted |-> FALSE, at |-> step.at]]
  /\ StepsCount' = StepsCount + 1
  /\ m_Steps' = Append(m_Steps, step)
  /\ WalkSequence' = NextSequence(WalkSequence)
  /\ UnacceptedPacketsCount' = UnacceptedPacketsCount + 1

Walk(direction) ==
  /\ ~turning
  /\ WalkGuard
  /\ \E c \in CanWalk(direction, Predicted.at) :
       /\ Predicted.dir = direction => c.passed
       /\ PushStep(StepTaken(c))
  /\ UNCHANGED <<CurrentWalkSequence, WalkingFailed, ResendPacketSended,
                 at, Direction, RemoveRange, turning>>

-----------------------------------------------------------------------------
(* CGameCharacter::UpdateAnimationInfo, when the front step is done.  A    *)
(* turn is done at once and the function calls itself for the next step,   *)
(* so turns that follow each other leave the queue in one call: nothing    *)
(* else runs while "turning".  A move is done when its time has passed.    *)

AlwaysCount ==
  /\ CurrentWalkSequence' = CurrentWalkSequence + 1
  /\ UNCHANGED <<m_Step, StepsCount>>

RetireOrCount ==
  IF m_Step[CurrentWalkSequence].Accepted
  THEN /\ m_Step' = WithoutStep(CurrentWalkSequence)
       /\ StepsCount' = StepsCount - 1
       /\ UNCHANGED CurrentWalkSequence
  ELSE /\ CurrentWalkSequence' = CurrentWalkSequence + 1
       /\ UNCHANGED <<m_Step, StepsCount>>

UpdateAnimationInfo ==
  /\ m_Steps # <<>>
  /\ RetireOrCount
  /\ at' = Head(m_Steps).at
  /\ Direction' = Head(m_Steps).dir
  /\ m_Steps' = Tail(m_Steps)
  /\ turning' = (/\ Head(m_Steps).at = at
                 /\ Tail(m_Steps) # <<>>
                 /\ m_Steps[2].at = at)
  /\ UNCHANGED <<WalkSequence, UnacceptedPacketsCount, WalkingFailed,
                 ResendPacketSended, RemoveRange>>

-----------------------------------------------------------------------------
Init ==
  /\ m_Step = [i \in Slots |-> [Sequence |-> 0, Accepted |-> FALSE, at |-> <<0, 0>>]]
  /\ StepsCount = 0
  /\ WalkSequence = 0
  /\ CurrentWalkSequence = 0
  /\ UnacceptedPacketsCount = 0
  /\ WalkingFailed = FALSE
  /\ ResendPacketSended = FALSE
  /\ m_Steps = <<>>
  /\ at \in Tiles
  /\ Direction \in Headings
  /\ RemoveRange = at
  /\ turning = FALSE

Next ==
  \/ \E d \in Headings : Walk(d)
  \/ UpdateAnimationInfo
  \/ \E n \in Sequences : ConfirmWalk(n)
  \/ \E t \in Tiles, d \in Headings :
       HandleDenyWalk(t, d) \/ UpdatePlayer(t, d) \/ EnterWorld(t, d)
  \/ ClearWorld

Spec == Init /\ [][Next]_vars

-----------------------------------------------------------------------------
(* Properties: they hold for every server. *)

(* Every variable has its type; StepsCount may only be negative between a  *)
(* failed confirmation and the message that repairs it.                    *)
TypeOK ==
  /\ m_Step \in [Slots -> StepInfo]
  /\ StepsCount \in -MaxSteps..MaxSteps
  /\ WalkSequence \in Sequences
  /\ CurrentWalkSequence \in 0..MaxSteps
  /\ UnacceptedPacketsCount \in Nat
  /\ WalkingFailed \in BOOLEAN
  /\ ResendPacketSended \in BOOLEAN
  /\ m_Steps \in Seq(WalkData)
  /\ at \in Tiles
  /\ Direction \in Headings
  /\ RemoveRange \in Tiles
  /\ turning \in BOOLEAN

(* The two records of the pending steps agree: as long as walking has not  *)
(* failed, the entries of m_Step are the steps displayed and unconfirmed,  *)
(* followed by the steps still queued, tile by tile.  After a failure the  *)
(* queue drains against entries that no longer belong to it, and the two   *)
(* indexes drift apart by no more than the steps drained.                  *)
LedgerAgrees ==
  /\ StepsCount = CurrentWalkSequence + Len(m_Steps)
  /\ \A i \in 1..Len(m_Steps) :
       m_Step[CurrentWalkSequence + i - 1].at = m_Steps[i].at

LedgerDrains ==
  /\ StepsCount <= 0
  /\ CurrentWalkSequence + Len(m_Steps) - MaxSteps <= StepsCount

StepLedger == IF WalkingFailed THEN LedgerDrains ELSE LedgerAgrees

(* m_Step is only indexed inside its bounds: where UpdateAnimationInfo     *)
(* reads it, even while the queue drains after a failure, and where Walk   *)
(* writes it.                                                              *)
IndexInBounds ==
  /\ m_Steps # <<>> => CurrentWalkSequence \in Slots
  /\ WalkGuard => StepsCount \in Slots

(* The queue is a path: every step turns on the spot or moves one tile in  *)
(* the direction already faced, starting from where the player stands.  So *)
(* the "badStep" jump of UpdateAnimationInfo never happens to the player.  *)
Before(i) == IF i = 1 THEN [at |-> at, dir |-> Direction] ELSE m_Steps[i - 1]

Follows(step, last) ==
  \/ step.at = last.at /\ step.dir # last.dir
  \/ step.at = GetNewXY(last.dir, last.at) /\ step.dir = last.dir

QueueIsPath == \A i \in 1..Len(m_Steps) : Follows(m_Steps[i], Before(i))
=============================================================================
