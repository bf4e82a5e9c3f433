------------------------------ MODULE AutoWalk ------------------------------
(***************************************************************************)
(* The follower of a found path (CPathFinder::ProcessAutowalk) beside the  *)
(* walker: every frame it asks for one more step along m_Path, while the   *)
(* server confirms, denies and places the player as it likes.              *)
(*                                                                         *)
(* The path is computed once.  A route is any path the search may find     *)
(* (PathSearch, PathLeads): it starts at the tile where the player is      *)
(* displayed, not where the queued steps will take it, and a tile that was *)
(* rerouted carries a direction that does not lead to it.                  *)
(***************************************************************************)
EXTENDS Walker

CONSTANT Routes  \* sequences of tiles with the direction the search noted

ASSUME RoutesAssumption ==
  \A r \in Routes : r \in Seq(WalkData) /\ Len(r) > 1

VARIABLES AutoWalking, m_Path, m_PointIndex,
          lost  \* since WalkTo something has put the player off the path

autoWalk   == <<AutoWalking, m_Path, m_PointIndex, lost>>
followVars == <<vars, autoWalk>>

-----------------------------------------------------------------------------
Misdirects(r) == \E i \in 2..Len(r) : r[i].at # GetNewXY(r[i].dir, r[i - 1].at)

StopAutoWalk == AutoWalking' = FALSE /\ m_Path' = <<>>

(* The body of ProcessAutowalk at index i of the path r (m_Path counts     *)
(* from 0).  Walk may send a step, perhaps deflected, or refuse: walking   *)
(* has failed or is blocked, the way is barred, or the game is.            *)
FollowIndexFirst(r, i, off) ==
  IF i < Len(r)
  THEN LET d == r[i + 1].dir
       IN /\ m_PointIndex' = i + 1
          /\ \/ /\ Walk(d)
                /\ AutoWalking' = TRUE /\ m_Path' = r
                /\ lost' = (off \/ m_Steps'[Len(m_Steps')].dir # d)
             \/ StopAutoWalk /\ lost' = off /\ UNCHANGED vars
  ELSE StopAutoWalk /\ m_PointIndex' = i /\ lost' = off /\ UNCHANGED vars

Follow(r, i, off) ==
  IF i < Len(r)
  THEN LET d == r[i + 1].dir
       IN /\ m_PointIndex' = IF Predicted.dir = d THEN i + 1 ELSE i
          /\ \/ /\ Walk(d)
                /\ AutoWalking' = TRUE /\ m_Path' = r
                /\ lost' = (off \/ m_Steps'[Len(m_Steps')].dir # d)
             \/ StopAutoWalk /\ lost' = off /\ UNCHANGED vars
  ELSE StopAutoWalk /\ m_PointIndex' = i /\ lost' = off /\ UNCHANGED vars

ProcessAutowalk ==
  /\ ~turning
  /\ AutoWalking /\ StepsCount < MaxSteps
  /\ Follow(m_Path, m_PointIndex, lost)

(* WalkTo, asked by the player's clicks (not while AutoWalking) or by the  *)
(* server's Pathfinding packet (at any time).  A path that is found is     *)
(* followed at once, if the time of the last step and the window allow it. *)
WalkTo(r) ==
  LET off == Predicted.at # at \/ Misdirects(r)
  IN /\ ~turning
     /\ r[1].at = at
     /\ \/ StepsCount < MaxSteps /\ Follow(r, 1, off)
        \/ /\ AutoWalking' = TRUE /\ m_Path' = r /\ m_PointIndex' = 1 /\ lost' = off
           /\ UNCHANGED vars

WalkToFails ==
  /\ ~turning
  /\ StopAutoWalk
  /\ UNCHANGED <<vars, m_PointIndex, lost>>

\* Escape.
CancelAutoWalk ==
  /\ ~turning
  /\ AutoWalking
  /\ StopAutoWalk
  /\ UNCHANGED <<vars, m_PointIndex, lost>>

(* The keys, the mouse and macros ask for a step only while no path is     *)
(* followed; the server's MovePlayer packet does at any time.              *)
WalkByHand(d) ==
  /\ ~AutoWalking
  /\ Walk(d)
  /\ UNCHANGED autoWalk

MovePlayer(d) ==
  /\ Walk(d)
  /\ lost' = TRUE
  /\ UNCHANGED <<AutoWalking, m_Path, m_PointIndex>>

(* Nobody stops the follower when the player is placed or leaves.          *)
PutElsewhere ==
  /\ \/ \E t \in Tiles, d \in Headings :
          HandleDenyWalk(t, d) \/ UpdatePlayer(t, d) \/ EnterWorld(t, d)
     \/ ClearWorld
  /\ lost' = TRUE
  /\ UNCHANGED <<AutoWalking, m_Path, m_PointIndex>>

FollowInit ==
  Init /\ AutoWalking = FALSE /\ m_Path = <<>> /\ m_PointIndex = 0 /\ lost = FALSE

FollowNext ==
  \/ ProcessAutowalk
  \/ \E r \in Routes : WalkTo(r)
  \/ WalkToFails
  \/ CancelAutoWalk
  \/ \E d \in Headings : WalkByHand(d) \/ MovePlayer(d)
  \/ PutElsewhere
  \/ UpdateAnimationInfo /\ UNCHANGED autoWalk
  \/ \E n \in Sequences : ConfirmWalk(n) /\ UNCHANGED autoWalk

FollowSpec == FollowInit /\ [][FollowNext]_followVars

-----------------------------------------------------------------------------
(* The follower keeps its place: however steps are displayed, confirmed or *)
(* refused, the queued steps end on the tile of the path before the one    *)
(* m_PointIndex points to.  Only five things put the player off the path:  *)
(* a search begun while steps were queued, a rerouted tile, a deflected    *)
(* step, a packet that moves or places the player, and the end of the      *)
(* world, which the path survives.                                         *)
FollowsPath ==
  AutoWalking /\ ~lost =>
    m_PointIndex \in 1..Len(m_Path) /\ Predicted.at = m_Path[m_PointIndex].at
=============================================================================
