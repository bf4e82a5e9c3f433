----------------------------- MODULE PathSearch -----------------------------
(***************************************************************************)
(* The search of a path (CPathFinder::WalkTo and FindPath): two lists of   *)
(* nodes, open and closed; a node points to the closed node it was reached *)
(* from.  The search stops when it generates a node near the target.       *)
(*                                                                         *)
(* The world stands still during one call, and is another one at the next. *)
(* It is given by its ways: the pairs of a tile and a direction for which  *)
(* CalculateNewZ passes.  Heights are left out otherwise: one z per tile.  *)
(* The slots of the arrays only break ties between nodes of equal cost, so *)
(* the lists are sets of nodes and any cheapest node may be chosen.        *)
(***************************************************************************)
EXTENDS Geometry, Sequences, FiniteSets

CONSTANTS MapTiles,   \* the <<x, y>> of the map
          Worlds,     \* sets of ways, <<tile, direction>>
          Starts,     \* tiles where the player may stand
          Targets,    \* tiles to walk to
          Distance,   \* m_PathFindDistance, 0 in every call
          MaxNodes,   \* PATHFINDER_MAX_NODES, the length of either list
          NoTile      \* the null pointer

ASSUME SearchTiles ==
  MapTiles \subseteq Int \X Int /\ Starts \subseteq MapTiles /\ NoTile \notin MapTiles
ASSUME SearchTargets == Targets \subseteq Int \X Int
ASSUME SearchNumbers == Distance \in Nat /\ MaxNodes \in Nat \ {0}
ASSUME SearchWorlds ==
  \A w \in Worlds : w \subseteq MapTiles \X (0..7) /\
                    \A way \in w : GetNewXY(way[2], way[1]) \in MapTiles

VARIABLES ways, start, target,  \* the world, m_StartPoint and m_EndPoint
          open, closed,         \* m_OpenList, m_ClosedList
          current,              \* the node whose neighbours are being opened
          next,                 \* the direction OpenNodes tries next
          goal,                 \* the tile of m_GoalNode, NoTile before it is found
          path,                 \* m_Path, filled from its end
          search,               \* "idle", "open", "trace", "found", "failed"
          rerouted,             \* open or closed tiles whose parent was replaced
          skipped               \* a node found no free slot

searchVars == <<ways, start, target, open, closed, current, next, goal, path,
                search, rerouted, skipped>>

Dirs == 0..7
Node == [at : MapTiles, parent : MapTiles \cup {NoTile}, dir : Dirs, start : Nat, goal : Nat]

-----------------------------------------------------------------------------
(* What CanWalk leaves of a direction that is not to be deflected: a       *)
(* diagonal needs the two directions beside it as well.                    *)
PassesCorners(d, t) == <<t, d>> \in ways

Passes(d, t) ==
  /\ <<t, d>> \in ways
  /\ d % 2 = 1 => <<t, (d + 1) % 8>> \in ways /\ <<t, (d + 7) % 8>> \in ways

Near(t) == GetDistance(target, t) <= Distance

GetGoalDistCost(t, cost) == (Abs(target[1] - t[1]) + Abs(target[2] - t[2])) * cost

Cost(node) == node.start + node.goal

OnList(list, t) == \E n \in list : n.at = t

(* AddNodeToList(0, ...): the tile t is reached from current in direction  *)
(* d.  A cheaper way to an open tile replaces the parent and the cost, and *)
(* counts the step twice; the direction stays.                             *)
OpenNewIgnoresClosed(d, t, cost) ==
  /\ ~OnList(open, t)
  /\ open' = open \cup {[at |-> t, parent |-> current.at, dir |-> d,
                         start |-> current.start + cost,
                         goal |-> GetGoalDistCost(t, cost)]}
  /\ goal' = IF Near(t) THEN t ELSE goal
  /\ UNCHANGED <<skipped, rerouted>>

OpenNew(d, t, cost) ==
  /\ ~OnList(closed, t) /\ ~OnList(open, t)
  /\ IF Cardinality(open) < MaxNodes
     THEN /\ open' = open \cup {[at |-> t, parent |-> current.at, dir |-> d,
                                 start |-> current.start + cost,
                                 goal |-> GetGoalDistCost(t, cost)]}
          /\ goal' = IF Near(t) THEN t ELSE goal
          /\ UNCHANGED skipped
     ELSE /\ skipped' = TRUE
          /\ UNCHANGED <<open, goal>>
  /\ UNCHANGED rerouted

OpenAgain(t, cost) ==
  /\ ~OnList(closed, t)
  /\ \E n \in open :
       /\ n.at = t
       /\ IF n.start > current.start + cost
          THEN /\ open' = (open \ {n}) \cup
                          {[n EXCEPT !.parent = current.at,
                                     !.start = current.start + 2 * cost]}
               /\ rerouted' = rerouted \cup {t}
          ELSE UNCHANGED <<open, rerouted>>
  /\ UNCHANGED <<goal, skipped>>

AlreadyClosed(t) == OnList(closed, t) /\ UNCHANGED <<open, goal, rerouted, skipped>>

AddNodeToList(d, t, cost) ==
  OpenNew(d, t, cost) \/ OpenAgain(t, cost) \/ AlreadyClosed(t)

\* OpenNodes, one turn of its loop.
OpenNode ==
  /\ search = "open" /\ next < 8
  /\ next' = next + 1
  /\ IF Passes(next, current.at)
     THEN AddNodeToList(next, GetNewXY(next, current.at), 1 + (next % 2))
     ELSE UNCHANGED <<open, goal, rerouted, skipped>>
  /\ UNCHANGED <<ways, start, target, closed, current, path, search>>

(* FindCheapestNode: the node moves to the closed list, whose slots are    *)
(* never freed; a full list ends the search (m_ActiveClosedNodes, which    *)
(* does not count the start, never gets that far).                         *)
CloseCheapest ==
  /\ search = "open" /\ next = 8 /\ goal = NoTile
  /\ \E n \in open :
       /\ \A m \in open : Cost(n) <= Cost(m)
       /\ open' = open \ {n}
       /\ IF Cardinality(closed) < MaxNodes
          THEN /\ closed' = closed \cup {n}
               /\ current' = n
               /\ next' = 0
               /\ UNCHANGED <<search, skipped>>
          ELSE /\ search' = "failed"
               /\ skipped' = TRUE
               /\ UNCHANGED <<closed, current, next>>
  /\ UNCHANGED <<ways, start, target, goal, path, rerouted>>

Exhausted ==
  /\ search = "open" /\ next = 8 /\ goal = NoTile
  /\ open = {}
  /\ search' = "failed"
  /\ UNCHANGED <<ways, start, target, open, closed, current, next, goal, path, rerouted,
                 skipped>>

\* The goal has been found: m_Path is filled from the goal back to the start.
FoundGoal ==
  /\ search = "open" /\ next = 8 /\ goal # NoTile
  /\ \E n \in open : n.at = goal /\ path' = <<n>>
  /\ search' = "trace"
  /\ UNCHANGED <<ways, start, target, open, closed, current, next, goal, rerouted,
                 skipped>>

TraceBackLosesStart ==
  /\ search = "trace"
  /\ IF Head(path).parent \in {NoTile, start}
     THEN search' = "found" /\ UNCHANGED path
     ELSE /\ \E n \in closed : n.at = Head(path).parent /\ path' = <<n>> \o path
          /\ UNCHANGED search
  /\ UNCHANGED <<ways, start, target, open, closed, current, next, goal, rerouted,
                 skipped>>

TraceBack ==
  /\ search = "trace"
  /\ IF Head(path).parent = NoTile
     THEN search' = "found" /\ UNCHANGED path
     ELSE /\ \E n \in closed : n.at = Head(path).parent /\ path' = <<n>> \o path
          /\ UNCHANGED search
  /\ UNCHANGED <<ways, start, target, open, closed, current, next, goal, rerouted,
                 skipped>>

(* WalkTo and the start of FindPath: the lists are emptied, the start takes *)
(* the first closed slot.                                                  *)
(* The player may stand anywhere, in a world that has changed.             *)
StartNode(t) == [at |-> t, parent |-> NoTile, dir |-> 0, start |-> 0, goal |-> 0]

FindPathKeepsClosedList(t, from, w) ==
  /\ search \in {"idle", "found", "failed"}
  /\ ways' = w /\ start' = from /\ target' = t
  /\ open' = {}
  /\ closed' = closed \cup {StartNode(from)}
  /\ current' = StartNode(from)
  /\ next' = 0 /\ goal' = NoTile /\ path' = <<>>
  /\ search' = "open" /\ rerouted' = {} /\ skipped' = FALSE

FindPath(t, from, w) ==
  /\ search \in {"idle", "found", "failed"}
  /\ ways' = w /\ start' = from /\ target' = t
  /\ open' = {}
  /\ closed' = {StartNode(from)}
  /\ current' = StartNode(from)
  /\ next' = 0 /\ goal' = NoTile /\ path' = <<>>
  /\ search' = "open" /\ rerouted' = {} /\ skipped' = FALSE

SearchInit ==
  /\ ways = {} /\ start \in Starts /\ target \in Targets
  /\ open = {} /\ closed = {} /\ current = StartNode(start)
  /\ next = 8 /\ goal = NoTile /\ path = <<>>
  /\ search = "idle" /\ rerouted = {} /\ skipped = FALSE

SearchNext ==
  \/ \E t \in Targets, from \in Starts, w \in Worlds : FindPath(t, from, w)
  \/ OpenNode
  \/ CloseCheapest
  \/ Exhausted
  \/ FoundGoal
  \/ TraceBack

SearchSpec == SearchInit /\ [][SearchNext]_searchVars

-----------------------------------------------------------------------------
(* Properties *)

(* The nodes form a tree rooted in the start: a tile is on one list at     *)
(* most and once, every node but the start was reached from a closed node  *)
(* over a way that CanWalk passes, and lies farther from the start than    *)
(* its parent, so a chain of parents never runs in a circle.  The node's   *)
(* direction is the way it was reached, unless its parent was replaced     *)
(* afterwards: AddNodeToList does not replace the direction with it.       *)
Nodes == open \cup closed

EachTileOnce == \A m, n \in Nodes : m.at = n.at => m = n

Leads(p, d, n) == Passes(d, p.at) /\ n.at = GetNewXY(d, p.at)

ReachedFrom(p, n) ==
  /\ p.at = n.parent /\ p.start < n.start
  /\ \E d \in Dirs : Leads(p, d, n)
  /\ n.at \notin rerouted => Leads(p, n.dir, n)

ParentsClosed ==
  \A n \in Nodes : IF n.parent = NoTile THEN n.at = start /\ n \in closed
                                        ELSE \E p \in closed : ReachedFrom(p, n)

SearchTree == open \cap closed = {} /\ EachTileOnce /\ ParentsClosed

(* The path found starts where the player stands, ends near the target,    *)
(* and takes one passable step at a time, in the directions it names but   *)
(* for the tiles that were rerouted.                                       *)
PathLeads ==
  search = "found" =>
    /\ Len(path) > 1
    /\ path[1].at = start
    /\ Near(path[Len(path)].at)
    /\ \A i \in 2..Len(path) : ReachedFrom(path[i - 1], path[i])

(* A search that fails without running out of slots was right to: there is *)
(* no way from the start to any other tile near the target, for some set   *)
(* of tiles is closed under the passable steps and holds no such tile.     *)
ClosedUnder(S) == \A t \in S, d \in Dirs : Passes(d, t) => GetNewXY(d, t) \in S

NoRoute ==
  \E S \in SUBSET MapTiles :
    start \in S /\ ClosedUnder(S) /\ \A t \in S \ {start} : ~Near(t)

FailsRightly == search = "failed" /\ ~skipped => NoRoute
=============================================================================
