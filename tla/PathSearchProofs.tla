-------------------------- MODULE PathSearchProofs --------------------------
(***************************************************************************)
(* Proofs about module PathSearch, for every map, every world on it and    *)
(* every length of the lists.                                              *)
(*                                                                         *)
(* That the nodes form a tree (SearchTree) is inductive with the types.    *)
(* That the path leads needs to know besides that the goal is an open node *)
(* near the target and that the path filled so far is a chain of the tree  *)
(* (Traced).  That a search fails rightly needs to know what a node on the *)
(* closed list stands for: every passable step from it ends on a list      *)
(* (Explored), and no node but the start is near the target (GoalKept).    *)
(***************************************************************************)
EXTENDS PathSearch, SequenceTheorems, TLAPS

WaysOK == ways \subseteq MapTiles \X Dirs /\
          \A way \in ways : GetNewXY(way[2], way[1]) \in MapTiles

Typed ==
  /\ start \in MapTiles /\ target \in Int \X Int /\ WaysOK
  /\ open \subseteq Node /\ closed \subseteq Node
  /\ next \in 0..8
  /\ path \in Seq(Node)
  /\ rerouted \subseteq MapTiles
  /\ search = "open" => current \in closed
  /\ search # "idle" => StartNode(start) \in closed

GoalKept ==
  /\ search \in {"open", "failed"} =>
       IF goal = NoTile THEN \A n \in Nodes : n.at # start => ~Near(n.at)
                        ELSE OnList(open, goal) /\ Near(goal)
  /\ search = "failed" => goal = NoTile /\ (skipped \/ open = {})

(* Every step that CanWalk passes from n in a direction d, d < k, leads to *)
(* a tile on one of the lists.                                             *)
Opened(n, k) ==
  \A d \in Dirs : d < k /\ Passes(d, n.at) => OnList(Nodes, GetNewXY(d, n.at))

Explored ==
  search \in {"open", "failed"} /\ ~skipped =>
    \A n \in closed : Opened(n, IF search = "open" /\ n = current THEN next ELSE 8)

Traced ==
  /\ search \in {"trace", "found"} =>
       /\ path # <<>>
       /\ path[Len(path)] \in open /\ Near(path[Len(path)].at)
       /\ \A i \in 1..Len(path) : i < Len(path) => path[i] \in closed
       /\ \A i \in 2..Len(path) : ReachedFrom(path[i - 1], path[i])
  /\ search = "found" => path[1].parent = NoTile

SInv == Typed /\ SearchTree /\ GoalKept /\ Explored /\ Traced

USE SearchTiles, SearchTargets, SearchNumbers, SearchWorlds

-----------------------------------------------------------------------------
(* Lemmas about the operators *)

(* The distance to the target is a natural number, whatever the step costs.*)
LEMMA GoalDistCostType ==
  ASSUME target \in Int \X Int, NEW t \in MapTiles, NEW cost \in {1, 2}
  PROVE  GetGoalDistCost(t, cost) \in Nat
<1>1. /\ target[1] \in Int /\ target[2] \in Int
      /\ t[1] \in Int /\ t[2] \in Int
  OBVIOUS
<1>2. \A n \in Int : Abs(n) \in Nat
  BY DEF Abs
<1>3. /\ Abs(target[1] - t[1]) \in Nat
      /\ Abs(target[2] - t[2]) \in Nat
  BY <1>1, <1>2
<1>4. \A m, n \in Nat : (m + n) * 1 \in Nat /\ (m + n) * 2 \in Nat
  OBVIOUS
<1> QED BY <1>3, <1>4 DEF GetGoalDistCost

(* A step that CanWalk passes leads to a tile of the map.                  *)
LEMMA StepsStayOnMap ==
  ASSUME WaysOK, NEW d \in Dirs, NEW t, Passes(d, t)
  PROVE  t \in MapTiles /\ GetNewXY(d, t) \in MapTiles
<1>1. <<t, d>> \in ways
  BY DEF Passes
<1>2. <<t, d>>[2] = d /\ <<t, d>>[1] = t
  OBVIOUS
<1> QED BY <1>1, <1>2 DEF WaysOK

-----------------------------------------------------------------------------
(* The inductive invariant: one lemma for each kind of step *)

LEMMA InitSInv == SearchInit => SInv
<1> SUFFICES ASSUME SearchInit PROVE SInv
  OBVIOUS
<1>1. Typed
  BY EmptySeq DEF SearchInit, Typed, WaysOK
<1>2. SearchTree /\ GoalKept /\ Explored /\ Traced
  BY DEF SearchInit, SearchTree, EachTileOnce, ParentsClosed, Nodes, GoalKept, Explored, Traced
<1> QED BY <1>1, <1>2 DEF SInv

LEMMA FindPathSInv ==
  ASSUME NEW t \in Targets, NEW from \in Starts, NEW w \in Worlds, FindPath(t, from, w)
  PROVE  SInv'
<1>1. StartNode(from) \in Node /\ StartNode(from).at = from /\ StartNode(from).parent = NoTile
  BY DEF StartNode, Node, Dirs
<1>2. Nodes' = {StartNode(from)} /\ closed' = {StartNode(from)} /\ open' = {}
  BY DEF FindPath, Nodes
<1>3. Typed'
  BY <1>1, <1>2, EmptySeq DEF FindPath, Typed, WaysOK, Dirs, StartNode
<1>4. SearchTree'
  BY <1>1, <1>2 DEF FindPath, SearchTree, EachTileOnce, ParentsClosed
<1>5. GoalKept'
  BY <1>1, <1>2 DEF FindPath, GoalKept
<1>6. Explored'
  <2>1. \A d \in Dirs : ~(d < 0)
    BY DEF Dirs
  <2>2. Opened(current, next)'
    BY <2>1 DEF FindPath, Opened
  <2> QED BY <1>2, <2>2 DEF FindPath, Explored, StartNode
<1>7. Traced'
  BY DEF FindPath, Traced
<1> QED BY <1>3, <1>4, <1>5, <1>6, <1>7 DEF SInv

(* The lists keep the tree when a node is added or its parent replaced: m  *)
(* is reached from current, the lists are without another node for its     *)
(* tile, and no closed node is touched.                                    *)
LEMMA AddKeepsTree ==
  ASSUME Typed, SearchTree, search = "open",
         NEW m \in Node, NEW others, others \subseteq open,
         \A n \in others \cup closed : n.at # m.at,
         open' = others \cup {m}, UNCHANGED <<closed, current, start, ways>>,
         rerouted \subseteq rerouted',
         m.parent = current.at, current.start < m.start,
         \E d \in Dirs : Leads(current, d, m),
         m.at \notin rerouted' => Leads(current, m.dir, m)
  PROVE  SearchTree'
<1>1. current \in closed /\ current.at # NoTile
  BY DEF Typed, Node
<1>2. open' \cap closed' = {}
  BY DEF SearchTree
<1>3. EachTileOnce'
  BY DEF SearchTree, EachTileOnce, Nodes
<1>4. ReachedFrom(current, m)'
  BY DEF ReachedFrom, Leads, Passes
<1>5. ASSUME NEW p, NEW n, ReachedFrom(p, n)
      PROVE  ReachedFrom(p, n)'
  BY <1>5 DEF ReachedFrom, Leads, Passes
<1>6. ParentsClosed'
  <2> SUFFICES ASSUME NEW n \in Nodes'
               PROVE  IF n.parent = NoTile THEN n.at = start /\ n \in closed
                                           ELSE \E p \in closed : ReachedFrom(p, n)'
    BY DEF ParentsClosed
  <2>1. CASE n = m
    BY <1>1, <1>4, <2>1
  <2>2. CASE n # m
    <3>1. n \in Nodes
      BY <2>2 DEF Nodes
    <3> QED BY <1>5, <3>1 DEF SearchTree, ParentsClosed
  <2> QED BY <2>1, <2>2
<1> QED BY <1>2, <1>3, <1>6 DEF SearchTree

LEMMA OpenNodeSInv ==
  ASSUME SInv, OpenNode
  PROVE  SInv'
<1> USE DEF SInv
<1> DEFINE t == GetNewXY(next, current.at)
           cost == 1 + (next % 2)
<1>1. /\ search = "open" /\ search' = "open" /\ next \in Dirs /\ next' = next + 1
      /\ UNCHANGED <<ways, start, target, closed, current, path>>
  BY DEF OpenNode, Typed, Dirs
<1>2. cost \in {1, 2} /\ current \in closed /\ current \in Node /\ current.start \in Nat
  <2>1. current \in closed
    BY <1>1 DEF Typed
  <2>2. current \in Node
    BY <1>1 DEF Typed
  <2>3. current.start \in Nat
    BY <2>2 DEF Node
  <2>4. next \in 0..7
    BY <1>1 DEF Dirs
  <2>5. cost \in {1, 2}
    BY ONLY <2>4, SMT
  <2> QED BY <2>1, <2>2, <2>3, <2>5
<1> HIDE DEF cost
<1>3. ASSUME NEW x PROVE Near(x)' = Near(x)
  BY <1>1 DEF Near
<1>4. ASSUME NEW d, NEW x PROVE Passes(d, x)' = Passes(d, x)
  BY <1>1 DEF Passes
<1>5. Traced'
  BY <1>1 DEF Traced
<1>6. ASSUME Passes(next, current.at) => OnList(Nodes', t),
             \A u : OnList(Nodes, u) => OnList(Nodes', u),
             skipped' = skipped
      PROVE  Explored'
  <2> SUFFICES ASSUME ~skipped, NEW n \in closed, NEW d \in Dirs, Passes(d, n.at),
                      d < IF n = current THEN next + 1 ELSE 8
               PROVE  OnList(Nodes', GetNewXY(d, n.at))
    BY <1>1, <1>4, <1>6 DEF Explored, Opened, OnList
  <2>1. CASE n = current /\ d = next
    BY <1>6, <2>1
  <2>2. CASE ~(n = current /\ d = next)
    <3>1. d < IF n = current THEN next ELSE 8
      BY <1>1, <2>2 DEF Dirs
    <3>2. OnList(Nodes, GetNewXY(d, n.at))
      BY <1>1, <3>1 DEF Explored, Opened
    <3> QED BY <1>6, <3>2
  <2> QED BY <2>1, <2>2
\* The lists stay as they are.
<1>7. ASSUME UNCHANGED <<open, goal, rerouted>>, Explored'
      PROVE  SInv'
  <2>1. UNCHANGED Nodes
    BY <1>1, <1>7 DEF Nodes
  <2>2. Typed'
    BY <1>1, <1>7 DEF Typed, WaysOK, Dirs
  <2>3. SearchTree'
    <3>1. ASSUME NEW p, NEW n, ReachedFrom(p, n)
          PROVE  ReachedFrom(p, n)'
      BY <1>1, <1>7, <3>1 DEF ReachedFrom, Leads, Passes
    <3> QED BY <1>1, <1>7, <2>1, <3>1 DEF SearchTree, EachTileOnce, ParentsClosed
  <2>4. GoalKept'
    BY <1>1, <1>3, <1>7, <2>1 DEF GoalKept
  <2> QED BY <1>5, <1>7, <2>2, <2>3, <2>4
\* Neither is the tile new nor the way to it cheaper.
<1>8. ASSUME UNCHANGED <<open, goal, rerouted, skipped>>,
             Passes(next, current.at) => OnList(Nodes, t)
      PROVE  SInv'
  <2>1. UNCHANGED Nodes
    BY <1>1, <1>8 DEF Nodes
  <2>2. Explored'
    BY <1>6, <1>8, <2>1 DEF OnList
  <2> QED BY <1>7, <1>8, <2>2
<1>9. CASE ~Passes(next, current.at)
  BY <1>8, <1>9 DEF OpenNode
<1>10. CASE Passes(next, current.at)
  <2>1. t \in MapTiles /\ AddNodeToList(next, t, cost)
    BY <1>1, <1>10, StepsStayOnMap DEF OpenNode, Typed, cost
  <2>2. CASE AlreadyClosed(t)
    BY <1>8, <2>2 DEF AlreadyClosed, OnList, Nodes
  <2>3. CASE OpenNew(next, t, cost) /\ ~(Cardinality(open) < MaxNodes)
    <3>1. UNCHANGED <<open, goal, rerouted>> /\ skipped'
      BY <2>3 DEF OpenNew
    <3>2. Explored'
      BY <3>1 DEF Explored
    <3> QED BY <1>5, <1>7, <3>1, <3>2
  <2>4. CASE OpenNew(next, t, cost) /\ Cardinality(open) < MaxNodes
    <3> DEFINE m == [at |-> t, parent |-> current.at, dir |-> next,
                     start |-> current.start + cost, goal |-> GetGoalDistCost(t, cost)]
    <3>1. /\ ~OnList(closed, t) /\ ~OnList(open, t)
          /\ open' = open \cup {m} /\ goal' = IF Near(t) THEN t ELSE goal
          /\ UNCHANGED <<skipped, rerouted>>
      BY <2>4 DEF OpenNew
    <3>2. GetGoalDistCost(t, cost) \in Nat
      BY <1>2, <2>1, GoalDistCostType DEF Typed
    <3>3. m \in Node
      BY <1>1, <1>2, <2>1, <3>2 DEF Node
    <3>4. m.at = t /\ m.parent = current.at /\ m.dir = next /\ m.start = current.start + cost
      OBVIOUS
    <3>5. Leads(current, m.dir, m)
      BY <1>10, <3>4 DEF Leads
    <3> HIDE DEF m
    <3>6. Typed'
      BY <1>1, <3>1, <3>3 DEF Typed, WaysOK, Dirs
    <3>7. SearchTree'
      BY <1>1, <1>2, <3>1, <3>3, <3>4, <3>5, AddKeepsTree DEF OnList
    <3>8. GoalKept'
      BY <1>1, <1>3, <2>1, <3>1, <3>4 DEF GoalKept, OnList, Nodes
    <3>9. Explored'
      <4>1. \A u : OnList(Nodes, u) => OnList(Nodes', u)
        BY <1>1, <3>1 DEF OnList, Nodes
      <4>2. OnList(Nodes', t)
        BY <3>1, <3>4 DEF OnList, Nodes
      <4> QED BY <1>6, <3>1, <4>1, <4>2
    <3> QED BY <1>5, <3>6, <3>7, <3>8, <3>9
  <2>5. CASE OpenAgain(t, cost) /\ UNCHANGED <<open, rerouted>>
    BY <1>8, <2>5 DEF OpenAgain, OnList, Nodes
  <2>6. CASE OpenAgain(t, cost) /\ ~UNCHANGED <<open, rerouted>>
    <3>1. PICK n \in open :
            /\ n.at = t
            /\ open' = (open \ {n}) \cup
                         {[n EXCEPT !.parent = current.at, !.start = current.start + 2 * cost]}
            /\ rerouted' = rerouted \cup {t}
      BY <2>6 DEF OpenAgain
    <3> DEFINE m == [n EXCEPT !.parent = current.at, !.start = current.start + 2 * cost]
    <3>2. ~OnList(closed, t) /\ UNCHANGED <<goal, skipped>>
      BY <2>6 DEF OpenAgain
    <3>3. n \in Node
      BY DEF Typed
    <3>4. m \in Node
      <4>1. current.at \in MapTiles /\ current.start + 2 * cost \in Nat
        BY <1>2 DEF Node
      <4> QED BY <3>3, <4>1 DEF Node
    <3>5. /\ m.at = t /\ m.parent = current.at /\ m.start = current.start + 2 * cost
          /\ open' = (open \ {n}) \cup {m}
      BY <3>1, <3>3 DEF Node
    <3>6. Leads(current, next, m)
      BY <1>10, <3>5 DEF Leads
    <3> HIDE DEF m
    <3>7. Typed'
      BY <1>1, <2>1, <3>1, <3>4, <3>5 DEF Typed, WaysOK, Dirs
    <3>8. SearchTree'
      <4>1. \A x \in (open \ {n}) \cup closed : x.at # m.at
        BY <3>1, <3>2, <3>5 DEF SearchTree, EachTileOnce, Nodes, OnList
      <4>2. current.start < m.start
        BY <1>2, <3>5
      <4>3. m.at \in rerouted' /\ rerouted \subseteq rerouted'
        BY <3>1, <3>5
      <4> QED BY <1>1, <3>4, <3>5, <3>6, <4>1, <4>2, <4>3, AddKeepsTree
    <3>9. GoalKept'
      BY <1>1, <1>3, <3>1, <3>2, <3>5 DEF GoalKept, OnList, Nodes
    <3>10. Explored'
      <4>1. \A u : OnList(Nodes, u) => OnList(Nodes', u)
        BY <1>1, <3>1, <3>5 DEF OnList, Nodes
      <4>2. OnList(Nodes', t)
        BY <3>5 DEF OnList, Nodes
      <4> QED BY <1>6, <3>2, <4>1, <4>2
    <3> QED BY <1>5, <3>7, <3>8, <3>9, <3>10
  <2> QED BY <2>1, <2>2, <2>3, <2>4, <2>5, <2>6 DEF AddNodeToList
<1> QED BY <1>9, <1>10

LEMMA CloseCheapestSInv ==
  ASSUME SInv, CloseCheapest
  PROVE  SInv'
<1> USE DEF SInv
<1>1. /\ search = "open" /\ next = 8 /\ goal = NoTile /\ goal' = NoTile
      /\ UNCHANGED <<ways, start, target, path, rerouted>>
  BY DEF CloseCheapest
<1>2. PICK n \in open :
        /\ open' = open \ {n}
        /\ IF Cardinality(closed) < MaxNodes
           THEN /\ closed' = closed \cup {n} /\ current' = n /\ next' = 0
                /\ UNCHANGED <<search, skipped>>
           ELSE /\ search' = "failed" /\ skipped' = TRUE
                /\ UNCHANGED <<closed, current, next>>
  BY DEF CloseCheapest
<1>3. ASSUME NEW x PROVE Near(x)' = Near(x)
  BY <1>1 DEF Near
<1>4. ASSUME NEW d, NEW x PROVE Passes(d, x)' = Passes(d, x)
  BY <1>1 DEF Passes
<1>5. ASSUME NEW p, NEW x, ReachedFrom(p, x)
      PROVE  ReachedFrom(p, x)'
  BY <1>1, <1>5 DEF ReachedFrom, Leads, Passes
<1>6. Nodes' \subseteq Nodes /\ closed \subseteq closed'
  BY <1>2 DEF Nodes
<1>7. Typed'
  BY <1>1, <1>2 DEF Typed, WaysOK
<1>8. SearchTree'
  <2>1. open' \cap closed' = {}
    BY <1>2 DEF SearchTree
  <2>2. EachTileOnce'
    BY <1>6 DEF SearchTree, EachTileOnce
  <2>3. ParentsClosed'
    BY <1>1, <1>5, <1>6 DEF SearchTree, ParentsClosed
  <2> QED BY <2>1, <2>2, <2>3 DEF SearchTree
<1>9. GoalKept'
  BY <1>1, <1>2, <1>3, <1>6 DEF GoalKept
<1>10. Explored'
  <2>1. CASE Cardinality(closed) < MaxNodes
    <3>1. Nodes' = Nodes /\ closed' = closed \cup {n} /\ current' = n /\ next' = 0
          /\ search' = "open" /\ skipped' = skipped
      BY <1>1, <1>2, <2>1 DEF Nodes
    <3>2. n \notin closed
      BY DEF SearchTree
    <3> SUFFICES ASSUME ~skipped, NEW x \in closed', NEW d \in Dirs, Passes(d, x.at),
                        d < IF x = n THEN 0 ELSE 8
                 PROVE  OnList(Nodes, GetNewXY(d, x.at))
      BY <1>4, <3>1 DEF Explored, Opened, OnList
    <3>3. x \in closed /\ d < 8
      BY <3>1 DEF Dirs
    <3>4. d < IF search = "open" /\ x = current THEN next ELSE 8
      BY <1>1, <3>3
    <3> QED BY <1>1, <3>3, <3>4 DEF Explored, Opened
  <2>2. CASE ~(Cardinality(closed) < MaxNodes)
    BY <1>2, <2>2 DEF Explored
  <2> QED BY <2>1, <2>2
<1>11. Traced'
  BY <1>1, <1>2 DEF Traced
<1> QED BY <1>7, <1>8, <1>9, <1>10, <1>11

LEMMA ExhaustedSInv ==
  ASSUME SInv, Exhausted
  PROVE  SInv'
<1> USE DEF SInv
<1>1. /\ search = "open" /\ next = 8 /\ goal = NoTile /\ open = {} /\ search' = "failed"
      /\ UNCHANGED <<ways, start, target, open, closed, current, next, goal, path,
                     rerouted, skipped>>
  BY DEF Exhausted
<1>2. UNCHANGED Nodes
  BY <1>1 DEF Nodes
<1>3. ASSUME NEW x PROVE Near(x)' = Near(x)
  BY <1>1 DEF Near
<1>4. ASSUME NEW p, NEW n, ReachedFrom(p, n) PROVE ReachedFrom(p, n)'
  BY <1>1, <1>4 DEF ReachedFrom, Leads, Passes
<1>5. Typed'
  BY <1>1 DEF Typed, WaysOK
<1>6. SearchTree'
  BY <1>1, <1>2, <1>4 DEF SearchTree, EachTileOnce, ParentsClosed
<1>7. GoalKept'
  BY <1>1, <1>2, <1>3 DEF GoalKept
<1>8. Explored'
  <2>1. \A n \in closed : Opened(n, 8) = Opened(n, 8)'
    BY <1>1 DEF Opened, OnList, Passes, Nodes
  <2> QED BY <1>1, <2>1 DEF Explored
<1>9. Traced'
  BY <1>1 DEF Traced
<1> QED BY <1>5, <1>6, <1>7, <1>8, <1>9

(* The steps of the trace leave the lists and the tree alone.              *)
LEMMA TraceKeepsTree ==
  ASSUME Typed, SearchTree, search' \in {"trace", "found"}, search # "idle",
         path' \in Seq(Node),
         UNCHANGED <<ways, start, target, open, closed, current, next, goal, rerouted, skipped>>
  PROVE  Typed' /\ SearchTree' /\ GoalKept' /\ Explored'
<1>1. Typed' /\ GoalKept' /\ Explored'
  BY DEF Typed, WaysOK, GoalKept, Explored
<1>2. UNCHANGED Nodes
  BY DEF Nodes
<1>3. ASSUME NEW p, NEW n, ReachedFrom(p, n) PROVE ReachedFrom(p, n)'
  BY <1>3 DEF ReachedFrom, Leads, Passes
<1>4. SearchTree'
  BY <1>2, <1>3 DEF SearchTree, EachTileOnce, ParentsClosed
<1> QED BY <1>1, <1>4

LEMMA FoundGoalSInv ==
  ASSUME SInv, FoundGoal
  PROVE  SInv'
<1> USE DEF SInv
<1>1. /\ search = "open" /\ goal # NoTile /\ search' = "trace"
      /\ UNCHANGED <<ways, start, target, open, closed, current, next, goal, rerouted,
                     skipped>>
  BY DEF FoundGoal
<1>2. PICK n \in open : n.at = goal /\ path' = <<n>>
  BY DEF FoundGoal
<1>3. n \in Node /\ Near(n.at)
  BY <1>1, <1>2 DEF Typed, GoalKept
<1>4. path' \in Seq(Node) /\ path' # <<>> /\ Len(path') = 1 /\ path'[1] = n
  BY <1>2, <1>3
<1>5. Traced'
  BY <1>1, <1>3, <1>4 DEF Traced, Near
<1> QED BY <1>1, <1>4, <1>5, TraceKeepsTree

LEMMA TraceBackSInv ==
  ASSUME SInv, TraceBack
  PROVE  SInv'
<1> USE DEF SInv
<1>1. /\ search = "trace"
      /\ UNCHANGED <<ways, start, target, open, closed, current, next, goal, rerouted,
                     skipped>>
  BY DEF TraceBack
<1>2. /\ path \in Seq(Node) /\ path # <<>> /\ Len(path) \in Nat \ {0}
      /\ Head(path) = path[1]
  BY <1>1, EmptySeq DEF Typed, Traced
<1>3. ASSUME NEW p, NEW x PROVE ReachedFrom(p, x)' = ReachedFrom(p, x)
  BY <1>1 DEF ReachedFrom, Leads, Passes
<1>4. ASSUME NEW x PROVE Near(x)' = Near(x)
  BY <1>1 DEF Near
<1>5. CASE Head(path).parent = NoTile
  <2>1. search' = "found" /\ path' = path
    BY <1>5 DEF TraceBack
  <2>2. Traced'
    BY <1>1, <1>2, <1>3, <1>5, <1>4, <2>1 DEF Traced
  <2> QED BY <1>1, <1>2, <2>1, <2>2, TraceKeepsTree
<1>6. CASE Head(path).parent # NoTile
  <2>1. PICK n \in closed : n.at = Head(path).parent /\ path' = <<n>> \o path
    BY <1>6 DEF TraceBack
  <2>2. search' = "trace"
    BY <1>1, <1>6 DEF TraceBack
  <2>3. n \in Node
    BY DEF Typed
  <2>4. /\ path' \in Seq(Node) /\ path' # <<>> /\ Len(path') = Len(path) + 1
        /\ path'[1] = n
        /\ \A i \in 2..Len(path') : path'[i] = path[i - 1]
    <3>1. <<n>> \in Seq(Node) /\ Len(<<n>>) = 1 /\ <<n>>[1] = n
      BY <2>3
    <3> HIDE DEF SInv
    <3>2. /\ path' \in Seq(Node) /\ Len(path') = 1 + Len(path)
          /\ \A i \in 1..1 + Len(path) : path'[i] = IF i <= 1 THEN <<n>>[i] ELSE path[i - 1]
      BY <1>2, <2>1, <3>1, ConcatProperties
    <3> QED BY <1>2, <3>1, <3>2, EmptySeq
  <2>5. ReachedFrom(n, path[1])
    <3>1. path[1] \in Nodes /\ path[1].parent # NoTile
      BY <1>1, <1>2, <1>6 DEF Traced, Nodes
    <3>2. PICK p \in closed : ReachedFrom(p, path[1])
      BY <3>1 DEF SearchTree, ParentsClosed
    <3>3. p.at = n.at
      BY <1>2, <2>1, <3>2 DEF ReachedFrom
    <3> QED BY <3>2, <3>3 DEF SearchTree, EachTileOnce, Nodes
  <2>6. Traced'
    <3>1. path'[Len(path')] = path[Len(path)]
      BY <1>2, <2>4
    <3>2. (path[Len(path)] \in open /\ Near(path[Len(path)].at))'
      <4>1. PICK e : e = path[Len(path)] /\ e \in open /\ Near(e.at)
        BY <1>1 DEF Traced
      <4>2. Near(e.at)'
        BY <1>1, <4>1 DEF Near
      <4>3. path'[Len(path')] = e
        BY <3>1, <4>1
      <4> QED BY <1>1, <4>1, <4>2, <4>3 DEF Near
    <3>3. ASSUME NEW i \in 1..Len(path'), i < Len(path')
          PROVE  path'[i] \in closed
      <4>1. CASE i = 1
        BY <2>4, <4>1
      <4>2. CASE i # 1
        <5>1. i - 1 \in 1..Len(path) /\ i - 1 < Len(path) /\ i \in 2..Len(path')
          BY <1>2, <2>4, <3>3, <4>2
        <5> QED BY <1>1, <2>4, <5>1 DEF Traced
      <4> QED BY <4>1, <4>2
    <3>4. ASSUME NEW i \in 2..Len(path')
          PROVE  ReachedFrom(path'[i - 1], path'[i])
      <4>1. CASE i = 2
        BY <2>4, <2>5, <4>1
      <4>2. CASE i # 2
        <5>1. i - 1 \in 2..Len(path) /\ i - 1 \in 2..Len(path')
          BY <1>2, <2>4, <4>2
        <5> QED BY <1>1, <2>4, <5>1 DEF Traced
      <4> QED BY <4>1, <4>2
    <3> QED BY <1>1, <1>3, <2>2, <2>4, <3>2, <3>3, <3>4 DEF Traced
  <2> QED BY <1>1, <2>2, <2>4, <2>6, TraceKeepsTree
<1> QED BY <1>5, <1>6

LEMMA NextSInv ==
  ASSUME SInv, [SearchNext]_searchVars
  PROVE  SInv'
<1>1. CASE \E t \in Targets, from \in Starts, w \in Worlds : FindPath(t, from, w)
  BY <1>1, FindPathSInv
<1>2. CASE OpenNode
  BY <1>2, OpenNodeSInv
<1>3. CASE CloseCheapest
  BY <1>3, CloseCheapestSInv
<1>4. CASE Exhausted
  BY <1>4, ExhaustedSInv
<1>5. CASE FoundGoal
  BY <1>5, FoundGoalSInv
<1>6. CASE TraceBack
  BY <1>6, TraceBackSInv
<1>7. CASE UNCHANGED searchVars
  <2>1. \A n \in closed, k \in 0..8 : Opened(n, k)' = Opened(n, k)
    BY <1>7 DEF searchVars, Opened, OnList, Nodes, Passes
  <2>2. Explored'
    BY <1>7, <2>1 DEF SInv, Typed, searchVars, Explored
  <2>3. SearchTree'
    <3>1. UNCHANGED <<open, closed, start, Nodes>>
      BY <1>7 DEF searchVars, Nodes
    <3>2. ASSUME NEW p, NEW n, ReachedFrom(p, n) PROVE ReachedFrom(p, n)'
      BY <1>7, <3>2 DEF searchVars, ReachedFrom, Leads, Passes
    <3> QED BY <3>1, <3>2 DEF SInv, SearchTree, EachTileOnce, ParentsClosed
  <2>4. Traced'
    BY <1>7 DEF SInv, searchVars, Traced, ReachedFrom, Leads, Passes, Near
  <2>5. Typed' /\ GoalKept'
    BY <1>7 DEF SInv, searchVars, Typed, WaysOK, GoalKept, OnList, Nodes, Near
  <2> QED BY <2>2, <2>3, <2>4, <2>5 DEF SInv
<1> QED BY <1>1, <1>2, <1>3, <1>4, <1>5, <1>6, <1>7 DEF SearchNext

(* Whatever map the client has loaded and whichever tile is asked for, what *)
(* FindPath keeps of its two lists while it searches stays as SInv says.   *)
THEOREM Inductive == SearchSpec => []SInv
<1>1. SearchInit => SInv
  BY InitSInv
<1>2. SInv /\ [SearchNext]_searchVars => SInv'
  BY NextSInv
<1> QED BY <1>1, <1>2, PTL DEF SearchSpec

-----------------------------------------------------------------------------
(* The theorems *)

(* However the world and the ties between equal costs fall, the nodes on   *)
(* the two lists form a tree of passable steps rooted in the start.        *)
THEOREM TreeHolds == SearchSpec => []SearchTree
<1>1. SInv => SearchTree
  BY DEF SInv
<1> QED BY <1>1, Inductive, PTL

(* A path that was found leads from the player to the target, one passable *)
(* step at a time.                                                         *)
THEOREM FoundPathLeads == SearchSpec => []PathLeads
<1>1. SInv => PathLeads
  <2> SUFFICES ASSUME SInv, search = "found" PROVE PathLeads
    BY DEF PathLeads
  <2>1. /\ path \in Seq(Node) /\ path # <<>> /\ Len(path) \in Nat \ {0}
        /\ path[1].parent = NoTile
        /\ path[Len(path)] \in open
    BY EmptySeq DEF SInv, Typed, Traced
  <2>2. path[1] \in Nodes
    BY <2>1 DEF SInv, Traced, Nodes
  <2>3. path[1].at = start /\ path[1] \in closed
    BY <2>1, <2>2 DEF SInv, SearchTree, ParentsClosed
  <2>4. Len(path) > 1
    BY <2>1, <2>3 DEF SInv, SearchTree
  <2> QED BY <2>3, <2>4 DEF SInv, Traced, PathLeads
<1> QED BY <1>1, Inductive, PTL

(* A search that fails with slots to spare proves that there is no way:    *)
(* the tiles it closed are closed under the passable steps.                *)
THEOREM FailureIsRight == SearchSpec => []FailsRightly
<1>1. SInv => FailsRightly
  <2> SUFFICES ASSUME SInv, search = "failed", ~skipped PROVE NoRoute
    BY DEF FailsRightly
  <2> DEFINE S == {n.at : n \in closed}
  <2>1. goal = NoTile /\ Nodes = closed
    BY DEF SInv, GoalKept, Nodes
  <2>2. S \in SUBSET MapTiles
    BY DEF SInv, Typed, Node
  <2>3. start \in S
    <3>1. StartNode(start) \in closed /\ StartNode(start).at = start
      BY DEF SInv, Typed, StartNode
    <3> QED BY <3>1
  <2>4. ClosedUnder(S)
    <3> SUFFICES ASSUME NEW n \in closed, NEW d \in Dirs, Passes(d, n.at)
                 PROVE  GetNewXY(d, n.at) \in S
      BY DEF ClosedUnder
    <3>1. Opened(n, 8) /\ d < 8
      BY DEF SInv, Explored, Dirs
    <3>2. OnList(closed, GetNewXY(d, n.at))
      BY <2>1, <3>1 DEF Opened
    <3> QED BY <3>2 DEF OnList
  <2>5. \A t \in S \ {start} : ~Near(t)
    BY <2>1 DEF SInv, GoalKept
  <2> HIDE DEF S
  <2> QED BY <2>2, <2>3, <2>4, <2>5 DEF NoRoute
<1> QED BY <1>1, Inductive, PTL
=============================================================================
