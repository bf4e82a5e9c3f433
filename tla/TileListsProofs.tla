-------------------------- MODULE TileListsProofs --------------------------
(***************************************************************************)
(* Proofs about module TileLists, for any tiles, blocks, objects, heights  *)
(* and queues.                                                             *)
(*                                                                         *)
(* The links of a map are compared with lists L, one of each tile, that    *)
(* they are to stand for (Linked).  Each method is described by what it    *)
(* does to who is in which list (Has); only the lemmas about RemoveRender  *)
(* and LinkBetween look at positions.                                      *)
(***************************************************************************)
EXTENDS TileLists, FiniteSetTheorems, SequenceTheorems, WellFoundedInduction, TLAPS

-----------------------------------------------------------------------------
(* Maps and the lists they stand for.                                      *)

Ends == Drawn \cup {Nobody}

Maps == [loaded : SUBSET Blocks, prev : [Drawn -> Ends], next : [Drawn -> Ends],
         prio : [Drawn -> Int]]

Sheets == [Tiles -> Seq(Drawn)]

\* y is in the list of tile t.
Has(L, t, y) == \E i \in 1..Len(L[t]) : L[t][i] = y

Unlisted(L, y) == \A t \in Tiles : ~Has(L, t, y)

After(s, i)  == IF i = Len(s) THEN Nobody ELSE s[i + 1]
Before(s, i) == IF i = 1 THEN Nobody ELSE s[i - 1]

\* Nobody is twice in the lists.
Once(L) ==
  \A t, u \in Tiles : \A i \in 1..Len(L[t]), j \in 1..Len(L[u]) :
    L[t][i] = L[u][j] => t = u /\ i = j

LinksOf(m, L) ==
  /\ \A t \in Tiles : \A i \in 1..Len(L[t]) :
       /\ m.next[L[t][i]] = After(L[t], i)
       /\ m.prev[L[t][i]] = Before(L[t], i)
  /\ \A y \in Drawn : Unlisted(L, y) => m.next[y] = Nobody /\ m.prev[y] = Nobody

\* y may stand before z.
InOrder(m, y, z) ==
  m.prio[y] <= m.prio[z] /\ (IsLand(z) => m.prio[y] < m.prio[z])

Sorted(m, L) ==
  \A t \in Tiles : \A i, j \in 1..Len(L[t]) : i < j => InOrder(m, L[t][i], L[t][j])

\* Land and statics are on their own tile.
AtHome(L) ==
  \A t \in Tiles : \A y \in Fixed : Has(L, t, y) => y \in Range(Ground[t])

Linked(m, L) ==
  /\ m \in Maps
  /\ L \in Sheets
  /\ Once(L)
  /\ LinksOf(m, L)
  /\ Sorted(m, L)
  /\ AtHome(L)

-----------------------------------------------------------------------------
(* Land and statics.                                                       *)

LEMMA GroundFacts ==
  ASSUME NEW t \in Tiles
  PROVE  /\ Len(Ground[t]) \in Nat /\ Len(Ground[t]) >= 1
         /\ DOMAIN Ground[t] = 1..Len(Ground[t])
         /\ \A i \in 1..Len(Ground[t]) : Ground[t][i] \in Fixed /\ Ground[t][i] \in Range(Ground[t])
         /\ Land(t) = Ground[t][1] /\ Land(t) \in Fixed /\ IsLand(Land(t))
         /\ \A y \in Range(Ground[t]) : \E i \in 1..Len(Ground[t]) : y = Ground[t][i]
<1>1. Ground[t] \in Seq(Fixed) /\ Ground[t] # <<>>
  BY TilesAssumption
<1>2. Len(Ground[t]) \in Nat /\ DOMAIN Ground[t] = 1..Len(Ground[t]) /\ Len(Ground[t]) # 0
  BY <1>1
<1>3. \A i \in 1..Len(Ground[t]) : Ground[t][i] \in Fixed /\ Ground[t][i] \in Range(Ground[t])
  BY <1>1, <1>2 DEF Range
<1>4. 1 \in 1..Len(Ground[t])
  BY <1>2
<1> QED BY <1>2, <1>3, <1>4 DEF Land, IsLand, Range

\* A tile has one land, and a thing of the ground one tile.
LEMMA GroundApart ==
  ASSUME NEW t \in Tiles, NEW u \in Tiles, NEW y \in Range(Ground[t]), y \in Range(Ground[u])
  PROVE  t = u /\ (IsLand(y) => y = Land(t))
<1>1. PICK i \in DOMAIN Ground[t] : y = Ground[t][i]
  BY DEF Range
<1>2. PICK j \in DOMAIN Ground[u] : y = Ground[u][j]
  BY DEF Range
<1>3. t = u
  BY <1>1, <1>2, TilesAssumption
<1>4. ASSUME IsLand(y) PROVE y = Land(t)
  <2>1. PICK v \in Tiles : y = Land(v)
    BY <1>4 DEF IsLand
  <2>2. y = Ground[v][1] /\ 1 \in DOMAIN Ground[v]
    BY <2>1, GroundFacts
  <2>3. Ground[t][i] = Ground[v][1]
    BY <1>1, <2>2
  <2>4. t = v
    BY <1>1, <2>2, <2>3, TilesAssumption
  <2> QED BY <2>1, <2>4
<1> QED BY <1>3, <1>4

LEMMA ObjectsAreNoGround ==
  ASSUME NEW t \in Tiles, NEW x \in Objects
  PROVE  x \notin Range(Ground[t])
<1>1. x \in Range(Ground[t]) => \E i \in 1..Len(Ground[t]) : x = Ground[t][i] /\ Ground[t][i] \in Fixed
  BY GroundFacts
<1> QED BY <1>1, TilesAssumption

LEMMA DrawnFacts ==
  /\ Fixed \subseteq Drawn /\ Objects \subseteq Drawn /\ Nobody \notin Drawn
  /\ \A y \in Drawn : y \notin Objects => y \in Fixed
  /\ \A y \in Objects : y \notin Fixed /\ ~IsLand(y)
<1>1. \A y \in Objects : ~IsLand(y)
  BY TilesAssumption, GroundFacts DEF IsLand
<1> QED BY <1>1, TilesAssumption DEF Drawn

-----------------------------------------------------------------------------
(* Induction and recursion over the natural numbers.                       *)

LEMMA NatLeast ==
  ASSUME NEW S \in SUBSET Nat, S # {}
  PROVE  /\ Min(S) \in S
         /\ \A n \in S : Min(S) <= n
<1> DEFINE Less == {ss \in Nat \X Nat : ss[1] < ss[2]}
<1>1. \A x, y \in Nat : x < y => <<x, y>> \in Less
  OBVIOUS
<1>2. IsWellFoundedOn(Less, Nat)
  BY NatLessThanWellFounded DEF OpToRel
<1> HIDE DEF Less
<1>3. PICK x \in S : \A y \in S : ~(<<y, x>> \in Less)
  BY <1>2, WFMin
<1>4. ASSUME NEW y \in S PROVE x <= y
  <2>1. x \in Nat /\ y \in Nat /\ (y < x => <<y, x>> \in Less)
    BY <1>1
  <2> QED BY <1>3, <2>1
<1> QED BY <1>3, <1>4 DEF Min

LEMMA NatSetInduction ==
  ASSUME NEW T, 0 \in T, \A n \in Nat : n \in T => n + 1 \in T
  PROVE  Nat \subseteq T
<1> DEFINE Left == Nat \ T
<1>1. SUFFICES ASSUME Left # {} PROVE FALSE
  OBVIOUS
<1>2. PICK x \in Left : \A y \in Left : x <= y
  <2>1. Left \in SUBSET Nat
    OBVIOUS
  <2> HIDE DEF Left
  <2> QED BY <1>1, <2>1, NatLeast
<1>3. x \in Nat /\ x # 0 /\ x - 1 \in Nat /\ x - 1 < x /\ (x - 1) + 1 = x
  BY <1>2
<1>4. x - 1 \notin Left
  BY <1>2, <1>3
<1> QED BY <1>2, <1>3, <1>4

(* What holds at first and is kept by each of n steps holds all the way.   *)
LEMMA RunStays ==
  ASSUME NEW n \in Nat, NEW A, NEW Vs, A[0] \in Vs[0],
         \A i \in 1..n : A[i - 1] \in Vs[i - 1] => A[i] \in Vs[i]
  PROVE  \A i \in 0..n : A[i] \in Vs[i]
<1> DEFINE T == {i \in Nat : i <= n => A[i] \in Vs[i]}
<1>1. 0 \in T
  OBVIOUS
<1>2. ASSUME NEW i \in Nat, i \in T PROVE i + 1 \in T
  <2>1. (i + 1) - 1 = i /\ (i + 1 <= n => i <= n /\ i + 1 \in 1..n)
    OBVIOUS
  <2> QED BY <1>2, <2>1
<1>3. Nat \subseteq T
  <2> HIDE DEF T
  <2> QED BY <1>1, <1>2, NatSetInduction
<1> QED BY <1>3

(* A run of n steps from first: step[i] takes what is in Vs[i - 1] to what *)
(* is in Vs[i].                                                            *)
IsRun(f, Vs, first, n, step) ==
  /\ f = [i \in 0..n |-> f[i]]
  /\ f[0] = first
  /\ \A i \in 0..n : f[i] \in Vs[i]
  /\ \A i \in 1..n : f[i] = step[i][f[i - 1]]

LEMMA RunExists ==
  ASSUME NEW n \in Nat, NEW Vs, NEW first \in Vs[0], NEW step,
         \A i \in 1..n : \A v \in Vs[i - 1] : step[i][v] \in Vs[i]
  PROVE  \E f : IsRun(f, Vs, first, n, step)
<1> DEFINE Run(m, f) == IsRun(f, Vs, first, m, step)
           T == {m \in Nat : m <= n => \E f : Run(m, f)}
<1> USE DEF IsRun
<1>1. 0 \in T
  <2> DEFINE f == [i \in 0..0 |-> first]
  <2>1. f = [i \in 0..0 |-> f[i]] /\ f[0] = first /\ \A i \in 0..0 : f[i] \in Vs[i]
    OBVIOUS
  <2> HIDE DEF f
  <2>2. Run(0, f)
    BY <2>1
  <2> HIDE DEF Run
  <2> QED BY <2>2
<1>2. ASSUME NEW m \in Nat, m \in T
      PROVE  m + 1 \in T
  <2> SUFFICES ASSUME m + 1 <= n PROVE \E f : Run(m + 1, f)
    OBVIOUS
  <2>1. m <= n /\ m + 1 \in 1..n /\ m \in 0..m /\ (m + 1) - 1 = m
    OBVIOUS
  <2>2. PICK f : Run(m, f)
    <3> HIDE DEF Run
    <3> QED BY <1>2, <2>1
  <2>3. f[m] \in Vs[m]
    BY <2>1, <2>2
  <2> DEFINE last == step[m + 1][f[m]]
             g == [i \in 0..m + 1 |-> IF i = m + 1 THEN last ELSE f[i]]
  <2>4. last \in Vs[m + 1]
    BY <2>1, <2>3
  <2>5. g[m + 1] = last /\ \A i \in 0..m : g[i] = f[i]
    <3> HIDE DEF last
    <3> QED OBVIOUS
  <2>6. g = [i \in 0..m + 1 |-> g[i]]
    <3> HIDE DEF last
    <3> QED OBVIOUS
  <2> HIDE DEF g
  <2>7. ASSUME NEW i \in 1..m + 1
        PROVE  g[i] = step[i][g[i - 1]]
    <3>1. CASE i = m + 1
      <4>1. i - 1 = m /\ m \in 0..m
        BY <3>1
      <4> QED BY <2>5, <3>1, <4>1
    <3>2. CASE i # m + 1
      <4>1. i \in 1..m /\ i \in 0..m /\ i - 1 \in 0..m
        BY <3>2
      <4> QED BY <2>2, <2>5, <4>1
    <3> QED BY <3>1, <3>2
  <2>8. ASSUME NEW i \in 0..m + 1 PROVE g[i] \in Vs[i]
    <3>1. CASE i = m + 1
      BY <2>4, <2>5, <3>1
    <3>2. CASE i # m + 1
      <4>1. i \in 0..m
        BY <3>2
      <4> QED BY <2>2, <2>5, <4>1
    <3> QED BY <3>1, <3>2
  <2>9. g[0] = first
    BY <2>2, <2>5
  <2>10. Run(m + 1, g)
    <3> HIDE DEF last
    <3> QED BY <2>6, <2>7, <2>8, <2>9
  <2> HIDE DEF Run
  <2> QED BY <2>10
<1>3. n \in T
  <2> HIDE DEF T
  <2> QED BY <1>1, <1>2, NatSetInduction
<1> QED BY <1>3

-----------------------------------------------------------------------------
(* Along the links.                                                        *)

Size == Cardinality(Drawn)

LEMMA SizeNat == Size \in Nat
BY TilesAssumption, FS_CardinalityType DEF Size

LEMMA EmptyIsSeq == ASSUME NEW S PROVE <<>> \in Seq(S) /\ Len(<<>>) = 0
OBVIOUS

(* The sequence of y and s. *)
LEMMA OneMore ==
  ASSUME NEW S, NEW y \in S, NEW s \in Seq(S)
  PROVE  /\ <<y>> \o s \in Seq(S) /\ Len(<<y>> \o s) = Len(s) + 1
         /\ (<<y>> \o s)[1] = y
         /\ \A i \in 1..Len(s) : (<<y>> \o s)[i + 1] = s[i]
<1> DEFINE h == <<y>>
<1>1. h \in Seq(S) /\ Len(h) = 1 /\ h[1] = y /\ Len(s) \in Nat
  OBVIOUS
<1> HIDE DEF h
<1>2. /\ h \o s \in Seq(S) /\ Len(h \o s) = Len(h) + Len(s)
      /\ \A i \in 1..Len(h) + Len(s) : (h \o s)[i] = IF i <= Len(h) THEN h[i] ELSE s[i - Len(h)]
  BY <1>1, ConcatProperties
<1>3. (h \o s)[1] = y
  <2>1. 1 \in 1..Len(h) + Len(s) /\ 1 <= Len(h)
    BY <1>1
  <2> QED BY <1>1, <1>2, <2>1
<1>4. ASSUME NEW i \in 1..Len(s) PROVE (h \o s)[i + 1] = s[i]
  <2>1. i + 1 \in 1..Len(h) + Len(s) /\ ~(i + 1 <= Len(h)) /\ (i + 1) - Len(h) = i
    BY <1>1
  <2> QED BY <1>2, <2>1
<1>5. Len(h \o s) = Len(s) + 1
  BY <1>1, <1>2
<1> QED BY <1>2, <1>3, <1>4, <1>5 DEF h

\* The function that Along computes with.
WalkOf(link) ==
  CHOOSE walk : walk = [k \in 0..Size |->
    [y \in Ends |-> IF y = Nobody \/ k = 0 THEN <<>> ELSE <<y>> \o walk[k - 1][link[y]]]]

LEMMA AlongIsWalk ==
  ASSUME NEW link, NEW y
  PROVE  Along(link, y) = WalkOf(link)[Size][y]
BY DEF Along, WalkOf, Size, Ends

LEMMA WalkRun ==
  ASSUME NEW link \in [Drawn -> Ends]
  PROVE  /\ \A n \in 0..Size : WalkOf(link)[n] \in [Ends -> Seq(Drawn)]
         /\ \A y \in Ends : WalkOf(link)[0][y] = <<>>
         /\ \A n \in 1..Size, y \in Ends :
              WalkOf(link)[n][y] = IF y = Nobody THEN <<>>
                                   ELSE <<y>> \o WalkOf(link)[n - 1][link[y]]
<1> DEFINE V == [Ends -> Seq(Drawn)]
           first == [y \in Ends |-> <<>>]
           longer(g) == [y \in Ends |-> IF y = Nobody THEN <<>> ELSE <<y>> \o g[link[y]]]
           step == [n \in 1..Size |-> [g \in V |-> longer(g)]]
           body(g, n) == [y \in Ends |-> IF y = Nobody \/ n = 0 THEN <<>>
                                         ELSE <<y>> \o g[n - 1][link[y]]]
           Walks(f) == f = [n \in 0..Size |-> body(f, n)]
           A == WalkOf(link)
<1>1. first \in V
  BY EmptyIsSeq
<1>2. ASSUME NEW g \in V PROVE longer(g) \in V
  <2> SUFFICES ASSUME NEW y \in Ends, y # Nobody
               PROVE  <<y>> \o g[link[y]] \in Seq(Drawn)
    BY EmptyIsSeq
  <2>1. y \in Drawn /\ link[y] \in Ends
    BY DEF Ends
  <2>2. g[link[y]] \in Seq(Drawn)
    BY <2>1
  <2> QED BY <2>1, <2>2, OneMore
<1>3. step \in [1..Size -> [V -> V]]
  <2> HIDE DEF longer, V
  <2> QED BY <1>2
<1>4. Size \in Nat
  BY SizeNat
<1> DEFINE Vs == [n \in 0..Size |-> V]
<1>5. PICK f : IsRun(f, Vs, first, Size, step)
  <2>1. \A n \in 0..Size : Vs[n] = V
    <3> HIDE DEF V
    <3> QED OBVIOUS
  <2>2. 0 \in 0..Size /\ \A n \in 1..Size : n \in 0..Size /\ n - 1 \in 0..Size
    BY <1>4
  <2> HIDE DEF first, step, V, Vs
  <2>3. first \in Vs[0] /\ \A n \in 1..Size : \A v \in Vs[n - 1] : step[n][v] \in Vs[n]
    BY <1>1, <1>3, <2>1, <2>2
  <2> QED BY <1>4, <2>3, RunExists
<1>6. /\ f = [n \in 0..Size |-> f[n]] /\ f[0] = first
      /\ \A n \in 1..Size : f[n] = longer(f[n - 1])
  <2>1. ASSUME NEW n \in 1..Size PROVE f[n] = longer(f[n - 1])
    <3>1. n - 1 \in 0..Size
      BY <1>4
    <3>2. f[n - 1] \in V
      <4> HIDE DEF V
      <4> QED BY <1>5, <3>1 DEF IsRun
    <3> HIDE DEF longer, V
    <3> QED BY <1>5, <3>2 DEF IsRun
  <2> HIDE DEF first, V, longer, step
  <2> QED BY <1>5, <2>1 DEF IsRun
<1>7. Walks(f)
  <2>1. ASSUME NEW n \in 0..Size PROVE f[n] = body(f, n)
    <3>1. CASE n = 0
      BY <1>6, <3>1
    <3>2. CASE n # 0
      <4>1. n \in 1..Size /\ f[n] = longer(f[n - 1])
        <5>1. n \in 1..Size
          BY <1>4, <3>2
        <5> HIDE DEF longer, first
        <5> QED BY <1>6, <5>1
      <4>2. longer(f[n - 1]) = body(f, n)
        BY <3>2
      <4> QED BY <4>1, <4>2
    <3> QED BY <3>1, <3>2
  <2> HIDE DEF body, first, longer
  <2> QED BY <1>6, <2>1
<1>8. A = CHOOSE g : Walks(g)
  BY DEF WalkOf
<1>9. Walks(A)
  <2> HIDE DEF Walks, A
  <2> QED BY <1>7, <1>8
<1> HIDE DEF A
<1>10. ASSUME NEW n \in 0..Size PROVE A[n] = body(A, n)
  <2> HIDE DEF body
  <2> QED BY <1>9
<1>11. A[0] = first
  <2>1. A[0] = body(A, 0)
    <3> HIDE DEF body
    <3> QED BY <1>4, <1>10
  <2> QED BY <2>1
<1>12. ASSUME NEW n \in 1..Size PROVE A[n] = longer(A[n - 1])
  <2>1. A[n] = body(A, n)
    <3> HIDE DEF body
    <3> QED BY <1>4, <1>10
  <2>2. n # 0
    BY <1>4
  <2> QED BY <2>1, <2>2
<1>13. \A n \in 0..Size : A[n] \in V
  <2>1. \A n \in 0..Size : Vs[n] = V
    <3> HIDE DEF V
    <3> QED OBVIOUS
  <2>2. 0 \in 0..Size /\ \A n \in 1..Size : n \in 0..Size /\ n - 1 \in 0..Size
    BY <1>4
  <2> HIDE DEF V, Vs, longer, first
  <2>3. A[0] \in Vs[0] /\ \A n \in 1..Size : A[n - 1] \in Vs[n - 1] => A[n] \in Vs[n]
    BY <1>1, <1>2, <1>11, <1>12, <2>1, <2>2
  <2>4. \A n \in 0..Size : A[n] \in Vs[n]
    BY <1>4, <2>3, RunStays
  <2> QED BY <2>1, <2>4
<1>14. \A y \in Ends : A[0][y] = <<>>
  BY <1>11
<1>15. ASSUME NEW n \in 1..Size, NEW y \in Ends
       PROVE  A[n][y] = IF y = Nobody THEN <<>> ELSE <<y>> \o A[n - 1][link[y]]
  <2>1. A[n] = longer(A[n - 1])
    BY <1>12
  <2> QED BY <2>1
<1> HIDE DEF V
<1> QED BY <1>13, <1>14, <1>15 DEF A, V

LEMMA AlongType ==
  ASSUME NEW link \in [Drawn -> Ends], NEW y \in Drawn
  PROVE  Along(link, y) \in Seq(Drawn) /\ Len(Along(link, y)) \in Nat /\ Len(Along(link, y)) >= 1
<1>1. Size \in Nat /\ Size # 0
  <2>1. Cardinality(Drawn) = 0 <=> Drawn = {}
    BY TilesAssumption, FS_EmptySet
  <2> QED BY <2>1, SizeNat DEF Size
<1>2. Size \in 1..Size /\ Size - 1 \in 0..Size
  BY <1>1
<1>3. y \in Ends /\ y # Nobody /\ link[y] \in Ends
  BY DrawnFacts DEF Ends
<1>4. Along(link, y) = <<y>> \o WalkOf(link)[Size - 1][link[y]]
  BY <1>2, <1>3, WalkRun, AlongIsWalk
<1>5. WalkOf(link)[Size - 1][link[y]] \in Seq(Drawn)
  <2>1. WalkOf(link)[Size - 1] \in [Ends -> Seq(Drawn)]
    BY <1>2, WalkRun
  <2> QED BY <1>3, <2>1
<1> DEFINE r == WalkOf(link)[Size - 1][link[y]]
<1>6. r \in Seq(Drawn) /\ Along(link, y) = <<y>> \o r
  BY <1>4, <1>5
<1> HIDE DEF r
<1>7. Along(link, y) \in Seq(Drawn) /\ Len(Along(link, y)) = Len(r) + 1 /\ Len(r) \in Nat
  BY <1>6, OneMore
<1> QED BY <1>7

(* Links that lead from each of s to the next lead along s.                *)
LEMMA AlongFollows ==
  ASSUME NEW link \in [Drawn -> Ends], NEW s \in Seq(Drawn),
         Len(s) >= 1, Len(s) <= Size,
         \A i \in 1..Len(s) : link[s[i]] = After(s, i)
  PROVE  Along(link, s[1]) = s
<1> DEFINE N == Len(s)
           W(n, i) == WalkOf(link)[n][s[i]]
           Rest(n, i) == /\ Len(W(n, i)) = N - i + 1
                         /\ \A j \in 1..N - i + 1 : W(n, i)[j] = s[i + j - 1]
           T == {n \in Nat : n <= Size => \A i \in 1..N : N - i + 1 <= n => Rest(n, i)}
<1>1. N \in Nat /\ Size \in Nat /\ N >= 1 /\ N <= Size
  BY SizeNat
<1>2. \A i \in 1..N : s[i] \in Drawn /\ s[i] \in Ends /\ s[i] # Nobody
  BY DrawnFacts DEF Ends
<1>3. \A n \in 0..Size : WalkOf(link)[n][Nobody] = <<>>
  <2> SUFFICES ASSUME NEW n \in 0..Size PROVE WalkOf(link)[n][Nobody] = <<>>
    OBVIOUS
  <2>1. Nobody \in Ends
    BY DEF Ends
  <2>2. CASE n = 0
    BY <2>1, <2>2, WalkRun
  <2>3. CASE n # 0
    <3>1. n \in 1..Size
      BY <1>1, <2>3
    <3> QED BY <2>1, <3>1, WalkRun
  <2> QED BY <2>2, <2>3
<1>4. 0 \in T
  BY <1>1
<1>5. ASSUME NEW n \in Nat, n \in T PROVE n + 1 \in T
  <2> SUFFICES ASSUME n + 1 <= Size, NEW i \in 1..N, N - i + 1 <= n + 1
               PROVE  Rest(n + 1, i)
    OBVIOUS
  <2>1. n + 1 \in 1..Size /\ (n + 1) - 1 = n /\ n \in 0..Size /\ n <= Size
    BY <1>1
  <2> DEFINE r == WalkOf(link)[n][link[s[i]]]
  <2>2. W(n + 1, i) = <<s[i]>> \o r
    <3>1. WalkOf(link)[n + 1][s[i]] = <<s[i]>> \o WalkOf(link)[(n + 1) - 1][link[s[i]]]
      BY <1>2, <2>1, WalkRun
    <3> QED BY <2>1, <3>1
  <2>3. r \in Seq(Drawn)
    <3>1. WalkOf(link)[n] \in [Ends -> Seq(Drawn)]
      BY <2>1, WalkRun
    <3>2. link[s[i]] \in Ends
      BY <1>2
    <3> QED BY <3>1, <3>2
  <2>4. /\ Len(r) = N - i
        /\ \A j \in 1..N - i : r[j] = s[i + j]
    <3>1. CASE i = N
      <4>1. link[s[i]] = Nobody
        BY <3>1 DEF After
      <4>2. r = <<>>
        BY <1>3, <2>1, <4>1
      <4> HIDE DEF r
      <4> QED BY <1>1, <3>1, <4>2
    <3>2. CASE i # N
      <4>1. i + 1 \in 1..N /\ N - (i + 1) + 1 = N - i /\ N - i <= n
        BY <1>1, <3>2
      <4>2. link[s[i]] = s[i + 1]
        BY <3>2 DEF After
      <4>3. Rest(n, i + 1)
        BY <1>5, <2>1, <4>1
      <4>4. r = W(n, i + 1)
        BY <4>2
      <4>5. Len(r) = N - (i + 1) + 1 /\ \A j \in 1..N - (i + 1) + 1 : r[j] = s[(i + 1) + j - 1]
        <5> HIDE DEF r, W
        <5> QED BY <4>3, <4>4
      <4>6. \A j \in 1..N - i : (i + 1) + j - 1 = i + j
        BY <1>1
      <4> HIDE DEF r
      <4> QED BY <4>1, <4>5, <4>6
    <3> QED BY <3>1, <3>2
  <2> HIDE DEF r, W
  <2>5. /\ W(n + 1, i) \in Seq(Drawn) /\ Len(W(n + 1, i)) = Len(r) + 1
        /\ W(n + 1, i)[1] = s[i]
        /\ \A j \in 1..Len(r) : W(n + 1, i)[j + 1] = r[j]
    <3>1. s[i] \in Drawn
      BY <1>2
    <3>2. /\ <<s[i]>> \o r \in Seq(Drawn) /\ Len(<<s[i]>> \o r) = Len(r) + 1
          /\ (<<s[i]>> \o r)[1] = s[i]
          /\ \A j \in 1..Len(r) : (<<s[i]>> \o r)[j + 1] = r[j]
      BY <2>3, <3>1, OneMore
    <3> QED BY <2>2, <3>2
  <2>6. Len(W(n + 1, i)) = N - i + 1
    BY <2>4, <2>5
  <2>7. ASSUME NEW j \in 1..N - i + 1 PROVE W(n + 1, i)[j] = s[i + j - 1]
    <3>1. CASE j = 1
      <4>1. i + j - 1 = i
        BY <3>1, <1>1
      <4> QED BY <2>5, <3>1, <4>1
    <3>2. CASE j # 1
      <4>1. j - 1 \in 1..N - i /\ (j - 1) + 1 = j /\ i + (j - 1) = i + j - 1
        BY <1>1, <3>2
      <4>2. W(n + 1, i)[(j - 1) + 1] = r[j - 1]
        BY <2>4, <2>5, <4>1
      <4>3. r[j - 1] = s[i + (j - 1)]
        BY <2>4, <4>1
      <4> QED BY <4>1, <4>2, <4>3
    <3> QED BY <3>1, <3>2
  <2> QED BY <2>6, <2>7
<1>6. Size \in T
  <2> HIDE DEF T
  <2> QED BY <1>1, <1>4, <1>5, NatSetInduction
<1>7. Rest(Size, 1)
  <2>1. 1 \in 1..N /\ N - 1 + 1 <= Size
    BY <1>1
  <2> QED BY <1>6, <2>1
<1> DEFINE a == Along(link, s[1])
<1>8. a = W(Size, 1) /\ a \in Seq(Drawn)
  <2>1. s[1] \in Drawn
    BY <1>1
  <2> QED BY <2>1, AlongIsWalk, AlongType
<1>9. Len(a) = N /\ \A j \in 1..N : a[j] = s[j]
  <2>1. N - 1 + 1 = N /\ \A j \in 1..N : 1 + j - 1 = j
    BY <1>1
  <2> HIDE DEF a, W
  <2> QED BY <1>7, <1>8, <2>1
<1>10. a = s
  <2> HIDE DEF a
  <2>1. Len(a) = Len(s) /\ \A j \in 1..Len(a) : a[j] = s[j]
    BY <1>9
  <2> QED BY <1>8, <2>1, SeqEqual
<1> QED BY <1>10

\* The lists are short enough for Along.
LEMMA ListFits ==
  ASSUME NEW L \in Sheets, Once(L), NEW t \in Tiles
  PROVE  /\ L[t] \in Seq(Drawn) /\ Len(L[t]) \in Nat /\ Len(L[t]) <= Size
         /\ \A i \in 1..Len(L[t]) : L[t][i] \in Drawn
<1> DEFINE s == L[t]
           f == [i \in 1..Len(s) |-> s[i]]
<1>1. s \in Seq(Drawn) /\ Len(s) \in Nat /\ \A i \in 1..Len(s) : s[i] \in Drawn
  BY DEF Sheets
<1>2. \A i, j \in 1..Len(s) : s[i] = s[j] => i = j
  BY DEF Once
<1> HIDE DEF s
<1>3. f \in Injection(1..Len(s), Drawn)
  BY <1>1, <1>2 DEF Injection, IsInjective
<1>4. Cardinality(1..Len(s)) <= Cardinality(Drawn)
  <2> HIDE DEF f
  <2> QED BY <1>3, TilesAssumption, FS_Injection
<1>5. Cardinality(1..Len(s)) = Len(s)
  <2>1. 1 \in Int /\ Len(s) \in Int
    BY <1>1
  <2>2. Cardinality(1..Len(s)) = IF 1 > Len(s) THEN 0 ELSE Len(s) - 1 + 1
    BY <2>1, FS_Interval
  <2> QED BY <1>1, <2>2
<1> QED BY <1>1, <1>4, <1>5 DEF Size, s

(* From anything in a tile's list the head is found, and from the head the *)
(* list.                                                                   *)
LEMMA ListFound ==
  ASSUME NEW m, NEW L, Linked(m, L), NEW t \in Tiles, NEW y, Has(L, t, y)
  PROVE  /\ GetRender(m, y) = L[t][1]
         /\ Along(m.next, GetRender(m, y)) = L[t]
<1> DEFINE s == L[t]
<1>1. /\ s \in Seq(Drawn) /\ Len(s) \in Nat /\ Len(s) <= Size
      /\ \A i \in 1..Len(s) : s[i] \in Drawn
  BY ListFits DEF Linked
<1>2. PICK i \in 1..Len(s) : s[i] = y
  BY DEF Has
<1>3. m.next \in [Drawn -> Ends] /\ m.prev \in [Drawn -> Ends]
  BY DEF Linked, Maps
<1>4. \A j \in 1..Len(s) : m.next[s[j]] = After(s, j) /\ m.prev[s[j]] = Before(s, j)
  BY DEF Linked, LinksOf
<1> HIDE DEF s
<1> DEFINE b == [j \in 1..i |-> s[i + 1 - j]]
<1>5. /\ b \in Seq(Drawn) /\ Len(b) = i /\ b[1] = y /\ b[i] = s[1]
      /\ \A j \in 1..i : b[j] = s[i + 1 - j] /\ i + 1 - j \in 1..Len(s)
  <2>1. \A j \in 1..i : i + 1 - j \in 1..Len(s)
    BY <1>1
  <2>2. b \in [1..i -> Drawn]
    BY <1>1, <2>1
  <2>3. i \in Nat /\ 1 \in 1..i /\ i \in 1..i /\ i + 1 - 1 = i /\ i + 1 - i = 1
    BY <1>1
  <2>4. b[1] = y /\ b[i] = s[1]
    BY <1>2, <2>3
  <2>5. b \in Seq(Drawn) /\ Len(b) = i
    <3> HIDE DEF b
    <3> QED BY <2>2, <2>3, IsASeq
  <2> QED BY <2>1, <2>4, <2>5
<1> HIDE DEF b
<1>6. \A j \in 1..i : m.prev[b[j]] = After(b, j)
  <2> SUFFICES ASSUME NEW j \in 1..i PROVE m.prev[b[j]] = After(b, j)
    OBVIOUS
  <2>1. m.prev[b[j]] = Before(s, i + 1 - j)
    BY <1>4, <1>5
  <2>2. CASE j = i
    <3>1. i + 1 - j = 1
      BY <1>1, <2>2
    <3> QED BY <1>5, <2>1, <2>2, <3>1 DEF Before, After
  <2>3. CASE j # i
    <3>1. j + 1 \in 1..i /\ i + 1 - j # 1 /\ (i + 1 - j) - 1 = i + 1 - (j + 1)
      BY <1>1, <2>3
    <3>2. b[j + 1] = s[i + 1 - (j + 1)]
      BY <1>5, <3>1
    <3> QED BY <1>5, <2>1, <2>3, <3>1, <3>2 DEF Before, After
  <2> QED BY <2>2, <2>3
<1>7. Along(m.prev, y) = b
  <2>1. Len(b) >= 1 /\ Len(b) <= Size /\ \A j \in 1..Len(b) : m.prev[b[j]] = After(b, j)
    BY <1>1, <1>5, <1>6, SizeNat
  <2>2. Along(m.prev, b[1]) = b
    BY <1>3, <1>5, <2>1, AlongFollows
  <2> QED BY <1>5, <2>2
<1>8. GetRender(m, y) = s[1]
  BY <1>5, <1>7 DEF GetRender, Last
<1>9. Along(m.next, s[1]) = s
  <2>1. Len(s) >= 1
    BY <1>1
  <2> QED BY <1>1, <1>3, <1>4, <2>1, AlongFollows
<1> QED BY <1>8, <1>9 DEF s

-----------------------------------------------------------------------------
(* One object leaves its list, one comes into a list.                      *)

LEMMA RemoveFields ==
  ASSUME NEW m \in Maps, NEW x \in Drawn
  PROVE  /\ RemoveRender(m, x) \in Maps
         /\ RemoveRender(m, x).loaded = m.loaded
         /\ RemoveRender(m, x).prio \in [Drawn -> Int]
         /\ \A y \in Drawn : RemoveRender(m, x).prio[y] = IF y = x THEN 0 ELSE m.prio[y]
         /\ \A y \in Drawn : RemoveRender(m, x).next[y] =
              IF y = x THEN Nobody ELSE IF y = m.prev[x] THEN m.next[x] ELSE m.next[y]
         /\ \A y \in Drawn : RemoveRender(m, x).prev[y] =
              IF y = x THEN Nobody ELSE IF y = m.next[x] THEN m.prev[x] ELSE m.prev[y]
<1> DEFINE nx == [y \in Drawn |-> IF y = x THEN Nobody ELSE IF y = m.prev[x] THEN m.next[x] ELSE m.next[y]]
           pv == [y \in Drawn |-> IF y = x THEN Nobody ELSE IF y = m.next[x] THEN m.prev[x] ELSE m.prev[y]]
           pr == [m.prio EXCEPT ![x] = 0]
<1>1. /\ m.next \in [Drawn -> Ends] /\ m.prev \in [Drawn -> Ends] /\ Nobody \in Ends
      /\ m.prio \in [Drawn -> Int]
  BY DEF Maps, Ends
<1>2. nx \in [Drawn -> Ends] /\ pv \in [Drawn -> Ends] /\ pr \in [Drawn -> Int]
  BY <1>1
<1>3. \A y \in Drawn : pr[y] = IF y = x THEN 0 ELSE m.prio[y]
  BY <1>1
<1>4. RemoveRender(m, x) = [m EXCEPT !.next = nx, !.prev = pv, !.prio[x] = 0]
  BY DEF RemoveRender
<1>5. /\ RemoveRender(m, x) = [loaded |-> m.loaded, prev |-> pv, next |-> nx, prio |-> pr]
      /\ m.loaded \in SUBSET Blocks
  <2> HIDE DEF nx, pv
  <2> QED BY <1>4 DEF Maps
<1>6. /\ \A y \in Drawn : nx[y] = IF y = x THEN Nobody ELSE IF y = m.prev[x] THEN m.next[x] ELSE m.next[y]
      /\ \A y \in Drawn : pv[y] = IF y = x THEN Nobody ELSE IF y = m.next[x] THEN m.prev[x] ELSE m.prev[y]
  OBVIOUS
<1> HIDE DEF nx, pv, pr
<1>7. RemoveRender(m, x) \in Maps
  BY <1>2, <1>5 DEF Maps
<1> QED BY <1>2, <1>3, <1>5, <1>6, <1>7

(* s without its element k, and s with x after its first n.                *)
Cut(s, k)      == [i \in 1..Len(s) - 1 |-> IF i < k THEN s[i] ELSE s[i + 1]]
Paste(s, n, x) == [i \in 1..Len(s) + 1 |-> IF i <= n THEN s[i] ELSE IF i = n + 1 THEN x ELSE s[i - 1]]

LEMMA CutFacts ==
  ASSUME NEW s \in Seq(Drawn), NEW k \in 1..Len(s)
  PROVE  /\ Cut(s, k) \in Seq(Drawn) /\ Len(Cut(s, k)) = Len(s) - 1 /\ Len(s) \in Nat
         /\ \A i \in 1..Len(s) - 1 : Cut(s, k)[i] = IF i < k THEN s[i] ELSE s[i + 1]
<1>1. Len(s) \in Nat /\ Len(s) - 1 \in Nat /\ \A i \in 1..Len(s) : s[i] \in Drawn
  OBVIOUS
<1>2. Cut(s, k) \in [1..Len(s) - 1 -> Drawn]
  BY <1>1 DEF Cut
<1>3. Cut(s, k) \in Seq(Drawn) /\ Len(Cut(s, k)) = Len(s) - 1
  BY <1>1, <1>2, IsASeq
<1> QED BY <1>1, <1>3 DEF Cut

LEMMA PasteFacts ==
  ASSUME NEW s \in Seq(Drawn), NEW n \in 0..Len(s), NEW x \in Drawn
  PROVE  /\ Paste(s, n, x) \in Seq(Drawn) /\ Len(Paste(s, n, x)) = Len(s) + 1 /\ Len(s) \in Nat
         /\ \A i \in 1..Len(s) + 1 :
              Paste(s, n, x)[i] = IF i <= n THEN s[i] ELSE IF i = n + 1 THEN x ELSE s[i - 1]
<1>1. Len(s) \in Nat /\ Len(s) + 1 \in Nat /\ \A i \in 1..Len(s) : s[i] \in Drawn
  OBVIOUS
<1>2. Paste(s, n, x) \in [1..Len(s) + 1 -> Drawn]
  BY <1>1 DEF Paste
<1>3. Paste(s, n, x) \in Seq(Drawn) /\ Len(Paste(s, n, x)) = Len(s) + 1
  BY <1>1, <1>2, IsASeq
<1> QED BY <1>1, <1>3 DEF Paste

(* What the links of a linked map are, seen from a thing of a list.        *)
LEMMA LinkedFacts ==
  ASSUME NEW m, NEW L, Linked(m, L)
  PROVE  /\ m \in Maps /\ L \in Sheets
         /\ \A t \in Tiles : L[t] \in Seq(Drawn) /\ Len(L[t]) \in Nat
         /\ \A t \in Tiles : \A i \in 1..Len(L[t]) :
              /\ L[t][i] \in Drawn /\ L[t][i] # Nobody
              /\ m.next[L[t][i]] = After(L[t], i) /\ m.prev[L[t][i]] = Before(L[t], i)
BY DrawnFacts DEF Linked, LinksOf, Sheets

(* x leaves the list it is in.                                             *)
LEMMA CutLinked ==
  ASSUME NEW m, NEW L, Linked(m, L), NEW t \in Tiles, NEW k \in 1..Len(L[t]), NEW x, x = L[t][k]
  PROVE  Linked(RemoveRender(m, x), [L EXCEPT ![t] = Cut(L[t], k)])
<1> DEFINE s == L[t]
           c == Cut(s, k)
           L2 == [L EXCEPT ![t] = c]
           m2 == RemoveRender(m, x)
<1>1. /\ m \in Maps /\ L \in Sheets /\ x \in Drawn /\ s \in Seq(Drawn) /\ Len(s) \in Nat
      /\ m.next[x] = After(s, k) /\ m.prev[x] = Before(s, k)
  BY LinkedFacts
<1>2. /\ c \in Seq(Drawn) /\ Len(c) = Len(s) - 1
      /\ \A i \in 1..Len(s) - 1 : c[i] = IF i < k THEN s[i] ELSE s[i + 1]
  BY <1>1, CutFacts
<1>3. /\ \A u \in Tiles : u # t => L2[u] = L[u]
      /\ L2[t] = c
      /\ L2 \in Sheets
  <2> HIDE DEF c
  <2> QED BY <1>1, <1>2 DEF Sheets
<1>4. /\ m2 \in Maps
      /\ \A y \in Drawn : m2.prio[y] = IF y = x THEN 0 ELSE m.prio[y]
      /\ \A y \in Drawn : m2.next[y] =
           IF y = x THEN Nobody ELSE IF y = m.prev[x] THEN m.next[x] ELSE m.next[y]
      /\ \A y \in Drawn : m2.prev[y] =
           IF y = x THEN Nobody ELSE IF y = m.next[x] THEN m.prev[x] ELSE m.prev[y]
  <2>1. m \in Maps /\ x \in Drawn
    BY <1>1
  <2> HIDE DEF s, c, L2, m2
  <2>2. m2 = RemoveRender(m, x)
    BY DEF m2
  <2> QED BY ONLY <2>1, <2>2, RemoveFields
<1> HIDE DEF c, L2, m2
\* Where in the old lists the elements of the new ones were.
<1> DEFINE From(u, i) == IF u = t /\ i >= k THEN i + 1 ELSE i
<1>5. \A u \in Tiles : \A i \in 1..Len(L2[u]) :
        /\ From(u, i) \in 1..Len(L[u]) /\ L2[u][i] = L[u][From(u, i)]
        /\ ~(u = t /\ From(u, i) = k)
  <2> SUFFICES ASSUME NEW u \in Tiles, NEW i \in 1..Len(L2[u])
               PROVE  /\ From(u, i) \in 1..Len(L[u]) /\ L2[u][i] = L[u][From(u, i)]
                      /\ ~(u = t /\ From(u, i) = k)
    OBVIOUS
  <2>1. CASE u # t
    BY <1>3, <2>1
  <2>2. CASE u = t
    <3>1. L2[u] = c /\ i \in 1..Len(s) - 1
      BY <1>2, <1>3, <2>2
    <3>2. c[i] = IF i < k THEN s[i] ELSE s[i + 1]
      BY <1>2, <3>1
    <3>3. CASE i < k
      <4>1. i \in 1..Len(s) /\ ~(i >= k) /\ i # k
        BY <1>1, <3>1, <3>3
      <4> QED BY <2>2, <3>1, <3>2, <3>3, <4>1
    <3>4. CASE ~(i < k)
      <4>1. i + 1 \in 1..Len(s) /\ i >= k /\ i + 1 # k
        BY <1>1, <3>1, <3>4
      <4> QED BY <2>2, <3>1, <3>2, <3>4, <4>1
    <3> QED BY <3>3, <3>4
  <2> QED BY <2>1, <2>2
<1>6. Once(L)
  BY DEF Linked
<1>7. \A u \in Tiles : \A i \in 1..Len(L2[u]) : L2[u][i] \in Drawn /\ L2[u][i] # x
  <2> SUFFICES ASSUME NEW u \in Tiles, NEW i \in 1..Len(L2[u])
               PROVE  L2[u][i] \in Drawn /\ L2[u][i] # x
    OBVIOUS
  <2> DEFINE j == From(u, i)
  <2>1. j \in 1..Len(L[u]) /\ L2[u][i] = L[u][j] /\ ~(u = t /\ j = k)
    BY <1>5
  <2> HIDE DEF j
  <2> QED BY <1>6, <2>1, LinkedFacts DEF Once
<1>8. Once(L2)
  <2> SUFFICES ASSUME NEW u \in Tiles, NEW v \in Tiles, NEW i \in 1..Len(L2[u]), NEW j \in 1..Len(L2[v]),
                      L2[u][i] = L2[v][j]
               PROVE  u = v /\ i = j
    BY DEF Once
  <2>1. L[u][From(u, i)] = L[v][From(v, j)] /\ From(u, i) \in 1..Len(L[u]) /\ From(v, j) \in 1..Len(L[v])
    BY <1>5
  <2>2. u = v /\ From(u, i) = From(v, j)
    <3> HIDE DEF From
    <3> QED BY <1>6, <2>1 DEF Once
  <2>3. i \in Int /\ j \in Int
    BY <1>2, <1>3, LinkedFacts
  <2> QED BY <2>2, <2>3
<1>9. ASSUME NEW u \in Tiles, NEW i \in 1..Len(L2[u])
      PROVE  m2.next[L2[u][i]] = After(L2[u], i) /\ m2.prev[L2[u][i]] = Before(L2[u], i)
  <2> DEFINE j == From(u, i)
             y == L2[u][i]
  <2>1. j \in 1..Len(L[u]) /\ y = L[u][j] /\ ~(u = t /\ j = k) /\ y \in Drawn /\ y # x
    BY <1>5, <1>7
  <2>2. m.next[y] = After(L[u], j) /\ m.prev[y] = Before(L[u], j)
    BY <2>1, LinkedFacts
  <2>3. CASE u # t
    <3>1. j = i /\ L2[u] = L[u]
      BY <1>3, <2>3
    <3>2. y # m.prev[x] /\ y # m.next[x]
      <4>1. /\ \A h \in 1..Len(s) : s[h] # y
        BY <1>6, <2>1, <2>3 DEF Once
      <4>2. k # 1 => k - 1 \in 1..Len(s)
        BY <1>1
      <4>3. k # Len(s) => k + 1 \in 1..Len(s)
        BY <1>1
      <4> QED BY <1>1, <2>1, <4>1, <4>2, <4>3, DrawnFacts DEF After, Before
    <3> QED BY <1>4, <2>1, <2>2, <3>1, <3>2
  <2>4. CASE u = t
    <3>1. /\ i \in 1..Len(s) - 1 /\ y = s[j] /\ j \in 1..Len(s) /\ j # k
          /\ j = IF i >= k THEN i + 1 ELSE i
          /\ L2[u] = c /\ Len(c) = Len(s) - 1
      BY <1>2, <1>3, <2>1, <2>4
    <3>2. \A h \in 1..Len(s) : s[h] = y => h = j
      BY <1>6, <3>1 DEF Once
    <3>3. y = m.prev[x] <=> j = k - 1
      <4>1. k # 1 => k - 1 \in 1..Len(s)
        BY <1>1
      <4>2. k = 1 => j # k - 1
        BY <3>1
      <4> QED BY <1>1, <2>1, <3>1, <3>2, <4>1, <4>2, DrawnFacts DEF Before
    <3>4. y = m.next[x] <=> j = k + 1
      <4>1. k # Len(s) => k + 1 \in 1..Len(s)
        BY <1>1
      <4>2. k = Len(s) => j # k + 1
        BY <1>1, <3>1
      <4> QED BY <1>1, <2>1, <3>1, <3>2, <4>1, <4>2, DrawnFacts DEF After
    <3>5. m2.next[y] = IF j = k - 1 THEN After(s, k) ELSE After(s, j)
      BY <1>1, <1>4, <2>1, <2>2, <2>4, <3>3
    <3>6. m2.prev[y] = IF j = k + 1 THEN Before(s, k) ELSE Before(s, j)
      BY <1>1, <1>4, <2>1, <2>2, <2>4, <3>4
    <3>7. After(c, i) = IF j = k - 1 THEN After(s, k) ELSE After(s, j)
      <4>1. CASE i = Len(s) - 1
        BY <1>1, <3>1, <4>1 DEF After
      <4>2. CASE i # Len(s) - 1
        <5>1. i + 1 \in 1..Len(s) - 1 /\ c[i + 1] = IF i + 1 < k THEN s[i + 1] ELSE s[(i + 1) + 1]
          <6>1. i + 1 \in 1..Len(s) - 1
            BY <1>1, <3>1, <4>2
          <6> QED BY <1>2, <6>1
        <5> QED BY <1>1, <3>1, <4>2, <5>1 DEF After
      <4> QED BY <4>1, <4>2
    <3>8. Before(c, i) = IF j = k + 1 THEN Before(s, k) ELSE Before(s, j)
      <4>1. CASE i = 1
        BY <1>1, <3>1, <4>1 DEF Before
      <4>2. CASE i # 1
        <5>1. i - 1 \in 1..Len(s) - 1 /\ c[i - 1] = IF i - 1 < k THEN s[i - 1] ELSE s[(i - 1) + 1]
          <6>1. i - 1 \in 1..Len(s) - 1
            BY <1>1, <3>1, <4>2
          <6> QED BY <1>2, <6>1
        <5>2. (i - 1) + 1 = i
          BY <3>1
        <5> QED BY <1>1, <3>1, <4>2, <5>1, <5>2 DEF Before
      <4> QED BY <4>1, <4>2
    <3> QED BY <3>1, <3>5, <3>6, <3>7, <3>8
  <2> QED BY <2>3, <2>4
<1>10. ASSUME NEW y \in Drawn, Unlisted(L2, y), y # x
       PROVE  Unlisted(L, y)
  <2> SUFFICES ASSUME NEW u \in Tiles, NEW j \in 1..Len(L[u]), L[u][j] = y
               PROVE  FALSE
    BY DEF Unlisted, Has
  <2>1. CASE u # t
    BY <1>3, <1>10, <2>1 DEF Unlisted, Has
  <2>2. CASE u = t
    <3>1. j # k /\ j \in 1..Len(s)
      BY <1>10, <2>2
    <3> DEFINE i == IF j < k THEN j ELSE j - 1
    <3>2. i \in 1..Len(s) - 1 /\ c[i] = s[j]
      <4>1. i \in 1..Len(s) - 1 /\ (i < k <=> j < k) /\ (~(j < k) => i + 1 = j) /\ (j < k => i = j)
        BY <1>1, <3>1
      <4> HIDE DEF i
      <4>2. c[i] = IF i < k THEN s[i] ELSE s[i + 1]
        BY <1>2, <4>1
      <4> QED BY <4>1, <4>2
    <3> HIDE DEF i
    <3> QED BY <1>2, <1>3, <1>10, <2>2, <3>2 DEF Unlisted, Has
  <2> QED BY <2>1, <2>2
<1>11. LinksOf(m2, L2)
  <2>1. ASSUME NEW y \in Drawn, Unlisted(L2, y)
        PROVE  m2.next[y] = Nobody /\ m2.prev[y] = Nobody
    <3>1. CASE y = x
      BY <1>4, <3>1
    <3>2. CASE y # x
      <4>1. Unlisted(L, y) /\ m.next[y] = Nobody /\ m.prev[y] = Nobody
        BY <1>10, <2>1, <3>2 DEF Linked, LinksOf
      <4>2. y # m.prev[x] /\ y # m.next[x]
        <5>1. k # 1 => k - 1 \in 1..Len(s)
          BY <1>1
        <5>2. k # Len(s) => k + 1 \in 1..Len(s)
          BY <1>1
        <5> QED BY <1>1, <4>1, <5>1, <5>2, DrawnFacts DEF After, Before, Unlisted, Has
      <4> QED BY <1>4, <3>2, <4>1, <4>2
    <3> QED BY <3>1, <3>2
  <2> QED BY <1>9, <2>1 DEF LinksOf
<1>12. Sorted(m2, L2)
  <2> SUFFICES ASSUME NEW u \in Tiles, NEW i \in 1..Len(L2[u]), NEW j \in 1..Len(L2[u]), i < j
               PROVE  InOrder(m2, L2[u][i], L2[u][j])
    BY DEF Sorted
  <2>1. /\ From(u, i) \in 1..Len(L[u]) /\ L2[u][i] = L[u][From(u, i)]
        /\ From(u, j) \in 1..Len(L[u]) /\ L2[u][j] = L[u][From(u, j)]
    BY <1>5
  <2>2. From(u, i) < From(u, j)
    <3>1. i \in Int /\ j \in Int
      BY <1>2, <1>3, LinkedFacts
    <3> QED BY <3>1
  <2> HIDE DEF From
  <2>3. InOrder(m, L2[u][i], L2[u][j])
    BY <2>1, <2>2 DEF Linked, Sorted
  <2>4. m2.prio[L2[u][i]] = m.prio[L2[u][i]] /\ m2.prio[L2[u][j]] = m.prio[L2[u][j]]
    BY <1>4, <1>7
  <2> QED BY <2>3, <2>4 DEF InOrder
<1>13. AtHome(L2)
  <2> SUFFICES ASSUME NEW u \in Tiles, NEW y \in Fixed, Has(L2, u, y)
               PROVE  y \in Range(Ground[u])
    BY DEF AtHome
  <2>1. Has(L, u, y)
    <3>1. PICK i \in 1..Len(L2[u]) : L2[u][i] = y
      BY DEF Has
    <3>2. From(u, i) \in 1..Len(L[u]) /\ L[u][From(u, i)] = y
      BY <1>5, <3>1
    <3> HIDE DEF From
    <3> QED BY <3>2 DEF Has
  <2> QED BY <2>1 DEF Linked, AtHome
<1>14. Linked(m2, L2)
  BY <1>3, <1>4, <1>8, <1>11, <1>12, <1>13 DEF Linked
<1> QED BY <1>14 DEF c, L2, m2

(* x comes into the list of t after its first n, where nothing is out of   *)
(* order.                                                                  *)
LEMMA PasteLinked ==
  ASSUME NEW m, NEW L, Linked(m, L), NEW t \in Tiles, NEW n \in 0..Len(L[t]),
         NEW x \in Drawn, Unlisted(L, x), x \in Fixed => x \in Range(Ground[t]),
         \A i \in 1..Len(L[t]) : IF i <= n THEN InOrder(m, L[t][i], x) ELSE InOrder(m, x, L[t][i]),
         NEW left, left = IF n = 0 THEN Nobody ELSE L[t][n],
         NEW right, right = IF n = Len(L[t]) THEN Nobody ELSE L[t][n + 1]
  PROVE  \E L2 : /\ Linked(LinkBetween(m, left, x, right), L2)
                 /\ \A u \in Tiles : \A y : Has(L2, u, y) <=> (Has(L, u, y) \/ (u = t /\ y = x))
<1> DEFINE s == L[t]
           c == Paste(s, n, x)
           L2 == [L EXCEPT ![t] = c]
           m2 == LinkBetween(m, left, x, right)
<1>1. m \in Maps /\ L \in Sheets /\ s \in Seq(Drawn) /\ Len(s) \in Nat
  BY LinkedFacts
<1>2. /\ c \in Seq(Drawn) /\ Len(c) = Len(s) + 1
      /\ \A i \in 1..Len(s) + 1 : c[i] = IF i <= n THEN s[i] ELSE IF i = n + 1 THEN x ELSE s[i - 1]
  <2>1. s \in Seq(Drawn) /\ n \in 0..Len(s)
    BY <1>1
  <2> HIDE DEF s
  <2> QED BY <2>1, PasteFacts
<1>3. /\ \A u \in Tiles : u # t => L2[u] = L[u]
      /\ L2[t] = c
      /\ L2 \in Sheets
  <2> HIDE DEF c
  <2> QED BY <1>1, <1>2 DEF Sheets
<1>4. /\ left \in Ends /\ right \in Ends
      /\ n # 0 => n \in 1..Len(s) /\ left = s[n]
      /\ n # Len(s) => n + 1 \in 1..Len(s) /\ right = s[n + 1]
      /\ n = 0 => left = Nobody
      /\ n = Len(s) => right = Nobody
  BY <1>1 DEF Ends
<1>5. /\ m2 \in Maps /\ m2.prio = m.prio
      /\ \A y \in Drawn : m2.next[y] = IF y = x THEN right ELSE IF y = left THEN x ELSE m.next[y]
      /\ \A y \in Drawn : m2.prev[y] = IF y = x THEN left ELSE IF y = right THEN x ELSE m.prev[y]
  <2> DEFINE nx == [y \in Drawn |-> IF y = x THEN right ELSE IF y = left THEN x ELSE m.next[y]]
             pv == [y \in Drawn |-> IF y = x THEN left ELSE IF y = right THEN x ELSE m.prev[y]]
  <2>1. /\ m.next \in [Drawn -> Ends] /\ m.prev \in [Drawn -> Ends] /\ x \in Ends
        /\ m.loaded \in SUBSET Blocks /\ m.prio \in [Drawn -> Int]
    BY <1>1 DEF Maps, Ends
  <2>2. nx \in [Drawn -> Ends] /\ pv \in [Drawn -> Ends]
    <3> HIDE DEF s, c, L2, m2
    <3> QED BY <1>4, <2>1
  <2>3. m2 = [m EXCEPT !.next = nx, !.prev = pv]
    BY DEF LinkBetween
  <2>4. /\ \A y \in Drawn : nx[y] = IF y = x THEN right ELSE IF y = left THEN x ELSE m.next[y]
        /\ \A y \in Drawn : pv[y] = IF y = x THEN left ELSE IF y = right THEN x ELSE m.prev[y]
    OBVIOUS
  <2> HIDE DEF nx, pv, m2, s, c, L2
  <2>5. m2 = [loaded |-> m.loaded, prev |-> pv, next |-> nx, prio |-> m.prio]
    BY <1>1, <2>3 DEF Maps
  <2>6. m2 \in Maps
    BY <2>1, <2>2, <2>5 DEF Maps
  <2> QED BY <2>4, <2>5, <2>6
<1> HIDE DEF c, L2, m2
\* Where in the old lists the elements of the new ones were.
<1> DEFINE From(u, i) == IF u = t /\ i > n THEN i - 1 ELSE i
           New(u, i)  == u = t /\ i = n + 1
<1>6. \A u \in Tiles : \A i \in 1..Len(L2[u]) :
        IF New(u, i) THEN L2[u][i] = x
        ELSE From(u, i) \in 1..Len(L[u]) /\ L2[u][i] = L[u][From(u, i)]
  <2> SUFFICES ASSUME NEW u \in Tiles, NEW i \in 1..Len(L2[u])
               PROVE  IF New(u, i) THEN L2[u][i] = x
                      ELSE From(u, i) \in 1..Len(L[u]) /\ L2[u][i] = L[u][From(u, i)]
    OBVIOUS
  <2>1. CASE u # t
    BY <1>3, <2>1
  <2>2. CASE u = t
    <3>1. L2[u] = c /\ i \in 1..Len(s) + 1
      BY <1>2, <1>3, <2>2
    <3>2. c[i] = IF i <= n THEN s[i] ELSE IF i = n + 1 THEN x ELSE s[i - 1]
      BY <1>2, <3>1
    <3>3. i \in Int /\ n \in Int /\ n >= 0 /\ Len(s) \in Nat /\ n <= Len(s)
      BY <1>1, <3>1
    <3>4. CASE i <= n
      BY <2>2, <3>1, <3>2, <3>3, <3>4
    <3>5. CASE i = n + 1
      BY <2>2, <3>1, <3>2, <3>3, <3>5
    <3>6. CASE i > n + 1
      <4>1. i - 1 \in 1..Len(s) /\ ~(i <= n) /\ i # n + 1 /\ i > n
        BY <3>1, <3>3, <3>6
      <4> QED BY <2>2, <3>1, <3>2, <4>1
    <3> QED BY <3>3, <3>4, <3>5, <3>6
  <2> QED BY <2>1, <2>2
<1>7. Once(L)
  BY DEF Linked
<1>8. \A u \in Tiles : \A j \in 1..Len(L[u]) : L[u][j] # x /\ L[u][j] \in Drawn
  BY LinkedFacts DEF Unlisted, Has
<1>9. \A u \in Tiles : \A i \in 1..Len(L2[u]) : L2[u][i] \in Drawn /\ (L2[u][i] = x <=> New(u, i))
  <2> SUFFICES ASSUME NEW u \in Tiles, NEW i \in 1..Len(L2[u])
               PROVE  L2[u][i] \in Drawn /\ (L2[u][i] = x <=> New(u, i))
    OBVIOUS
  <2>1. IF New(u, i) THEN L2[u][i] = x
        ELSE From(u, i) \in 1..Len(L[u]) /\ L2[u][i] = L[u][From(u, i)]
    BY <1>6
  <2> HIDE DEF From, New
  <2> QED BY <1>8, <2>1
<1>10. Once(L2)
  <2> SUFFICES ASSUME NEW u \in Tiles, NEW v \in Tiles, NEW i \in 1..Len(L2[u]), NEW j \in 1..Len(L2[v]),
                      L2[u][i] = L2[v][j]
               PROVE  u = v /\ i = j
    BY DEF Once
  <2>1. New(u, i) <=> New(v, j)
    <3> HIDE DEF New
    <3> QED BY <1>9
  <2>2. CASE New(u, i)
    BY <2>1, <2>2
  <2>3. CASE ~New(u, i)
    <3>1. L[u][From(u, i)] = L[v][From(v, j)] /\ From(u, i) \in 1..Len(L[u]) /\ From(v, j) \in 1..Len(L[v])
      <4> HIDE DEF From, New
      <4> QED BY <1>6, <2>1, <2>3
    <3>2. u = v /\ From(u, i) = From(v, j)
      <4> HIDE DEF From
      <4> QED BY <1>7, <3>1 DEF Once
    <3>3. i \in Int /\ j \in Int
      BY <1>2, <1>3, LinkedFacts
    <3> QED BY <2>1, <2>3, <3>2, <3>3
  <2> QED BY <2>2, <2>3
<1>11. ASSUME NEW u \in Tiles, NEW i \in 1..Len(L2[u])
       PROVE  m2.next[L2[u][i]] = After(L2[u], i) /\ m2.prev[L2[u][i]] = Before(L2[u], i)
  <2> DEFINE j == From(u, i)
             y == L2[u][i]
  <2>1. CASE New(u, i)
    <3>1. u = t /\ i = n + 1 /\ y = x /\ L2[u] = c /\ Len(c) = Len(s) + 1
      BY <1>2, <1>3, <1>6, <2>1
    <3>2. m2.next[y] = right /\ m2.prev[y] = left
      <4> HIDE DEF y
      <4> QED BY <1>5, <3>1
    <3>3. After(c, i) = right
      <4>1. CASE n = Len(s)
        BY <1>4, <3>1, <4>1 DEF After
      <4>2. CASE n # Len(s)
        <5>1. i + 1 \in 1..Len(s) + 1 /\ ~(i + 1 <= n) /\ i + 1 # n + 1 /\ (i + 1) - 1 = n + 1
          BY <1>1, <3>1, <4>2
        <5>2. c[i + 1] = s[(i + 1) - 1]
          BY <1>2, <5>1
        <5>3. After(c, i) = c[i + 1]
          BY <1>1, <3>1, <4>2 DEF After
        <5> QED BY <1>4, <4>2, <5>1, <5>2, <5>3
      <4> QED BY <4>1, <4>2
    <3>4. Before(c, i) = left
      <4>1. CASE n = 0
        BY <1>4, <3>1, <4>1 DEF Before
      <4>2. CASE n # 0
        <5>1. i - 1 \in 1..Len(s) + 1 /\ i - 1 <= n /\ i - 1 = n /\ i # 1
          BY <1>1, <3>1, <4>2
        <5>2. c[i - 1] = s[i - 1]
          BY <1>2, <5>1
        <5> QED BY <1>4, <4>2, <5>1, <5>2 DEF Before
      <4> QED BY <4>1, <4>2
    <3> QED BY <3>1, <3>2, <3>3, <3>4
  <2>2. CASE ~New(u, i)
    <3>1. j \in 1..Len(L[u]) /\ y = L[u][j] /\ y \in Drawn /\ y # x
      BY <1>6, <1>9, <2>2
    <3>2. m.next[y] = After(L[u], j) /\ m.prev[y] = Before(L[u], j)
      BY <3>1, LinkedFacts
    <3>3. CASE u # t
      <4>1. j = i /\ L2[u] = L[u]
        BY <1>3, <3>3
      <4>2. y # left /\ y # right
        <5>1. \A h \in 1..Len(s) : s[h] # y
          BY <1>7, <3>1, <3>3 DEF Once
        <5> HIDE DEF s, y
        <5> QED BY <1>4, <3>1, <5>1, DrawnFacts
      <4>3. m2.next[y] = m.next[y] /\ m2.prev[y] = m.prev[y]
        <5> HIDE DEF y
        <5> QED BY <1>5, <3>1, <4>2
      <4> QED BY <3>2, <4>1, <4>3
    <3>4. CASE u = t
      <4>1. /\ i \in 1..Len(s) + 1 /\ y = s[j] /\ j \in 1..Len(s) /\ i # n + 1
            /\ j = IF i > n THEN i - 1 ELSE i
            /\ L2[u] = c /\ Len(c) = Len(s) + 1
        BY <1>2, <1>3, <2>2, <3>1, <3>4
      <4>2. \A h \in 1..Len(s) : s[h] = y => h = j
        BY <1>7, <4>1 DEF Once
      <4>3. y = left <=> j = n
        <5>1. n = 0 => j # n
          BY <1>1, <4>1
        <5> HIDE DEF s, y, j
        <5> QED BY <1>4, <3>1, <4>1, <4>2, <5>1, DrawnFacts
      <4>4. y = right <=> j = n + 1
        <5>1. n = Len(s) => j # n + 1
          BY <1>1, <4>1
        <5> HIDE DEF s, y, j
        <5> QED BY <1>4, <3>1, <4>1, <4>2, <5>1, DrawnFacts
      <4>5. m2.next[y] = IF j = n THEN x ELSE After(s, j)
        <5>1. m.next[y] = After(s, j)
          BY <3>2, <3>4
        <5> HIDE DEF s, y, j
        <5> QED BY <1>5, <3>1, <4>3, <5>1
      <4>6. m2.prev[y] = IF j = n + 1 THEN x ELSE Before(s, j)
        <5>1. m.prev[y] = Before(s, j)
          BY <3>2, <3>4
        <5> HIDE DEF s, y, j
        <5> QED BY <1>5, <3>1, <4>4, <5>1
      <4>7. After(c, i) = IF j = n THEN x ELSE After(s, j)
        <5>1. CASE i = Len(s) + 1
          BY <1>1, <4>1, <5>1 DEF After
        <5>2. CASE i # Len(s) + 1
          <6>1. i + 1 \in 1..Len(s) + 1
            BY <1>1, <4>1, <5>2
          <6>2. c[i + 1] = IF i + 1 <= n THEN s[i + 1] ELSE IF i + 1 = n + 1 THEN x ELSE s[(i + 1) - 1]
            BY <1>2, <6>1
          <6>3. After(c, i) = c[i + 1]
            BY <1>1, <4>1, <5>2 DEF After
          <6>4. CASE i = n
            BY <1>1, <4>1, <6>2, <6>3, <6>4
          <6>5. CASE i < n
            <7>1. j = i /\ j # n /\ j # Len(s) /\ i + 1 <= n
              BY <1>1, <4>1, <6>5
            <7> QED BY <6>2, <6>3, <7>1 DEF After
          <6>6. CASE i > n
            <7>1. j = i - 1 /\ j # n /\ j # Len(s) /\ ~(i + 1 <= n) /\ i + 1 # n + 1 /\ (i + 1) - 1 = j + 1
              BY <1>1, <4>1, <5>2, <6>6
            <7> QED BY <6>2, <6>3, <7>1 DEF After
          <6> QED BY <4>1, <6>4, <6>5, <6>6
        <5> QED BY <5>1, <5>2
      <4>8. Before(c, i) = IF j = n + 1 THEN x ELSE Before(s, j)
        <5>1. CASE i = 1
          BY <1>1, <4>1, <5>1 DEF Before
        <5>2. CASE i # 1
          <6>1. i - 1 \in 1..Len(s) + 1
            BY <1>1, <4>1, <5>2
          <6>2. c[i - 1] = IF i - 1 <= n THEN s[i - 1] ELSE IF i - 1 = n + 1 THEN x ELSE s[(i - 1) - 1]
            BY <1>2, <6>1
          <6>3. Before(c, i) = c[i - 1]
            BY <5>2 DEF Before
          <6>4. CASE i = n + 2
            BY <1>1, <4>1, <6>2, <6>3, <6>4
          <6>5. CASE i <= n
            <7>1. j = i /\ j # n + 1 /\ j # 1 /\ i - 1 <= n
              BY <1>1, <4>1, <5>2, <6>5
            <7> QED BY <6>2, <6>3, <7>1 DEF Before
          <6>6. CASE i > n + 2
            <7>1. j = i - 1 /\ j # n + 1 /\ j # 1 /\ ~(i - 1 <= n) /\ i - 1 # n + 1 /\ (i - 1) - 1 = j - 1
              BY <1>1, <4>1, <5>2, <6>6
            <7> QED BY <6>2, <6>3, <7>1 DEF Before
          <6> QED BY <4>1, <6>4, <6>5, <6>6
        <5> QED BY <5>1, <5>2
      <4> QED BY <4>1, <4>5, <4>6, <4>7, <4>8
    <3> QED BY <3>3, <3>4
  <2> QED BY <2>1, <2>2
<1>12. \A u \in Tiles : \A y : Has(L2, u, y) <=> (Has(L, u, y) \/ (u = t /\ y = x))
  <2> SUFFICES ASSUME NEW u \in Tiles, NEW y
               PROVE  Has(L2, u, y) <=> (Has(L, u, y) \/ (u = t /\ y = x))
    OBVIOUS
  <2>1. ASSUME Has(L2, u, y) PROVE Has(L, u, y) \/ (u = t /\ y = x)
    <3>1. PICK i \in 1..Len(L2[u]) : L2[u][i] = y
      BY <2>1 DEF Has
    <3>2. IF New(u, i) THEN y = x ELSE From(u, i) \in 1..Len(L[u]) /\ y = L[u][From(u, i)]
      BY <1>6, <3>1
    <3>3. New(u, i) => u = t
      OBVIOUS
    <3> HIDE DEF From, New
    <3> QED BY <3>2, <3>3 DEF Has
  <2>2. ASSUME Has(L, u, y) PROVE Has(L2, u, y)
    <3>1. PICK j \in 1..Len(L[u]) : L[u][j] = y
      BY <2>2 DEF Has
    <3>2. CASE u # t
      BY <1>3, <2>2, <3>2 DEF Has
    <3>3. CASE u = t /\ j <= n
      <4>1. j \in 1..Len(s) + 1 /\ c[j] = s[j]
        BY <1>1, <1>2, <3>1, <3>3
      <4> QED BY <1>2, <1>3, <3>1, <3>3, <4>1 DEF Has
    <3>4. CASE u = t /\ j > n
      <4>1. j + 1 \in 1..Len(s) + 1 /\ ~(j + 1 <= n) /\ j + 1 # n + 1 /\ (j + 1) - 1 = j
        BY <1>1, <3>1, <3>4
      <4>2. c[j + 1] = s[j]
        BY <1>2, <4>1
      <4> QED BY <1>2, <1>3, <3>1, <3>4, <4>1, <4>2 DEF Has
    <3> QED BY <1>1, <3>1, <3>2, <3>3, <3>4
  <2>3. ASSUME u = t, y = x PROVE Has(L2, u, y)
    <3>1. n + 1 \in 1..Len(s) + 1 /\ ~(n + 1 <= n)
      BY <1>1
    <3>2. c[n + 1] = x
      BY <1>2, <3>1
    <3> QED BY <1>2, <1>3, <2>3, <3>1, <3>2 DEF Has
  <2> QED BY <2>1, <2>2, <2>3
<1>13. LinksOf(m2, L2)
  <2>1. ASSUME NEW y \in Drawn, Unlisted(L2, y)
        PROVE  m2.next[y] = Nobody /\ m2.prev[y] = Nobody
    <3>1. Unlisted(L, y) /\ y # x
      BY <1>12, <2>1 DEF Unlisted
    <3>2. m.next[y] = Nobody /\ m.prev[y] = Nobody
      BY <3>1 DEF Linked, LinksOf
    <3>3. y # left /\ y # right
      BY <1>4, <3>1, DrawnFacts DEF Unlisted, Has
    <3> QED BY <1>5, <3>1, <3>2, <3>3
  <2> QED BY <1>11, <2>1 DEF LinksOf
<1>14. Sorted(m2, L2)
  <2> SUFFICES ASSUME NEW u \in Tiles, NEW i \in 1..Len(L2[u]), NEW j \in 1..Len(L2[u]), i < j
               PROVE  InOrder(m, L2[u][i], L2[u][j])
    BY <1>5 DEF Sorted, InOrder
  <2>1. /\ IF New(u, i) THEN L2[u][i] = x
           ELSE From(u, i) \in 1..Len(L[u]) /\ L2[u][i] = L[u][From(u, i)]
        /\ IF New(u, j) THEN L2[u][j] = x
           ELSE From(u, j) \in 1..Len(L[u]) /\ L2[u][j] = L[u][From(u, j)]
    BY <1>6
  <2>2. i \in Int /\ j \in Int /\ n \in Int
    BY <1>1, <1>2, <1>3, LinkedFacts
  <2>3. CASE New(u, i)
    <3>1. u = t /\ ~New(u, j) /\ From(u, j) > n /\ ~(From(u, j) <= n)
      BY <2>2, <2>3
    <3> HIDE DEF From, New
    <3> QED BY <2>1, <2>3, <3>1
  <2>4. CASE New(u, j)
    <3>1. u = t /\ ~New(u, i) /\ From(u, i) <= n
      BY <2>2, <2>4
    <3> HIDE DEF From, New
    <3> QED BY <2>1, <2>4, <3>1
  <2>5. CASE ~New(u, i) /\ ~New(u, j)
    <3>1. From(u, i) < From(u, j)
      BY <2>2, <2>5
    <3> HIDE DEF From, New
    <3> QED BY <2>1, <2>5, <3>1 DEF Linked, Sorted
  <2> QED BY <2>3, <2>4, <2>5
<1>15. AtHome(L2)
  BY <1>12 DEF Linked, AtHome
<1>16. Linked(m2, L2)
  BY <1>3, <1>5, <1>10, <1>13, <1>14, <1>15 DEF Linked
<1> QED BY <1>12, <1>16 DEF m2

(* The lists depend on the links, and on the heights of what is in them.   *)
LEMMA SameLinks ==
  ASSUME NEW m, NEW L, Linked(m, L), NEW m2 \in Maps,
         \A y \in Drawn : m2.next[y] = m.next[y] /\ m2.prev[y] = m.prev[y],
         \A y \in Drawn : Unlisted(L, y) \/ m2.prio[y] = m.prio[y]
  PROVE  Linked(m2, L)
<1>1. \A t \in Tiles : \A i \in 1..Len(L[t]) : L[t][i] \in Drawn /\ ~Unlisted(L, L[t][i])
  BY LinkedFacts DEF Unlisted, Has
<1>2. LinksOf(m2, L)
  BY <1>1 DEF Linked, LinksOf
<1>3. Sorted(m2, L)
  <2> SUFFICES ASSUME NEW t \in Tiles, NEW i \in 1..Len(L[t]), NEW j \in 1..Len(L[t]), i < j
               PROVE  InOrder(m2, L[t][i], L[t][j])
    BY DEF Sorted
  <2>1. InOrder(m, L[t][i], L[t][j])
    BY DEF Linked, Sorted
  <2>2. m2.prio[L[t][i]] = m.prio[L[t][i]] /\ m2.prio[L[t][j]] = m.prio[L[t][j]]
    BY <1>1
  <2> QED BY <2>1, <2>2 DEF InOrder
<1> QED BY <1>2, <1>3 DEF Linked

(* RemoveRender takes x out of its list, if it is in one, and nothing else. *)
LEMMA RemoveLinked ==
  ASSUME NEW m, NEW L, Linked(m, L), NEW x \in Drawn
  PROVE  \E L2 : /\ Linked(RemoveRender(m, x), L2)
                 /\ \A u \in Tiles : \A y : Has(L2, u, y) <=> (Has(L, u, y) /\ y # x)
<1> DEFINE m2 == RemoveRender(m, x)
<1>1. m \in Maps /\ L \in Sheets
  BY LinkedFacts
<1>2. CASE Unlisted(L, x)
  <2>1. m.next[x] = Nobody /\ m.prev[x] = Nobody
    BY <1>2 DEF Linked, LinksOf
  <2>2. m2 \in Maps
    BY <1>1, RemoveFields
  <2>3. \A y \in Drawn : m2.next[y] = m.next[y] /\ m2.prev[y] = m.prev[y]
    BY <1>1, <2>1, RemoveFields, DrawnFacts
  <2>4. \A y \in Drawn : Unlisted(L, y) \/ m2.prio[y] = m.prio[y]
    BY <1>1, <1>2, RemoveFields
  <2> HIDE DEF m2
  <2>5. Linked(m2, L)
    BY <2>2, <2>3, <2>4, SameLinks
  <2>6. \A u \in Tiles : \A y : Has(L, u, y) <=> (Has(L, u, y) /\ y # x)
    BY <1>2 DEF Unlisted
  <2> QED BY <2>5, <2>6 DEF m2
<1>3. CASE ~Unlisted(L, x)
  <2>0. PICK t \in Tiles : Has(L, t, x)
    BY <1>3 DEF Unlisted
  <2>1. PICK k \in 1..Len(L[t]) : L[t][k] = x
    BY <2>0 DEF Has
  <2> DEFINE s == L[t]
             c == Cut(s, k)
             L2 == [L EXCEPT ![t] = c]
  <2>2. Linked(m2, L2)
    BY <2>1, CutLinked
  <2>3. s \in Seq(Drawn) /\ Len(s) \in Nat
    BY LinkedFacts
  <2>4. /\ Len(c) = Len(s) - 1
        /\ \A i \in 1..Len(s) - 1 : c[i] = IF i < k THEN s[i] ELSE s[i + 1]
    <3> HIDE DEF s
    <3>1. k \in 1..Len(s)
      BY <2>1 DEF s
    <3> QED BY <2>3, <3>1, CutFacts
  <2>5. /\ \A u \in Tiles : u # t => L2[u] = L[u]
        /\ L2[t] = c
    <3> HIDE DEF c
    <3> QED BY <1>1 DEF Sheets
  <2>6. Once(L)
    BY DEF Linked
  <2> HIDE DEF c, L2, m2
  <2>7. ASSUME NEW u \in Tiles, NEW y
        PROVE  Has(L2, u, y) <=> (Has(L, u, y) /\ y # x)
    <3>1. CASE u # t
      <4>1. ~Has(L, u, x)
        BY <2>1, <2>6, <3>1 DEF Has, Once
      <4> QED BY <2>5, <3>1, <4>1 DEF Has
    <3>2. CASE u = t
      <4>1. \A i \in 1..Len(s) : s[i] = x => i = k
        BY <2>1, <2>6 DEF Once
      <4>2. ASSUME NEW i \in 1..Len(s) - 1, c[i] = y PROVE Has(L, u, y) /\ y # x
        <5>1. CASE i < k
          <6>1. i \in 1..Len(s) /\ s[i] = y /\ i # k
            BY <2>3, <2>4, <4>2, <5>1
          <6> QED BY <3>2, <4>1, <6>1 DEF Has
        <5>2. CASE ~(i < k)
          <6>1. i + 1 \in 1..Len(s) /\ s[i + 1] = y /\ i + 1 # k
            BY <2>3, <2>4, <4>2, <5>2
          <6> QED BY <3>2, <4>1, <6>1 DEF Has
        <5> QED BY <5>1, <5>2
      <4>3. ASSUME NEW j \in 1..Len(s), s[j] = y, y # x PROVE \E i \in 1..Len(s) - 1 : c[i] = y
        <5>1. j # k
          BY <2>1, <4>3
        <5>2. CASE j < k
          <6>1. j \in 1..Len(s) - 1 /\ c[j] = s[j]
            BY <2>3, <2>4, <5>2
          <6> QED BY <4>3, <6>1
        <5>3. CASE j > k
          <6>1. j - 1 \in 1..Len(s) - 1 /\ ~(j - 1 < k) /\ (j - 1) + 1 = j
            BY <2>3, <5>3
          <6>2. c[j - 1] = s[(j - 1) + 1]
            BY <2>4, <6>1
          <6> QED BY <4>3, <6>1, <6>2
        <5> QED BY <2>3, <5>1, <5>2, <5>3
      <4> QED BY <2>4, <2>5, <3>2, <4>2, <4>3 DEF Has
    <3> QED BY <3>1, <3>2
  <2> QED BY <2>2, <2>7 DEF m2
<1> QED BY <1>2, <1>3

(* AddRender of a tile whose list is found: x is in the list after, in its *)
(* place, and nothing else has changed.                                    *)
LEMMA AddToTileLinked ==
  ASSUME NEW m0, NEW L, Linked(m0, L), NEW x \in Drawn, NEW t \in Tiles, NEW z \in Int,
         x \in Fixed => x \in Range(Ground[t]),
         \/ \A y : Has(L, t, y) => y = x
         \/ \E i \in 1..Len(Ground[t]) :
              /\ Ground[t][i] # x /\ Has(L, t, Ground[t][i])
              /\ \A j \in 1..Len(Ground[t]) : Ground[t][j] # x => i <= j,
         (\A y : Has(L, t, y) => y = x) => \A i \in 1..Len(Ground[t]) : Ground[t][i] = x
  PROVE  /\ \E L2 : /\ Linked(AddToTile(m0, x, t, z), L2)
                    /\ \A u \in Tiles : \A y : Has(L2, u, y) <=> IF y = x THEN u = t ELSE Has(L, u, y)
         /\ AddToTile(m0, x, t, z).loaded = m0.loaded
<1> DEFINE m1 == RemoveRender(m0, x)
           m == [m1 EXCEPT !.prio[x] = z]
           list == ListBeside(m, x, t)
           n == Ahead(m, x, list)
           left == IF n = 0 THEN Nobody ELSE list[n]
           right == IF n = Len(list) THEN Nobody ELSE list[n + 1]
<1>1. AddToTile(m0, x, t, z) = LinkBetween(m, left, x, right)
  BY DEF AddToTile
<1>2. PICK L1 : /\ Linked(m1, L1)
                /\ \A u \in Tiles : \A y : Has(L1, u, y) <=> (Has(L, u, y) /\ y # x)
  BY RemoveLinked
<1>3. Unlisted(L1, x)
  BY <1>2 DEF Unlisted
<1>4. /\ m \in Maps /\ m.loaded = m0.loaded /\ m.next = m1.next /\ m.prev = m1.prev
      /\ m.prio[x] = z /\ \A y \in Drawn : y # x => m.prio[y] = m1.prio[y]
  <2>1. m1 \in Maps /\ m1.loaded = m0.loaded
    BY RemoveFields, LinkedFacts
  <2> HIDE DEF m1
  <2>2. m = [loaded |-> m1.loaded, prev |-> m1.prev, next |-> m1.next, prio |-> [m1.prio EXCEPT ![x] = z]]
    <3> HIDE DEF list, n, left, right
    <3>1. m1 = [loaded |-> m1.loaded, prev |-> m1.prev, next |-> m1.next, prio |-> m1.prio]
      BY <2>1 DEF Maps
    <3> QED BY <3>1
  <2> HIDE DEF m
  <2> QED BY <2>1, <2>2 DEF Maps
<1> HIDE DEF m1, m
<1>5. Linked(m, L1)
  BY <1>2, <1>3, <1>4, SameLinks
<1>6. list = L1[t] /\ list \in Seq(Drawn) /\ Len(list) \in Nat
  <2> DEFINE known == {i \in DOMAIN Ground[t] : Ground[t][i] # x}
  <2>1. DOMAIN Ground[t] = 1..Len(Ground[t]) /\ Len(Ground[t]) \in Nat
    BY GroundFacts
  <2>2. L1[t] \in Seq(Drawn) /\ Len(L1[t]) \in Nat
    BY <1>5, LinkedFacts
  <2>3. list = IF known = {} THEN <<>> ELSE Along(m.next, GetRender(m, Ground[t][Min(known)]))
    BY DEF ListBeside
  <2> HIDE DEF list
  <2>4. CASE \A y : Has(L, t, y) => y = x
    <3>1. known = {}
      BY <2>1, <2>4
    <3>2. Len(L1[t]) = 0
      <4>1. ~\E i \in 1..Len(L1[t]) : TRUE
        BY <1>2, <2>4 DEF Has
      <4>2. Len(L1[t]) # 0 => 1 \in 1..Len(L1[t])
        BY <2>2
      <4> QED BY <4>1, <4>2
    <3>3. L1[t] = <<>>
      BY <2>2, <3>2
    <3> QED BY <2>2, <2>3, <3>1, <3>3
  <2>5. CASE ~\A y : Has(L, t, y) => y = x
    <3>1. PICK i \in 1..Len(Ground[t]) :
            /\ Ground[t][i] # x /\ Has(L, t, Ground[t][i])
            /\ \A j \in 1..Len(Ground[t]) : Ground[t][j] # x => i <= j
      BY <2>5
    <3>2. i \in known /\ \A j \in known : i <= j
      BY <2>1, <3>1
    <3>3. Min(known) = i
      <4>1. known \in SUBSET Nat /\ i \in Nat
        BY <2>1
      <4> HIDE DEF known
      <4>2. Min(known) \in known /\ Min(known) \in Nat /\ Min(known) <= i /\ i <= Min(known)
        BY <3>2, <4>1, NatLeast
      <4> QED BY <4>1, <4>2
    <3>4. Has(L1, t, Ground[t][i])
      BY <1>2, <3>1
    <3>5. Along(m.next, GetRender(m, Ground[t][i])) = L1[t]
      BY <1>5, <3>4, ListFound
    <3> HIDE DEF known
    <3> QED BY <2>2, <2>3, <3>2, <3>3, <3>5
  <2> QED BY <2>4, <2>5
<1> HIDE DEF list
<1>7. /\ n \in 0..Len(list)
      /\ \A i \in 1..Len(list) : IF i <= n THEN InOrder(m, list[i], x) ELSE InOrder(m, x, list[i])
  <2> DEFINE behind == {i \in DOMAIN list : ComesBefore(m, x, list[i])}
  <2>1. DOMAIN list = 1..Len(list) /\ Len(list) \in Nat
    BY <1>6
  <2>2. n = IF behind = {} THEN Len(list) ELSE Min(behind) - 1
    BY DEF Ahead
  <2>3. \A i \in 1..Len(list) : list[i] \in Drawn /\ m.prio[list[i]] \in Int /\ list[i] # x /\ Has(L1, t, list[i])
    BY <1>3, <1>4, <1>6 DEF Maps, Has, Unlisted
  <2>4. \A i, j \in 1..Len(list) : i < j => InOrder(m, list[i], list[j])
    BY <1>5, <1>6 DEF Linked, Sorted
  <2>5. m.prio[x] \in Int
    BY <1>4
  <2>6. ASSUME NEW i \in 1..Len(list), ~ComesBefore(m, x, list[i])
        PROVE  InOrder(m, list[i], x)
    <3>1. ASSUME IsLand(x), IsLand(list[i]) PROVE FALSE
      <4>1. x \in Fixed /\ list[i] \in Fixed
        BY <3>1, GroundFacts DEF IsLand
      <4>2. x \in Range(Ground[t]) /\ list[i] \in Range(Ground[t])
        BY <1>5, <2>3, <4>1 DEF Linked, AtHome
      <4> QED BY <2>3, <3>1, <4>2, GroundApart
    <3> QED BY <2>3, <2>5, <2>6, <3>1 DEF ComesBefore, InOrder
  <2>7. ASSUME NEW i \in 1..Len(list), NEW j \in 1..Len(list), ComesBefore(m, x, list[j]), j <= i
        PROVE  InOrder(m, x, list[i])
    <3>1. CASE i = j
      BY <2>3, <2>5, <2>7, <3>1 DEF ComesBefore, InOrder
    <3>2. CASE i # j
      <4>1. InOrder(m, list[j], list[i])
        BY <2>1, <2>4, <2>7, <3>2
      <4> QED BY <2>3, <2>5, <2>7, <4>1 DEF ComesBefore, InOrder
    <3> QED BY <3>1, <3>2
  <2>8. CASE behind = {}
    <3>1. \A i \in 1..Len(list) : ~ComesBefore(m, x, list[i])
      BY <2>1, <2>8
    <3>2. n = Len(list)
      BY <2>2, <2>8
    <3> HIDE DEF n
    <3> QED BY <2>1, <2>6, <3>1, <3>2
  <2>9. CASE behind # {}
    <3>1. behind \subseteq 1..Len(list) /\ behind \subseteq Nat
      BY <2>1
    <3> DEFINE k == Min(behind)
    <3>2. k \in behind /\ \A j \in behind : k <= j
      <4> HIDE DEF behind
      <4> QED BY <2>9, <3>1, NatLeast
    <3>3. k = Min(behind)
      OBVIOUS
    <3> HIDE DEF k
    <3>4. k \in 1..Len(list) /\ ComesBefore(m, x, list[k]) /\ n = k - 1
      BY <2>1, <2>2, <2>9, <3>2, <3>3
    <3>5. \A i \in 1..Len(list) : i < k => ~ComesBefore(m, x, list[i])
      BY <2>1, <3>2, <3>4
    <3> HIDE DEF behind, n
    <3>6. ASSUME NEW i \in 1..Len(list) PROVE IF i <= n THEN InOrder(m, list[i], x) ELSE InOrder(m, x, list[i])
      <4>1. CASE i <= n
        <5>1. i < k
          BY <2>1, <3>4, <4>1
        <5> QED BY <2>6, <3>5, <4>1, <5>1
      <4>2. CASE ~(i <= n)
        <5>1. k <= i
          BY <2>1, <3>4, <4>2
        <5> QED BY <2>7, <3>4, <4>2, <5>1
      <4> QED BY <4>1, <4>2
    <3>7. n \in 0..Len(list)
      BY <2>1, <3>4
    <3> QED BY <3>6, <3>7
  <2> QED BY <2>8, <2>9
<1> HIDE DEF n
<1>8. PICK L2 : /\ Linked(LinkBetween(m, left, x, right), L2)
                /\ \A u \in Tiles : \A y : Has(L2, u, y) <=> (Has(L1, u, y) \/ (u = t /\ y = x))
  <2>1. left = IF n = 0 THEN Nobody ELSE L1[t][n]
    BY <1>6
  <2>2. right = IF n = Len(L1[t]) THEN Nobody ELSE L1[t][n + 1]
    BY <1>6
  <2>3. /\ n \in 0..Len(L1[t])
        /\ \A i \in 1..Len(L1[t]) : IF i <= n THEN InOrder(m, L1[t][i], x) ELSE InOrder(m, x, L1[t][i])
    BY <1>6, <1>7
  <2>4. x \in Drawn /\ t \in Tiles /\ (x \in Fixed => x \in Range(Ground[t]))
    OBVIOUS
  <2> HIDE DEF left, right
  <2> QED BY ONLY <1>3, <1>5, <2>1, <2>2, <2>3, <2>4, PasteLinked, SMTT(20)
<1>9. \A u \in Tiles : \A y : Has(L2, u, y) <=> IF y = x THEN u = t ELSE Has(L, u, y)
  BY <1>2, <1>8
<1>10. LinkBetween(m, left, x, right).loaded = m0.loaded
  <2>1. m = [loaded |-> m.loaded, prev |-> m.prev, next |-> m.next, prio |-> m.prio]
    BY <1>4 DEF Maps
  <2> HIDE DEF left, right
  <2> QED BY <1>4, <2>1 DEF LinkBetween
<1> HIDE DEF left, right
<1> QED BY <1>1, <1>8, <1>9, <1>10

-----------------------------------------------------------------------------
(* Tiles and blocks are loaded.                                            *)

\* A set of tiles as a sequence.
LEMMA TilesInSequence ==
  ASSUME NEW S \in SUBSET Tiles
  PROVE  /\ SetToSeq(S) \in Seq(Tiles) /\ Len(SetToSeq(S)) \in Nat
         /\ \A i \in 1..Len(SetToSeq(S)) : SetToSeq(S)[i] \in S
         /\ \A i, j \in 1..Len(SetToSeq(S)) : SetToSeq(S)[i] = SetToSeq(S)[j] => i = j
         /\ \A t \in S : \E i \in 1..Len(SetToSeq(S)) : SetToSeq(S)[i] = t
<1> DEFINE f == SetToSeq(S)
           N == Cardinality(S)
<1>1. IsFiniteSet(S)
  BY TilesAssumption, FS_Subset
<1>2. N \in Nat /\ ExistsBijection(1..N, S)
  BY <1>1, FS_CardinalityType
<1>3. PICK g : g \in [1..N -> S] /\ IsInjective(g)
  BY <1>2 DEF ExistsBijection, Bijection, Injection
<1>4. f \in [1..N -> S] /\ IsInjective(f)
  <2> HIDE DEF N
  <2>1. f = CHOOSE h \in [1..N -> S] : IsInjective(h)
    BY DEF SetToSeq, N
  <2> HIDE DEF f
  <2> QED BY <1>3, <2>1
<1> HIDE DEF f
<1>5. f \in Surjection(1..N, S)
  <2>1. f \in Injection(1..N, S)
    BY <1>4 DEF Injection
  <2>2. Cardinality(1..N) = Cardinality(S)
    <3>1. 1 \in Int /\ N \in Int
      BY <1>2
    <3> HIDE DEF N
    <3>2. Cardinality(1..N) = IF 1 > N THEN 0 ELSE N - 1 + 1
      BY <3>1, FS_Interval
    <3>3. Cardinality(1..N) = N
      BY <1>2, <3>2
    <3> QED BY <3>3 DEF N
  <2> QED BY <1>1, <2>1, <2>2, FS_Injection
<1> HIDE DEF N
<1>6. f \in Seq(Tiles) /\ Len(f) = N
  <2>1. f \in [1..N -> Tiles]
    BY <1>4
  <2> QED BY <1>2, <2>1, IsASeq
<1>7. \A i, j \in 1..N : f[i] = f[j] => i = j
  BY <1>4 DEF IsInjective
<1>8. \A t \in S : \E i \in 1..N : f[i] = t
  BY <1>5 DEF Surjection
<1> QED BY <1>2, <1>4, <1>6, <1>7, <1>8 DEF f

\* What is loaded on a tile after its land.
Later(t) == Append(Tail(Ground[t]), Land(t))

LEMMA LaterFacts ==
  ASSUME NEW t \in Tiles
  PROVE  /\ Len(Later(t)) = Len(Ground[t])
         /\ \A i \in 1..Len(Ground[t]) :
              Later(t)[i] = IF i < Len(Ground[t]) THEN Ground[t][i + 1] ELSE Ground[t][1]
<1> DEFINE g == Ground[t]
<1>1. g \in Seq(Fixed) /\ g # <<>> /\ Len(g) \in Nat /\ Len(g) >= 1 /\ Land(t) \in Fixed /\ Land(t) = g[1]
  BY TilesAssumption, GroundFacts
<1> DEFINE r == Tail(g)
<1>2. /\ r \in Seq(Fixed) /\ Len(r) = Len(g) - 1
      /\ \A i \in 1..Len(r) : r[i] = g[i + 1]
  <2> HIDE DEF g
  <2> QED BY <1>1, HeadTailProperties
<1> HIDE DEF r
<1>3. /\ Len(Append(r, Land(t))) = Len(r) + 1
      /\ \A i \in 1..Len(r) : Append(r, Land(t))[i] = r[i]
      /\ Append(r, Land(t))[Len(r) + 1] = Land(t)
  BY <1>1, <1>2, AppendProperties
<1>4. Later(t) = Append(r, Land(t))
  BY DEF Later, r
<1> HIDE DEF g
<1>5. Len(r) + 1 = Len(g) /\ \A i \in 1..Len(g) : (i < Len(g) => i \in 1..Len(r)) /\ (~(i < Len(g)) => i = Len(r) + 1)
  BY <1>1, <1>2
<1>6. \A i \in 1..Len(g) : Later(t)[i] = IF i < Len(g) THEN g[i + 1] ELSE g[1]
  BY <1>1, <1>2, <1>3, <1>4, <1>5
<1> QED BY <1>3, <1>4, <1>5, <1>6 DEF g

\* What an unloaded tile's list has: nothing; what a loaded one has: its ground.
Grounded(L, t) == \A y \in Range(Ground[t]) : Has(L, t, y)
Bare(L, t) == \A y : ~Has(L, t, y)

(* The land and the statics of a bare tile come into its list.             *)
LEMMA LoadTileLinked ==
  ASSUME NEW m, NEW L, Linked(m, L), NEW t \in Tiles, Bare(L, t)
  PROVE  /\ \E L2 : /\ Linked(LoadTile(m, t), L2)
                    /\ \A u \in Tiles : \A y : Has(L2, u, y) <=> IF u = t THEN y \in Range(Ground[t])
                                                                 ELSE Has(L, u, y)
         /\ LoadTile(m, t).loaded = m.loaded
<1> DEFINE N == Len(Ground[t])
           g == Ground[t]
           first == [m EXCEPT !.prio[Land(t)] = 0]
           next(v, n) == AddToTile(v, Later(t)[n], t, GroundZ[Later(t)[n]])
           body(f, n) == IF n = 0 THEN first ELSE next(f[n - 1], n)
           Builds(f) == f = [n \in 0..Len(Later(t)) |-> body(f, n)]
           A == Building(m, t)
           Shows(K, n) == \A u \in Tiles : \A y :
             Has(K, u, y) <=> IF u = t THEN \E i \in 1..N : i <= n + 1 /\ y = g[i] ELSE Has(L, u, y)
           Vs == [n \in 0..N |-> {v \in Maps : v.loaded = m.loaded
                                               /\ \E K \in Sheets : Linked(v, K) /\ Shows(K, n)}]
           step == [n \in 1..N |-> [v \in Vs[n - 1] |-> next(v, n)]]
<1>1. /\ N \in Nat /\ N >= 1 /\ Len(Later(t)) = N /\ 1 \in 1..N
      /\ \A i \in 1..N : Later(t)[i] = IF i < N THEN g[i + 1] ELSE g[1]
      /\ \A i \in 1..N : g[i] \in Fixed /\ g[i] \in Drawn /\ g[i] \in Range(g)
      /\ \A i, j \in 1..N : g[i] = g[j] => i = j
      /\ g[1] = Land(t)
  <2>1. \A i, j \in DOMAIN g : g[i] = g[j] => i = j
    BY TilesAssumption
  <2> QED BY <2>1, GroundFacts, LaterFacts, DrawnFacts
<1>2. \A u \in Tiles : \A i \in 1..N : u # t => ~Has(L, u, g[i])
  BY <1>1, GroundApart DEF Linked, AtHome
<1>3. m \in Maps /\ L \in Sheets
  BY LinkedFacts
<1>4. \A i \in 1..N : GroundZ[g[i]] \in Int
  BY <1>1, TilesAssumption
<1> HIDE DEF first, next, A, g, N
<1>5. /\ \A n \in 0..N : \A v : v \in Vs[n] <=> /\ v \in Maps /\ v.loaded = m.loaded
                                           /\ \E K \in Sheets : Linked(v, K) /\ Shows(K, n)
      /\ 0 \in 0..N /\ N \in 0..N
      /\ \A n \in 1..N : n \in 0..N /\ n - 1 \in 0..N /\ (n - 1) + 1 = n
  <2>1. 0 \in 0..N /\ N \in 0..N /\ \A n \in 1..N : n \in 0..N /\ n - 1 \in 0..N /\ (n - 1) + 1 = n
    BY <1>1
  <2> HIDE DEF Shows
  <2> QED BY <2>1
<1> HIDE DEF Vs
<1>6. first \in Vs[0]
  <2> DEFINE x == Land(t)
             m1 == LinkBetween(first, Nobody, x, Nobody)
  <2>1. x \in Drawn /\ x \in Fixed /\ x \in Range(Ground[t]) /\ x = g[1] /\ Nobody # x
    BY <1>1, DrawnFacts DEF g
  <2>2. Unlisted(L, x)
    <3>1. \A u \in Tiles : ~Has(L, u, x)
      BY <1>1, <1>2, <2>1 DEF Bare
    <3> QED BY <3>1 DEF Unlisted
  <2>3. /\ first \in Maps /\ first.loaded = m.loaded /\ first.next = m.next /\ first.prev = m.prev
        /\ \A y \in Drawn : y # x => first.prio[y] = m.prio[y]
    <3>1. first = [loaded |-> m.loaded, prev |-> m.prev, next |-> m.next, prio |-> [m.prio EXCEPT ![x] = 0]]
      BY <1>3 DEF first, Maps
    <3> HIDE DEF x
    <3> QED BY <1>3, <2>1, <3>1 DEF Maps
  <2> HIDE DEF x
  <2>4. Linked(first, L)
    BY <2>2, <2>3, SameLinks
  <2>5. Len(L[t]) = 0
    <3>1. Len(L[t]) \in Nat
      BY LinkedFacts
    <3>2. Len(L[t]) # 0 => 1 \in 1..Len(L[t])
      BY <3>1
    <3> QED BY <3>2 DEF Bare, Has
  <2>6. PICK K : /\ Linked(m1, K)
                 /\ \A u \in Tiles : \A y : Has(K, u, y) <=> (Has(L, u, y) \/ (u = t /\ y = x))
    <3>1. /\ 0 \in 0..Len(L[t])
          /\ \A i \in 1..Len(L[t]) : IF i <= 0 THEN InOrder(first, L[t][i], x) ELSE InOrder(first, x, L[t][i])
      BY <2>5
    <3>2. Nobody = (IF 0 = 0 THEN Nobody ELSE L[t][0]) /\ Nobody = IF 0 = Len(L[t]) THEN Nobody ELSE L[t][0 + 1]
      BY <2>5
    <3> QED BY <2>1, <2>2, <2>4, <3>1, <3>2, PasteLinked
  <2>7. \A y \in Drawn : first.next[y] = m1.next[y] /\ first.prev[y] = m1.prev[y] /\ first.prio[y] = m1.prio[y]
    <3>1. first.next[x] = Nobody /\ first.prev[x] = Nobody
      BY <2>1, <2>2, <2>3 DEF Linked, LinksOf
    <3> DEFINE nx == [y \in Drawn |-> IF y = x THEN Nobody ELSE IF y = Nobody THEN x ELSE first.next[y]]
               pv == [y \in Drawn |-> IF y = x THEN Nobody ELSE IF y = Nobody THEN x ELSE first.prev[y]]
    <3>2. m1 = [first EXCEPT !.next = nx, !.prev = pv]
      BY DEF LinkBetween
    <3>3. \A y \in Drawn : nx[y] = first.next[y] /\ pv[y] = first.prev[y]
      BY <3>1, DrawnFacts
    <3> HIDE DEF nx, pv, m1
    <3>4. m1 = [loaded |-> first.loaded, prev |-> pv, next |-> nx, prio |-> first.prio]
      BY <2>3, <3>2 DEF Maps
    <3> QED BY <3>3, <3>4
  <2> HIDE DEF m1
  <2>8. Linked(first, K)
    BY <2>3, <2>6, <2>7, SameLinks
  <2>9. Shows(K, 0)
    <3> SUFFICES ASSUME NEW u \in Tiles, NEW y
                 PROVE  Has(K, u, y) <=> IF u = t THEN \E i \in 1..N : i <= 0 + 1 /\ y = g[i] ELSE Has(L, u, y)
      OBVIOUS
    <3>1. (\E i \in 1..N : i <= 0 + 1 /\ y = g[i]) <=> y = x
      BY <1>1, <2>1
    <3> QED BY <2>6, <3>1 DEF Bare
  <2>10. K \in Sheets
    BY <2>8, LinkedFacts
  <2> HIDE DEF Shows
  <2> QED BY <1>5, <2>3, <2>8, <2>9, <2>10
<1>7. ASSUME NEW n \in 1..N, NEW v \in Vs[n - 1]
      PROVE  next(v, n) \in Vs[n]
  <2>1. PICK K \in Sheets : Linked(v, K) /\ Shows(K, n - 1)
    BY <1>5, <1>7
  <2>2. v.loaded = m.loaded
    BY <1>5, <1>7
  <2> DEFINE x == Later(t)[n]
  <2>3. /\ x = IF n < N THEN g[n + 1] ELSE g[1]
        /\ x \in Drawn /\ x \in Fixed /\ x \in Range(Ground[t]) /\ GroundZ[x] \in Int
    <3>1. x = IF n < N THEN g[n + 1] ELSE g[1]
      BY <1>1
    <3>2. n < N => n + 1 \in 1..N
      BY <1>1
    <3> HIDE DEF x
    <3> QED BY <1>1, <1>4, <3>1, <3>2 DEF g
  <2> HIDE DEF x
  <2>4. \A i \in 1..N : i <= n => Has(K, t, g[i])
    BY <1>5, <2>1
  <2>5. \A i \in 1..N : g[i] # x => \E j \in 1..N : g[j] # x /\ j <= n /\ \A h \in 1..N : g[h] # x => j <= h
    <3>1. CASE n < N
      <4>1. g[1] # x
        <5>1. n + 1 \in 1..N /\ n + 1 # 1
          BY <1>1, <3>1
        <5> QED BY <1>1, <2>3, <3>1, <5>1
      <4> QED BY <1>1, <4>1
    <3>2. CASE n = N
      <4> SUFFICES ASSUME NEW i \in 1..N, g[i] # x
                   PROVE  \E j \in 1..N : g[j] # x /\ j <= n /\ \A h \in 1..N : g[h] # x => j <= h
        OBVIOUS
      <4>1. i # 1 /\ x = g[1]
        BY <1>1, <2>3, <3>2
      <4>2. 2 \in 1..N /\ 2 <= n
        BY <1>1, <3>2, <4>1
      <4>3. g[2] # x /\ \A h \in 1..N : g[h] # x => 2 <= h
        <5>1. \A h \in 1..N : h # 1 => 2 <= h
          BY <1>1
        <5> QED BY <1>1, <4>1, <4>2, <5>1
      <4> QED BY <4>2, <4>3
    <3> QED BY <1>1, <3>1, <3>2
  <2>6. /\ \E K2 : /\ Linked(next(v, n), K2)
                   /\ \A u \in Tiles : \A y : Has(K2, u, y) <=> IF y = x THEN u = t ELSE Has(K, u, y)
        /\ next(v, n).loaded = v.loaded
    <3>1. \/ \A y : Has(K, t, y) => y = x
          \/ \E i \in 1..N : g[i] # x /\ Has(K, t, g[i]) /\ \A j \in 1..N : g[j] # x => i <= j
      <4>1. CASE \E i \in 1..N : g[i] # x
        BY <2>4, <2>5, <4>1
      <4>2. CASE \A i \in 1..N : g[i] = x
        BY <2>1, <4>2
      <4> QED BY <4>1, <4>2
    <3>2. (\A y : Has(K, t, y) => y = x) => \A i \in 1..N : g[i] = x
      BY <2>4, <2>5
    <3>3. next(v, n) = AddToTile(v, x, t, GroundZ[x])
      BY DEF next, x
    <3>4. /\ \/ \A y : Has(K, t, y) => y = x
             \/ \E i \in 1..Len(Ground[t]) :
                  /\ Ground[t][i] # x /\ Has(K, t, Ground[t][i])
                  /\ \A j \in 1..Len(Ground[t]) : Ground[t][j] # x => i <= j
          /\ (\A y : Has(K, t, y) => y = x) => \A i \in 1..Len(Ground[t]) : Ground[t][i] = x
      BY <3>1, <3>2 DEF g, N
    <3>5. Linked(v, K) /\ x \in Drawn /\ t \in Tiles /\ GroundZ[x] \in Int /\ x \in Range(Ground[t])
      BY <2>1, <2>3
    <3> QED BY ONLY <3>3, <3>4, <3>5, AddToTileLinked
  <2>7. PICK K2 : /\ Linked(next(v, n), K2)
                  /\ \A u \in Tiles : \A y : Has(K2, u, y) <=> IF y = x THEN u = t ELSE Has(K, u, y)
    BY <2>6
  <2>8. Shows(K2, n)
    <3> SUFFICES ASSUME NEW u \in Tiles, NEW y
                 PROVE  Has(K2, u, y) <=> IF u = t THEN \E i \in 1..N : i <= n + 1 /\ y = g[i] ELSE Has(L, u, y)
      OBVIOUS
    <3>1. Has(K2, u, y) <=> IF y = x THEN u = t ELSE Has(K, u, y)
      BY <2>7
    <3>2. Has(K, u, y) <=> IF u = t THEN \E i \in 1..N : i <= (n - 1) + 1 /\ y = g[i] ELSE Has(L, u, y)
      BY <2>1
    <3>3. u # t => ~Has(L, u, x)
      <4>1. n < N => n + 1 \in 1..N
        BY <1>1
      <4> QED BY <1>1, <1>2, <2>3, <4>1
    <3>4. (\E i \in 1..N : i <= n + 1 /\ y = g[i]) <=> (y = x \/ \E i \in 1..N : i <= n /\ y = g[i])
      <4>1. CASE n < N
        <5>1. n + 1 \in 1..N /\ \A i \in 1..N : i <= n + 1 <=> i <= n \/ i = n + 1
          BY <1>1, <4>1
        <5> QED BY <2>3, <4>1, <5>1
      <4>2. CASE n = N
        <5>1. \A i \in 1..N : i <= n + 1 /\ i <= n
          BY <1>1, <4>2
        <5> QED BY <1>1, <2>3, <4>2, <5>1
      <4> QED BY <1>1, <4>1, <4>2
    <3> QED BY <1>5, <3>1, <3>2, <3>3, <3>4
  <2>9. K2 \in Sheets /\ next(v, n) \in Maps
    BY <2>7, LinkedFacts
  <2> HIDE DEF Shows
  <2> QED BY <1>5, <2>2, <2>6, <2>7, <2>8, <2>9
<1> HIDE DEF Shows
<1>8. PICK f : IsRun(f, Vs, first, N, step)
  <2>1. \A n \in 1..N : \A v \in Vs[n - 1] : step[n][v] = next(v, n)
    OBVIOUS
  <2> HIDE DEF step, next
  <2>2. \A n \in 1..N : \A v \in Vs[n - 1] : step[n][v] \in Vs[n]
    BY <1>7, <2>1
  <2>3. N \in Nat /\ first \in Vs[0]
    BY <1>1, <1>6
  <2> QED BY ONLY <2>2, <2>3, RunExists
<1>9. Builds(f)
  <2>1. ASSUME NEW n \in 0..N PROVE f[n] = body(f, n)
    <3>1. CASE n = 0
      BY <1>8, <3>1 DEF IsRun
    <3>2. CASE n # 0
      <4>1. n \in 1..N
        BY <1>1, <3>2
      <4>2. f[n - 1] \in Vs[n - 1] /\ f[n] = step[n][f[n - 1]]
        <5> HIDE DEF step
        <5> QED BY <1>5, <1>8, <4>1 DEF IsRun
      <4>3. f[n] = next(f[n - 1], n)
        BY <4>1, <4>2
      <4> QED BY <3>2, <4>3
    <3> QED BY <3>1, <3>2
  <2>2. f = [n \in 0..N |-> f[n]]
    BY <1>8 DEF IsRun
  <2> HIDE DEF body
  <2> QED BY <1>1, <2>1, <2>2
<1>10. Builds(A)
  <2>1. A = CHOOSE h : Builds(h)
    BY DEF Building, Later, A, first, next
  <2> HIDE DEF Builds
  <2> QED BY <1>9, <2>1
<1>11. \A n \in 0..N : A[n] = body(A, n)
  <2> HIDE DEF body
  <2> QED BY <1>1, <1>10
<1>12. A[0] = first /\ \A n \in 1..N : A[n] = next(A[n - 1], n)
  <2>1. \A n \in 1..N : n # 0
    BY <1>1
  <2> QED BY <1>5, <1>11, <2>1
<1>13. A[N] \in Vs[N]
  <2>1. A[0] \in Vs[0] /\ \A n \in 1..N : A[n - 1] \in Vs[n - 1] => A[n] \in Vs[n]
    BY <1>6, <1>7, <1>12
  <2> QED BY <1>1, <1>5, <2>1, RunStays
<1>14. LoadTile(m, t) = A[N]
  BY DEF LoadTile, A, N
<1>15. PICK K \in Sheets : Linked(A[N], K) /\ Shows(K, N)
  BY <1>5, <1>13
<1>16. \A u \in Tiles : \A y : Has(K, u, y) <=> IF u = t THEN y \in Range(Ground[t]) ELSE Has(L, u, y)
  <2> SUFFICES ASSUME NEW u \in Tiles, NEW y
               PROVE  Has(K, u, y) <=> IF u = t THEN y \in Range(Ground[t]) ELSE Has(L, u, y)
    OBVIOUS
  <2>1. Has(K, u, y) <=> IF u = t THEN \E i \in 1..N : i <= N + 1 /\ y = g[i] ELSE Has(L, u, y)
    BY <1>15 DEF Shows
  <2>2. (\E i \in 1..N : i <= N + 1 /\ y = g[i]) <=> y \in Range(Ground[t])
    <3>1. \A i \in 1..N : i <= N + 1
      BY <1>1
    <3>2. y \in Range(Ground[t]) => \E i \in 1..N : y = g[i]
      BY GroundFacts DEF g, N
    <3> QED BY <1>1, <3>1, <3>2 DEF g
  <2> QED BY <2>1, <2>2
<1>17. A[N].loaded = m.loaded
  BY <1>5, <1>13
<1> QED BY <1>14, <1>15, <1>16, <1>17

(* What a map of the program is: its lists stand for its links, and what   *)
(* is loaded has its ground.                                               *)
Good(m, L) ==
  /\ Linked(m, L)
  /\ \A t \in Tiles : IF BlockOf[t] \in m.loaded THEN Grounded(L, t) ELSE Bare(L, t)

(* Blocks that are loaded bring the ground of their tiles, and move        *)
(* nothing.                                                                *)
LEMMA LoadBlocksGood ==
  ASSUME NEW m, NEW L, Good(m, L), NEW B \in SUBSET Blocks
  PROVE  /\ LoadBlocks(m, B).loaded = m.loaded \cup B
         /\ \E L2 : /\ Good(LoadBlocks(m, B), L2)
                    /\ \A u \in Tiles, o \in Objects : Has(L2, u, o) <=> Has(L, u, o)
<1> DEFINE S == TilesOf(B \ m.loaded)
           tiles == SetToSeq(S)
           N == Len(tiles)
           first == [m EXCEPT !.loaded = m.loaded \cup B]
           body(f, n) == IF n = 0 THEN first ELSE LoadTile(f[n - 1], tiles[n])
           Loads(f) == f = [n \in 0..N |-> body(f, n)]
           A == Loading(first, tiles)
           Shows(K, n) == \A u \in Tiles : \A y :
             Has(K, u, y) <=> Has(L, u, y) \/ (y \in Range(Ground[u]) /\ \E i \in 1..N : i <= n /\ u = tiles[i])
           Vs == [n \in 0..N |-> {v \in Maps : v.loaded = m.loaded \cup B
                                               /\ \E K \in Sheets : Linked(v, K) /\ Shows(K, n)}]
           step == [n \in 1..N |-> [v \in Vs[n - 1] |-> LoadTile(v, tiles[n])]]
<1>1. /\ N \in Nat
      /\ \A i \in 1..N : tiles[i] \in S /\ tiles[i] \in Tiles
      /\ \A i, j \in 1..N : tiles[i] = tiles[j] => i = j
      /\ \A t \in S : \E i \in 1..N : tiles[i] = t
  <2>1. S \in SUBSET Tiles
    BY DEF TilesOf
  <2> HIDE DEF S
  <2>2. /\ Len(SetToSeq(S)) \in Nat
        /\ \A i \in 1..Len(SetToSeq(S)) : SetToSeq(S)[i] \in S
        /\ \A i, j \in 1..Len(SetToSeq(S)) : SetToSeq(S)[i] = SetToSeq(S)[j] => i = j
        /\ \A t \in S : \E i \in 1..Len(SetToSeq(S)) : SetToSeq(S)[i] = t
    BY ONLY <2>1, TilesInSequence
  <2> QED BY <2>1, <2>2
<1>2. Linked(m, L) /\ m \in Maps /\ L \in Sheets
  BY LinkedFacts DEF Good
<1>3. \A t \in S : t \in Tiles /\ BlockOf[t] \in B /\ Bare(L, t)
  BY DEF TilesOf, Good
<1>4. first = [loaded |-> m.loaded \cup B, prev |-> m.prev, next |-> m.next, prio |-> m.prio]
  <2> HIDE DEF A, tiles, N, S
  <2>1. m = [loaded |-> m.loaded, prev |-> m.prev, next |-> m.next, prio |-> m.prio]
    BY <1>2 DEF Maps
  <2> QED BY <2>1
<1>5. LoadBlocks(m, B) = A[N]
  BY DEF LoadBlocks
<1> HIDE DEF first, A, tiles, N, S
<1>6. /\ \A n \in 0..N : \A v : v \in Vs[n] <=> /\ v \in Maps /\ v.loaded = m.loaded \cup B
                                                /\ \E K \in Sheets : Linked(v, K) /\ Shows(K, n)
      /\ 0 \in 0..N /\ N \in 0..N
      /\ \A n \in 1..N : n \in 0..N /\ n - 1 \in 0..N
  <2>1. 0 \in 0..N /\ N \in 0..N /\ \A n \in 1..N : n \in 0..N /\ n - 1 \in 0..N
    BY <1>1
  <2> HIDE DEF Shows
  <2> QED BY <2>1
<1> HIDE DEF Vs
<1>7. first \in Vs[0]
  <2>1. first \in Maps
    BY <1>2, <1>4 DEF Maps
  <2>2. Linked(first, L)
    BY <1>2, <1>4, <2>1, SameLinks
  <2>3. Shows(L, 0)
    <3>1. \A i \in 1..N : ~(i <= 0)
      BY <1>1
    <3> QED BY <3>1
  <2>4. first.loaded = m.loaded \cup B
    BY <1>4
  <2> HIDE DEF Shows
  <2> QED BY <1>2, <1>6, <2>1, <2>2, <2>3, <2>4
<1>8. ASSUME NEW n \in 1..N, NEW v \in Vs[n - 1]
      PROVE  LoadTile(v, tiles[n]) \in Vs[n]
  <2>1. PICK K \in Sheets : Linked(v, K) /\ Shows(K, n - 1)
    BY <1>6, <1>8
  <2>2. v.loaded = m.loaded \cup B
    BY <1>6, <1>8
  <2> DEFINE t == tiles[n]
             w == LoadTile(v, t)
  <2>3. t \in Tiles /\ Bare(L, t)
    BY <1>1, <1>3
  <2>4. Bare(K, t)
    <3>1. \A i \in 1..N : i <= n - 1 => tiles[i] # t
      BY <1>1
    <3> HIDE DEF t
    <3> QED BY <2>1, <2>3, <3>1 DEF Bare
  <2> HIDE DEF t
  <2>5. PICK K2 : /\ Linked(w, K2)
                  /\ \A u \in Tiles : \A y : Has(K2, u, y) <=> IF u = t THEN y \in Range(Ground[t])
                                                               ELSE Has(K, u, y)
    BY <2>1, <2>3, <2>4, LoadTileLinked
  <2>6. w.loaded = m.loaded \cup B
    BY <2>1, <2>2, <2>3, <2>4, LoadTileLinked
  <2> HIDE DEF w
  <2>7. Shows(K2, n)
    <3> SUFFICES ASSUME NEW u \in Tiles, NEW y
                 PROVE  Has(K2, u, y) <=> Has(L, u, y) \/ (y \in Range(Ground[u]) /\ \E i \in 1..N : i <= n /\ u = tiles[i])
      OBVIOUS
    <3>1. Has(K, u, y) <=> Has(L, u, y) \/ (y \in Range(Ground[u]) /\ \E i \in 1..N : i <= n - 1 /\ u = tiles[i])
      BY <2>1
    <3>2. (\E i \in 1..N : i <= n /\ u = tiles[i]) <=> (u = t \/ \E i \in 1..N : i <= n - 1 /\ u = tiles[i])
      <4>1. n \in 1..N /\ \A i \in 1..N : i <= n <=> i <= n - 1 \/ i = n
        BY <1>1
      <4> QED BY <4>1 DEF t
    <3>3. u = t => ~Has(L, u, y)
      BY <2>3 DEF Bare
    <3>4. u = t => ~\E i \in 1..N : i <= n - 1 /\ u = tiles[i]
      BY <1>1 DEF t
    <3> QED BY <2>5, <3>1, <3>2, <3>3, <3>4
  <2>8. w \in Maps /\ K2 \in Sheets
    BY <2>5, LinkedFacts
  <2> HIDE DEF Shows
  <2>9. w \in Vs[n]
    BY <1>6, <2>5, <2>6, <2>7, <2>8
  <2> QED BY <2>9 DEF w, t
<1> HIDE DEF Shows
<1>9. PICK f : IsRun(f, Vs, first, N, step)
  <2>1. \A n \in 1..N : \A v \in Vs[n - 1] : step[n][v] = LoadTile(v, tiles[n])
    OBVIOUS
  <2> HIDE DEF step
  <2>2. \A n \in 1..N : \A v \in Vs[n - 1] : step[n][v] \in Vs[n]
    BY <1>8, <2>1
  <2>3. N \in Nat /\ first \in Vs[0]
    BY <1>1, <1>7
  <2> QED BY ONLY <2>2, <2>3, RunExists
<1>10. Loads(f)
  <2>1. ASSUME NEW n \in 0..N PROVE f[n] = body(f, n)
    <3>1. CASE n = 0
      BY <1>9, <3>1 DEF IsRun
    <3>2. CASE n # 0
      <4>1. n \in 1..N
        BY <1>1, <3>2
      <4>2. f[n - 1] \in Vs[n - 1] /\ f[n] = step[n][f[n - 1]]
        <5> HIDE DEF step
        <5> QED BY <1>6, <1>9, <4>1 DEF IsRun
      <4>3. f[n] = LoadTile(f[n - 1], tiles[n])
        BY <4>1, <4>2
      <4> QED BY <3>2, <4>3
    <3> QED BY <3>1, <3>2
  <2>2. f = [n \in 0..N |-> f[n]]
    BY <1>9 DEF IsRun
  <2> HIDE DEF body
  <2> QED BY <2>1, <2>2
<1>11. Loads(A)
  <2>1. A = CHOOSE h : Loads(h)
    BY DEF Loading, A, N
  <2> HIDE DEF Loads
  <2> QED BY <1>10, <2>1
<1>12. \A n \in 0..N : A[n] = body(A, n)
  <2> HIDE DEF body
  <2> QED BY <1>11
<1>13. A[0] = first /\ \A n \in 1..N : A[n] = LoadTile(A[n - 1], tiles[n])
  <2>1. \A n \in 1..N : n # 0
    BY <1>1
  <2> QED BY <1>6, <1>12, <2>1
<1>14. A[N] \in Vs[N]
  <2>1. A[0] \in Vs[0] /\ \A n \in 1..N : A[n - 1] \in Vs[n - 1] => A[n] \in Vs[n]
    BY <1>7, <1>8, <1>13
  <2> QED BY <1>1, <1>6, <2>1, RunStays
<1>15. PICK K \in Sheets : Linked(A[N], K) /\ Shows(K, N)
  BY <1>6, <1>14
<1>16. A[N].loaded = m.loaded \cup B
  BY <1>6, <1>14
<1>17. \A u \in Tiles : \A y : Has(K, u, y) <=> Has(L, u, y) \/ (y \in Range(Ground[u]) /\ u \in S)
  <2> SUFFICES ASSUME NEW u \in Tiles
               PROVE  (\E i \in 1..N : i <= N /\ u = tiles[i]) <=> u \in S
    BY <1>15 DEF Shows
  <2>1. \A i \in 1..N : i <= N
    BY <1>1
  <2> QED BY <1>1, <2>1
<1>18. \A u \in Tiles : IF BlockOf[u] \in A[N].loaded THEN Grounded(K, u) ELSE Bare(K, u)
  <2> SUFFICES ASSUME NEW u \in Tiles
               PROVE  IF BlockOf[u] \in A[N].loaded THEN Grounded(K, u) ELSE Bare(K, u)
    OBVIOUS
  <2>1. IF BlockOf[u] \in m.loaded THEN Grounded(L, u) ELSE Bare(L, u)
    BY DEF Good
  <2>2. u \in S <=> BlockOf[u] \in B /\ BlockOf[u] \notin m.loaded
    BY DEF S, TilesOf
  <2> QED BY <1>16, <1>17, <2>1, <2>2 DEF Grounded, Bare
<1>19. \A u \in Tiles, o \in Objects : Has(K, u, o) <=> Has(L, u, o)
  <2>1. \A u \in Tiles, o \in Objects : o \notin Range(Ground[u])
    BY ObjectsAreNoGround
  <2> QED BY <1>17, <2>1
<1>20. Good(A[N], K)
  BY <1>15, <1>18 DEF Good
<1> QED BY <1>5, <1>16, <1>19, <1>20

(* CMapManager::AddRender: the object is on its tile, the others stay.     *)
LEMMA AddRenderGood ==
  ASSUME NEW m, NEW L, Good(m, L), NEW x \in Objects, NEW at \in Places
  PROVE  /\ AddRender(m, x, at).loaded = m.loaded \cup {BlockOf[at[1]]}
         /\ \E L2 : /\ Good(AddRender(m, x, at), L2)
                    /\ \A u \in Tiles, o \in Objects : Has(L2, u, o) <=> IF o = x THEN u = at[1]
                                                                       ELSE Has(L, u, o)
<1> DEFINE b == BlockOf[at[1]]
           m1 == LoadBlocks(m, {b})
           m2 == AddRender(m, x, at)
           t == at[1]
           z == at[2] + Lift[x]
<1>1. t \in Tiles /\ z \in Int /\ {b} \in SUBSET Blocks
  BY TilesAssumption DEF Range, Blocks
<1>2. m1.loaded = m.loaded \cup {b}
  BY <1>1, LoadBlocksGood
<1>3. PICK L1 : /\ Good(m1, L1)
                /\ \A u \in Tiles, o \in Objects : Has(L1, u, o) <=> Has(L, u, o)
  BY <1>1, LoadBlocksGood
<1>4. m2 = AddToTile(m1, x, t, z)
  BY DEF AddRender
<1> HIDE DEF m1, m2, z
<1>5. Grounded(L1, t)
  BY <1>1, <1>2, <1>3 DEF Good
<1>6. /\ x \in Drawn /\ x \notin Fixed
      /\ \A i \in 1..Len(Ground[t]) : Ground[t][i] # x /\ Has(L1, t, Ground[t][i])
      /\ 1 \in 1..Len(Ground[t]) /\ \A i \in 1..Len(Ground[t]) : 1 <= i
  <2> HIDE DEF t
  <2>1. x \in Drawn /\ x \notin Fixed
    BY DrawnFacts
  <2> QED BY <1>1, <1>5, <2>1, GroundFacts DEF Grounded
<1>7. /\ \E L2 : /\ Linked(m2, L2)
                 /\ \A u \in Tiles : \A y : Has(L2, u, y) <=> IF y = x THEN u = t ELSE Has(L1, u, y)
      /\ m2.loaded = m1.loaded
  <2> HIDE DEF t
  <2>1. Linked(m1, L1)
    BY <1>3 DEF Good
  <2>2. /\ x \in Fixed => x \in Range(Ground[t])
        /\ \E i \in 1..Len(Ground[t]) :
             /\ Ground[t][i] # x /\ Has(L1, t, Ground[t][i])
             /\ \A j \in 1..Len(Ground[t]) : Ground[t][j] # x => i <= j
        /\ (\A y : Has(L1, t, y) => y = x) => \A i \in 1..Len(Ground[t]) : Ground[t][i] = x
    BY <1>6
  <2> QED BY ONLY <1>1, <1>4, <1>6, <2>1, <2>2, AddToTileLinked
<1>8. PICK L2 : /\ Linked(m2, L2)
                /\ \A u \in Tiles : \A y : Has(L2, u, y) <=> IF y = x THEN u = t ELSE Has(L1, u, y)
  BY <1>7
<1>9. m2.loaded = m.loaded \cup {b}
  BY <1>2, <1>7
<1>10. \A u \in Tiles : IF BlockOf[u] \in m2.loaded THEN Grounded(L2, u) ELSE Bare(L2, u)
  <2> SUFFICES ASSUME NEW u \in Tiles
               PROVE  IF BlockOf[u] \in m2.loaded THEN Grounded(L2, u) ELSE Bare(L2, u)
    OBVIOUS
  <2>1. IF BlockOf[u] \in m2.loaded THEN Grounded(L1, u) ELSE Bare(L1, u)
    BY <1>3, <1>7 DEF Good
  <2>2. x \notin Range(Ground[u])
    BY ObjectsAreNoGround
  <2>3. BlockOf[u] \notin m2.loaded => u # t
    BY <1>9
  <2> QED BY <1>8, <2>1, <2>2, <2>3 DEF Grounded, Bare
<1>11. Good(m2, L2)
  BY <1>8, <1>10 DEF Good
<1>12. \A u \in Tiles, o \in Objects : Has(L2, u, o) <=> IF o = x THEN u = t ELSE Has(L, u, o)
  BY <1>3, <1>8
<1> QED BY <1>9, <1>11, <1>12 DEF m2

(* RemoveRender of an object: it is in no list, the others stay.           *)
LEMMA RemoveRenderGood ==
  ASSUME NEW m, NEW L, Good(m, L), NEW x \in Objects
  PROVE  /\ RemoveRender(m, x).loaded = m.loaded
         /\ \E L2 : /\ Good(RemoveRender(m, x), L2)
                    /\ \A u \in Tiles, o \in Objects : Has(L2, u, o) <=> (Has(L, u, o) /\ o # x)
<1>1. Linked(m, L) /\ m \in Maps /\ x \in Drawn /\ x \notin Fixed
  BY LinkedFacts, DrawnFacts DEF Good
<1>2. RemoveRender(m, x).loaded = m.loaded
  BY <1>1, RemoveFields
<1>3. PICK L2 : /\ Linked(RemoveRender(m, x), L2)
                /\ \A u \in Tiles : \A y : Has(L2, u, y) <=> (Has(L, u, y) /\ y # x)
  BY <1>1, RemoveLinked
<1>4. \A u \in Tiles : IF BlockOf[u] \in m.loaded THEN Grounded(L2, u) ELSE Bare(L2, u)
  <2> SUFFICES ASSUME NEW u \in Tiles
               PROVE  IF BlockOf[u] \in m.loaded THEN Grounded(L2, u) ELSE Bare(L2, u)
    OBVIOUS
  <2>1. IF BlockOf[u] \in m.loaded THEN Grounded(L, u) ELSE Bare(L, u)
    BY DEF Good
  <2>2. x \notin Range(Ground[u])
    BY ObjectsAreNoGround
  <2> QED BY <1>3, <2>1, <2>2 DEF Grounded, Bare
<1>5. Good(RemoveRender(m, x), L2)
  BY <1>2, <1>3, <1>4 DEF Good
<1> QED BY <1>2, <1>3, <1>5

\* The lists of a good map, as the program finds them.
LEMMA TileListIs ==
  ASSUME NEW m, NEW L, Good(m, L), NEW t \in Tiles, BlockOf[t] \in m.loaded
  PROVE  /\ TileList(m, t) = L[t] /\ L[t] \in Seq(Drawn) /\ Len(L[t]) \in Nat /\ Len(L[t]) >= 1
         /\ \A y : y \in Range(TileList(m, t)) <=> Has(L, t, y)
         /\ Has(L, t, Land(t))
<1>1. Has(L, t, Land(t))
  <2>1. Land(t) \in Range(Ground[t])
    BY GroundFacts
  <2> QED BY <2>1 DEF Good, Grounded
<1>2. TileList(m, t) = L[t]
  BY <1>1, ListFound DEF TileList, Good
<1>3. L[t] \in Seq(Drawn) /\ Len(L[t]) \in Nat
  BY LinkedFacts DEF Good
<1>4. \A y : y \in Range(L[t]) <=> Has(L, t, y)
  BY <1>3 DEF Has, Range
<1>5. Len(L[t]) >= 1
  BY <1>1, <1>3 DEF Has
<1> QED BY <1>1, <1>2, <1>3, <1>4, <1>5

(* What is on deleted blocks is in no list any more; the rest stays.       *)
LEMMA DeleteBlocksGood ==
  ASSUME NEW m, NEW L, Good(m, L), NEW B \in SUBSET Blocks
  PROVE  /\ DeleteBlocks(m, B).loaded = m.loaded \ B
         /\ \E L2 : /\ Good(DeleteBlocks(m, B), L2)
                    /\ \A u \in Tiles, o \in Objects : Has(L2, u, o) <=> (Has(L, u, o) /\ BlockOf[u] \notin B)
<1> DEFINE gone == UNION {Range(TileList(m, t)) : t \in TilesOf(B \cap m.loaded)}
           m2 == DeleteBlocks(m, B)
           L2 == [t \in Tiles |-> IF BlockOf[t] \in B THEN <<>> ELSE L[t]]
<1>1. Linked(m, L) /\ m \in Maps /\ L \in Sheets /\ Once(L)
  BY LinkedFacts DEF Good, Linked
<1>2. \A y : y \in gone <=> \E t \in Tiles : BlockOf[t] \in B /\ Has(L, t, y)
  <2>1. \A t \in Tiles : t \in TilesOf(B \cap m.loaded) <=> BlockOf[t] \in B /\ BlockOf[t] \in m.loaded
    BY DEF TilesOf
  <2>2. \A t \in TilesOf(B \cap m.loaded) : t \in Tiles
    BY DEF TilesOf
  <2>3. \A t \in Tiles : \A y : BlockOf[t] \in m.loaded => (y \in Range(TileList(m, t)) <=> Has(L, t, y))
    BY TileListIs
  <2>4. \A t \in Tiles : \A y : Has(L, t, y) => BlockOf[t] \in m.loaded
    BY DEF Good, Bare
  <2> QED BY <2>1, <2>2, <2>3, <2>4
<1>3. m2 = [loaded |-> m.loaded \ B,
            prev   |-> [x \in Drawn |-> IF x \in gone THEN Nobody ELSE m.prev[x]],
            next   |-> [x \in Drawn |-> IF x \in gone THEN Nobody ELSE m.next[x]],
            prio   |-> [x \in Drawn |-> IF x \in gone THEN 0 ELSE m.prio[x]]]
  BY DEF DeleteBlocks
<1> HIDE DEF gone, m2
<1>4. /\ m2 \in Maps /\ m2.loaded = m.loaded \ B
      /\ \A x \in Drawn : /\ m2.prev[x] = IF x \in gone THEN Nobody ELSE m.prev[x]
                          /\ m2.next[x] = IF x \in gone THEN Nobody ELSE m.next[x]
                          /\ x \notin gone => m2.prio[x] = m.prio[x]
  <2> DEFINE pv == [x \in Drawn |-> IF x \in gone THEN Nobody ELSE m.prev[x]]
             nx == [x \in Drawn |-> IF x \in gone THEN Nobody ELSE m.next[x]]
             pr == [x \in Drawn |-> IF x \in gone THEN 0 ELSE m.prio[x]]
  <2>1. pv \in [Drawn -> Ends] /\ nx \in [Drawn -> Ends] /\ pr \in [Drawn -> Int] /\ m.loaded \ B \in SUBSET Blocks
    BY <1>1 DEF Maps, Ends
  <2>2. \A x \in Drawn : /\ pv[x] = IF x \in gone THEN Nobody ELSE m.prev[x]
                         /\ nx[x] = IF x \in gone THEN Nobody ELSE m.next[x]
                         /\ x \notin gone => pr[x] = m.prio[x]
    OBVIOUS
  <2>3. m2 = [loaded |-> m.loaded \ B, prev |-> pv, next |-> nx, prio |-> pr]
    BY <1>3
  <2> HIDE DEF pv, nx, pr
  <2> QED BY <2>1, <2>2, <2>3 DEF Maps
<1>5. /\ L2 \in Sheets
      /\ \A t \in Tiles : L2[t] = IF BlockOf[t] \in B THEN <<>> ELSE L[t]
  BY <1>1, EmptyIsSeq DEF Sheets
<1> HIDE DEF L2
<1>6. \A t \in Tiles : \A i \in 1..Len(L2[t]) :
        /\ BlockOf[t] \notin B /\ L2[t] = L[t] /\ i \in 1..Len(L[t])
        /\ L[t][i] \in Drawn /\ L[t][i] \notin gone
  <2> SUFFICES ASSUME NEW t \in Tiles, NEW i \in 1..Len(L2[t])
               PROVE  /\ BlockOf[t] \notin B /\ L2[t] = L[t] /\ i \in 1..Len(L[t])
                      /\ L[t][i] \in Drawn /\ L[t][i] \notin gone
    OBVIOUS
  <2>1. BlockOf[t] \notin B
    <3>1. Len(<<>>) = 0
      OBVIOUS
    <3> QED BY <1>5, <3>1
  <2>2. L2[t] = L[t] /\ i \in 1..Len(L[t]) /\ L[t][i] \in Drawn
    BY <1>1, <1>5, <2>1, LinkedFacts
  <2>3. ASSUME NEW u \in Tiles, BlockOf[u] \in B, Has(L, u, L[t][i]) PROVE FALSE
    <3>1. PICK j \in 1..Len(L[u]) : L[u][j] = L[t][i]
      BY <2>3 DEF Has
    <3>2. u = t
      BY <1>1, <2>2, <3>1 DEF Once
    <3> QED BY <2>1, <2>3, <3>2
  <2> QED BY <1>2, <2>1, <2>2, <2>3
<1>7. \A u \in Tiles : \A y : Has(L2, u, y) <=> (Has(L, u, y) /\ BlockOf[u] \notin B)
  BY <1>5, <1>6 DEF Has
<1>8. Once(L2)
  BY <1>1, <1>6 DEF Once
<1>9. LinksOf(m2, L2)
  <2>1. ASSUME NEW t \in Tiles, NEW i \in 1..Len(L2[t])
        PROVE  m2.next[L2[t][i]] = After(L2[t], i) /\ m2.prev[L2[t][i]] = Before(L2[t], i)
    <3>1. L2[t] = L[t] /\ i \in 1..Len(L[t]) /\ L[t][i] \in Drawn /\ L[t][i] \notin gone
      BY <1>6
    <3>2. m2.next[L[t][i]] = m.next[L[t][i]] /\ m2.prev[L[t][i]] = m.prev[L[t][i]]
      BY <1>4, <3>1
    <3>3. m.next[L[t][i]] = After(L[t], i) /\ m.prev[L[t][i]] = Before(L[t], i)
      BY <1>1, <3>1, LinkedFacts
    <3> QED BY <3>1, <3>2, <3>3
  <2>2. ASSUME NEW y \in Drawn, Unlisted(L2, y)
        PROVE  m2.next[y] = Nobody /\ m2.prev[y] = Nobody
    <3>1. CASE y \in gone
      BY <1>4, <3>1
    <3>2. CASE y \notin gone
      <4>1. Unlisted(L, y)
        BY <1>2, <1>7, <2>2, <3>2 DEF Unlisted
      <4>2. m.next[y] = Nobody /\ m.prev[y] = Nobody
        BY <1>1, <4>1 DEF Linked, LinksOf
      <4> QED BY <1>4, <3>2, <4>2
    <3> QED BY <3>1, <3>2
  <2> QED BY <2>1, <2>2 DEF LinksOf
<1>10. Sorted(m2, L2)
  <2> SUFFICES ASSUME NEW t \in Tiles, NEW i \in 1..Len(L2[t]), NEW j \in 1..Len(L2[t]), i < j
               PROVE  InOrder(m2, L2[t][i], L2[t][j])
    BY DEF Sorted
  <2>1. /\ L2[t] = L[t] /\ i \in 1..Len(L[t]) /\ j \in 1..Len(L[t])
        /\ L[t][i] \in Drawn /\ L[t][i] \notin gone /\ L[t][j] \in Drawn /\ L[t][j] \notin gone
    BY <1>6
  <2>2. InOrder(m, L[t][i], L[t][j])
    BY <1>1, <2>1 DEF Linked, Sorted
  <2>3. m2.prio[L[t][i]] = m.prio[L[t][i]] /\ m2.prio[L[t][j]] = m.prio[L[t][j]]
    BY <1>4, <2>1
  <2> QED BY <2>1, <2>2, <2>3 DEF InOrder
<1>11. AtHome(L2)
  BY <1>1, <1>7 DEF Linked, AtHome
<1>12. Linked(m2, L2)
  BY <1>4, <1>5, <1>8, <1>9, <1>10, <1>11 DEF Linked
<1>13. \A t \in Tiles : IF BlockOf[t] \in m2.loaded THEN Grounded(L2, t) ELSE Bare(L2, t)
  BY <1>4, <1>7 DEF Good, Grounded, Bare
<1>14. Good(m2, L2)
  BY <1>12, <1>13 DEF Good
<1> QED BY <1>4, <1>7, <1>14 DEF m2

(* Init leaves no object in a list.                                        *)
LEMMA InitGood ==
  ASSUME NEW m, NEW L, Good(m, L), NEW at \in Places
  PROVE  /\ Init(m, at).loaded = {BlockOf[at[1]]}
         /\ \E L2 : /\ Good(Init(m, at), L2)
                    /\ \A u \in Tiles, o \in Objects : ~Has(L2, u, o)
<1> DEFINE b == BlockOf[at[1]]
           m1 == DeleteBlocks(m, Blocks)
<1>1. b \in Blocks /\ \A u \in Tiles : BlockOf[u] \in Blocks
  BY TilesAssumption DEF Range, Blocks
<1>2. m.loaded \subseteq Blocks
  BY LinkedFacts DEF Good, Maps
<1>3. m1.loaded = {}
  BY <1>2, DeleteBlocksGood
<1>4. PICK L1 : /\ Good(m1, L1)
                /\ \A u \in Tiles, o \in Objects : Has(L1, u, o) <=> (Has(L, u, o) /\ BlockOf[u] \notin Blocks)
  BY DeleteBlocksGood
<1>5. Init(m, at) = LoadBlocks(m1, {b})
  BY DEF Init
<1> HIDE DEF m1
<1>6. LoadBlocks(m1, {b}).loaded = {b}
  BY <1>1, <1>3, <1>4, LoadBlocksGood
<1>7. PICK L2 : /\ Good(LoadBlocks(m1, {b}), L2)
                /\ \A u \in Tiles, o \in Objects : Has(L2, u, o) <=> Has(L1, u, o)
  BY <1>1, <1>4, LoadBlocksGood
<1> QED BY <1>1, <1>4, <1>5, <1>6, <1>7

LEMMA NoMapGood == \E L : Good(NoMap, L) /\ \A u \in Tiles, o \in Objects : ~Has(L, u, o)
<1> DEFINE L == [t \in Tiles |-> <<>>]
<1>1. NoMap \in Maps /\ \A y \in Drawn : NoMap.next[y] = Nobody /\ NoMap.prev[y] = Nobody
  BY DEF NoMap, Maps, Ends
<1>2. L \in Sheets /\ \A t \in Tiles : Len(L[t]) = 0
  BY EmptyIsSeq DEF Sheets
<1> HIDE DEF L
<1>3. \A t \in Tiles : ~(\E i \in 1..Len(L[t]) : TRUE) /\ \A y : ~Has(L, t, y)
  BY <1>2 DEF Has
<1>4. Once(L) /\ LinksOf(NoMap, L) /\ Sorted(NoMap, L) /\ AtHome(L)
  BY <1>1, <1>3 DEF Once, LinksOf, Sorted, AtHome
<1>5. \A t \in Tiles : BlockOf[t] \notin NoMap.loaded
  BY DEF NoMap
<1>6. Good(NoMap, L)
  BY <1>1, <1>2, <1>3, <1>4, <1>5 DEF Good, Linked, Bare
<1> QED BY <1>3, <1>6

-----------------------------------------------------------------------------
(* UpdatePatched collects what is in the lists and links it again.         *)

\* m is a good map, all of whose lists are collected.
LEMMA CollectingAll ==
  ASSUME NEW m, NEW L, Good(m, L), NEW tiles, tiles = SetToSeq(TilesOf(m.loaded)),
         NEW list, list = Collecting(m, tiles)[Len(tiles)]
  PROVE  /\ list \in Seq(Drawn) /\ Len(list) \in Nat
         /\ \A y : (\E i \in 1..Len(list) : list[i] = y) <=> \E t \in Tiles : Has(L, t, y)
<1> DEFINE S == TilesOf(m.loaded)
           N == Len(tiles)
           body(f, n) == IF n = 0 THEN <<>> ELSE f[n - 1] \o TileList(m, tiles[n])
           Collects(f) == f = [n \in 0..N |-> body(f, n)]
           A == Collecting(m, tiles)
           In(s, y) == \E j \in 1..Len(s) : s[j] = y
           Vs == [n \in 0..N |-> {s \in Seq(Drawn) :
                    \A y : In(s, y) <=> \E i \in 1..N : i <= n /\ Has(L, tiles[i], y)}]
           step == [n \in 1..N |-> [s \in Vs[n - 1] |-> s \o TileList(m, tiles[n])]]
<1>1. /\ N \in Nat
      /\ \A i \in 1..N : tiles[i] \in S
      /\ \A t \in S : \E i \in 1..N : tiles[i] = t
  <2>1. S \in SUBSET Tiles
    BY DEF TilesOf
  <2> HIDE DEF S
  <2>2. /\ Len(SetToSeq(S)) \in Nat
        /\ \A i \in 1..Len(SetToSeq(S)) : SetToSeq(S)[i] \in S
        /\ \A t \in S : \E i \in 1..Len(SetToSeq(S)) : SetToSeq(S)[i] = t
    BY ONLY <2>1, TilesInSequence
  <2>3. tiles = SetToSeq(S)
    BY DEF S
  <2> QED BY <2>2, <2>3
<1>2. \A t \in S : t \in Tiles /\ BlockOf[t] \in m.loaded
  BY DEF TilesOf
<1>3. \A t \in Tiles : \A y : Has(L, t, y) => t \in S
  BY DEF TilesOf, Good, Bare
<1>4. \A i \in 1..N : /\ TileList(m, tiles[i]) = L[tiles[i]]
                      /\ L[tiles[i]] \in Seq(Drawn) /\ Len(L[tiles[i]]) \in Nat
  BY <1>1, <1>2, TileListIs
<1> HIDE DEF A, N, S
<1>5. /\ \A n \in 0..N : \A s : s \in Vs[n] <=> /\ s \in Seq(Drawn)
                                                /\ \A y : In(s, y) <=> \E i \in 1..N : i <= n /\ Has(L, tiles[i], y)
      /\ 0 \in 0..N /\ N \in 0..N
      /\ \A n \in 1..N : n \in 0..N /\ n - 1 \in 0..N
  <2>1. 0 \in 0..N /\ N \in 0..N /\ \A n \in 1..N : n \in 0..N /\ n - 1 \in 0..N
    BY <1>1
  <2> HIDE DEF In
  <2> QED BY <2>1
<1> HIDE DEF Vs
<1>6. <<>> \in Vs[0]
  <2>1. <<>> \in Seq(Drawn) /\ Len(<<>>) = 0
    BY EmptyIsSeq
  <2>2. \A y : ~In(<<>>, y)
    BY <2>1
  <2>3. \A i \in 1..N : ~(i <= 0)
    BY <1>1
  <2> HIDE DEF In
  <2> QED BY <1>5, <2>1, <2>2, <2>3
<1>7. ASSUME NEW n \in 1..N, NEW s \in Vs[n - 1]
      PROVE  s \o TileList(m, tiles[n]) \in Vs[n]
  <2> DEFINE r == TileList(m, tiles[n])
             w == s \o r
  <2>1. /\ s \in Seq(Drawn) /\ Len(s) \in Nat
        /\ \A y : In(s, y) <=> \E i \in 1..N : i <= n - 1 /\ Has(L, tiles[i], y)
    <3> HIDE DEF In
    <3>1. n - 1 \in 0..N
      BY <1>5
    <3> QED BY <1>5, <1>7, <3>1
  <2>2. r = L[tiles[n]] /\ r \in Seq(Drawn) /\ Len(r) \in Nat
    BY <1>4
  <2> HIDE DEF r
  <2>3. /\ w \in Seq(Drawn) /\ Len(w) = Len(s) + Len(r)
        /\ \A j \in 1..Len(s) + Len(r) : w[j] = IF j <= Len(s) THEN s[j] ELSE r[j - Len(s)]
    BY <2>1, <2>2, ConcatProperties
  <2> HIDE DEF w
  <2>4. \A y : In(w, y) <=> In(s, y) \/ In(r, y)
    <3> SUFFICES ASSUME NEW y PROVE In(w, y) <=> In(s, y) \/ In(r, y)
      OBVIOUS
    <3>1. ASSUME In(w, y) PROVE In(s, y) \/ In(r, y)
      <4>1. PICK j \in 1..Len(s) + Len(r) : w[j] = y
        BY <2>3, <3>1
      <4>2. CASE j <= Len(s)
        <5>1. j \in 1..Len(s) /\ s[j] = y
          BY <2>1, <2>3, <4>1, <4>2
        <5> QED BY <5>1
      <4>3. CASE ~(j <= Len(s))
        <5>1. j - Len(s) \in 1..Len(r)
          BY <2>1, <2>2, <4>3
        <5>2. r[j - Len(s)] = y
          BY <2>3, <4>1, <4>3
        <5> QED BY <5>1, <5>2
      <4> QED BY <4>2, <4>3
    <3>2. ASSUME In(s, y) PROVE In(w, y)
      <4>1. PICK j \in 1..Len(s) : s[j] = y
        BY <3>2
      <4>2. j \in 1..Len(s) + Len(r) /\ j <= Len(s)
        BY <2>1, <2>2
      <4>3. w[j] = y
        BY <2>3, <4>1, <4>2
      <4> QED BY <2>3, <4>2, <4>3
    <3>3. ASSUME In(r, y) PROVE In(w, y)
      <4>1. PICK j \in 1..Len(r) : r[j] = y
        BY <3>3
      <4>2. j + Len(s) \in 1..Len(s) + Len(r) /\ ~(j + Len(s) <= Len(s)) /\ (j + Len(s)) - Len(s) = j
        BY <2>1, <2>2
      <4>3. w[j + Len(s)] = y
        BY <2>3, <4>1, <4>2
      <4> QED BY <2>3, <4>2, <4>3
    <3> QED BY <3>1, <3>2, <3>3
  <2>5. \A y : In(r, y) <=> Has(L, tiles[n], y)
    BY <2>2 DEF Has
  <2> HIDE DEF In
  <2>6. \A i \in 1..N : i <= n <=> i <= n - 1 \/ i = n
    BY <1>1
  <2>7. \A y : In(w, y) <=> \E i \in 1..N : i <= n /\ Has(L, tiles[i], y)
    BY <2>1, <2>4, <2>5, <2>6
  <2>8. w \in Vs[n]
    BY <1>5, <2>3, <2>7
  <2> QED BY <2>8 DEF w, r
<1> HIDE DEF In
<1>8. PICK f : IsRun(f, Vs, <<>>, N, step)
  <2>1. \A n \in 1..N : \A s \in Vs[n - 1] : step[n][s] = s \o TileList(m, tiles[n])
    OBVIOUS
  <2> HIDE DEF step
  <2>2. \A n \in 1..N : \A s \in Vs[n - 1] : step[n][s] \in Vs[n]
    BY <1>7, <2>1
  <2>3. N \in Nat /\ <<>> \in Vs[0]
    BY <1>1, <1>6
  <2> QED BY ONLY <2>2, <2>3, RunExists
<1>9. Collects(f)
  <2>1. ASSUME NEW n \in 0..N PROVE f[n] = body(f, n)
    <3>1. CASE n = 0
      BY <1>8, <3>1 DEF IsRun
    <3>2. CASE n # 0
      <4>1. n \in 1..N
        BY <1>1, <3>2
      <4>2. f[n - 1] \in Vs[n - 1] /\ f[n] = step[n][f[n - 1]]
        <5> HIDE DEF step
        <5> QED BY <1>5, <1>8, <4>1 DEF IsRun
      <4>3. f[n] = f[n - 1] \o TileList(m, tiles[n])
        BY <4>1, <4>2
      <4> QED BY <3>2, <4>3
    <3> QED BY <3>1, <3>2
  <2>2. f = [n \in 0..N |-> f[n]]
    BY <1>8 DEF IsRun
  <2> HIDE DEF body
  <2> QED BY <2>1, <2>2
<1>10. Collects(A)
  <2>1. A = CHOOSE h : Collects(h)
    BY DEF Collecting, A, N
  <2> HIDE DEF Collects
  <2> QED BY <1>9, <2>1
<1>11. \A n \in 0..N : A[n] = body(A, n)
  <2> HIDE DEF body
  <2> QED BY <1>10
<1>12. A[0] = <<>> /\ \A n \in 1..N : A[n] = A[n - 1] \o TileList(m, tiles[n])
  <2>1. \A n \in 1..N : n # 0
    BY <1>1
  <2> QED BY <1>5, <1>11, <2>1
<1>13. A[N] \in Vs[N]
  <2>1. A[0] \in Vs[0] /\ \A n \in 1..N : A[n - 1] \in Vs[n - 1] => A[n] \in Vs[n]
    BY <1>6, <1>7, <1>12
  <2> QED BY <1>1, <1>5, <2>1, RunStays
<1>14. list = A[N]
  BY DEF A, N
<1>15. list \in Seq(Drawn) /\ Len(list) \in Nat
  BY <1>5, <1>13, <1>14
<1>16. \A y : In(list, y) <=> \E i \in 1..N : Has(L, tiles[i], y)
  <2>1. \A i \in 1..N : i <= N
    BY <1>1
  <2> QED BY <1>5, <1>13, <1>14, <2>1
<1>17. \A y : (\E i \in 1..N : Has(L, tiles[i], y)) <=> \E t \in Tiles : Has(L, t, y)
  BY <1>1, <1>2, <1>3
<1> QED BY <1>15, <1>16, <1>17 DEF In

\* Where the objects are that a list of them has, when all are linked again.
LEMMA RelinkingGood ==
  ASSUME NEW m, NEW L, Good(m, L), \A u \in Tiles, o \in Objects : ~Has(L, u, o),
         NEW list \in Seq(Drawn),
         \A i \in 1..Len(list) : list[i] \in Objects => place[list[i]] \in Places
  PROVE  \E L2 : /\ Good(Relinking(m, list)[Len(list)], L2)
                 /\ \A u \in Tiles, o \in Objects :
                      Has(L2, u, o) <=> (\E i \in 1..Len(list) : list[i] = o) /\ u = place[o][1]
<1> DEFINE N == Len(list)
           next(v, n) == IF list[n] \in Objects THEN AddRender(v, list[n], place[list[n]]) ELSE v
           body(f, n) == IF n = 0 THEN m ELSE next(f[n - 1], n)
           Links(f) == f = [n \in 0..N |-> body(f, n)]
           A == Relinking(m, list)
           Shows(K, n) == \A u \in Tiles, o \in Objects :
             Has(K, u, o) <=> (\E i \in 1..N : i <= n /\ list[i] = o) /\ u = place[o][1]
           Vs == [n \in 0..N |-> {v \in Maps : \E K \in Sheets : Good(v, K) /\ Shows(K, n)}]
           step == [n \in 1..N |-> [v \in Vs[n - 1] |-> next(v, n)]]
<1>1. N \in Nat /\ \A v, K : Good(v, K) => v \in Maps /\ K \in Sheets
  BY LinkedFacts DEF Good
<1> HIDE DEF N, A
<1>2. /\ \A n \in 0..N : \A v : v \in Vs[n] <=> \E K : Good(v, K) /\ Shows(K, n)
      /\ 0 \in 0..N /\ N \in 0..N
      /\ \A n \in 1..N : n \in 0..N /\ n - 1 \in 0..N
  <2>1. 0 \in 0..N /\ N \in 0..N /\ \A n \in 1..N : n \in 0..N /\ n - 1 \in 0..N
    BY <1>1
  <2> HIDE DEF Shows
  <2> QED BY <1>1, <2>1
<1> HIDE DEF Vs
<1>3. m \in Vs[0]
  <2>1. \A i \in 1..N : ~(i <= 0)
    BY <1>1
  <2>2. Shows(L, 0)
    BY <2>1
  <2> HIDE DEF Shows
  <2> QED BY <1>2, <2>2
<1>4. ASSUME NEW n \in 1..N, NEW v \in Vs[n - 1]
      PROVE  next(v, n) \in Vs[n]
  <2> DEFINE x == list[n]
  <2>1. PICK K : Good(v, K) /\ Shows(K, n - 1)
    <3> HIDE DEF Shows
    <3>1. n - 1 \in 0..N
      BY <1>2
    <3> QED BY <1>2, <1>4, <3>1
  <2>2. \A i \in 1..N : i <= n <=> i <= n - 1 \/ i = n
    BY <1>1
  <2>3. CASE x \in Objects
    <3> DEFINE at == place[x]
               w == AddRender(v, x, at)
    <3>1. at \in Places
      BY <2>3 DEF N
    <3> HIDE DEF x, at
    <3>2. PICK K2 : /\ Good(w, K2)
                    /\ \A u \in Tiles, o \in Objects : Has(K2, u, o) <=> IF o = x THEN u = at[1]
                                                                       ELSE Has(K, u, o)
      BY <2>1, <2>3, <3>1, AddRenderGood
    <3> HIDE DEF w
    <3>3. Shows(K2, n)
      <4> SUFFICES ASSUME NEW u \in Tiles, NEW o \in Objects
                   PROVE  Has(K2, u, o) <=> (\E i \in 1..N : i <= n /\ list[i] = o) /\ u = place[o][1]
        OBVIOUS
      <4>1. CASE o = x
        <5>1. n \in 1..N /\ n <= n /\ list[n] = o
          BY <1>1, <4>1 DEF x
        <5> QED BY <3>2, <4>1, <5>1 DEF at
      <4>2. CASE o # x
        <5>1. Has(K, u, o) <=> (\E i \in 1..N : i <= n - 1 /\ list[i] = o) /\ u = place[o][1]
          BY <2>1
        <5> QED BY <2>2, <3>2, <4>2, <5>1 DEF x
      <4> QED BY <4>1, <4>2
    <3> HIDE DEF Shows
    <3>4. next(v, n) = w
      BY <2>3 DEF w, at, x
    <3> HIDE DEF next
    <3> QED BY <1>2, <3>2, <3>3, <3>4
  <2>4. CASE x \notin Objects
    <3>1. Shows(K, n)
      BY <2>1, <2>2, <2>4
    <3>2. next(v, n) = v
      BY <2>4
    <3> HIDE DEF Shows, next
    <3> QED BY <1>2, <2>1, <3>1, <3>2
  <2> QED BY <2>3, <2>4
<1> HIDE DEF Shows, next
<1>5. PICK f : IsRun(f, Vs, m, N, step)
  <2>1. \A n \in 1..N : \A v \in Vs[n - 1] : step[n][v] = next(v, n)
    OBVIOUS
  <2> HIDE DEF step
  <2>2. \A n \in 1..N : \A v \in Vs[n - 1] : step[n][v] \in Vs[n]
    BY <1>4, <2>1
  <2>3. N \in Nat /\ m \in Vs[0]
    BY <1>1, <1>3
  <2> QED BY ONLY <2>2, <2>3, RunExists
<1>6. Links(f)
  <2>1. ASSUME NEW n \in 0..N PROVE f[n] = body(f, n)
    <3>1. CASE n = 0
      BY <1>5, <3>1 DEF IsRun
    <3>2. CASE n # 0
      <4>1. n \in 1..N
        BY <1>1, <3>2
      <4>2. f[n - 1] \in Vs[n - 1] /\ f[n] = step[n][f[n - 1]]
        <5> HIDE DEF step
        <5> QED BY <1>2, <1>5, <4>1 DEF IsRun
      <4>3. f[n] = next(f[n - 1], n)
        BY <4>1, <4>2
      <4> QED BY <3>2, <4>3
    <3> QED BY <3>1, <3>2
  <2>2. f = [n \in 0..N |-> f[n]]
    BY <1>5 DEF IsRun
  <2> HIDE DEF body
  <2> QED BY <2>1, <2>2
<1>7. Links(A)
  <2>1. A = CHOOSE h : Links(h)
    BY DEF Relinking, A, N, next
  <2> HIDE DEF Links
  <2> QED BY <1>6, <2>1
<1>8. \A n \in 0..N : A[n] = body(A, n)
  <2> HIDE DEF body
  <2> QED BY <1>7
<1>9. A[0] = m /\ \A n \in 1..N : A[n] = next(A[n - 1], n)
  <2>1. \A n \in 1..N : n # 0
    BY <1>1
  <2> QED BY <1>2, <1>8, <2>1
<1>10. A[N] \in Vs[N]
  <2>1. A[0] \in Vs[0] /\ \A n \in 1..N : A[n - 1] \in Vs[n - 1] => A[n] \in Vs[n]
    BY <1>3, <1>4, <1>9
  <2> QED BY <1>1, <1>2, <2>1, RunStays
<1>11. PICK K : Good(A[N], K) /\ Shows(K, N)
  BY <1>2, <1>10
<1>12. \A i \in 1..N : i <= N
  BY <1>1
<1>13. \A u \in Tiles, o \in Objects : Has(K, u, o) <=> (\E i \in 1..N : list[i] = o) /\ u = place[o][1]
  BY <1>11, <1>12 DEF Shows
<1> QED BY <1>11, <1>13 DEF A, N

-----------------------------------------------------------------------------
(* The invariant.                                                          *)

\* The lists have objects where they are, and have them unless they are
\* effects or members of the party out of sight.
InPlace(L, pl, kp) ==
  /\ \A u \in Tiles, o \in Objects : Has(L, u, o) => pl[o] # Away /\ pl[o][1] = u
  /\ \A o \in Objects \ (Effects \cup kp) : pl[o] # Away => Has(L, pl[o][1], o)

TilesTypes ==
  /\ place \in [Objects -> Places \cup {Away}]
  /\ m_queue \in [Movers -> Seq(Places)]
  /\ kept \in SUBSET Others
  /\ place[Hero] # Away
  /\ \A o \in Movers : m_queue[o] # <<>> => place[o] # Away

TilesInv ==
  /\ TilesTypes
  /\ \E L : Good(map, L) /\ InPlace(L, place, kept)

LEMMA TypeFacts ==
  ASSUME TilesTypes
  PROVE  /\ Hero \in Objects /\ Hero \in Movers /\ place[Hero] \in Places
         /\ \A o \in Objects : place[o] # Away => place[o] \in Places
         /\ \A at \in Places : at[1] \in Tiles /\ at # Away
         /\ \A o \in Movers : o \in Objects /\ m_queue[o] \in Seq(Places)
         /\ \A o \in Others : o \in Movers /\ o \in Objects
<1>1. \A at \in Places : at[1] \in Tiles /\ at # Away
  BY TilesAssumption
<1> QED BY <1>1 DEF TilesTypes, Objects, Movers

(* An object that is shown is on its tile, whatever was drawn before.      *)
LEMMA ShowsInPlace ==
  ASSUME NEW L, NEW pl, NEW kp, InPlace(L, pl, kp), pl \in [Objects -> Places \cup {Away}],
         NEW x \in Objects, NEW at \in Places,
         NEW L2, \A u \in Tiles, o \in Objects : Has(L2, u, o) <=> IF o = x THEN u = at[1] ELSE Has(L, u, o),
         NEW kp2, kp \ {x} \subseteq kp2
  PROVE  InPlace(L2, [pl EXCEPT ![x] = at], kp2)
<1> DEFINE p2 == [pl EXCEPT ![x] = at]
<1>1. /\ \A o \in Objects : p2[o] = IF o = x THEN at ELSE pl[o]
      /\ at[1] \in Tiles /\ at # Away
      /\ \A o \in Objects : pl[o] # Away => pl[o][1] \in Tiles
  BY TilesAssumption
<1> HIDE DEF p2
<1>2. ASSUME NEW u \in Tiles, NEW o \in Objects, Has(L2, u, o)
      PROVE  p2[o] # Away /\ p2[o][1] = u
  BY <1>1, <1>2 DEF InPlace
<1>3. ASSUME NEW o \in Objects \ (Effects \cup kp2), p2[o] # Away
      PROVE  Has(L2, p2[o][1], o)
  <2>1. CASE o = x
    BY <1>1, <2>1
  <2>2. CASE o # x
    <3>1. o \in Objects \ (Effects \cup kp) /\ pl[o] # Away /\ pl[o][1] \in Tiles
      BY <1>1, <1>3, <2>2
    <3>2. Has(L, pl[o][1], o)
      BY <3>1 DEF InPlace
    <3> QED BY <1>1, <2>2, <3>1, <3>2
  <2> QED BY <2>1, <2>2
<1>4. InPlace(L2, p2, kp2)
  BY <1>2, <1>3 DEF InPlace
<1> QED BY <1>4 DEF p2

(* MoveToTop of an object on the ground.                                   *)
LEMMA ShowKeeps ==
  ASSUME TilesInv, NEW x \in Objects, NEW at \in Places, Show(x, at),
         m_queue' \in [Movers -> Seq(Places)],
         \A o \in Movers : m_queue'[o] # <<>> => o = x \/ m_queue[o] # <<>>
  PROVE  TilesInv'
<1>1. /\ place' = [place EXCEPT ![x] = at]
      /\ map' = AddRender(map, x, at)
      /\ kept' = kept \ {x}
  BY DEF Show
<1>2. PICK L : Good(map, L) /\ InPlace(L, place, kept)
  BY DEF TilesInv
<1>3. PICK L2 : /\ Good(map', L2)
                /\ \A u \in Tiles, o \in Objects : Has(L2, u, o) <=> IF o = x THEN u = at[1]
                                                                    ELSE Has(L, u, o)
  BY <1>1, <1>2, AddRenderGood
<1>4. place \in [Objects -> Places \cup {Away}] /\ at # Away
  BY TilesAssumption DEF TilesInv, TilesTypes
<1>5. InPlace(L2, place', kept')
  <2>1. kept \ {x} \subseteq kept'
    BY <1>1
  <2> QED BY <1>1, <1>2, <1>3, <1>4, <2>1, ShowsInPlace
<1>6. TilesTypes'
  <2>1. place' \in [Objects -> Places \cup {Away}] /\ \A o \in Objects : place'[o] = IF o = x THEN at ELSE place[o]
    BY <1>1, <1>4
  <2>2. kept' \in SUBSET Others
    BY <1>1 DEF TilesInv, TilesTypes
  <2>3. Hero \in Objects /\ \A o \in Movers : o \in Objects
    BY DEF Objects, Movers
  <2> QED BY <1>4, <2>1, <2>2, <2>3 DEF TilesInv, TilesTypes
<1> QED BY <1>3, <1>5, <1>6 DEF TilesInv

LEMMA InitTilesInv == TilesInit => TilesInv
<1> SUFFICES ASSUME TilesInit PROVE TilesInv
  OBVIOUS
<1>1. PICK at \in Places : /\ map = AddRender(NoMap, Hero, at)
                           /\ place = [o \in Objects |-> IF o = Hero THEN at ELSE Away]
                           /\ m_queue = [o \in Movers |-> <<>>]
                           /\ kept = {}
  BY DEF TilesInit
<1>2. Hero \in Objects /\ at # Away /\ at[1] \in Tiles /\ \A o \in Movers : o \in Objects
  BY TilesAssumption DEF Objects, Movers
<1>3. PICK L : Good(NoMap, L) /\ \A u \in Tiles, o \in Objects : ~Has(L, u, o)
  BY NoMapGood
<1>4. PICK L2 : /\ Good(map, L2)
                /\ \A u \in Tiles, o \in Objects : Has(L2, u, o) <=> IF o = Hero THEN u = at[1]
                                                                    ELSE Has(L, u, o)
  BY <1>1, <1>2, <1>3, AddRenderGood
<1>5. \A o \in Objects : place[o] = IF o = Hero THEN at ELSE Away
  BY <1>1
<1>6. InPlace(L2, place, kept)
  BY <1>2, <1>3, <1>4, <1>5 DEF InPlace
<1>7. TilesTypes
  <2>1. m_queue \in [Movers -> Seq(Places)] /\ \A o \in Movers : m_queue[o] = <<>>
    <3>1. <<>> \in Seq(Places)
      BY EmptyIsSeq
    <3> QED BY <1>1, <3>1
  <2>2. place \in [Objects -> Places \cup {Away}]
    BY <1>1
  <2> QED BY <1>1, <1>2, <1>5, <2>1, <2>2 DEF TilesTypes
<1> QED BY <1>4, <1>6, <1>7 DEF TilesInv

(* A thing that is drawn has neighbours: its tile has land.                *)
LEMMA ListedHasLinks ==
  ASSUME NEW m, NEW L, Good(m, L), NEW x \in Objects, RemovedFromRender(m, x)
  PROVE  Unlisted(L, x)
<1> SUFFICES ASSUME NEW t \in Tiles, NEW i \in 1..Len(L[t]), L[t][i] = x
             PROVE  FALSE
  BY DEF Unlisted, Has
<1>1. /\ L[t] \in Seq(Drawn) /\ Len(L[t]) \in Nat
      /\ \A j \in 1..Len(L[t]) : L[t][j] # Nobody
      /\ m.next[x] = After(L[t], i) /\ m.prev[x] = Before(L[t], i)
  BY LinkedFacts DEF Good
<1>2. BlockOf[t] \in m.loaded
  BY DEF Good, Bare, Has
<1>3. PICK j \in 1..Len(L[t]) : L[t][j] = Land(t)
  BY <1>2, TileListIs DEF Has
<1>4. Land(t) # x
  BY GroundFacts, DrawnFacts
<1>5. i # j
  BY <1>3, <1>4
<1>6. After(L[t], i) = Nobody /\ Before(L[t], i) = Nobody
  BY <1>1 DEF RemovedFromRender
<1>7. i = Len(L[t])
  <2>1. i # Len(L[t]) => i + 1 \in 1..Len(L[t])
    BY <1>1
  <2> QED BY <1>1, <1>6, <2>1 DEF After
<1>8. i = 1
  <2>1. i # 1 => i - 1 \in 1..Len(L[t])
    BY <1>1
  <2> QED BY <1>1, <1>6, <2>1 DEF Before
<1> QED BY <1>1, <1>5, <1>7, <1>8

LEMMA TilesStep == TilesInv /\ [TilesNext]_tileVars => TilesInv'
<1> SUFFICES ASSUME TilesInv, [TilesNext]_tileVars PROVE TilesInv'
  OBVIOUS
<1>1. TilesTypes
  BY DEF TilesInv
<1>2. PICK L : Good(map, L) /\ InPlace(L, place, kept)
  BY DEF TilesInv
<1>3. /\ \A u \in Tiles, o \in Objects : Has(L, u, o) => place[o] # Away /\ place[o][1] = u
      /\ \A o \in Objects \ (Effects \cup kept) : place[o] # Away => Has(L, place[o][1], o)
  BY <1>2 DEF InPlace
<1>4. /\ place \in [Objects -> Places \cup {Away}] /\ m_queue \in [Movers -> Seq(Places)]
      /\ kept \in SUBSET Others /\ place[Hero] # Away
      /\ \A o \in Movers : m_queue[o] # <<>> => place[o] # Away
  BY <1>1 DEF TilesTypes
<1>5. /\ Hero \in Objects /\ Hero \in Movers /\ place[Hero] \in Places
      /\ \A o \in Objects : place[o] # Away => place[o] \in Places
      /\ \A at \in Places : at[1] \in Tiles /\ at # Away
      /\ \A o \in Movers : o \in Objects /\ m_queue[o] \in Seq(Places)
      /\ \A o \in Others : o \in Movers /\ o \in Objects
  BY <1>1, TypeFacts
\* Nobody and nothing has moved, or gone.
<1>6. ASSUME UNCHANGED <<place, m_queue, kept>>,
             NEW L2, Good(map', L2),
             \A u \in Tiles, o \in Objects : Has(L2, u, o) <=> Has(L, u, o)
      PROVE  TilesInv'
  <2>1. InPlace(L2, place', kept')
    BY <1>3, <1>5, <1>6 DEF InPlace
  <2>2. TilesTypes'
    BY <1>1, <1>6 DEF TilesTypes
  <2> QED BY <1>6, <2>1, <2>2 DEF TilesInv
<1>7. CASE ClearUnusedBlocks
  <2>1. UNCHANGED <<place, m_queue, kept>>
    BY <1>7 DEF ClearUnusedBlocks
  <2>2. PICK B \in SUBSET {b \in map.loaded : HasNoExternalData(map, b)} : map' = DeleteBlocks(map, B)
    BY <1>7 DEF ClearUnusedBlocks
  <2>3. B \in SUBSET Blocks /\ \A b \in B : b \in map.loaded /\ HasNoExternalData(map, b)
    BY <1>2, LinkedFacts DEF Good, Maps
  <2>4. PICK L2 : /\ Good(map', L2)
                  /\ \A u \in Tiles, o \in Objects : Has(L2, u, o) <=> (Has(L, u, o) /\ BlockOf[u] \notin B)
    BY <1>2, <2>2, <2>3, DeleteBlocksGood
  <2>5. ASSUME NEW u \in Tiles, NEW o \in Objects, Has(L, u, o) PROVE BlockOf[u] \notin B
    <3> SUFFICES ASSUME BlockOf[u] \in B PROVE FALSE
      OBVIOUS
    <3>1. u \in TilesOf({BlockOf[u]})
      BY DEF TilesOf
    <3>2. o \in Range(TileList(map, u))
      BY <1>2, <2>3, <2>5, TileListIs
    <3>3. o \in Fixed
      BY <2>3, <3>1, <3>2 DEF HasNoExternalData
    <3> QED BY <3>3, DrawnFacts
  <2> QED BY <1>6, <2>1, <2>4, <2>5
<1>8. ASSUME NEW b \in Blocks, LoadBlock(b) PROVE TilesInv'
  <2>1. UNCHANGED <<place, m_queue, kept>> /\ map' = LoadBlocks(map, {b})
    BY <1>8 DEF LoadBlock
  <2>2. PICK L2 : Good(map', L2) /\ \A u \in Tiles, o \in Objects : Has(L2, u, o) <=> Has(L, u, o)
    <3>1. {b} \in SUBSET Blocks
      OBVIOUS
    <3> QED BY <1>2, <2>1, <3>1, LoadBlocksGood
  <2> QED BY <1>6, <2>1, <2>2
<1>9. CASE ApplyPatches
  <2> DEFINE tiles == SetToSeq(TilesOf(map.loaded))
             list  == Collecting(map, tiles)[Len(tiles)]
             m1 == Init(map, place[Hero])
  <2>1. UNCHANGED <<place, m_queue, kept>> /\ map' = Relinking(m1, list)[Len(list)]
    BY <1>9 DEF ApplyPatches
  <2>2. /\ list \in Seq(Drawn) /\ Len(list) \in Nat
        /\ \A y : (\E i \in 1..Len(list) : list[i] = y) <=> \E t \in Tiles : Has(L, t, y)
    <3> HIDE DEF tiles, list
    <3>1. tiles = SetToSeq(TilesOf(map.loaded)) /\ list = Collecting(map, tiles)[Len(tiles)]
      BY DEF tiles, list
    <3> QED BY <1>2, <3>1, CollectingAll
  <2>3. PICK L1 : Good(m1, L1) /\ \A u \in Tiles, o \in Objects : ~Has(L1, u, o)
    BY <1>2, <1>5, InitGood
  <2> HIDE DEF list, m1
  <2>4. \A i \in 1..Len(list) : list[i] \in Objects => place[list[i]] \in Places
    BY <1>3, <1>5, <2>2
  <2>5. PICK L2 : /\ Good(map', L2)
                  /\ \A u \in Tiles, o \in Objects :
                       Has(L2, u, o) <=> (\E i \in 1..Len(list) : list[i] = o) /\ u = place[o][1]
    BY <2>1, <2>2, <2>3, <2>4, RelinkingGood
  <2>6. \A u \in Tiles, o \in Objects : Has(L2, u, o) <=> Has(L, u, o)
    BY <1>3, <2>2, <2>5
  <2> QED BY <1>6, <2>1, <2>5, <2>6
\* Only the player is drawn.
<1>10. ASSUME NEW at \in Places, map' = AddRender(Init(map, at), Hero, at), place'[Hero] = at,
              \A o \in Objects \ (Effects \cup kept') : place'[o] # Away => o = Hero
       PROVE  \E L2 : Good(map', L2) /\ InPlace(L2, place', kept')
  <2>1. PICK L1 : Good(Init(map, at), L1) /\ \A u \in Tiles, o \in Objects : ~Has(L1, u, o)
    BY <1>2, InitGood
  <2>2. PICK L2 : /\ Good(map', L2)
                  /\ \A u \in Tiles, o \in Objects : Has(L2, u, o) <=> IF o = Hero THEN u = at[1]
                                                                      ELSE Has(L1, u, o)
    BY <1>5, <1>10, <2>1, AddRenderGood
  <2>3. InPlace(L2, place', kept')
    BY <1>5, <1>10, <2>1, <2>2 DEF InPlace
  <2> QED BY <2>2, <2>3
<1>11. CASE ChangeMap
  <2>1. PICK party \in SUBSET {o \in Others : place[o] # Away} :
          LET stay == party \cup {Hero} \cup Effects
          IN /\ place' = [o \in Objects |-> IF o \in stay THEN place[o] ELSE Away]
             /\ m_queue' = [o \in Movers |-> IF o \in stay THEN m_queue[o] ELSE <<>>]
             /\ kept' = party
    BY <1>11 DEF ChangeMap
  <2> DEFINE stay == party \cup {Hero} \cup Effects
  <2>2. /\ place' = [o \in Objects |-> IF o \in stay THEN place[o] ELSE Away]
        /\ m_queue' = [o \in Movers |-> IF o \in stay THEN m_queue[o] ELSE <<>>]
        /\ kept' = party /\ party \subseteq Others /\ Hero \in stay
        /\ \A o \in stay : o \notin Effects \cup party => o = Hero
    BY <2>1
  <2> HIDE DEF stay
  <2>3. /\ \A o \in Objects : place'[o] = IF o \in stay THEN place[o] ELSE Away
        /\ \A o \in Movers : m_queue'[o] = IF o \in stay THEN m_queue[o] ELSE <<>>
    BY <2>2
  <2>4. place' \in [Objects -> Places \cup {Away}]
    BY <1>4, <2>2
  <2>5. m_queue' \in [Movers -> Seq(Places)]
    <3>1. <<>> \in Seq(Places)
      BY EmptyIsSeq
    <3> QED BY <1>4, <2>2, <3>1
  <2>6. TilesTypes'
    BY <1>4, <1>5, <2>2, <2>3, <2>4, <2>5 DEF TilesTypes
  <2>7. map' = AddRender(Init(map, place[Hero]), Hero, place[Hero])
    BY <1>11 DEF ChangeMap
  <2>8. \A o \in Objects \ (Effects \cup kept') : place'[o] # Away => o = Hero
    BY <2>2, <2>3
  <2>9. place'[Hero] = place[Hero]
    BY <1>5, <2>2, <2>3
  <2> QED BY <1>5, <1>10, <2>6, <2>7, <2>8, <2>9 DEF TilesInv
<1>12. ASSUME NEW at \in Places, EnterWorld(at) PROVE TilesInv'
  <2>1. /\ map' = AddRender(Init(map, at), Hero, at)
        /\ place' = [o \in Objects |-> IF o = Hero THEN at ELSE Away]
        /\ m_queue' = [o \in Movers |-> <<>>]
        /\ kept' = {}
    BY <1>12 DEF EnterWorld
  <2>2. \A o \in Objects : place'[o] = IF o = Hero THEN at ELSE Away
    BY <2>1
  <2>3. m_queue' \in [Movers -> Seq(Places)] /\ \A o \in Movers : m_queue'[o] = <<>>
    <3>1. <<>> \in Seq(Places)
      BY EmptyIsSeq
    <3> QED BY <2>1, <3>1
  <2>4. place' \in [Objects -> Places \cup {Away}]
    BY <2>1
  <2>5. TilesTypes'
    BY <1>5, <2>1, <2>2, <2>3, <2>4 DEF TilesTypes
  <2>6. place'[Hero] = at /\ \A o \in Objects \ (Effects \cup kept') : place'[o] # Away => o = Hero
    BY <1>5, <2>2
  <2> QED BY <1>10, <2>1, <2>5, <2>6 DEF TilesInv
<1>13. ASSUME NEW at \in Places, Walk(at) PROVE TilesInv'
  <2>1. m_queue' = [m_queue EXCEPT ![Hero] = Append(@, at)] /\ Show(Hero, place[Hero])
    BY <1>13 DEF Walk
  <2>2. m_queue' \in [Movers -> Seq(Places)] /\ \A o \in Movers : o # Hero => m_queue'[o] = m_queue[o]
    <3>1. Append(m_queue[Hero], at) \in Seq(Places)
      BY <1>5, AppendProperties
    <3> QED BY <1>4, <2>1, <3>1
  <2> QED BY <1>5, <2>1, <2>2, ShowKeeps
<1>14. ASSUME NEW at \in Places, PlacePlayer(at) PROVE TilesInv'
  <2>1. m_queue' = [m_queue EXCEPT ![Hero] = <<>>] /\ Show(Hero, at)
    BY <1>14 DEF PlacePlayer
  <2>2. m_queue' \in [Movers -> Seq(Places)] /\ \A o \in Movers : o # Hero => m_queue'[o] = m_queue[o]
    <3>1. <<>> \in Seq(Places)
      BY EmptyIsSeq
    <3> QED BY <1>4, <2>1, <3>1
  <2> QED BY <1>5, <2>1, <2>2, ShowKeeps
<1>15. ASSUME NEW at \in Places, NEW o \in Objects, ShowObject(o, at) PROVE TilesInv'
  <2>1. Show(o, at) /\ m_queue' = m_queue
    BY <1>15 DEF ShowObject
  <2> QED BY <1>4, <2>1, ShowKeeps
<1>16. ASSUME NEW at \in Places, NEW o \in Objects, UpdateMobile(o, at) PROVE TilesInv'
  <2>1. o \in Movers /\ place[o] \in Places /\ m_queue[o] \in Seq(Places)
    BY <1>5, <1>16 DEF UpdateMobile
  <2>2. \/ m_queue' = [m_queue EXCEPT ![o] = Append(@, at)] /\ Show(o, place[o])
        \/ m_queue' = m_queue /\ Show(o, place[o])
        \/ m_queue' = [m_queue EXCEPT ![o] = <<>>] /\ Show(o, at)
    BY <1>16 DEF UpdateMobile
  <2>3. Append(m_queue[o], at) \in Seq(Places) /\ <<>> \in Seq(Places)
    BY <2>1, AppendProperties, EmptyIsSeq
  <2>4. m_queue' \in [Movers -> Seq(Places)] /\ \A p \in Movers : p # o => m_queue'[p] = m_queue[p]
    BY <1>4, <2>1, <2>2, <2>3
  <2>5. Show(o, place[o]) \/ Show(o, at)
    BY <2>2
  <2>6. \A p \in Movers : m_queue'[p] # <<>> => p = o \/ m_queue[p] # <<>>
    BY <2>4
  <2>7. CASE Show(o, place[o])
    BY <2>1, <2>4, <2>6, <2>7, ShowKeeps
  <2>8. CASE Show(o, at)
    BY <2>4, <2>6, <2>8, ShowKeeps
  <2> QED BY <2>5, <2>7, <2>8
<1>17. ASSUME NEW at \in Places, NEW o \in Objects, UpdateCharacter(o, at) PROVE TilesInv'
  <2>1. o \in Movers /\ m_queue[o] \in Seq(Places) /\ m_queue[o] # <<>>
    BY <1>5, <1>17 DEF UpdateCharacter
  <2>2. /\ m_queue' = [m_queue EXCEPT ![o] = <<at>>] \/ m_queue' = [m_queue EXCEPT ![o] = <<>>]
        /\ Show(o, Last(m_queue[o]))
    BY <1>17 DEF UpdateCharacter
  <2>3. Last(m_queue[o]) \in Places
    <3> DEFINE q == m_queue[o]
    <3>1. q \in Seq(Places) /\ Len(q) \in Nat /\ Len(q) # 0
      BY <2>1
    <3> HIDE DEF q
    <3>2. q[Len(q)] \in Places
      BY <3>1
    <3> QED BY <3>2 DEF Last, q
  <2>4. <<at>> \in Seq(Places) /\ <<>> \in Seq(Places)
    BY EmptyIsSeq
  <2>5. m_queue' \in [Movers -> Seq(Places)] /\ \A p \in Movers : p # o => m_queue'[p] = m_queue[p]
    BY <1>4, <2>1, <2>2, <2>4
  <2> QED BY <2>2, <2>3, <2>5, ShowKeeps
<1>18. ASSUME NEW o \in Movers, UpdateAnimationInfo(o) PROVE TilesInv'
  <2> DEFINE at == Head(m_queue[o])
  <2>1. /\ m_queue' = [m_queue EXCEPT ![o] = Tail(@)]
        /\ place' = [place EXCEPT ![o] = at]
        /\ map' = IF at[1] = place[o][1] \/ RemovedFromRender(map, o) THEN map ELSE AddRender(map, o, at)
        /\ kept' = kept
        /\ m_queue[o] # <<>>
    BY <1>18 DEF UpdateAnimationInfo
  <2>2. o \in Objects /\ m_queue[o] \in Seq(Places) /\ place[o] # Away
    BY <1>4, <1>5, <2>1
  <2>3. at \in Places /\ Tail(m_queue[o]) \in Seq(Places)
    BY <2>1, <2>2, HeadTailProperties
  <2> HIDE DEF at
  <2>4. /\ place' \in [Objects -> Places \cup {Away}]
        /\ \A p \in Objects : place'[p] = IF p = o THEN at ELSE place[p]
    BY <1>4, <2>1, <2>3
  <2>5. /\ m_queue' \in [Movers -> Seq(Places)]
        /\ \A p \in Movers : p # o => m_queue'[p] = m_queue[p]
    BY <1>4, <2>1, <2>3
  <2>6. TilesTypes'
    BY <1>4, <1>5, <2>1, <2>3, <2>4, <2>5 DEF TilesTypes
  <2>7. CASE at[1] = place[o][1]
    <3>1. map' = map
      BY <2>1, <2>7
    <3>2. InPlace(L, place', kept')
      BY <1>3, <1>5, <2>1, <2>2, <2>3, <2>4, <2>7 DEF InPlace
    <3> QED BY <1>2, <2>6, <3>1, <3>2 DEF TilesInv
  <2>8. CASE at[1] # place[o][1] /\ RemovedFromRender(map, o)
    <3>1. map' = map
      BY <2>1, <2>8
    <3>2. \A u \in Tiles : ~Has(L, u, o)
      BY <1>2, <2>2, <2>8, ListedHasLinks DEF Unlisted
    <3>3. o \in Effects \cup kept
      BY <1>3, <1>5, <2>2, <3>2
    <3>4. InPlace(L, place', kept')
      BY <1>3, <1>5, <2>1, <2>4, <3>2, <3>3 DEF InPlace
    <3> QED BY <1>2, <2>6, <3>1, <3>4 DEF TilesInv
  <2>9. CASE at[1] # place[o][1] /\ ~RemovedFromRender(map, o)
    <3>1. map' = AddRender(map, o, at)
      BY <2>1, <2>9
    <3>2. PICK L2 : /\ Good(map', L2)
                    /\ \A u \in Tiles, p \in Objects : Has(L2, u, p) <=> IF p = o THEN u = at[1]
                                                                        ELSE Has(L, u, p)
      BY <1>2, <2>2, <2>3, <3>1, AddRenderGood
    <3>3. InPlace(L2, place', kept')
      <4>1. kept \ {o} \subseteq kept'
        BY <2>1
      <4> QED BY <1>2, <1>4, <2>1, <2>2, <2>3, <3>2, <4>1, ShowsInPlace
    <3> QED BY <2>6, <3>2, <3>3 DEF TilesInv
  <2> QED BY <2>7, <2>8, <2>9
<1>19. ASSUME NEW at \in Places, NEW e \in Objects, UpdateEffect(e, at) PROVE TilesInv'
  <2>1. /\ place' = [place EXCEPT ![e] = at] /\ map' = AddRender(map, e, at)
        /\ m_queue' = m_queue /\ kept' = kept
    BY <1>19 DEF UpdateEffect
  <2>2. PICK L2 : /\ Good(map', L2)
                  /\ \A u \in Tiles, p \in Objects : Has(L2, u, p) <=> IF p = e THEN u = at[1]
                                                                      ELSE Has(L, u, p)
    BY <1>2, <2>1, AddRenderGood
  <2>3. InPlace(L2, place', kept')
    <3>1. kept \ {e} \subseteq kept'
      BY <2>1
    <3> QED BY <1>2, <1>4, <2>1, <2>2, <3>1, ShowsInPlace
  <2>4. /\ place' \in [Objects -> Places \cup {Away}]
        /\ \A p \in Objects : place'[p] = IF p = e THEN at ELSE place[p]
    BY <1>4, <2>1
  <2>5. TilesTypes'
    BY <1>4, <1>5, <2>1, <2>4 DEF TilesTypes
  <2> QED BY <2>2, <2>3, <2>5 DEF TilesInv
<1>20. ASSUME NEW o \in Objects, RemoveObject(o) PROVE TilesInv'
  <2>1. /\ o # Hero
        /\ place' = [place EXCEPT ![o] = Away]
        /\ map' = RemoveRender(map, o)
        /\ m_queue' = [x \in Movers |-> IF x = o THEN <<>> ELSE m_queue[x]]
        /\ kept' = kept \ {o}
    BY <1>20 DEF RemoveObject
  <2>2. PICK L2 : /\ Good(map', L2)
                  /\ \A u \in Tiles, p \in Objects : Has(L2, u, p) <=> (Has(L, u, p) /\ p # o)
    BY <1>2, <2>1, RemoveRenderGood
  <2>3. /\ place' \in [Objects -> Places \cup {Away}]
        /\ \A p \in Objects : place'[p] = IF p = o THEN Away ELSE place[p]
    BY <1>4, <2>1
  <2>4. /\ m_queue' \in [Movers -> Seq(Places)]
        /\ \A p \in Movers : m_queue'[p] = IF p = o THEN <<>> ELSE m_queue[p]
    <3>1. <<>> \in Seq(Places)
      BY EmptyIsSeq
    <3> QED BY <1>4, <2>1, <3>1
  <2>5. InPlace(L2, place', kept')
    BY <1>3, <1>5, <2>1, <2>2, <2>3 DEF InPlace
  <2>6. TilesTypes'
    BY <1>4, <1>5, <2>1, <2>3, <2>4 DEF TilesTypes
  <2> QED BY <2>2, <2>5, <2>6 DEF TilesInv
<1>21. ASSUME NEW o \in Objects, KeepMember(o) PROVE TilesInv'
  <2>1. /\ o \in Others /\ map' = RemoveRender(map, o) /\ kept' = kept \cup {o}
        /\ place' = place /\ m_queue' = m_queue
    BY <1>21 DEF KeepMember
  <2>2. PICK L2 : /\ Good(map', L2)
                  /\ \A u \in Tiles, p \in Objects : Has(L2, u, p) <=> (Has(L, u, p) /\ p # o)
    BY <1>2, <2>1, RemoveRenderGood
  <2>3. InPlace(L2, place', kept')
    BY <1>3, <1>5, <2>1, <2>2 DEF InPlace
  <2>4. TilesTypes'
    BY <1>4, <2>1 DEF TilesTypes
  <2> QED BY <2>2, <2>3, <2>4 DEF TilesInv
<1>22. CASE UNCHANGED tileVars
  <2>1. map' = map /\ UNCHANGED <<place, m_queue, kept>>
    BY <1>22 DEF tileVars
  <2> QED BY <1>2, <1>6, <2>1
<1> QED
  BY <1>7, <1>8, <1>9, <1>11, <1>12, <1>13, <1>14, <1>15, <1>16, <1>17, <1>18, <1>19, <1>20,
     <1>21, <1>22 DEF TilesNext

(* The program's maps stand for lists of objects that are where they are:  *)
(* what AddRender, RemoveRender and the loading of blocks keep.            *)
THEOREM TilesInductive == TilesSpec => []TilesInv
BY InitTilesInv, TilesStep, PTL DEF TilesSpec

(* The lists of the tiles are sound: what the links lead to leads back,    *)
(* has its land and is sorted, and what is in no list has no links.        *)
THEOREM TilesStaySound == TilesSpec => []TilesSound
<1>1. ASSUME TilesInv PROVE TilesSound
  <2>1. PICK L : Good(map, L)
    BY <1>1 DEF TilesInv
  <2>2. \A t \in TilesOf(map.loaded) : t \in Tiles /\ BlockOf[t] \in map.loaded
    BY DEF TilesOf
  <2>3. ASSUME NEW t \in TilesOf(map.loaded)
        PROVE  LET list == TileList(map, t)
               IN /\ Land(t) \in Range(list)
                  /\ map.prev[list[1]] = Nobody /\ map.next[Last(list)] = Nobody
                  /\ \A i \in 2..Len(list) :
                       /\ map.prev[list[i]] = list[i - 1]
                       /\ map.prio[list[i - 1]] <= map.prio[list[i]]
                       /\ IsLand(list[i]) => map.prio[list[i - 1]] < map.prio[list[i]]
    <3> DEFINE s == L[t]
    <3>1. /\ t \in Tiles /\ TileList(map, t) = s /\ Len(s) \in Nat /\ Len(s) >= 1
          /\ Land(t) \in Range(TileList(map, t))
      BY <2>1, <2>2, TileListIs
    <3>2. \A i \in 1..Len(s) : map.next[s[i]] = After(s, i) /\ map.prev[s[i]] = Before(s, i)
      BY <2>1, <3>1, LinkedFacts DEF Good
    <3>3. \A i, j \in 1..Len(s) : i < j => InOrder(map, s[i], s[j])
      BY <2>1, <3>1 DEF Good, Linked, Sorted
    <3> HIDE DEF s
    <3>4. map.prev[s[1]] = Nobody /\ map.next[Last(s)] = Nobody
      <4>1. 1 \in 1..Len(s) /\ Len(s) \in 1..Len(s)
        BY <3>1
      <4> QED BY <3>2, <4>1 DEF After, Before, Last
    <3>5. ASSUME NEW i \in 2..Len(s)
          PROVE  /\ map.prev[s[i]] = s[i - 1]
                 /\ map.prio[s[i - 1]] <= map.prio[s[i]]
                 /\ IsLand(s[i]) => map.prio[s[i - 1]] < map.prio[s[i]]
      <4>1. i \in 1..Len(s) /\ i - 1 \in 1..Len(s) /\ i - 1 < i /\ i # 1
        BY <3>1
      <4>2. InOrder(map, s[i - 1], s[i])
        BY <3>3, <4>1
      <4> QED BY <3>2, <4>1, <4>2 DEF Before, InOrder
    <3> QED BY <3>1, <3>4, <3>5
  <2>4. ASSUME NEW x \in Drawn \ UNION {Range(TileList(map, t)) : t \in TilesOf(map.loaded)}
        PROVE  RemovedFromRender(map, x)
    <3>1. Unlisted(L, x)
      <4> SUFFICES ASSUME NEW t \in Tiles, Has(L, t, x) PROVE FALSE
        BY DEF Unlisted
      <4>1. BlockOf[t] \in map.loaded /\ t \in TilesOf(map.loaded)
        BY <2>1 DEF Good, Bare, TilesOf
      <4>2. x \in Range(TileList(map, t))
        BY <2>1, <4>1, TileListIs
      <4> QED BY <4>1, <4>2
    <3> QED BY <2>1, <3>1 DEF Good, Linked, LinksOf, RemovedFromRender
  <2> QED BY <2>3, <2>4 DEF TilesSound
<1> QED BY <1>1, TilesInductive, PTL

(* Every object is drawn on its tile, and every object of the world is     *)
(* drawn, but for effects and members of the party that are out of sight.  *)
THEOREM ObjectsDrawnInPlace == TilesSpec => []DrawnInPlace
<1>1. ASSUME TilesInv PROVE DrawnInPlace
  <2>1. PICK L : Good(map, L) /\ InPlace(L, place, kept)
    BY <1>1 DEF TilesInv
  <2>2. \A t \in TilesOf(map.loaded) : t \in Tiles /\ BlockOf[t] \in map.loaded
    BY DEF TilesOf
  <2>3. ASSUME NEW t \in TilesOf(map.loaded), NEW x \in Range(TileList(map, t)) \cap Objects
        PROVE  place[x] # Away /\ place[x][1] = t
    <3>1. Has(L, t, x)
      BY <2>1, <2>2, TileListIs
    <3> QED BY <2>1, <2>2, <3>1 DEF InPlace
  <2>4. ASSUME NEW o \in Objects \ (Effects \cup kept), place[o] # Away
        PROVE  /\ BlockOf[place[o][1]] \in map.loaded
               /\ o \in Range(TileList(map, place[o][1]))
    <3>1. place[o][1] \in Tiles /\ Has(L, place[o][1], o)
      BY <1>1, <2>1, <2>4, TypeFacts DEF InPlace, TilesInv
    <3>2. BlockOf[place[o][1]] \in map.loaded
      BY <2>1, <3>1 DEF Good, Bare
    <3> QED BY <2>1, <3>1, <3>2, TileListIs
  <2> QED BY <2>3, <2>4 DEF DrawnInPlace
<1> QED BY <1>1, TilesInductive, PTL

=============================================================================
