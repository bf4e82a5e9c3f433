------------------------------ MODULE Geometry ------------------------------
(* Tiles and directions, as CPathFinder and GetDistance reckon them. *)
EXTENDS Integers

\* The tile next to t in direction d, north is 0 and the numbers go clockwise.
GetNewXY(d, t) ==
  << t[1] + (CASE d \in {1, 2, 3} -> 1 [] d \in {5, 6, 7} -> -1 [] OTHER -> 0),
     t[2] + (CASE d \in {3, 4, 5} -> 1 [] d \in {7, 0, 1} -> -1 [] OTHER -> 0) >>

Abs(n) == IF n < 0 THEN -n ELSE n

\* The larger of the two distances along the axes.
GetDistance(s, t) ==
  LET x == Abs(t[1] - s[1])
      y == Abs(t[2] - s[2])
  IN  IF y > x THEN y ELSE x
=============================================================================
