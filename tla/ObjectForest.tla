---------------------------- MODULE ObjectForest ----------------------------
(***************************************************************************)
(* What CGameWorld promises its callers, without pointers: the objects the *)
(* server has shown form ordered lists, one of what lies on the ground and *)
(* one of what each object holds, in the order they are drawn.  A step     *)
(* makes some objects vanish, with all they hold, and puts at most two at  *)
(* the end of a list; everybody else keeps their list and their place among*)
(* those who stay.  World is the code, with its links and its map.         *)
(***************************************************************************)
EXTENDS SequencesExt

CONSTANTS Objects,  \* serials
          Ground    \* the owner of what nobody holds

Owners == Objects \cup {Ground}

VARIABLES present,  \* the objects the world knows
          list      \* what each owner holds, in order

vars == <<present, list>>

Without(seq, S) == SelectSeq(seq, LAMBDA o : o \notin S)

(* The lists from become the lists to when gone vanish and moved arrive or *)
(* go to the end of a list.                                                *)
Moves(from, to, gone, moved) ==
  /\ \A k \in Owners :
       LET stay == Without(from[k], gone \cup moved)
           held == ToSet(to[k])
       IN  /\ IsPrefix(stay, to[k])
           /\ held \subseteq ToSet(stay) \cup (moved \ {k})
           /\ Cardinality(held) = Len(to[k])
           /\ k \in gone => held = {}
  /\ \A o \in moved : Cardinality({k \in Owners : o \in ToSet(to[k])}) = 1

(* A mobile dies: its body takes its place and all it holds.               *)
Rename(o, b) ==
  LET named(x) == IF x = o THEN b ELSE x
  IN  /\ o \in present /\ b \in Objects \ present
      /\ present' = (present \ {o}) \cup {b}
      /\ list' = [k \in Owners |->
           IF k = o THEN <<>>
           ELSE LET l == list[IF k = b THEN o ELSE k]
                IN  [i \in DOMAIN l |-> named(l[i])]]

(* A refused move: the object is known and in nobody's list.               *)
Strand(o) ==
  /\ present' = present \cup {o}
  /\ list' = [k \in Owners |-> Without(list[k], {o})]

Init ==
  \E o \in Objects :
    present = {o} /\ list = [k \in Owners |-> IF k = Ground THEN <<o>> ELSE <<>>]

AtMostTwo == {S \in SUBSET Objects : Cardinality(S) <= 2}

Step ==
  \E from \in {list}, to \in {list'},
     gone \in {present \ present'}, new \in {present' \ present} :
    \E moved \in AtMostTwo :
      /\ new \subseteq moved /\ moved \cap gone = {}
      /\ Moves(from, to, gone, moved)

Next ==
  \/ Step
  \/ \E o, b \in Objects : Rename(o, b)
  \/ \E o \in Objects : Strand(o)

Spec == Init /\ [][Next]_vars
=============================================================================
