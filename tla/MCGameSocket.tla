---------------------------- MODULE MCGameSocket ----------------------------
(* Five symbols with codes of two and three bits, bytes of four bits, so   *)
(* that symbols cross the bytes and the reads; a packet of fixed size and  *)
(* two of variable size, one of them without a body.                       *)
EXTENDS GameSocket

\*        node 0, 1, 2, 3, 4: child for a 1, child for a 0
Nodes == <<1, 2,  3, 0,  -1, 4,  -256, -2,  -3, -4>>
MCTree == [i \in 0..9 |-> Nodes[i + 1]]

MCCode == (0 :> <<1, 0>>) @@ (1 :> <<0, 1>>) @@ (2 :> <<1, 1, 0>>)
            @@ (3 :> <<0, 0, 1>>) @@ (4 :> <<0, 0, 0>>) @@ (256 :> <<1, 1, 1>>)

MCPackets == {<<1, 4>>, <<2, 0, 3>>, <<2, 0, 4, 1>>}
MCSize == (1 :> 2) @@ (2 :> 0) @@ (0 :> 1) @@ (3 :> 1) @@ (4 :> 2)
=============================================================================
