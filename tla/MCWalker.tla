------------------------------ MODULE MCWalker ------------------------------
(* A small instance of AutoWalk, and of Walker with it: two steps, three   *)
(* tiles around a corner, the diagonal across it and the directions it may *)
(* be deflected to.                                                        *)
EXTENDS AutoWalk

MCTiles    == {<<0, 0>>, <<1, 0>>, <<1, -1>>}
MCHeadings == {0, 1, 2}

\* Around the corner, across it, and around it with the direction of the
\* last tile left over from before it was rerouted.
Step(x, y, d) == [at |-> <<x, y>>, dir |-> d]
MCRoutes == {<<Step(0, 0, 0), Step(1, 0, 2), Step(1, -1, 0)>>,
             <<Step(0, 0, 0), Step(1, -1, 1)>>,
             <<Step(0, 0, 0), Step(1, 0, 2), Step(1, -1, 1)>>}
=============================================================================
