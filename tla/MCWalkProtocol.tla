--------------------------- MODULE MCWalkProtocol ---------------------------
(* Small instances of WalkProtocol. *)
EXTENDS WalkProtocol

MCTiles    == {<<0, 0>>, <<1, 0>>}
MCHeadings == {1, 2}

\* Back and forth, for the run without interference.
MCSmoothHeadings == {1, 2, 6}
=============================================================================
