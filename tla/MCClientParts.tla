---------------------------- MODULE MCClientParts ----------------------------
(***************************************************************************)
(* Small instances of the parts of the client that share no state: the     *)
(* search of a path, the target cursor with the macros, the queue of       *)
(* property lists, the pointers of the mouse, and the lists of the tiles.  *)
(* A behaviour runs one of them, chosen at the start; the others rest in   *)
(* one initial state.                                                      *)
(***************************************************************************)
EXTENDS PathSearch, Targeting, PropertyQueue, MousePointers, TileLists

CONSTANTS near, far, here, there, grass, wall, water,
          hero, guard, coin, arrow

VARIABLE part

\* Path search, four columns and four rows.
MCMapTiles == (0..3) \X (0..3)
MCStarts   == {<<3, 3>>}
MCTargets  == {<<0, 1>>}

WaysAround(barred) ==
  {w \in MCMapTiles \X (0..7) :
     /\ w[1] \notin barred
     /\ GetNewXY(w[2], w[1]) \in MCMapTiles \ barred}

\* A world in which a tile is rerouted, a start behind a wall, the first world
\* with a tile one can fall into but not leave, and a target that is barred in
\* a world with more tiles than nodes.
Rerouting == WaysAround({<<0, 0>>, <<0, 2>>, <<2, 1>>})
MCWorlds  == {Rerouting,
              WaysAround({<<1, 3>>, <<1, 2>>, <<2, 1>>, <<3, 1>>}),
              {w \in Rerouting : w[1] # <<1, 1>>},
              WaysAround({<<0, 1>>, <<1, 1>>})}

\* Macros: two that wait for a cursor, with what may stand before.
MCMacros == {<<"wait", "last">>, <<"delay", "current", "self">>,
             <<"bandageSelf">>, <<"say", "bandageTarget">>}

\* The mouse: a gump of the game and a notice, which blocks it.
MCModal == {"notice"}

\* The tiles: a block with a static that lies below the land, another
\* with land only, and a step in height.
MCBlockOf == [t \in Tiles |-> IF t = here THEN near ELSE far]
MCGround  == [t \in Tiles |-> IF t = here THEN <<grass, wall>> ELSE <<water>>]
MCGroundZ == (grass :> 1) @@ (wall :> 0) @@ (water :> 2)
MCPlaces  == {<<here, 0>>, <<here, 1>>, <<there, 1>>}
MCLift    == (hero :> 1) @@ (guard :> 1) @@ (coin :> 0) @@ (arrow :> 2)

-----------------------------------------------------------------------------
PartsInit ==
  /\ SearchInit /\ TargetInit /\ PropertyInit /\ MouseInit /\ TilesInit
  /\ part \in {"search", "target", "lists", "mouse", "tiles"}
  /\ part # "tiles" => place[hero] = <<here, 0>>
  /\ part # "search" => start = <<3, 3>> /\ target = <<0, 1>>

Searching == part = "search" /\ UNCHANGED <<part, targetVars, propertyVars, mouseVars, tileVars>>
Aiming    == part = "target" /\ UNCHANGED <<part, searchVars, propertyVars, mouseVars, tileVars>>
Listing   == part = "lists"  /\ UNCHANGED <<part, searchVars, targetVars, mouseVars, tileVars>>
Pointing  == part = "mouse"  /\ UNCHANGED <<part, searchVars, targetVars, propertyVars, tileVars>>
Drawing   == part = "tiles"  /\ UNCHANGED <<part, searchVars, targetVars, propertyVars, mouseVars>>

PartsNext ==
  \/ Searching /\ SearchNext
  \/ Aiming /\ TargetNext
  \/ Listing /\ PropertyNext
  \/ Pointing /\ MouseNext
  \/ Drawing /\ TilesNext

partsVars == <<part, searchVars, targetVars, propertyVars, mouseVars, tileVars>>

(* The fairness of TargetSpec and PropertySpec, for the part that runs. *)
PartsFairness ==
  /\ WF_partsVars(Aiming /\ Execute)
  /\ WF_partsVars(Aiming /\ ProcessMacro)
  /\ SF_partsVars(Aiming /\ Tick)
  /\ WF_partsVars(Listing /\ BeginFrame)
  /\ WF_partsVars(Listing /\ SendMegaClilocRequests)
  /\ WF_partsVars(Listing /\ AnswerRequest)
  /\ SF_partsVars(Listing /\ OPLInfo)
  /\ SF_partsVars(Listing /\ MegaCliloc)
  /\ \A s \in Serials : SF_partsVars(Listing /\ Announce(s))

PartsSpec == PartsInit /\ [][PartsNext]_partsVars /\ PartsFairness
=============================================================================
