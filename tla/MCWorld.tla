------------------------------ MODULE MCWorld ------------------------------
(***************************************************************************)
(* World with the player, perhaps another mobile, and a few items.  The    *)
(* addresses are numbers: 0 is spare, there is one for each serial.        *)
(***************************************************************************)
EXTENDS World

CONSTANTS player, mobile, body, bag, coin, corpse

MCLayersOf == [i \in Items |-> IF i = bag THEN {"backpack", "shop"} ELSE {"worn"}]
MCBodyOf  == [m \in Others |-> body]
MCCells   == 0 .. Cardinality(Serials)
MCCellOf  == LET order == SelectSeq(<<player, mobile, body, bag, coin, corpse>>,
                                    LAMBDA s : s \in Serials)
             IN  [s \in Serials |-> CHOOSE i \in DOMAIN order : order[i] = s]
=============================================================================
