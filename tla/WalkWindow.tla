----------------------------- MODULE WalkWindow -----------------------------
(***************************************************************************)
(* What the bookkeeping of CWalker promises, without its array: every step *)
(* requested from the server is displayed once and confirmed once, each in *)
(* the order of the requests, and the two may be any number of steps apart *)
(* as long as at most Window steps are undisplayed and at most Window are  *)
(* unconfirmed.  When the server places the player, or the client finds a  *)
(* confirmation it did not wait for, all pending steps are abandoned and   *)
(* the numbers restart.                                                    *)
(***************************************************************************)
EXTENDS Naturals, Sequences

CONSTANTS Window,      \* how many steps may be pending
          LastNumber   \* the number after which 1 follows

VARIABLES toShow,      \* numbers of the steps requested, not yet displayed
          toConfirm,   \* numbers of the steps requested, not yet confirmed
          next         \* the number of the next request

vars == <<toShow, toConfirm, next>>

Init == toShow = <<>> /\ toConfirm = <<>> /\ next = 0

Request ==
  /\ Len(toShow) < Window /\ Len(toConfirm) < Window
  /\ toShow' = Append(toShow, next)
  /\ toConfirm' = Append(toConfirm, next)
  /\ next' = IF next = LastNumber THEN 1 ELSE next + 1

Show ==
  /\ toShow # <<>>
  /\ toShow' = Tail(toShow)
  /\ UNCHANGED <<toConfirm, next>>

Confirm ==
  /\ toConfirm # <<>>
  /\ toConfirm' = Tail(toConfirm)
  /\ UNCHANGED <<toShow, next>>

Abandon == toShow' = <<>> /\ toConfirm' = <<>> /\ next' = 0

Next == Request \/ Show \/ Confirm \/ Abandon

Spec == Init /\ [][Next]_vars
=============================================================================
