----------------------------- MODULE MCSession -----------------------------
(* Session with one or two dialogs, given in the .cfg files. *)
EXTENDS Session
=============================================================================
