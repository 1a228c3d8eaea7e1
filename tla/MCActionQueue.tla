--------------------------- MODULE MCActionQueue ---------------------------
(***************************************************************************)
(* Two actions, of which a2 is of a kind that is never notified.           *)
(***************************************************************************)
EXTENDS ActionQueue

CONSTANTS a1, a2
=============================================================================
