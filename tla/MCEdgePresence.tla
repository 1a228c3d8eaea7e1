--------------------------- MODULE MCEdgePresence ---------------------------
(***************************************************************************)
(* Two Edge processes, as during a rolling deploy: a Drone that reconnects *)
(* lands on either.                                                        *)
(***************************************************************************)
EXTENDS EdgePresence, TLC

CONSTANTS c1, c2, c3, n1, n2

TwoNodesHome == (c1 :> n1) @@ (c2 :> n1) @@ (c3 :> n2)
\* The connections of one process are interchangeable.
SameHome == Permutations({c1, c2})
=============================================================================
