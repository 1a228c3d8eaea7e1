--------------------------- MODULE MCSwarmAccess ---------------------------
EXTENDS SwarmAccess, TLC

CONSTANTS u1, u2

\* u1 has an account and a swarm, u2 has not.
FirstSwarmOfU1 == u1 :> 1

\* Instances are interchangeable.
Interchangeable == Permutations(Workers)
=============================================================================
