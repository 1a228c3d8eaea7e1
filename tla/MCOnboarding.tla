---------------------------- MODULE MCOnboarding ----------------------------
EXTENDS Onboarding, TLC

CONSTANTS t1, t2, u1, u2

\* Each user has a token of his own.
OneEach == (t1 :> u1) @@ (t2 :> u2)

\* Instances are interchangeable, and so are Drones.
Interchangeable == Permutations(Workers) \cup Permutations(Drones)
=============================================================================
