---------------------------- MODULE MCEdgeRelay ----------------------------
EXTENDS EdgeRelay, TLC

\* Connections and sessions are interchangeable.
Interchangeable == Permutations(Conns) \cup Permutations(Sessions)
=============================================================================
