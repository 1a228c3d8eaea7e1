--------------------------- MODULE PresenceLease ---------------------------
(***************************************************************************)
(* What the Edge promises about device presence, with no sockets, no       *)
(* asyncio and no database.  Every node has one lease per device.  A       *)
(* connection takes a lease of its own node at most once in its life, the  *)
(* newest taker wins, and a lease is vacated only by the connection that   *)
(* holds it or by the failure of the node: the end of a superseded         *)
(* connection leaves the lease to its successor.                           *)
(***************************************************************************)
CONSTANTS Nodes, Devices,
          Conns,    \* connections, each used once
          Home,     \* the node of each connection
          NoConn    \* the holder of a vacant lease

VARIABLES holder,   \* node -> device -> the connection that holds the lease
          phase     \* connection -> where it is in its one lease

leaseVars == <<holder, phase>>

Phases == {"fresh", "held", "over"}

LeaseInit ==
  /\ holder = [n \in Nodes |-> [d \in Devices |-> NoConn]]
  /\ phase = [c \in Conns |-> "fresh"]

\* A fresh connection takes the lease, whoever held it before.
Acquire(d, c) ==
  /\ phase[c] = "fresh"
  /\ holder' = [holder EXCEPT ![Home[c]][d] = c]
  /\ phase' = [phase EXCEPT ![c] = "held"]

\* The connection ends; it vacates the lease if it still holds it.
Release(c) ==
  /\ phase[c] = "held"
  /\ holder' = [n \in Nodes |-> [d \in Devices |->
                  IF holder[n][d] = c THEN NoConn ELSE holder[n][d]]]
  /\ phase' = [phase EXCEPT ![c] = "over"]

\* The connection ends before it held anything, or it dies between taking
\* the lease and learning that it did, which leaves the lease taken.
Abandon(c) ==
  /\ phase[c] \in {"fresh", "held"}
  /\ phase' = [phase EXCEPT ![c] = "over"]
  /\ UNCHANGED holder

\* A node fails: its leases are vacant, and every connection that held one,
\* with some of those (C) that were about to, is over.
Fail(n, C) ==
  /\ holder' = [holder EXCEPT ![n] = [d \in Devices |-> NoConn]]
  /\ \A c \in C : Home[c] = n
  /\ phase' = [c \in Conns |->
                 IF c \in C \/ (Home[c] = n /\ phase[c] = "held")
                   THEN "over" ELSE phase[c]]

LeaseNext ==
  \/ \E d \in Devices, c \in Conns : Acquire(d, c)
  \/ \E c \in Conns : Release(c) \/ Abandon(c)
  \/ \E n \in Nodes, C \in SUBSET Conns : Fail(n, C)

Lease == LeaseInit /\ [][LeaseNext]_leaseVars
=============================================================================
