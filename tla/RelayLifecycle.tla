--------------------------- MODULE RelayLifecycle ---------------------------
(***************************************************************************)
(* The life of relayed transfers as the rest of Overmind sees it: which    *)
(* connection plays which role of each session on the Edge, and the        *)
(* lifecycle reports the Edge makes about it.  No locks, frames or waits:  *)
(* a connection that leaves takes all its legs at once, and every pair it  *)
(* breaks is reported aborted exactly once, sooner or later.               *)
(***************************************************************************)
EXTENDS Naturals, Sequences

CONSTANTS Sessions, Conns, Roles

VARIABLES party,      \* session -> role -> connection, for the roles present
          owed,       \* legs lost from a pair that are not yet reported
          reports     \* what was reported, in the order it was

lifecycleVars == <<party, owed, reports>>

LifecycleInit ==
  /\ party = [s \in Sessions |-> << >>]
  /\ owed = [s \in Sessions |-> 0]
  /\ reports = [s \in Sessions |-> << >>]

Log(s, status) == reports' = [reports EXCEPT ![s] = Append(@, status)]

With(s, role, c) ==
  [r \in DOMAIN party[s] \cup {role} |-> IF r = role THEN c ELSE party[s][r]]

\* A leg opens, or a leg is replaced; a complete session is reported active.
LegOpens(s, role, c) ==
  /\ party' = [party EXCEPT ![s] = With(s, role, c)]
  /\ IF DOMAIN party'[s] = Roles THEN Log(s, "active") ELSE UNCHANGED reports
  /\ UNCHANGED owed

\* A session is closed on request, with one leg or more: completed.
SessionCloses(s) ==
  /\ DOMAIN party[s] # {}
  /\ party' = [party EXCEPT ![s] = << >>]
  /\ Log(s, "completed")
  /\ UNCHANGED owed

LegsOf(s, c) == {role \in DOMAIN party[s] : party[s][role] = c}
Without(s, c) ==
  [role \in DOMAIN party[s] \ LegsOf(s, c) |-> party[s][role]]

\* A connection takes its legs with it.  Every session that keeps a leg is
\* owed a report; one of them gets it at once.
ConnectionLeaves(c) ==
  LET broken == {s \in Sessions : LegsOf(s, c) # {} /\ DOMAIN Without(s, c) # {}}
  IN  /\ party' = [s \in Sessions |-> Without(s, c)]
      /\ IF broken = {} THEN UNCHANGED <<owed, reports>>
         ELSE \E first \in broken :
                /\ Log(first, "aborted")
                /\ owed' = [s \in Sessions |->
                     IF s \in broken \ {first} THEN owed[s] + 1 ELSE owed[s]]

\* The report about a lost leg is made, whatever the session is by now.
AbortReported(s) ==
  /\ owed[s] > 0
  /\ owed' = [owed EXCEPT ![s] = @ - 1]
  /\ Log(s, "aborted")
  /\ UNCHANGED party

LifecycleNext ==
  \/ \E s \in Sessions :
       \/ \E role \in Roles, c \in Conns : LegOpens(s, role, c)
       \/ SessionCloses(s)
       \/ AbortReported(s)
  \/ \E c \in Conns : ConnectionLeaves(c)

Lifecycle == LifecycleInit /\ [][LifecycleNext]_lifecycleVars
=============================================================================
