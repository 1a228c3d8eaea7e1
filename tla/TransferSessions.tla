-------------------------- MODULE TransferSessions --------------------------
(***************************************************************************)
(* A relayed transfer from its authorization to its last trace: the API    *)
(* that mints the token and records the session (main.create_transfer),    *)
(* the Edge that offers it to the sender (MuxServer._transfer_request) and *)
(* reports its relay life, the thread pool that carries those reports to   *)
(* PostgreSQL (edge_app.make_db_transfer_status_writer), and the scheduled *)
(* sweep (main.poll_device_status_notifications_once).                     *)
(*                                                                         *)
(* The relay itself is RelayLifecycle, which EdgeRelay implements.         *)
(***************************************************************************)
EXTENDS RelayLifecycle

CONSTANTS Peers,       \* session -> role -> connections of that Drone
          NoRow,       \* no transfer_sessions row
          MaxReports,  \* bound on the reports of a session
          MaxFaults    \* bound on failed statements and Edge crashes together

ASSUME BoundsAssumption == MaxReports \in Nat /\ MaxFaults \in Nat

VARIABLES
  token,     \* the transfer token: "none", "valid" or, by the Edge's clock, "expired"
  overdue,   \* sessions past their expires_at by the database's clock
  offered,   \* sessions whose TRANSFER_OFFER reached the sender
  row,       \* transfer_sessions.status
  pool,      \* status writes <<s, k>> in flight: the k-th report of s
  faults     \* statements that failed, and crashes of the Edge, so far

apiVars == <<token, overdue, row>>
vars == <<lifecycleVars, token, overdue, offered, row, pool, faults>>

Pending == {"offered", "active"}
Finished == {"completed", "aborted"}

ASSUME NoRowAssumption == NoRow \notin Pending \cup Finished \cup {"expired"}

TypeOK ==
  /\ token \in [Sessions -> {"none", "valid", "expired"}]
  /\ overdue \subseteq Sessions
  /\ offered \subseteq Sessions
  /\ row \in [Sessions -> Pending \cup Finished \cup {"expired", NoRow}]
  /\ pool \subseteq Sessions \X (1..MaxReports)
  /\ faults \in 0..MaxFaults

Init ==
  /\ LifecycleInit
  /\ token = [s \in Sessions |-> "none"]
  /\ overdue = {}
  /\ offered = {}
  /\ row = [s \in Sessions |-> NoRow]
  /\ pool = {}
  /\ faults = 0

-----------------------------------------------------------------------------
(* The API.                                                                *)

\* A statement works, or it raises and the error is logged: all the database
\* writes of a transfer are best-effort.
Attempt(change) ==
  \/ change /\ UNCHANGED faults
  \/ /\ faults < MaxFaults
     /\ faults' = faults + 1
     /\ UNCHANGED row

\* The token is minted and handed out, recorded or not.
CreateTransfer(s) ==
  /\ token[s] = "none"
  /\ token' = [token EXCEPT ![s] = "valid"]
  /\ Attempt(row' = [row EXCEPT ![s] = "offered"])
  /\ UNCHANGED <<lifecycleVars, overdue, offered, pool>>

\* TRANSFER_TOKEN_TTL_SECONDS pass for the token, by the clock of the Edge, and
\* for the row, by the clock of the database.  create_transfer takes the time
\* once for each, and nothing orders the two expiries.  A token that has been
\* used for its offer is not looked at again.
TokenExpires(s) ==
  /\ token[s] = "valid" /\ s \notin offered
  /\ token' = [token EXCEPT ![s] = "expired"]
  /\ UNCHANGED <<lifecycleVars, overdue, offered, row, pool, faults>>

RowExpires(s) ==
  /\ token[s] # "none" /\ s \notin overdue
  /\ overdue' = overdue \cup {s}
  /\ UNCHANGED <<lifecycleVars, token, offered, row, pool, faults>>

\* Forgetting the rows whose relay once paired; sweeping every status.
SweptIfOffered(s) == s \in overdue /\ row[s] = "offered"
SweptWhateverStatus(s) == s \in overdue /\ row[s] # NoRow

\* expires_at < now() AND status IN ('offered', 'active')
Swept(s) == s \in overdue /\ row[s] \in Pending

ExpireTransferSessions ==
  /\ \E s \in Sessions : Swept(s)
  /\ row' = [s \in Sessions |-> IF Swept(s) THEN "expired" ELSE row[s]]
  /\ UNCHANGED <<lifecycleVars, token, overdue, offered, pool, faults>>

-----------------------------------------------------------------------------
(* The Edge.                                                               *)

\* The receiver asks with a token that verifies, and the sender is connected:
\* it gets the TRANSFER_OFFER, and with it the session id.  The row may be
\* overdue already.
TransferRequest(s) ==
  /\ token[s] = "valid"
  /\ offered' = offered \cup {s}
  /\ UNCHANGED <<lifecycleVars, apiVars, pool, faults>>

\* With the reports numbered from zero.
RelayStepFromZero(step) ==
  /\ step
  /\ \A s \in Sessions : Len(reports'[s]) <= MaxReports
  /\ pool' = pool \cup
       UNION {{s} \X (Len(reports[s]) .. Len(reports'[s]) - 1) : s \in Sessions}
  /\ UNCHANGED <<apiVars, offered, faults>>

\* Each report of a relay step is a task for the pool.
RelayStep(step) ==
  /\ step
  /\ \A s \in Sessions : Len(reports'[s]) <= MaxReports
  /\ pool' = pool \cup
       UNION {{s} \X (Len(reports[s]) + 1 .. Len(reports'[s])) : s \in Sessions}
  /\ UNCHANGED <<apiVars, offered, faults>>

\* The receiver knows the session once it is created, the sender once it is
\* offered.  RELAY_OPEN itself needs no token, and may come again.
OpenLeg(s, role, c) ==
  /\ token[s] # "none" /\ c \in Peers[s][role]
  /\ role = "sender" => s \in offered
  /\ RelayStep(LegOpens(s, role, c))

CloseSession(s) == RelayStep(SessionCloses(s))
LoseConnection(c) ==
  /\ \E s \in Sessions : LegsOf(s, c) # {}
  /\ RelayStep(ConnectionLeaves(c))
ReportAbort(s) == RelayStep(AbortReported(s))

\* Any of the writes in flight is the next to commit: the default executor
\* has threads to spare.
UpdateTransferSession(s, k) ==
  /\ <<s, k>> \in pool
  /\ pool' = pool \ {<<s, k>>}
  /\ Attempt(row' = IF row[s] = NoRow THEN row
                    ELSE [row EXCEPT ![s] = reports[s][k]])
  /\ UNCHANGED <<lifecycleVars, token, overdue, offered>>

\* The Edge dies: no leg, no task and no report still owed survives it.
Crash ==
  /\ faults < MaxFaults
  /\ faults' = faults + 1
  /\ party' = [s \in Sessions |-> << >>]
  /\ owed' = [s \in Sessions |-> 0]
  /\ pool' = {}
  /\ UNCHANGED <<reports, apiVars, offered>>

Next ==
  \/ \E s \in Sessions :
       \/ CreateTransfer(s) \/ TokenExpires(s) \/ RowExpires(s)
       \/ TransferRequest(s)
       \/ \E role \in Roles, c \in Conns : OpenLeg(s, role, c)
       \/ CloseSession(s) \/ ReportAbort(s)
       \/ \E k \in 1..MaxReports : UpdateTransferSession(s, k)
  \/ \E c \in Conns : LoseConnection(c)
  \/ ExpireTransferSessions
  \/ Crash

(***************************************************************************)
(* Fairness: time passes for the database, the pool runs its tasks and the *)
(* job keeps running.  A Drone owes nobody anything.                       *)
(***************************************************************************)
Fairness ==
  /\ WF_vars(ExpireTransferSessions)
  /\ \A s \in Sessions :
       /\ WF_vars(RowExpires(s))
       /\ WF_vars(\E k \in 1..MaxReports : UpdateTransferSession(s, k))

Spec == Init /\ [][Next]_vars
FairSpec == Spec /\ Fairness

-----------------------------------------------------------------------------
(* Properties.                                                             *)

\* No recorded transfer shows as pending for ever, whatever the Drones, the
\* Edge, its pool and its crashes do to its reports (main.py 465-466).
PendingEnds ==
  \A s \in Sessions :
    token[s] # "none" ~> [](row[s] \notin Pending)

\* The statuses of s whose writes have left the pool.
Written(s) == {reports[s][k] : k \in {i \in 1..Len(reports[s]) : <<s, i>> \notin pool}}

\* However the writes of a transfer overtake each other and the sweep, and
\* whichever clock runs ahead: as long as no statement failed and the Edge
\* lived, the row says something the relay reported; it says "expired" only
\* when the relay has said nothing yet or once said "active", so a transfer
\* reported as finished, and never as active, is not shown as expired
\* (edge_app.py 165-181, postgres_store.py 2783-2795).
RowSaysWhatWasReported ==
  \A s \in Sessions :
    faults = 0 /\ token[s] # "none" =>
      \/ row[s] \in Written(s)
      \/ row[s] = "offered" /\ Written(s) = {}
      \/ row[s] = "expired" /\ (Written(s) = {} \/ "active" \in Written(s))

\* The sweep leaves finished transfers alone, and only the commit of a report
\* of that very session moves a row anywhere else.
RowsMoveByReports ==
  [][\A s \in Sessions :
       row'[s] # row[s] /\ row[s] # NoRow =>
         \/ row'[s] = "expired" /\ row[s] \in Pending
         \/ \E k \in 1..Len(reports[s]) :
              /\ <<s, k>> \in pool \ pool'
              /\ row'[s] = reports[s][k]]_vars
=============================================================================
