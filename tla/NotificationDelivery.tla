------------------------ MODULE NotificationDelivery ------------------------
(***************************************************************************)
(* Notifications from the event to the digest: the API workers and         *)
(* scheduled instances that record them (db.add_swarm_notification), the   *)
(* digest job (notification_delivery.deliver_pending_notifications), the   *)
(* user who reads and dismisses them, and the rows of PostgreSQL that all  *)
(* of them write (postgres_store.py).                                      *)
(*                                                                         *)
(* A process has its own memory of notifications, never refreshed from     *)
(* PostgreSQL except by the digest job; and every persisting call, of a    *)
(* heartbeat say, ends by mirroring all of that memory into the rows.      *)
(* Processes are Lambda instances, which run one call at a time; an action *)
(* is the code up to the next statement that another process can precede.  *)
(* There is one user, with one channel on, and a call records at most one  *)
(* notification.                                                           *)
(***************************************************************************)
EXTENDS Integers, Sequences, FiniteSets

CONSTANTS Notes,      \* notification ids, each recorded at most once
          Procs,      \* Lambda instances
          Jobs,       \* those of the function that runs the scheduled jobs
          Limit,      \* notifications claimed by one run (25)
          MaxCalls,   \* bound on the persisting calls about something else
          MaxFaults   \* bound on failed statements and recycled instances

ASSUME JobsAssumption == Jobs \subseteq Procs
ASSUME ProcsAssumption == IsFiniteSet(Procs)
ASSUME BoundsAssumption ==
  Limit \in Nat \ {0} /\ MaxCalls \in Nat /\ MaxFaults \in Nat

VARIABLES
  row,        \* notifications.delivery_pending: "none", "pending" or "done"
  created,    \* history: the notifications in created_at order
  seen,       \* notification_recipients: "new", "read" or "dismissed"
  stage,      \* what a process does next in the call it is running
  mem,        \* db.notifications, process by process
  memRead,    \* those with the user in read_by, process by process
  batch,      \* the notifications a digest run has taken
  due,        \* history: how often a row became pending, less the digests
              \* that told of it
  unclaimed,  \* history: those taken by a run that could not claim
  calls,      \* persisting calls about something else so far
  faults      \* faults so far

rowVars == <<row, created, seen>>
procVars == <<stage, mem, memRead, batch>>
historyVars == <<due, unclaimed>>
vars == <<rowVars, procVars, historyVars, calls, faults>>

-----------------------------------------------------------------------------
Stages == {"idle", "hydrated", "taken", "mirror"}
Delivery == {"pending", "done"}

TypeOK ==
  /\ row \in [Notes -> {"none"} \cup Delivery]
  /\ created \in Seq(Notes)
  /\ seen \in [Notes -> {"new", "read", "dismissed"}]
  /\ stage \in [Procs -> Stages]
  /\ mem \in [Procs -> [Notes -> {"absent"} \cup Delivery]]
  /\ memRead \in [Procs -> SUBSET Notes]
  /\ batch \in [Procs -> SUBSET Notes]
  /\ due \in [Notes -> Int]
  /\ unclaimed \subseteq Notes
  /\ calls \in 0..MaxCalls
  /\ faults \in 0..MaxFaults

Forgotten == [x \in Notes |-> "absent"]

Init ==
  /\ row = [x \in Notes |-> "none"]
  /\ created = << >>
  /\ seen = [x \in Notes |-> "new"]
  /\ stage = [p \in Procs |-> "idle"]
  /\ mem = [p \in Procs |-> Forgotten]
  /\ memRead = [p \in Procs |-> {}]
  /\ batch = [p \in Procs |-> {}]
  /\ due = [x \in Notes |-> 0]
  /\ unclaimed = {}
  /\ calls = 0
  /\ faults = 0

-----------------------------------------------------------------------------
Step(p, from, to) ==
  /\ stage[p] = from
  /\ stage' = [stage EXCEPT ![p] = to]

Fault == faults < MaxFaults /\ faults' = faults + 1

\* The rows become r; those that are pending now and were not are queued.
SetRows(r) ==
  /\ row' = r
  /\ due' = [x \in Notes |->
       IF r[x] = "pending" /\ row[x] # "pending" THEN due[x] + 1 ELSE due[x]]

\* x happens now, on its way to the rows.
Occurs(x) ==
  /\ \A i \in 1..Len(created) : created[i] # x
  /\ created' = Append(created, x)

-----------------------------------------------------------------------------
(* Recording.                                                              *)

\* insert_swarm_notification: the lean insert, best-effort.
InsertNotification(x) ==
  \/ SetRows([row EXCEPT ![x] = "pending"]) /\ UNCHANGED faults
  \/ Fault /\ UNCHANGED <<row, due>>

\* add_swarm_notification: into memory, then the lean insert, which may fail;
\* the mirror of the whole memory is next.
AddSwarmNotification(p, x) ==
  /\ Step(p, "idle", "mirror")
  /\ Occurs(x)
  /\ mem' = [mem EXCEPT ![p][x] = "pending"]
  /\ InsertNotification(x)
  /\ UNCHANGED <<seen, memRead, batch, unclaimed, calls>>

\* _emit_reachability_notification: the lean insert alone.
EmitReachabilityNotification(x) ==
  /\ Occurs(x)
  /\ InsertNotification(x)
  /\ UNCHANGED <<seen, procVars, unclaimed, calls>>

\* Any other method of _PERSIST_AFTER_METHODS, in a heartbeat for instance.
PersistingCall(p) ==
  /\ Step(p, "idle", "mirror")
  /\ calls < MaxCalls
  /\ calls' = calls + 1
  /\ UNCHANGED <<rowVars, mem, memRead, batch, historyVars, faults>>

\* With the columns of recipients written for every notification in memory.
RecipientsOfAll(p) ==
  [x \in Notes |-> IF mem[p][x] = "absent" THEN seen[x]
                   ELSE IF x \in memRead[p] THEN "read" ELSE "new"]

\* read_at and dismissed_at are written for the users that memory knows to
\* have read x; memory never holds a dismissed_by.
Recipients(p) ==
  [x \in Notes |-> IF x \in memRead[p] THEN "read" ELSE seen[x]]

\* _persist_state: one transaction over all of memory, or a logged failure.
PersistState(p) ==
  /\ Step(p, "mirror", "idle")
  /\ \/ /\ SetRows([x \in Notes |-> IF mem[p][x] = "absent" THEN row[x] ELSE mem[p][x]])
        /\ seen' = Recipients(p)
        /\ UNCHANGED faults
     \/ Fault /\ UNCHANGED <<row, seen, due>>
  /\ UNCHANGED <<created, mem, memRead, batch, unclaimed, calls>>

-----------------------------------------------------------------------------
(* The digest job.                                                         *)

Pending(p) == {x \in Notes : mem[p][x] = "pending"}
Earlier(x, y) ==
  \E i, j \in 1..Len(created) : i < j /\ created[i] = x /\ created[j] = y
Oldest(S) == {x \in S : Cardinality({y \in S : Earlier(y, x)}) < Limit}

\* load_pending_notifications: what is pending in the rows, and with the user
\* in read_by when there is a read_at.
Loaded == [x \in Notes |-> IF row[x] = "pending" THEN "pending" ELSE "absent"]
LoadedRead == {x \in Notes : row[x] = "pending" /\ seen[x] # "new"}

\* With every row that exists, whatever its state.
HydrateAllRows(p) ==
  /\ Step(p, "idle", "hydrated")
  /\ mem' = [mem EXCEPT ![p] = row]
  /\ memRead' = [memRead EXCEPT ![p] = {x \in Notes : seen[x] # "new"}]
  /\ UNCHANGED <<rowVars, batch, historyVars, calls, faults>>

\* hydrate_pending_notifications_from_store replaces memory; without a
\* connection memory stays.
Hydrate(p) ==
  /\ Step(p, "idle", "hydrated")
  /\ \/ /\ mem' = [mem EXCEPT ![p] = Loaded]
        /\ memRead' = [memRead EXCEPT ![p] = LoadedRead]
        /\ UNCHANGED faults
     \/ Fault /\ UNCHANGED <<mem, memRead>>
  /\ UNCHANGED <<rowVars, batch, historyVars, calls>>

\* A run goes on with the notifications in S, or ends if there are none.
Take(p, S) ==
  /\ Step(p, "hydrated", IF S = {} THEN "idle" ELSE "taken")
  /\ batch' = [batch EXCEPT ![p] = S]

\* Trusting memory, whatever the row says by now; and passing over what the
\* user has read, which then stays in the queue.
ClaimableInMemory(p) == Pending(p)
ClaimableUnread(p) == {x \in Pending(p) \ memRead[p] : row[x] = "pending"}

\* delivery_pending IS TRUE
Claimable(p) == {x \in Pending(p) : row[x] = "pending"}

\* Rows that a mirror may have locked.
Locked == {x \in Notes : \E q \in Procs : stage[q] = "mirror" /\ mem[q][x] # "absent"}

RetireInMemory(p, S) ==
  mem' = [mem EXCEPT ![p] = [x \in Notes |-> IF x \in S THEN "done" ELSE @[x]]]

\* claim_pending_notifications: the oldest rows that are still pending are
\* done, before anything is sent; FOR UPDATE SKIP LOCKED.
ClaimPendingNotifications(p) ==
  /\ \E skipped \in SUBSET Locked :
       LET claimed == Oldest(Claimable(p) \ skipped)
       IN  /\ Take(p, claimed)
           /\ SetRows([x \in Notes |-> IF x \in claimed THEN "done" ELSE row[x]])
           /\ RetireInMemory(p, claimed)
  /\ UNCHANGED <<created, seen, memRead, unclaimed, calls, faults>>

\* No connection: the run goes on unclaimed, with what memory says is pending.
GoOnUnclaimed(p) ==
  /\ Fault
  /\ Take(p, Oldest(Pending(p)))
  /\ unclaimed' = unclaimed \cup Oldest(Pending(p))
  /\ UNCHANGED <<rowVars, mem, memRead, due, calls>>

\* The claim raises: the run is over, and memory keeps what it loaded.
RunAborts(p) ==
  /\ Fault
  /\ Step(p, "hydrated", "idle")
  /\ UNCHANGED <<rowVars, mem, memRead, batch, historyVars, calls>>

\* The digest tells of the unread ones that are within the window (any may
\* be too old by now), or of none when the channel raises; either way the
\* whole batch is retired in memory.
SendDigest(p) ==
  /\ Step(p, "taken", "mirror")
  /\ \E told \in SUBSET (batch[p] \ memRead[p]) :
       due' = [x \in Notes |-> IF x \in told THEN due[x] - 1 ELSE due[x]]
  /\ RetireInMemory(p, batch[p])
  /\ batch' = [batch EXCEPT ![p] = {}]
  /\ UNCHANGED <<rowVars, memRead, unclaimed, calls, faults>>

-----------------------------------------------------------------------------
(* The user and the platform.                                              *)

SetRead(x) == seen[x] = "new" /\ seen' = [seen EXCEPT ![x] = "read"]

MarkNotificationRead(x) ==
  /\ row[x] # "none"
  /\ SetRead(x)
  /\ UNCHANGED <<row, created, procVars, historyVars, calls, faults>>

SetDismissed(x) == seen[x] # "dismissed" /\ seen' = [seen EXCEPT ![x] = "dismissed"]

DismissNotification(x) ==
  /\ row[x] # "none"
  /\ SetDismissed(x)
  /\ UNCHANGED <<row, created, procVars, historyVars, calls, faults>>

\* The instance times out in a call, or is recycled after one: a new one
\* starts with an empty memory.
Recycled(p) ==
  /\ mem[p] # Forgotten
  /\ Fault
  /\ stage' = [stage EXCEPT ![p] = "idle"]
  /\ mem' = [mem EXCEPT ![p] = Forgotten]
  /\ memRead' = [memRead EXCEPT ![p] = {}]
  /\ batch' = [batch EXCEPT ![p] = {}]
  /\ UNCHANGED <<rowVars, historyVars, calls>>

Run(p) ==
  \/ Hydrate(p)
  \/ ClaimPendingNotifications(p) \/ GoOnUnclaimed(p) \/ RunAborts(p)
  \/ SendDigest(p)

Next ==
  \/ \E p \in Procs :
       \/ \E x \in Notes : AddSwarmNotification(p, x)
       \/ PersistingCall(p) \/ PersistState(p) \/ Recycled(p)
  \/ \E p \in Jobs : Run(p)
  \/ \E x \in Notes :
       \/ EmitReachabilityNotification(x)
       \/ MarkNotificationRead(x) \/ DismissNotification(x)

(***************************************************************************)
(* Fairness: the schedule keeps starting the job, and a call that has been *)
(* started goes on.  Events, users and other calls owe nothing.            *)
(***************************************************************************)
Fairness ==
  /\ \A p \in Procs : WF_vars(PersistState(p))
  /\ \A p \in Jobs : WF_vars(Run(p))

Spec == Init /\ [][Next]_vars
FairSpec == Spec /\ Fairness

-----------------------------------------------------------------------------
(* Properties.                                                             *)

\* A digest run tells of a notification at most once per time its row was
\* queued, however many runs overlap: the claim retires a row before anything
\* is sent (postgres_store.py 1099-1124).  Only a run that could not reach
\* PostgreSQL to claim may repeat one.
OneDigestPerQueuing == \A x \in Notes \ unclaimed : due[x] >= 0

\* No mirror of a process that knows less takes back that the user has read a
\* notification (db.py 613-627, postgres_store.py 5021-5039).
ReadStaysRead ==
  [][\A x \in Notes : seen[x] # "new" => seen'[x] # "new"]_vars

\* A notification that is queued is retired in the end, once the processes
\* that remember it as pending have made their last call: the queue cannot
\* grow without bound (notification_delivery.py 157-160).
QueuedIsRetired ==
  \A x \in Notes : row[x] = "pending" ~> row[x] = "done"
=============================================================================
