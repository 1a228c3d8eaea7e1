---------------------------- MODULE ActionQueue ----------------------------
(***************************************************************************)
(* The queue of remote actions of one Drone: rows of drone_actions in      *)
(* PostgreSQL (postgres_store.py), the API handlers that fill, hand out,   *)
(* complete and clear it (main.py, db.py), and the scheduled job that      *)
(* fails actions nobody completed.                                         *)
(*                                                                         *)
(* API workers share nothing but the database.  Each statement block under *)
(* "with conn" is one transaction whose row locks serialize it with the    *)
(* others, so it is one action here; a completion is three of them in a    *)
(* row (status, result, notification), and a worker may die in between.    *)
(* The Drone and the network between it and the API are external.          *)
(***************************************************************************)
EXTENDS Naturals, Sequences, FiniteSets

CONSTANTS Actions,    \* action ids, each created at most once
          Silent,     \* those whose kind is never notified (sync_rom, ...)
          Reports,    \* POSTs of .../complete, each sent at most once
          Limit,      \* actions claimed by one poll (25)
          MaxFaults   \* bound on lost answers and dead workers

ASSUME SilentAssumption == Silent \subseteq Actions
ASSUME BoundsAssumption == Limit \in Nat \ {0} /\ MaxFaults \in Nat

VARIABLES
  status,    \* drone_actions.status; "none" before, "cleared" after the row
  age,       \* since claimed_at: 0, 1: past the timeout, 2: past 15 minutes
  created,   \* history: the actions in created_at order
  held,      \* the Drone: what it knows about each action
  post,      \* the POSTs, by how far their handler has got
  results,   \* history: POSTs with a row in drone_action_results
  notices,   \* history: the outcomes notified for each action
  faults     \* answers lost and workers dead so far

rowVars == <<status, age, created>>
vars == <<rowVars, held, post, results, notices, faults>>

-----------------------------------------------------------------------------
Outcomes == {"completed", "failed"}
Terminal == Outcomes
Unfinished == {"pending", "claimed"}

\* A POST is unsent, or about an action with an outcome: its handler is at
\* the store of the result or at the notification, it has been answered
\* (accepted, or refused with 404), or its worker has died.
Unsent == [at |-> "unsent"]
Sent == [at : {"sent", "store", "notify", "accepted", "refused", "dead"},
         action : Actions, outcome : Outcomes]

TypeOK ==
  /\ status \in [Actions -> {"none", "cleared"} \cup Unfinished \cup Terminal]
  /\ age \in [Actions -> 0..2]
  /\ created \in Seq(Actions)
  /\ held \in [Actions -> {"no", "running"} \cup Outcomes]
  /\ post \in [Reports -> {Unsent} \cup Sent]
  /\ results \subseteq Reports
  /\ notices \in [Actions -> Seq(Outcomes)]
  /\ faults \in 0..MaxFaults

Init ==
  /\ status = [a \in Actions |-> "none"]
  /\ age = [a \in Actions |-> 0]
  /\ created = << >>
  /\ held = [a \in Actions |-> "no"]
  /\ post = [r \in Reports |-> Unsent]
  /\ results = {}
  /\ notices = [a \in Actions |-> << >>]
  /\ faults = 0

-----------------------------------------------------------------------------
(* The user.                                                               *)

CreateDeviceAction(a) ==
  /\ status[a] = "none"
  /\ status' = [status EXCEPT ![a] = "pending"]
  /\ created' = Append(created, a)
  /\ UNCHANGED <<age, held, post, results, notices, faults>>

\* DELETE ... WHERE status IN ('pending', 'claimed', 'in_progress')
ClearDeviceActions ==
  /\ \E a \in Actions : status[a] \in Unfinished
  /\ status' = [a \in Actions |->
                  IF status[a] \in Unfinished THEN "cleared" ELSE status[a]]
  /\ UNCHANGED <<age, created, held, post, results, notices, faults>>

-----------------------------------------------------------------------------
(* Polls and heartbeats of the Drone.                                      *)

\* claimed_at < now() - interval '15 minutes'
Stale(a) == status[a] = "claimed" /\ age[a] = 2

Waiting == {a \in Actions : status[a] = "pending" \/ Stale(a)}
Older(a, b) ==
  \E i, j \in 1..Len(created) : i < j /\ created[i] = a /\ created[j] = b

\* Newest first.
NextUpNewest ==
  {a \in Waiting : Cardinality({b \in Waiting : Older(a, b)}) < Limit}

\* ORDER BY created_at ASC LIMIT Limit
NextUp == {a \in Waiting : Cardinality({b \in Waiting : Older(b, a)}) < Limit}

\* Stale claims are requeued, then the actions that are next up are claimed.
\* A row that another transaction has locked is skipped: that transaction is
\* serialized before this one and the row is not pending any more.
ClaimPendingDeviceActions ==
  /\ NextUp # {}
  /\ status' = [a \in Actions |->
                  IF a \in NextUp THEN "claimed"
                  ELSE IF Stale(a) THEN "pending" ELSE status[a]]
  /\ age' = [a \in Actions |-> IF a \in NextUp \/ Stale(a) THEN 0 ELSE age[a]]
  /\ \/ /\ held' = [a \in Actions |->
                      IF a \in NextUp THEN "running" ELSE held[a]]
        /\ UNCHANGED faults
     \/ /\ faults < MaxFaults      \* the answer never reaches the Drone
        /\ faults' = faults + 1
        /\ UNCHANGED held
  /\ UNCHANGED <<created, post, results, notices>>

\* The Drone is done with an action it holds, one way or the other.
Finish(a, outcome) ==
  /\ held[a] = "running"
  /\ held' = [held EXCEPT ![a] = outcome]
  /\ UNCHANGED <<rowVars, post, results, notices, faults>>

\* It reports the outcome, and may do so again until it hears an answer.
Post(r, a) ==
  /\ post[r] = Unsent /\ held[a] \in Outcomes
  /\ post' = [post EXCEPT ![r] = [at |-> "sent", action |-> a, outcome |-> held[a]]]
  /\ UNCHANGED <<rowVars, held, results, notices, faults>>

-----------------------------------------------------------------------------
(* complete_device_action.                                                 *)

At(r, at) == post[r].at = at
Advance(r, at) == post' = [post EXCEPT ![r].at = at]

\* Not looking at the status it found.
AcceptsAnyReport(a) == status[a] \notin {"none", "cleared"}

\* SELECT ... FOR UPDATE finds a row that is not completed or failed.
TakesReport(a) == status[a] \in Unfinished

\* The status and its commit.  Without a row the answer is 404; with one that
\* is already terminal the report is accepted, and its result is dropped.
CommitStatus(r) ==
  /\ At(r, "sent")
  /\ LET a == post[r].action
     IN  IF TakesReport(a)
           THEN /\ status' = [status EXCEPT ![a] = post[r].outcome]
                /\ Advance(r, "store")
           ELSE /\ Advance(r, IF status[a] = "cleared" THEN "refused" ELSE "accepted")
                /\ UNCHANGED status
  /\ UNCHANGED <<age, created, held, results, notices, faults>>

\* store_action_result, in a transaction of its own.
StoreActionResult(r) ==
  /\ At(r, "store")
  /\ results' = results \cup {r}
  /\ Advance(r, "notify")
  /\ UNCHANGED <<rowVars, held, notices, faults>>

\* _notify_device_action_completion, and the answer to the Drone.
Notify(r) ==
  /\ At(r, "notify")
  /\ LET a == post[r].action
     IN  notices' = IF a \in Silent THEN notices
                    ELSE [notices EXCEPT ![a] = Append(@, post[r].outcome)]
  /\ Advance(r, "accepted")
  /\ UNCHANGED <<rowVars, held, results, faults>>

\* The worker dies, or the store of the result raises: the Drone gets no
\* answer or a 500.
WorkerDies(r) ==
  /\ \E at \in {"sent", "store", "notify"} : At(r, at)
  /\ faults < MaxFaults
  /\ faults' = faults + 1
  /\ Advance(r, "dead")
  /\ UNCHANGED <<rowVars, held, results, notices>>

-----------------------------------------------------------------------------
(* Time, and the scheduled job.                                            *)

Tick(a) ==
  /\ status[a] = "claimed" /\ age[a] < 2
  /\ age' = [age EXCEPT ![a] = @ + 1]
  /\ UNCHANGED <<status, created, held, post, results, notices, faults>>

\* Forgetting that a running action is stored as claimed.
TimedOutInProgress(a) == status[a] = "in_progress" /\ age[a] >= 1

\* status IN ('claimed', 'in_progress') and claimed_at past the timeout
TimedOut(a) == status[a] = "claimed" /\ age[a] >= 1

\* With a status of its own, which no reader of the table knows.
ExpireAsTimedOut ==
  /\ \E a \in Actions : TimedOut(a)
  /\ status' = [a \in Actions |-> IF TimedOut(a) THEN "timed_out" ELSE status[a]]
  /\ UNCHANGED <<age, created, held, post, results, notices, faults>>

\* UPDATE ... SET status = 'failed'; nobody is notified.
ExpireStaleDeviceActions ==
  /\ \E a \in Actions : TimedOut(a)
  /\ status' = [a \in Actions |-> IF TimedOut(a) THEN "failed" ELSE status[a]]
  /\ UNCHANGED <<age, created, held, post, results, notices, faults>>

Next ==
  \/ \E a \in Actions :
       \/ CreateDeviceAction(a)
       \/ \E outcome \in Outcomes : Finish(a, outcome)
       \/ \E r \in Reports : Post(r, a)
       \/ Tick(a)
  \/ \E r \in Reports :
       CommitStatus(r) \/ StoreActionResult(r) \/ Notify(r) \/ WorkerDies(r)
  \/ ClearDeviceActions
  \/ ClaimPendingDeviceActions
  \/ ExpireStaleDeviceActions

(***************************************************************************)
(* Fairness: the Drone keeps polling, claims grow old, and the job, which  *)
(* runs every minute, gets to see a claim that is past the timeout of ten  *)
(* minutes before a poll requeues it at fifteen (SF: not every time, but   *)
(* not never either).                                                      *)
(***************************************************************************)
Fairness ==
  /\ WF_vars(ClaimPendingDeviceActions)
  /\ \A a \in Actions : WF_vars(Tick(a))
  /\ SF_vars(ExpireStaleDeviceActions)

Spec == Init /\ [][Next]_vars
FairSpec == Spec /\ Fairness

-----------------------------------------------------------------------------
(* Properties.                                                             *)

\* However reports, the job, requeues and clears interleave, an action that
\* is completed or failed stays so: a late or repeated report, a timeout or a
\* clear never rewrites an outcome the user has been shown.
OutcomeIsFinal ==
  [][\A a \in Actions : status[a] \in Terminal => status'[a] = status[a]]_vars

\* At most one notification per action, and it tells the status the row has.
NotifiedOnce ==
  \A a \in Actions : \/ notices[a] = << >>
                     \/ notices[a] = <<status[a]>>

\* Of all the reports about an action, at most one gets its result stored,
\* and it is the one whose outcome the row shows.
OneResultPerAction ==
  \A r, q \in results :
    /\ post[r].outcome = status[post[r].action]
    /\ post[r].action = post[q].action => r = q

\* The oldest actions go first: a poll takes no action while an older one
\* waits in the queue.
OldestFirst ==
  [][\A a, b \in Actions :
       /\ Older(a, b) /\ status[a] = "pending"
       /\ status[b] = "pending" /\ status'[b] = "claimed"
       => status'[a] = "claimed"]_vars

\* With a Drone that polls, no action stays queued or in progress for ever,
\* whatever becomes of the answers, the workers and the reports.
EveryActionEnds ==
  \A a \in Actions : status[a] \in Unfinished ~> status[a] \notin Unfinished

-----------------------------------------------------------------------------
(* The strengthening that makes the invariants above inductive.            *)

\* A POST that moved its action to a terminal status: its handler is on its
\* way to the result and the notification, or has stored the result.
Owns(r) == r \in results \/ post[r].at \in {"store", "notify"}

OwnerSetsStatus ==
  \A r \in Reports : Owns(r) =>
    /\ post[r] \in Sent
    /\ status[post[r].action] = post[r].outcome

OneOwner ==
  \A r, q \in Reports :
    Owns(r) /\ Owns(q) /\ post[r].action = post[q].action => r = q

NoticesFollowOutcome ==
  /\ \A a \in Actions : \/ notices[a] = << >>
                         \/ /\ status[a] \in Terminal
                            /\ notices[a] = <<status[a]>>
  /\ \A r \in Reports : post[r].at \in {"store", "notify"} =>
       notices[post[r].action] = << >>

IInv == TypeOK /\ OwnerSetsStatus /\ OneOwner /\ NoticesFollowOutcome

\* And the one under which Older is an order: an action is created once.
CreatedOnce ==
  /\ \A i \in 1..Len(created) : status[created[i]] # "none"
  /\ \A i, j \in 1..Len(created) : created[i] = created[j] => i = j
=============================================================================
