------------------------- MODULE ActionQueue_proofs -------------------------
(***************************************************************************)
(* One outcome per action, told once: for any number of actions, POSTs,    *)
(* lost answers and dead workers.                                          *)
(***************************************************************************)
EXTENDS ActionQueue, FiniteSetTheorems, TLAPS

USE SilentAssumption, BoundsAssumption DEF SilentAssumption, BoundsAssumption

\* Nothing is queued, posted or notified at first.
LEMMA InitIInv == Init => IInv
  BY DEF Init, IInv, TypeOK, OwnerSetsStatus, OneOwner, NoticesFollowOutcome,
         Owns, Unsent, Sent, Outcomes, Terminal, Unfinished

\* A handler moves its POST on.
LEMMA AdvanceType ==
  ASSUME TypeOK, NEW r \in Reports, post[r].at # "unsent",
         NEW at \in {"sent", "store", "notify", "accepted", "refused", "dead"},
         Advance(r, at)
  PROVE  /\ post[r] \in Sent /\ post'[r] \in Sent
         /\ post' \in [Reports -> {Unsent} \cup Sent]
         /\ post'[r].at = at
         /\ post'[r].action = post[r].action
         /\ post'[r].outcome = post[r].outcome
         /\ \A q \in Reports : q # r => post'[q] = post[q]
<1>1. post \in [Reports -> {Unsent} \cup Sent]
  BY DEF TypeOK
<1>2. post[r] \in Sent
  BY <1>1 DEF Unsent
<1>3. post'[r] = [post[r] EXCEPT !.at = at] /\ \A q \in Reports : q # r => post'[q] = post[q]
  BY <1>1 DEF Advance
<1>4. /\ post'[r] \in Sent /\ post'[r].at = at
      /\ post'[r].action = post[r].action /\ post'[r].outcome = post[r].outcome
  BY <1>2, <1>3 DEF Sent
<1>5. post' \in [Reports -> {Unsent} \cup Sent]
  <2>1. post' = [q \in Reports |-> post'[q]]
    BY <1>1 DEF Advance
  <2> QED
    BY <1>1, <1>3, <1>4, <2>1
<1> QED
  BY <1>2, <1>3, <1>4, <1>5

\* Every step keeps the types.
LEMMA NextTypeOK == TypeOK /\ [Next]_vars => TypeOK'
<1> SUFFICES ASSUME TypeOK, [Next]_vars
             PROVE  TypeOK'
  OBVIOUS
<1> USE DEF TypeOK, rowVars, Unfinished, Terminal, Outcomes
<1>1. ASSUME NEW a \in Actions, CreateDeviceAction(a)
      PROVE  TypeOK'
  BY <1>1 DEF CreateDeviceAction
<1>2. ASSUME NEW a \in Actions, NEW outcome \in Outcomes, Finish(a, outcome)
      PROVE  TypeOK'
  BY <1>2 DEF Finish
<1>3. ASSUME NEW a \in Actions, NEW r \in Reports, Post(r, a)
      PROVE  TypeOK'
  <2>1. [at |-> "sent", action |-> a, outcome |-> held[a]] \in Sent
    BY <1>3 DEF Post, Sent
  <2> QED
    BY <1>3, <2>1 DEF Post
<1>4. ASSUME NEW a \in Actions, Tick(a)
      PROVE  TypeOK'
  <2>1. age[a] + 1 \in 0..2
    <3>1. age[a] \in 0..2 /\ age[a] < 2
      BY <1>4 DEF Tick
    <3> QED
      BY <3>1
  <2>2. age' \in [Actions -> 0..2]
    BY <1>4, <2>1 DEF Tick
  <2> QED
    BY <1>4, <2>2 DEF Tick
<1>5. ASSUME NEW r \in Reports, CommitStatus(r)
      PROVE  TypeOK'
  <2>1. post[r] \in Sent /\ post' \in [Reports -> {Unsent} \cup Sent]
    BY <1>5, AdvanceType DEF CommitStatus, At
  <2> QED
    BY <1>5, <2>1 DEF CommitStatus, TakesReport, Sent
<1>6. ASSUME NEW r \in Reports, StoreActionResult(r)
      PROVE  TypeOK'
  <2>1. post[r] \in Sent /\ post' \in [Reports -> {Unsent} \cup Sent]
    BY <1>6, AdvanceType DEF StoreActionResult, At
  <2> QED
    BY <1>6, <2>1 DEF StoreActionResult, Sent
<1>7. ASSUME NEW r \in Reports, Notify(r)
      PROVE  TypeOK'
  <2>1. post[r] \in Sent /\ post' \in [Reports -> {Unsent} \cup Sent]
    BY <1>7, AdvanceType DEF Notify, At
  <2> QED
    BY <1>7, <2>1 DEF Notify, Sent
<1>8. ASSUME NEW r \in Reports, WorkerDies(r)
      PROVE  TypeOK'
  <2>1. post[r] \in Sent /\ post' \in [Reports -> {Unsent} \cup Sent]
    BY <1>8, AdvanceType DEF WorkerDies, At
  <2> QED
    BY <1>8, <2>1 DEF WorkerDies, Sent
<1>9. CASE ClearDeviceActions
  BY <1>9 DEF ClearDeviceActions
<1>10. CASE ClaimPendingDeviceActions
  <2>1. status' \in [Actions -> {"none", "cleared"} \cup Unfinished \cup Terminal]
    BY <1>10 DEF ClaimPendingDeviceActions
  <2>2. age' \in [Actions -> 0..2]
    BY <1>10 DEF ClaimPendingDeviceActions
  <2>3. held' \in [Actions -> {"no", "running"} \cup Outcomes] /\ faults' \in 0..MaxFaults
    BY <1>10 DEF ClaimPendingDeviceActions
  <2> QED
    BY <1>10, <2>1, <2>2, <2>3 DEF ClaimPendingDeviceActions
<1>11. CASE ExpireStaleDeviceActions
  BY <1>11 DEF ExpireStaleDeviceActions
<1>12. CASE UNCHANGED vars
  BY <1>12 DEF vars
<1> QED
  BY <1>1, <1>2, <1>3, <1>4, <1>5, <1>6, <1>7, <1>8, <1>9, <1>10, <1>11, <1>12
     DEF Next

\* No step rewrites a terminal status.
LEMMA TerminalStays ==
  TypeOK /\ [Next]_vars =>
    \A a \in Actions : status[a] \in Terminal => status'[a] = status[a]
<1> SUFFICES ASSUME TypeOK, [Next]_vars, NEW a \in Actions, status[a] \in Terminal
             PROVE  status'[a] = status[a]
  OBVIOUS
<1> USE DEF rowVars, Outcomes, Terminal, Unfinished
<1>1. CASE \/ \E b \in Actions :
                \/ CreateDeviceAction(b) \/ Tick(b)
                \/ \E outcome \in Outcomes : Finish(b, outcome)
                \/ \E r \in Reports : Post(r, b)
           \/ \E r \in Reports : StoreActionResult(r) \/ Notify(r) \/ WorkerDies(r)
  BY <1>1 DEF TypeOK, CreateDeviceAction, Tick, Finish, Post, StoreActionResult,
              Notify, WorkerDies
<1>2. ASSUME NEW r \in Reports, CommitStatus(r)
      PROVE  status'[a] = status[a]
  BY <1>2 DEF TypeOK, CommitStatus, TakesReport
<1>3. CASE ClearDeviceActions \/ ExpireStaleDeviceActions
  BY <1>3 DEF ClearDeviceActions, ExpireStaleDeviceActions, TimedOut
<1>4. CASE ClaimPendingDeviceActions
  <2>1. \A b \in NextUp : status[b] \in Unfinished
    BY DEF NextUp, Waiting, Stale
  <2> QED
    BY <1>4, <2>1 DEF ClaimPendingDeviceActions, Stale
<1>5. CASE UNCHANGED vars
  BY <1>5 DEF vars
<1> QED
  BY <1>1, <1>2, <1>3, <1>4, <1>5 DEF Next

\* A step that touches no POST, result or notice, and no terminal status,
\* leaves every owner and every notice in the right.
LEMMA RowsOnly ==
  ASSUME IInv, UNCHANGED <<post, results, notices>>,
         \A a \in Actions : status[a] \in Terminal => status'[a] = status[a]
  PROVE  (OwnerSetsStatus /\ OneOwner /\ NoticesFollowOutcome)'
<1>1. \A r \in Reports : Owns(r)' <=> Owns(r)
  BY DEF Owns
<1>2. OwnerSetsStatus'
  BY <1>1 DEF IInv, OwnerSetsStatus, Sent, Terminal
<1>3. OneOwner'
  BY <1>1 DEF IInv, OneOwner
<1>4. NoticesFollowOutcome'
  BY DEF IInv, NoticesFollowOutcome
<1> QED
  BY <1>2, <1>3, <1>4

\* Every step keeps one owner, one result and one notice per outcome.
LEMMA NextIInv == IInv /\ [Next]_vars => IInv'
<1> SUFFICES ASSUME IInv, [Next]_vars
             PROVE  IInv'
  OBVIOUS
<1>t. TypeOK /\ TypeOK'
  BY NextTypeOK DEF IInv
<1>i. OwnerSetsStatus /\ OneOwner /\ NoticesFollowOutcome
  BY DEF IInv
<1> SUFFICES (OwnerSetsStatus /\ OneOwner /\ NoticesFollowOutcome)'
  BY <1>t DEF IInv
<1> USE DEF rowVars, Outcomes, Terminal, Unfinished
<1>1. CASE \E a \in Actions :
             \/ CreateDeviceAction(a) \/ Tick(a)
             \/ \E outcome \in Outcomes : Finish(a, outcome)
  <2>1. \A a \in Actions : status[a] \in Terminal => status'[a] = status[a]
    BY <1>t, TerminalStays
  <2>2. UNCHANGED <<post, results, notices>>
    BY <1>1 DEF CreateDeviceAction, Finish, Tick
  <2> QED
    BY <2>1, <2>2, RowsOnly
<1>2. CASE ClearDeviceActions \/ ClaimPendingDeviceActions \/ ExpireStaleDeviceActions
  <2>1. \A a \in Actions : status[a] \in Terminal => status'[a] = status[a]
    BY <1>t, TerminalStays
  <2>2. UNCHANGED <<post, results, notices>>
    BY <1>2 DEF ClearDeviceActions, ClaimPendingDeviceActions, ExpireStaleDeviceActions
  <2> QED
    BY <2>1, <2>2, RowsOnly
<1>3. ASSUME NEW a \in Actions, NEW r \in Reports, Post(r, a)
      PROVE  (OwnerSetsStatus /\ OneOwner /\ NoticesFollowOutcome)'
  <2>1. ~Owns(r) /\ ~Owns(r)'
    BY <1>3, <1>t, <1>i DEF Post, Owns, OwnerSetsStatus, TypeOK, Unsent, Sent
  <2>2. \A q \in Reports : q # r => post'[q] = post[q] /\ (Owns(q)' <=> Owns(q))
    BY <1>3, <1>t DEF Post, Owns, TypeOK
  <2>3. UNCHANGED <<status, notices>>
    BY <1>3 DEF Post
  <2> QED
    BY <2>1, <2>2, <2>3, <1>i DEF OwnerSetsStatus, OneOwner, NoticesFollowOutcome, Owns
<1>4. ASSUME NEW r \in Reports, WorkerDies(r)
      PROVE  (OwnerSetsStatus /\ OneOwner /\ NoticesFollowOutcome)'
  <2>1. /\ Owns(r)' => Owns(r)
        /\ post'[r].action = post[r].action /\ post'[r].outcome = post[r].outcome
        /\ post'[r].at = "dead" /\ (post[r] \in Sent => post'[r] \in Sent)
    BY <1>4, <1>t, AdvanceType DEF WorkerDies, At, Owns
  <2>2. \A q \in Reports : q # r => post'[q] = post[q] /\ (Owns(q)' <=> Owns(q))
    BY <1>4, <1>t, AdvanceType DEF WorkerDies, At, Owns
  <2>3. UNCHANGED <<status, notices>>
    BY <1>4 DEF WorkerDies
  <2> QED
    BY <2>1, <2>2, <2>3, <1>i DEF OwnerSetsStatus, OneOwner, NoticesFollowOutcome
<1>5. ASSUME NEW r \in Reports, CommitStatus(r), TakesReport(post[r].action)
      PROVE  (OwnerSetsStatus /\ OneOwner /\ NoticesFollowOutcome)'
  <2> DEFINE a == post[r].action
  <2>1. /\ post[r] \in Sent /\ post'[r] \in Sent /\ post'[r].at = "store"
        /\ post'[r].action = a /\ post'[r].outcome = post[r].outcome
        /\ \A q \in Reports : q # r => post'[q] = post[q]
    BY <1>5, <1>t, AdvanceType DEF CommitStatus, At
  <2>2. a \in Actions /\ post[r].outcome \in Outcomes
    BY <2>1 DEF Sent
  <2>3. /\ status[a] \in Unfinished /\ UNCHANGED <<results, notices>>
        /\ status' = [status EXCEPT ![a] = post[r].outcome]
    BY <1>5 DEF CommitStatus, TakesReport
  <2>4. \A q \in Reports : Owns(q) => post[q].action # a
    BY <1>i, <2>3 DEF OwnerSetsStatus, Sent
  <2>5. \A q \in Reports : q # r => (Owns(q)' <=> Owns(q))
    BY <2>1, <2>3 DEF Owns
  <2>6. notices[a] = << >>
    BY <1>i, <2>2, <2>3 DEF NoticesFollowOutcome
  <2>7. \A b \in Actions : b # a => status'[b] = status[b]
    BY <1>t, <2>3 DEF TypeOK
  <2>8. status'[a] = post[r].outcome
    BY <1>t, <2>2, <2>3 DEF TypeOK
  <2> HIDE DEF a
  <2>9. OwnerSetsStatus'
    <3> SUFFICES ASSUME NEW q \in Reports, Owns(q)'
                 PROVE  post'[q] \in Sent /\ status'[post'[q].action] = post'[q].outcome
      BY DEF OwnerSetsStatus
    <3>1. CASE q = r
      BY <3>1, <2>1, <2>8
    <3>2. CASE q # r
      <4>1. Owns(q) /\ post'[q] = post[q] /\ post[q].action # a
        BY <3>2, <2>1, <2>4, <2>5
      <4>2. post[q] \in Sent /\ status[post[q].action] = post[q].outcome
        BY <4>1, <1>i DEF OwnerSetsStatus
      <4>3. post[q].action \in Actions
        BY <4>2 DEF Sent
      <4> QED
        BY <4>1, <4>2, <4>3, <2>7
    <3> QED
      BY <3>1, <3>2
  <2>10. OneOwner'
    BY <1>i, <2>1, <2>4, <2>5 DEF OneOwner
  <2>11. NoticesFollowOutcome'
    BY <1>i, <2>1, <2>2, <2>3, <2>6, <2>7 DEF NoticesFollowOutcome
  <2> QED
    BY <2>9, <2>10, <2>11
<1>6. ASSUME NEW r \in Reports, CommitStatus(r), ~TakesReport(post[r].action)
      PROVE  (OwnerSetsStatus /\ OneOwner /\ NoticesFollowOutcome)'
  <2>1. /\ post'[r].at \in {"accepted", "refused"} /\ post[r].at = "sent"
        /\ post'[r] \in Sent /\ post'[r].action = post[r].action
        /\ post'[r].outcome = post[r].outcome
        /\ \A q \in Reports : q # r => post'[q] = post[q]
    BY <1>6, <1>t, AdvanceType DEF CommitStatus, At
  <2>2. UNCHANGED <<status, results, notices>>
    BY <1>6 DEF CommitStatus
  <2>3. \A q \in Reports : (Owns(q)' <=> Owns(q))
    BY <2>1, <2>2 DEF Owns
  <2> QED
    BY <2>1, <2>2, <2>3, <1>i DEF OwnerSetsStatus, OneOwner, NoticesFollowOutcome
<1>7. ASSUME NEW r \in Reports, StoreActionResult(r)
      PROVE  (OwnerSetsStatus /\ OneOwner /\ NoticesFollowOutcome)'
  <2>1. /\ post'[r].at = "notify" /\ post[r].at = "store"
        /\ post'[r] \in Sent /\ post'[r].action = post[r].action
        /\ post'[r].outcome = post[r].outcome
        /\ \A q \in Reports : q # r => post'[q] = post[q]
    BY <1>7, <1>t, AdvanceType DEF StoreActionResult, At
  <2>2. results' = results \cup {r} /\ UNCHANGED <<status, notices>>
    BY <1>7 DEF StoreActionResult
  <2>3. \A q \in Reports : (Owns(q)' <=> Owns(q))
    BY <2>1, <2>2 DEF Owns
  <2> QED
    BY <2>1, <2>2, <2>3, <1>i DEF OwnerSetsStatus, OneOwner, NoticesFollowOutcome
<1>8. ASSUME NEW r \in Reports, Notify(r)
      PROVE  (OwnerSetsStatus /\ OneOwner /\ NoticesFollowOutcome)'
  <2> DEFINE a == post[r].action
  <2>1. /\ post'[r].at = "accepted" /\ post[r].at = "notify"
        /\ post[r] \in Sent /\ post'[r] \in Sent /\ post'[r].action = a
        /\ post'[r].outcome = post[r].outcome
        /\ \A q \in Reports : q # r => post'[q] = post[q]
    BY <1>8, <1>t, AdvanceType DEF Notify, At
  <2>2. /\ notices' \in {notices, [notices EXCEPT ![a] = Append(@, post[r].outcome)]}
        /\ UNCHANGED <<status, results>>
    BY <1>8 DEF Notify
  <2>3. Owns(r) /\ \A q \in Reports : Owns(q)' => Owns(q)
    BY <2>1, <2>2 DEF Owns
  <2>4. status[a] = post[r].outcome /\ a \in Actions /\ status[a] \in Terminal
    BY <1>i, <2>1, <2>3 DEF OwnerSetsStatus, Sent
  <2>5. notices[a] = << >>
    BY <1>i, <2>1 DEF NoticesFollowOutcome
  <2>6. \A q \in Reports : q # r /\ Owns(q) => post[q].action # a
    BY <1>i, <2>3 DEF OneOwner
  <2>7. notices'[a] \in {<< >>, <<status[a]>>}
    <3>1. Append(<< >>, post[r].outcome) = <<post[r].outcome>>
      OBVIOUS
    <3>2. notices \in [Actions -> Seq(Outcomes)] /\ a \in Actions
      BY <1>t, <2>4 DEF TypeOK
    <3>3. notices'[a] = notices[a] \/ notices'[a] = Append(notices[a], post[r].outcome)
      BY <2>2, <3>2
    <3> QED
      BY <2>4, <2>5, <3>1, <3>3
  <2>8. \A b \in Actions : b # a => notices'[b] = notices[b]
    BY <1>t, <2>2, <2>4 DEF TypeOK
  <2> HIDE DEF a
  <2>9. OwnerSetsStatus' /\ OneOwner'
    <3>1. \A q \in Reports :
            /\ post'[q].action = post[q].action /\ post'[q].outcome = post[q].outcome
            /\ post[q] \in Sent => post'[q] \in Sent
      BY <2>1 DEF a
    <3>2. OwnerSetsStatus'
      BY <1>i, <2>2, <2>3, <3>1 DEF OwnerSetsStatus
    <3>3. OneOwner'
      BY <1>i, <2>3, <3>1 DEF OneOwner
    <3> QED
      BY <3>2, <3>3
  <2>10. \A b \in Actions : \/ notices'[b] = << >>
                            \/ status'[b] \in Terminal /\ notices'[b] = <<status'[b]>>
    BY <1>i, <2>2, <2>4, <2>7, <2>8 DEF NoticesFollowOutcome
  <2>11. ASSUME NEW q \in Reports, post'[q].at \in {"store", "notify"}
         PROVE  notices'[post'[q].action] = << >>
    <3>1. q # r /\ post'[q] = post[q] /\ Owns(q)
      BY <2>1, <2>11 DEF Owns
    <3>2. post[q].action # a /\ post[q].action \in Actions
      BY <1>i, <2>6, <3>1 DEF OwnerSetsStatus, Sent
    <3> QED
      BY <1>i, <2>8, <2>11, <3>1, <3>2 DEF NoticesFollowOutcome
  <2> QED
    BY <2>9, <2>10, <2>11 DEF NoticesFollowOutcome
<1>9. CASE UNCHANGED vars
  BY <1>9, RowsOnly DEF vars
<1> QED
  BY <1>1, <1>2, <1>3, <1>4, <1>5, <1>6, <1>7, <1>8, <1>9 DEF Next

\* What rows, POSTs, results and notices agree on at any time.
THEOREM InductiveInvariant == Spec => []IInv
  BY InitIInv, NextIInv, PTL DEF Spec

\* Every variable keeps its type.
THEOREM TypeCorrect == Spec => []TypeOK
<1>1. IInv => TypeOK
  BY DEF IInv
<1> QED
  BY <1>1, InductiveInvariant, PTL

\* An action is notified at most once, with the status its row shows
\* (db.complete_device_action).
THEOREM NotifiesOnce == Spec => []NotifiedOnce
<1>1. IInv => NotifiedOnce
  BY DEF IInv, NoticesFollowOutcome, NotifiedOnce
<1> QED
  BY <1>1, InductiveInvariant, PTL

\* An action has at most one stored result, that of the report which set its
\* status.
THEOREM StoresOneResult == Spec => []OneResultPerAction
<1>1. IInv => OneResultPerAction
  BY DEF IInv, TypeOK, OwnerSetsStatus, OneOwner, OneResultPerAction, Owns
<1> QED
  BY <1>1, InductiveInvariant, PTL

\* A late or repeated report, a timeout, a requeue or a clear never rewrites
\* an outcome.
THEOREM OutcomesAreFinal == Spec => OutcomeIsFinal
<1>1. TypeOK /\ [Next]_vars =>
        [\A a \in Actions : status[a] \in Terminal => status'[a] = status[a]]_vars
  BY TerminalStays
<1> QED
  BY <1>1, TypeCorrect, PTL DEF Spec, OutcomeIsFinal

-----------------------------------------------------------------------------
(* The oldest actions go first.                                            *)

\* No action has been created at first.
LEMMA InitCreatedOnce == Init => CreatedOnce
  BY DEF Init, CreatedOnce

\* A step that creates nothing, and takes no action back to "none", leaves
\* each action created once.
LEMMA CreatesNothing ==
  ASSUME TypeOK, CreatedOnce, UNCHANGED created,
         \A a \in Actions : status[a] # "none" => status'[a] # "none"
  PROVE  CreatedOnce'
<1>1. \A i \in 1..Len(created) : created[i] \in Actions
  BY DEF TypeOK
<1> QED
  BY <1>1 DEF CreatedOnce

\* CreateDeviceAction is the only step that creates an action, and it takes
\* one that has no row yet.
LEMMA NextCreatedOnce == TypeOK /\ CreatedOnce /\ [Next]_vars => CreatedOnce'
<1> SUFFICES ASSUME TypeOK, CreatedOnce, [Next]_vars
             PROVE  CreatedOnce'
  OBVIOUS
<1> USE DEF rowVars, Outcomes, Terminal, Unfinished
<1>1. ASSUME NEW a \in Actions, CreateDeviceAction(a)
      PROVE  CreatedOnce'
  <2>1. /\ created \in Seq(Actions) /\ created' = Append(created, a)
        /\ status[a] = "none" /\ status'[a] = "pending"
        /\ \A b \in Actions : b # a => status'[b] = status[b]
    BY <1>1 DEF CreateDeviceAction, TypeOK
  <2>2. /\ Len(created') = Len(created) + 1 /\ Len(created) \in Nat
        /\ created'[Len(created) + 1] = a
        /\ \A i \in 1..Len(created) : created'[i] = created[i] /\ created[i] \in Actions
    BY <2>1
  <2>3. \A i \in 1..Len(created) : created[i] # a
    BY <2>1 DEF CreatedOnce
  <2>4. ASSUME NEW i \in 1..Len(created')
        PROVE  status'[created'[i]] # "none"
    <3>1. CASE i \in 1..Len(created)
      BY <2>1, <2>2, <2>3, <3>1 DEF CreatedOnce
    <3>2. CASE i = Len(created) + 1
      BY <2>1, <2>2, <3>2
    <3> QED
      BY <2>2, <3>1, <3>2
  <2>5. ASSUME NEW i \in 1..Len(created'), NEW j \in 1..Len(created'),
               created'[i] = created'[j]
        PROVE  i = j
    <3>1. CASE i \in 1..Len(created) /\ j \in 1..Len(created)
      BY <2>2, <2>5, <3>1 DEF CreatedOnce
    <3>2. CASE i = Len(created) + 1 \/ j = Len(created) + 1
      BY <2>2, <2>3, <2>5, <3>2
    <3> QED
      BY <2>2, <3>1, <3>2
  <2> QED
    BY <2>4, <2>5 DEF CreatedOnce
<1>2. CASE \/ \E a \in Actions :
                \/ Tick(a)
                \/ \E outcome \in Outcomes : Finish(a, outcome)
                \/ \E r \in Reports : Post(r, a)
           \/ \E r \in Reports : StoreActionResult(r) \/ Notify(r) \/ WorkerDies(r)
           \/ UNCHANGED vars
  <2>1. UNCHANGED <<created, status>>
    BY <1>2 DEF Tick, Finish, Post, StoreActionResult, Notify, WorkerDies, vars
  <2> QED
    BY <2>1, CreatesNothing
<1>3. ASSUME NEW r \in Reports, CommitStatus(r)
      PROVE  CreatedOnce'
  <2>1. post[r] \in Sent
    BY <1>3, AdvanceType DEF CommitStatus, At
  <2>2. /\ UNCHANGED created
        /\ \A a \in Actions : status[a] # "none" => status'[a] # "none"
    BY <1>3, <2>1 DEF CommitStatus, TypeOK, Sent
  <2> QED
    BY <2>2, CreatesNothing
<1>4. CASE ClearDeviceActions \/ ExpireStaleDeviceActions
  <2>1. /\ UNCHANGED created
        /\ \A a \in Actions : status[a] # "none" => status'[a] # "none"
    BY <1>4 DEF ClearDeviceActions, ExpireStaleDeviceActions
  <2> QED
    BY <2>1, CreatesNothing
<1>5. CASE ClaimPendingDeviceActions
  <2>1. /\ UNCHANGED created
        /\ \A a \in Actions : status[a] # "none" => status'[a] # "none"
    BY <1>5 DEF ClaimPendingDeviceActions
  <2> QED
    BY <2>1, CreatesNothing
<1> QED
  BY <1>1, <1>2, <1>3, <1>4, <1>5 DEF Next

\* Older is an order on the actions created so far.
LEMMA OlderIsAnOrder ==
  ASSUME TypeOK, CreatedOnce
  PROVE  /\ \A a \in Actions : ~Older(a, a)
         /\ \A a, b, c \in Actions : Older(a, b) /\ Older(b, c) => Older(a, c)
<1>1. Len(created) \in Nat
  BY DEF TypeOK
<1>2. ASSUME NEW a \in Actions
      PROVE  ~Older(a, a)
  BY <1>1 DEF Older, CreatedOnce
<1>3. ASSUME NEW a \in Actions, NEW b \in Actions, NEW c \in Actions,
             Older(a, b), Older(b, c)
      PROVE  Older(a, c)
  <2>1. PICK i, j \in 1..Len(created) : i < j /\ created[i] = a /\ created[j] = b
    BY <1>3 DEF Older
  <2>2. PICK k, l \in 1..Len(created) : k < l /\ created[k] = b /\ created[l] = c
    BY <1>3 DEF Older
  <2>3. j = k
    BY <2>1, <2>2 DEF CreatedOnce
  <2>4. i < l
    BY <1>1, <2>1, <2>2, <2>3
  <2> QED
    BY <2>1, <2>2, <2>4 DEF Older
<1> QED
  BY <1>2, <1>3

\* Finitely many actions are older than another one.
LEMMA OlderIsFinite ==
  ASSUME TypeOK, NEW b \in Actions
  PROVE  IsFiniteSet({x \in Waiting : Older(x, b)})
<1> DEFINE I == 1..Len(created)
           f == [i \in I |-> created[i]]
           T == {f[i] : i \in I}
<1>1. Len(created) \in Nat
  BY DEF TypeOK
<1>2. IsFiniteSet(I)
  BY <1>1, FS_Interval
<1>3. f \in Surjection(I, T)
  BY DEF Surjection
<1>4. IsFiniteSet(T)
  <2> HIDE DEF f, T, I
  <2> QED
    BY <1>2, <1>3, FS_Surjection
<1>5. {x \in Waiting : Older(x, b)} \in SUBSET T
  <2>1. \A x : Older(x, b) => x \in T
    BY DEF Older
  <2> QED
    BY <2>1
<1> QED
  <2> HIDE DEF T
  <2> QED
    BY <1>4, <1>5, FS_Subset

\* Whoever waits and is older than an action that is next up is next up too.
LEMMA NextUpIsOldest ==
  ASSUME TypeOK, CreatedOnce,
         NEW a \in Waiting, NEW b \in NextUp, Older(a, b)
  PROVE  a \in NextUp
<1> DEFINE Before(x) == {y \in Waiting : Older(y, x)}
<1>1. a \in Actions /\ b \in Actions
  BY DEF Waiting, NextUp
<1>2. Before(a) \in SUBSET Before(b)
  BY <1>1, OlderIsAnOrder DEF Waiting
<1>3. IsFiniteSet(Before(b))
  BY <1>1, OlderIsFinite
<1>4. IsFiniteSet(Before(a)) /\ Cardinality(Before(a)) <= Cardinality(Before(b))
  <2> HIDE DEF Before
  <2> QED
    BY <1>2, <1>3, FS_Subset
<1>5. Cardinality(Before(a)) \in Nat /\ Cardinality(Before(b)) \in Nat
  <2> HIDE DEF Before
  <2> QED
    BY <1>3, <1>4, FS_CardinalityType
<1>6. Cardinality(Before(b)) < Limit
  BY DEF NextUp
<1>7. Cardinality(Before(a)) < Limit
  <2> HIDE DEF Before
  <2> QED
    BY <1>4, <1>5, <1>6
<1> QED
  BY <1>7 DEF NextUp

\* Only a poll claims, and it claims what is next up.
LEMMA ClaimsOldestFirst ==
  ASSUME TypeOK, CreatedOnce, [Next]_vars, NEW a \in Actions, NEW b \in Actions,
         Older(a, b), status[a] = "pending",
         status[b] = "pending", status'[b] = "claimed"
  PROVE  status'[a] = "claimed"
<1> USE DEF rowVars, Outcomes, Terminal, Unfinished
<1>1. CASE ClaimPendingDeviceActions
  <2>1. status' = [x \in Actions |->
                     IF x \in NextUp THEN "claimed"
                     ELSE IF Stale(x) THEN "pending" ELSE status[x]]
    BY <1>1 DEF ClaimPendingDeviceActions
  <2>2. b \in NextUp
    BY <2>1
  <2>3. a \in Waiting
    BY DEF Waiting
  <2>4. a \in NextUp
    BY <2>2, <2>3, NextUpIsOldest
  <2> QED
    BY <2>1, <2>4
<1>2. ASSUME NEW c \in Actions, CreateDeviceAction(c)
      PROVE  FALSE
  BY <1>2 DEF CreateDeviceAction, TypeOK
<1>3. ASSUME NEW r \in Reports, CommitStatus(r)
      PROVE  FALSE
  <2>1. post[r] \in Sent
    BY <1>3, AdvanceType DEF CommitStatus, At
  <2> QED
    BY <1>3, <2>1 DEF CommitStatus, TypeOK, Sent
<1>4. CASE ClearDeviceActions \/ ExpireStaleDeviceActions
  BY <1>4 DEF ClearDeviceActions, ExpireStaleDeviceActions
<1>5. CASE \/ \E c \in Actions :
                \/ Tick(c)
                \/ \E outcome \in Outcomes : Finish(c, outcome)
                \/ \E r \in Reports : Post(r, c)
           \/ \E r \in Reports : StoreActionResult(r) \/ Notify(r) \/ WorkerDies(r)
           \/ UNCHANGED vars
  BY <1>5 DEF Tick, Finish, Post, StoreActionResult, Notify, WorkerDies, vars
<1> QED
  BY <1>1, <1>2, <1>3, <1>4, <1>5 DEF Next

\* A poll takes no action while an older one stays in the queue, however
\* many there are and whatever Limit is
\* (PostgresStore.claim_pending_device_actions).
THEOREM OldestGoFirst == Spec => OldestFirst
<1>1. Init => CreatedOnce
  BY InitCreatedOnce
<1>2. TypeOK /\ CreatedOnce /\ [Next]_vars => CreatedOnce'
  BY NextCreatedOnce
<1>3. TypeOK /\ CreatedOnce /\ [Next]_vars =>
        [\A a, b \in Actions :
           /\ Older(a, b) /\ status[a] = "pending"
           /\ status[b] = "pending" /\ status'[b] = "claimed"
           => status'[a] = "claimed"]_vars
  BY ClaimsOldestFirst
<1> QED
  BY <1>1, <1>2, <1>3, TypeCorrect, PTL DEF Spec, OldestFirst
=============================================================================
