--------------------- MODULE NotificationDelivery_proofs ---------------------
(***************************************************************************)
(* That a digest tells of a notification at most once per time its row was *)
(* queued, for any number of instances, notifications, calls and faults,   *)
(* and that no mirror takes back that a notification was read.             *)
(***************************************************************************)
EXTENDS NotificationDelivery, FiniteSetTheorems, TLAPS

USE JobsAssumption, BoundsAssumption DEF BoundsAssumption

RowStates == {"none"} \cup Delivery

\* The runs that are about to tell of x, and the row that may yet be claimed:
\* each of them has a queuing of its own to show for it.
Holders(x) == {p \in Procs : stage[p] = "taken" /\ x \in batch[p]}
Queued(x) == IF row[x] = "pending" THEN 1 ELSE 0
Owed == \A x \in Notes \ unclaimed : Cardinality(Holders(x)) + Queued(x) <= due[x]

IInv == TypeOK /\ Owed

-----------------------------------------------------------------------------
(* Types.                                                                  *)

\* A process that takes a step moves on to a stage.
LEMMA StepType ==
  ASSUME TypeOK, NEW p \in Procs, NEW from, NEW to \in Stages, Step(p, from, to)
  PROVE  stage' \in [Procs -> Stages]
BY DEF Step, TypeOK

\* A fault is counted, or there is none.
LEMMA FaultType ==
  ASSUME TypeOK, Fault \/ UNCHANGED faults
  PROVE  faults' \in 0..MaxFaults
BY DEF Fault, TypeOK

\* Writing the rows keeps their type, and that of their history.
LEMMA SetRowsType ==
  ASSUME TypeOK, NEW r \in [Notes -> RowStates], SetRows(r)
  PROVE  row' \in [Notes -> RowStates] /\ due' \in [Notes -> Int]
BY DEF SetRows, TypeOK, RowStates

\* The lean insert keeps the types.
LEMMA InsertType ==
  ASSUME TypeOK, NEW x \in Notes, InsertNotification(x)
  PROVE  /\ row' \in [Notes -> RowStates] /\ due' \in [Notes -> Int]
         /\ faults' \in 0..MaxFaults
<1>1. [row EXCEPT ![x] = "pending"] \in [Notes -> RowStates]
  BY DEF TypeOK, RowStates, Delivery
<1>2. CASE SetRows([row EXCEPT ![x] = "pending"]) /\ UNCHANGED faults
  BY <1>1, <1>2, SetRowsType, FaultType
<1>3. CASE Fault /\ UNCHANGED <<row, due>>
  BY <1>3, FaultType DEF TypeOK, RowStates
<1> QED
  BY <1>2, <1>3 DEF InsertNotification

\* What memory mirrors is a value for the rows.
LEMMA MirrorType ==
  ASSUME TypeOK, NEW p \in Procs
  PROVE  [x \in Notes |-> IF mem[p][x] = "absent" THEN row[x] ELSE mem[p][x]]
           \in [Notes -> RowStates]
BY DEF TypeOK, RowStates, Delivery

\* What a claim leaves in the rows is a value for them.
LEMMA ClaimType ==
  ASSUME TypeOK, NEW S
  PROVE  [x \in Notes |-> IF x \in S THEN "done" ELSE row[x]] \in [Notes -> RowStates]
BY DEF TypeOK, RowStates, Delivery

\* A process that retires notifications in memory still has a memory.
LEMMA RetireType ==
  ASSUME TypeOK, NEW p \in Procs, NEW S, RetireInMemory(p, S)
  PROVE  mem' \in [Procs -> [Notes -> {"absent"} \cup Delivery]]
BY DEF TypeOK, RetireInMemory, Delivery

\* The oldest of a set are of that set, and what memory calls pending exists.
LEMMA ClaimsAreNotes ==
  ASSUME NEW p \in Procs
  PROVE  /\ Oldest(Pending(p)) \subseteq Notes
         /\ \A S : Oldest(Claimable(p) \ S) \subseteq {x \in Notes : row[x] = "pending"}
BY DEF Oldest, Pending, Claimable

\* A run that takes notifications has a batch of them.
LEMMA TakeType ==
  ASSUME TypeOK, NEW p \in Procs, NEW S \in SUBSET Notes, Take(p, S)
  PROVE  stage' \in [Procs -> Stages] /\ batch' \in [Procs -> SUBSET Notes]
<1>1. (IF S = {} THEN "idle" ELSE "taken") \in Stages
  BY DEF Stages
<1>2. stage' \in [Procs -> Stages]
  BY <1>1, StepType DEF Take
<1> QED
  BY <1>2 DEF Take, TypeOK

\* No step leaves the types.
LEMMA TypesKept == TypeOK /\ [Next]_vars => TypeOK'
<1> SUFFICES ASSUME TypeOK, [Next]_vars PROVE TypeOK'
  OBVIOUS
<1> USE DEF rowVars, procVars, historyVars
<1>1. ASSUME NEW p \in Procs, NEW x \in Notes, AddSwarmNotification(p, x) PROVE TypeOK'
  <2>1. stage' \in [Procs -> Stages]
    BY <1>1, StepType DEF AddSwarmNotification, Stages
  <2>2. created' \in Seq(Notes)
    BY <1>1 DEF AddSwarmNotification, Occurs, TypeOK
  <2>3. mem' \in [Procs -> [Notes -> {"absent"} \cup Delivery]]
    BY <1>1 DEF AddSwarmNotification, TypeOK, Delivery
  <2> QED
    BY <1>1, <2>1, <2>2, <2>3, InsertType DEF AddSwarmNotification, TypeOK, RowStates
<1>2. ASSUME NEW x \in Notes, EmitReachabilityNotification(x) PROVE TypeOK'
  <2>1. created' \in Seq(Notes)
    BY <1>2 DEF EmitReachabilityNotification, Occurs, TypeOK
  <2> QED
    BY <1>2, <2>1, InsertType DEF EmitReachabilityNotification, TypeOK, RowStates
<1>3. ASSUME NEW p \in Procs, PersistingCall(p) PROVE TypeOK'
  <2>1. stage' \in [Procs -> Stages]
    BY <1>3, StepType DEF PersistingCall, Stages
  <2>2. calls' \in 0..MaxCalls
    BY <1>3 DEF PersistingCall, TypeOK
  <2> QED
    BY <1>3, <2>1, <2>2 DEF PersistingCall, TypeOK
<1>4. ASSUME NEW p \in Procs, PersistState(p) PROVE TypeOK'
  <2>1. stage' \in [Procs -> Stages]
    BY <1>4, StepType DEF PersistState, Stages
  <2>2. faults' \in 0..MaxFaults
    BY <1>4, FaultType DEF PersistState
  <2>3. row' \in [Notes -> RowStates] /\ due' \in [Notes -> Int]
    BY <1>4, MirrorType, SetRowsType DEF PersistState, TypeOK, RowStates
  <2>4. seen' \in [Notes -> {"new", "read", "dismissed"}]
    BY <1>4 DEF PersistState, Recipients, TypeOK
  <2> QED
    BY <1>4, <2>1, <2>2, <2>3, <2>4 DEF PersistState, TypeOK, RowStates
<1>5. ASSUME NEW p \in Procs, Hydrate(p) PROVE TypeOK'
  <2>1. stage' \in [Procs -> Stages]
    BY <1>5, StepType DEF Hydrate, Stages
  <2>2. faults' \in 0..MaxFaults
    BY <1>5, FaultType DEF Hydrate
  <2>3. Loaded \in [Notes -> {"absent"} \cup Delivery] /\ LoadedRead \in SUBSET Notes
    BY DEF Loaded, LoadedRead, Delivery
  <2>4. mem' \in [Procs -> [Notes -> {"absent"} \cup Delivery]] /\ memRead' \in [Procs -> SUBSET Notes]
    BY <1>5, <2>3 DEF Hydrate, TypeOK
  <2> QED
    BY <1>5, <2>1, <2>2, <2>4 DEF Hydrate, TypeOK
<1>6. ASSUME NEW p \in Procs, ClaimPendingNotifications(p) PROVE TypeOK'
  <2>1. PICK S : /\ Take(p, Oldest(Claimable(p) \ S))
                 /\ SetRows([x \in Notes |-> IF x \in Oldest(Claimable(p) \ S) THEN "done" ELSE row[x]])
                 /\ RetireInMemory(p, Oldest(Claimable(p) \ S))
    BY <1>6 DEF ClaimPendingNotifications
  <2>2. stage' \in [Procs -> Stages] /\ batch' \in [Procs -> SUBSET Notes]
    BY <2>1, ClaimsAreNotes, TakeType
  <2>3. row' \in [Notes -> RowStates] /\ due' \in [Notes -> Int]
    BY <2>1, ClaimType, SetRowsType
  <2>4. mem' \in [Procs -> [Notes -> {"absent"} \cup Delivery]]
    BY <2>1, RetireType
  <2> QED
    BY <1>6, <2>2, <2>3, <2>4 DEF ClaimPendingNotifications, TypeOK, RowStates
<1>7. ASSUME NEW p \in Procs, GoOnUnclaimed(p) PROVE TypeOK'
  <2>1. stage' \in [Procs -> Stages] /\ batch' \in [Procs -> SUBSET Notes]
    BY <1>7, ClaimsAreNotes, TakeType DEF GoOnUnclaimed
  <2>2. faults' \in 0..MaxFaults
    BY <1>7, FaultType DEF GoOnUnclaimed
  <2> QED
    BY <1>7, <2>1, <2>2, ClaimsAreNotes DEF GoOnUnclaimed, TypeOK
<1>8. ASSUME NEW p \in Procs, RunAborts(p) PROVE TypeOK'
  <2>1. stage' \in [Procs -> Stages]
    BY <1>8, StepType DEF RunAborts, Stages
  <2>2. faults' \in 0..MaxFaults
    BY <1>8, FaultType DEF RunAborts
  <2> QED
    BY <1>8, <2>1, <2>2 DEF RunAborts, TypeOK
<1>9. ASSUME NEW p \in Procs, SendDigest(p) PROVE TypeOK'
  <2>1. stage' \in [Procs -> Stages]
    BY <1>9, StepType DEF SendDigest, Stages
  <2>2. due' \in [Notes -> Int]
    BY <1>9 DEF SendDigest, TypeOK
  <2>3. mem' \in [Procs -> [Notes -> {"absent"} \cup Delivery]]
    BY <1>9, RetireType DEF SendDigest
  <2> QED
    BY <1>9, <2>1, <2>2, <2>3 DEF SendDigest, TypeOK
<1>10. ASSUME NEW x \in Notes, MarkNotificationRead(x) \/ DismissNotification(x) PROVE TypeOK'
  BY <1>10 DEF MarkNotificationRead, DismissNotification, SetRead, SetDismissed, TypeOK
<1>11. ASSUME NEW p \in Procs, Recycled(p) PROVE TypeOK'
  <2>1. faults' \in 0..MaxFaults
    BY <1>11, FaultType DEF Recycled
  <2>2. mem' \in [Procs -> [Notes -> {"absent"} \cup Delivery]] /\ memRead' \in [Procs -> SUBSET Notes]
    BY <1>11 DEF Recycled, Forgotten, TypeOK
  <2>3. stage' \in [Procs -> Stages] /\ batch' \in [Procs -> SUBSET Notes]
    BY <1>11 DEF Recycled, Stages, TypeOK
  <2> QED
    BY <1>11, <2>1, <2>2, <2>3 DEF Recycled, TypeOK
<1>12. CASE UNCHANGED vars
  BY <1>12 DEF vars, TypeOK
<1> QED
  BY <1>1, <1>2, <1>3, <1>4, <1>5, <1>6, <1>7, <1>8, <1>9, <1>10, <1>11, <1>12 DEF Next, Run

-----------------------------------------------------------------------------
(* What is owed.                                                           *)

\* There are finitely many holders.
LEMMA HoldersFinite ==
  ASSUME NEW x
  PROVE  IsFiniteSet(Holders(x)) /\ Cardinality(Holders(x)) \in Nat
<1>1. Holders(x) \in SUBSET Procs
  BY DEF Holders
<1> QED
  BY <1>1, ProcsAssumption, FS_Subset, FS_CardinalityType DEF ProcsAssumption

\* Writing the rows queues no more than it records.
LEMMA SetRowsOwes ==
  ASSUME TypeOK, NEW r \in [Notes -> RowStates], SetRows(r), NEW x \in Notes
  PROVE  Queued(x)' - Queued(x) <= due'[x] - due[x]
BY DEF SetRows, Queued, TypeOK

\* With no more holders, and no more queued than recorded, what is owed is
\* kept.
LEMMA OwedKept ==
  ASSUME TypeOK, TypeOK', NEW x \in Notes, Cardinality(Holders(x)) + Queued(x) <= due[x],
         Holders(x)' \subseteq Holders(x),
         Queued(x)' - Queued(x) <= due'[x] - due[x]
  PROVE  Cardinality(Holders(x)') + Queued(x)' <= due'[x]
<1>1. Cardinality(Holders(x)') \in Nat /\ Cardinality(Holders(x)') <= Cardinality(Holders(x))
  BY HoldersFinite, FS_Subset, FS_CardinalityType
<1>2. Queued(x) \in Int /\ Queued(x)' \in Int /\ due[x] \in Int /\ due'[x] \in Int
  BY DEF Queued, TypeOK
<1> QED
  BY <1>1, <1>2, HoldersFinite

\* A step that does not take p to its batch gives x no new holder.
LEMMA HoldersShrink ==
  ASSUME TypeOK, NEW p \in Procs, NEW from, NEW to, to # "taken", Step(p, from, to),
         UNCHANGED batch, NEW x
  PROVE  Holders(x)' \subseteq Holders(x)
BY DEF Step, Holders, TypeOK

\* The lean insert queues no more than it records.
LEMMA InsertOwes ==
  ASSUME TypeOK, NEW x \in Notes, InsertNotification(x), NEW y \in Notes
  PROVE  Queued(y)' - Queued(y) <= due'[y] - due[y]
<1>1. [row EXCEPT ![x] = "pending"] \in [Notes -> RowStates]
  BY DEF TypeOK, RowStates, Delivery
<1>2. CASE UNCHANGED <<row, due>>
  BY <1>2 DEF Queued, TypeOK
<1> QED
  BY <1>1, <1>2, SetRowsOwes DEF InsertNotification

\* A claim turns the queued row into a holder.
LEMMA ClaimOwes ==
  ASSUME IInv, TypeOK', NEW p \in Procs, ClaimPendingNotifications(p)
  PROVE  Owed'
<1>1. PICK S : /\ Take(p, Oldest(Claimable(p) \ S))
               /\ SetRows([x \in Notes |-> IF x \in Oldest(Claimable(p) \ S) THEN "done" ELSE row[x]])
  BY DEF ClaimPendingNotifications
<1> DEFINE claimed == Oldest(Claimable(p) \ S)
<1> SUFFICES ASSUME NEW x \in Notes, x \notin unclaimed'
             PROVE  Cardinality(Holders(x)') + Queued(x)' <= due'[x]
  BY DEF Owed
<1>2. x \notin unclaimed
  BY DEF ClaimPendingNotifications
<1>3. Cardinality(Holders(x)) + Queued(x) <= due[x]
  BY <1>2 DEF IInv, Owed
<1>4. stage[p] = "hydrated" /\ p \notin Holders(x)
  BY <1>1 DEF Take, Step, Holders
<1>5. CASE x \in claimed
  <2>1. Holders(x)' = Holders(x) \cup {p}
    BY <1>1, <1>4, <1>5 DEF Take, Step, Holders, IInv, TypeOK
  <2>2. Cardinality(Holders(x)') = Cardinality(Holders(x)) + 1
    BY <2>1, <1>4, HoldersFinite, FS_AddElement
  <2>3. row[x] = "pending" /\ row'[x] = "done"
    BY <1>1, <1>5, ClaimsAreNotes DEF SetRows
  <2>4. due'[x] = due[x] /\ due[x] \in Int
    BY <1>1, <1>5 DEF SetRows, IInv, TypeOK
  <2>5. Queued(x) = 1 /\ Queued(x)' = 0
    BY <2>3 DEF Queued
  <2> QED
    BY <2>2, <2>4, <2>5, <1>3, HoldersFinite
<1>6. CASE x \notin claimed
  <2>1. Holders(x)' \subseteq Holders(x)
    BY <1>1, <1>6 DEF Take, Step, Holders, IInv, TypeOK
  <2>2. Queued(x)' - Queued(x) <= due'[x] - due[x]
    BY <1>1, ClaimType, SetRowsOwes DEF IInv
  <2> QED
    BY <2>1, <2>2, <1>3, OwedKept DEF IInv
<1> QED
  BY <1>5, <1>6

\* A digest tells of what it holds, and then holds it no more.
LEMMA DigestOwes ==
  ASSUME IInv, TypeOK', NEW p \in Procs, SendDigest(p)
  PROVE  Owed'
<1>1. PICK told \in SUBSET (batch[p] \ memRead[p]) :
        due' = [x \in Notes |-> IF x \in told THEN due[x] - 1 ELSE due[x]]
  BY DEF SendDigest
<1> SUFFICES ASSUME NEW x \in Notes, x \notin unclaimed'
             PROVE  Cardinality(Holders(x)') + Queued(x)' <= due'[x]
  BY DEF Owed
<1>2. Cardinality(Holders(x)) + Queued(x) <= due[x]
  BY DEF SendDigest, IInv, Owed
<1>3. Holders(x)' = Holders(x) \ {p}
  BY DEF SendDigest, Step, Holders, IInv, TypeOK
<1>4. Queued(x)' = Queued(x)
  BY DEF SendDigest, Queued, rowVars
<1>5. CASE x \in told
  <2>1. p \in Holders(x)
    BY <1>5 DEF SendDigest, Step, Holders
  <2>2. Cardinality(Holders(x)') = Cardinality(Holders(x)) - 1
    BY <2>1, <1>3, HoldersFinite, FS_RemoveElement
  <2>3. due'[x] = due[x] - 1 /\ due[x] \in Int
    BY <1>1, <1>5 DEF IInv, TypeOK
  <2>4. Queued(x) \in Int
    BY DEF Queued
  <2> QED
    BY <2>2, <2>3, <2>4, <1>2, <1>4, HoldersFinite
<1>6. CASE x \notin told
  <2>1. due'[x] = due[x] /\ due[x] \in Int /\ Queued(x) \in Int
    BY <1>1, <1>6 DEF IInv, TypeOK, Queued
  <2>2. Queued(x)' - Queued(x) <= due'[x] - due[x]
    BY <2>1, <1>4
  <2> QED
    BY <2>2, <1>2, <1>3, OwedKept DEF IInv
<1> QED
  BY <1>5, <1>6

\* No step owes more than was queued.
LEMMA NextKeeps == IInv /\ [Next]_vars => IInv'
<1> SUFFICES ASSUME IInv, [Next]_vars PROVE IInv'
  OBVIOUS
<1> USE DEF rowVars, procVars, historyVars
<1>1. TypeOK /\ TypeOK' /\ Owed
  BY TypesKept DEF IInv
<1>2. ASSUME unclaimed \subseteq unclaimed',
             \A x \in Notes \ unclaimed' :
               /\ Holders(x)' \subseteq Holders(x)
               /\ Queued(x)' - Queued(x) <= due'[x] - due[x]
      PROVE  Owed'
  BY <1>1, <1>2, OwedKept DEF Owed
<1>3. UNCHANGED <<row, due>> => \A x \in Notes : Queued(x)' - Queued(x) <= due'[x] - due[x]
  BY <1>1 DEF Queued, TypeOK
<1>4. ASSUME NEW p \in Procs, NEW x \in Notes, AddSwarmNotification(p, x) PROVE Owed'
  <2>1. Step(p, "idle", "mirror") /\ InsertNotification(x) /\ UNCHANGED <<batch, unclaimed>>
    BY <1>4 DEF AddSwarmNotification
  <2>2. \A y \in Notes : Holders(y)' \subseteq Holders(y)
    BY <1>1, <2>1, HoldersShrink
  <2>3. \A y \in Notes : Queued(y)' - Queued(y) <= due'[y] - due[y]
    BY <1>1, <2>1, InsertOwes
  <2> QED
    BY <1>2, <2>1, <2>2, <2>3
<1>5. ASSUME NEW x \in Notes, EmitReachabilityNotification(x) PROVE Owed'
  <2>1. InsertNotification(x) /\ UNCHANGED <<stage, batch, unclaimed>>
    BY <1>5 DEF EmitReachabilityNotification
  <2>2. \A y \in Notes : Queued(y)' - Queued(y) <= due'[y] - due[y]
    BY <1>1, <2>1, InsertOwes
  <2> QED
    BY <1>2, <2>1, <2>2 DEF Holders
<1>6. ASSUME NEW p \in Procs, PersistingCall(p) PROVE Owed'
  <2>1. Step(p, "idle", "mirror") /\ UNCHANGED <<row, due, batch, unclaimed>>
    BY <1>6 DEF PersistingCall
  <2>2. \A y \in Notes : Holders(y)' \subseteq Holders(y)
    BY <1>1, <2>1, HoldersShrink
  <2> QED
    BY <1>2, <1>3, <2>1, <2>2
<1>7. ASSUME NEW p \in Procs, PersistState(p) PROVE Owed'
  <2>1. Step(p, "mirror", "idle") /\ UNCHANGED <<batch, unclaimed>>
    BY <1>7 DEF PersistState
  <2>2. \A y \in Notes : Holders(y)' \subseteq Holders(y)
    BY <1>1, <2>1, HoldersShrink
  <2>3. \A y \in Notes : Queued(y)' - Queued(y) <= due'[y] - due[y]
    BY <1>1, <1>3, <1>7, MirrorType, SetRowsOwes DEF PersistState
  <2> QED
    BY <1>2, <2>1, <2>2, <2>3
<1>8. ASSUME NEW p \in Procs, Hydrate(p) PROVE Owed'
  <2>1. Step(p, "idle", "hydrated") /\ UNCHANGED <<row, due, batch, unclaimed>>
    BY <1>8 DEF Hydrate
  <2>2. \A y \in Notes : Holders(y)' \subseteq Holders(y)
    BY <1>1, <2>1, HoldersShrink
  <2> QED
    BY <1>2, <1>3, <2>1, <2>2
<1>9. ASSUME NEW p \in Procs, GoOnUnclaimed(p) PROVE Owed'
  <2>1. Take(p, Oldest(Pending(p))) /\ UNCHANGED <<row, due>>
        /\ unclaimed' = unclaimed \cup Oldest(Pending(p))
    BY <1>9 DEF GoOnUnclaimed
  <2>2. \A y \in Notes \ unclaimed' : Holders(y)' \subseteq Holders(y)
    BY <1>1, <2>1 DEF Take, Step, Holders, TypeOK
  <2> QED
    BY <1>2, <1>3, <2>1, <2>2
<1>10. ASSUME NEW p \in Procs, RunAborts(p) PROVE Owed'
  <2>1. Step(p, "hydrated", "idle") /\ UNCHANGED <<row, due, batch, unclaimed>>
    BY <1>10 DEF RunAborts
  <2>2. \A y \in Notes : Holders(y)' \subseteq Holders(y)
    BY <1>1, <2>1, HoldersShrink
  <2> QED
    BY <1>2, <1>3, <2>1, <2>2
<1>11. ASSUME NEW x \in Notes, MarkNotificationRead(x) \/ DismissNotification(x) PROVE Owed'
  BY <1>2, <1>3, <1>11 DEF MarkNotificationRead, DismissNotification, Holders
<1>12. ASSUME NEW p \in Procs, Recycled(p) PROVE Owed'
  <2>1. \A y \in Notes : Holders(y)' \subseteq Holders(y)
    BY <1>1, <1>12 DEF Recycled, Holders, TypeOK
  <2> QED
    BY <1>2, <1>3, <1>12, <2>1 DEF Recycled
<1>13. CASE UNCHANGED vars
  <2>1. UNCHANGED <<row, due, stage, batch, unclaimed>>
    BY <1>13 DEF vars
  <2>2. \A y \in Notes : Holders(y)' \subseteq Holders(y)
    BY <2>1 DEF Holders
  <2> QED
    BY <1>1, <1>2, <1>3, <2>1, <2>2 DEF IInv
<1> QED
  BY <1>1, <1>4, <1>5, <1>6, <1>7, <1>8, <1>9, <1>10, <1>11, <1>12, <1>13, ClaimOwes, DigestOwes
     DEF IInv, Next, Run

\* At the start nothing is owed.
LEMMA InitKeeps == Init => IInv
<1> SUFFICES ASSUME Init PROVE IInv
  OBVIOUS
<1>1. TypeOK
  BY DEF Init, TypeOK, Forgotten, Stages, Delivery
<1>2. ASSUME NEW x \in Notes PROVE Cardinality(Holders(x)) + Queued(x) <= due[x]
  <2>1. Holders(x) = {} /\ Queued(x) = 0 /\ due[x] = 0
    BY DEF Init, Holders, Queued
  <2> QED
    BY <2>1, FS_EmptySet
<1> QED
  BY <1>1, <1>2 DEF IInv, Owed

\* The inductive invariant holds of every behaviour.
THEOREM InductiveInvariant == Spec => []IInv
BY InitKeeps, NextKeeps, PTL DEF Spec

\* Every variable keeps its type.
THEOREM TypeCorrect == Spec => []TypeOK
<1>1. IInv => TypeOK
  BY DEF IInv
<1> QED
  BY <1>1, InductiveInvariant, PTL

\* However many digest runs overlap, and however often stale mirrors queue a
\* row again, a digest tells of a notification at most once per queuing.
THEOREM OneDigest == Spec => []OneDigestPerQueuing
<1>1. IInv => OneDigestPerQueuing
  <2> SUFFICES ASSUME IInv, NEW x \in Notes \ unclaimed PROVE due[x] >= 0
    BY DEF OneDigestPerQueuing
  <2>1. Cardinality(Holders(x)) + Queued(x) <= due[x]
    BY DEF IInv, Owed
  <2>2. Queued(x) >= 0 /\ Queued(x) \in Int /\ due[x] \in Int
    BY DEF Queued, IInv, TypeOK
  <2> QED
    BY <2>1, <2>2, HoldersFinite
<1> QED
  BY <1>1, InductiveInvariant, PTL

\* No mirror, and no user, makes a notification unread again.
THEOREM ReadMarksSurvive == Spec => ReadStaysRead
<1> DEFINE Stays == \A x \in Notes : seen[x] # "new" => seen'[x] # "new"
<1>1. TypeOK /\ [Next]_vars => [Stays]_vars
  <2> SUFFICES ASSUME TypeOK, Next PROVE Stays
    OBVIOUS
  <2>1. ASSUME NEW p \in Procs, PersistState(p) PROVE Stays
    BY <2>1 DEF PersistState, Recipients, TypeOK
  <2>2. ASSUME NEW x \in Notes, MarkNotificationRead(x) \/ DismissNotification(x) PROVE Stays
    BY <2>2 DEF MarkNotificationRead, DismissNotification, SetRead, SetDismissed, TypeOK
  <2>3. CASE UNCHANGED seen
    BY <2>3
  <2> QED
    BY <2>1, <2>2, <2>3
       DEF Next, Run, AddSwarmNotification, EmitReachabilityNotification, PersistingCall, Hydrate,
           ClaimPendingNotifications, GoOnUnclaimed, RunAborts, SendDigest, Recycled, rowVars
<1> QED
  BY <1>1, TypeCorrect, PTL DEF Spec, ReadStaysRead
=============================================================================
