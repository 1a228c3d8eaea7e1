----------------------- MODULE TransferSessions_proofs -----------------------
(***************************************************************************)
(* That a row of transfer_sessions says what the relay reported, whatever  *)
(* order the reports and the sweep come in, and moves by them alone, for   *)
(* any number of sessions, connections, reports and faults.                *)
(***************************************************************************)
EXTENDS TransferSessions, Integers, TLAPS

USE BoundsAssumption, NoRowAssumption DEF BoundsAssumption, NoRowAssumption

Statuses == {"active", "completed", "aborted"}

\* What is reported, and what is on its way, was said by the relay; a row, a
\* leg and a report come after the token.
ReportsKnown == reports \in [Sessions -> Seq(Statuses)]
PoolReported == \A s \in Sessions, k \in 1..MaxReports : <<s, k>> \in pool => k \in 1..Len(reports[s])
RowHasToken == \A s \in Sessions : token[s] = "none" => row[s] = NoRow
PartyShape == party = [s \in Sessions |-> party[s]] /\ owed \in [Sessions -> Int]
Untouched ==
  \A s \in Sessions :
    token[s] = "none" => DOMAIN party[s] = {} /\ owed[s] = 0 /\ reports[s] = << >>

IInv ==
  /\ TypeOK /\ ReportsKnown /\ PoolReported /\ RowHasToken
  /\ PartyShape /\ Untouched /\ RowSaysWhatWasReported

\* The relay adds one report to one session, or none.
LEMMA OneReport ==
  ASSUME \/ \E s \in Sessions :
              \/ \E role \in Roles, c \in Conns : LegOpens(s, role, c)
              \/ SessionCloses(s) \/ AbortReported(s)
         \/ \E c \in Conns : ConnectionLeaves(c)
  PROVE  \/ UNCHANGED reports
         \/ \E s \in Sessions, status \in Statuses : Log(s, status)
<1>1. ASSUME NEW s \in Sessions, NEW role \in Roles, NEW c \in Conns, LegOpens(s, role, c)
      PROVE  UNCHANGED reports \/ Log(s, "active")
  BY <1>1 DEF LegOpens
<1>2. ASSUME NEW s \in Sessions, SessionCloses(s)
      PROVE  Log(s, "completed")
  BY <1>2 DEF SessionCloses
<1>3. ASSUME NEW s \in Sessions, AbortReported(s)
      PROVE  Log(s, "aborted")
  BY <1>3 DEF AbortReported
<1>4. ASSUME NEW c \in Conns, ConnectionLeaves(c)
      PROVE  UNCHANGED reports \/ \E s \in Sessions : Log(s, "aborted")
  BY <1>4 DEF ConnectionLeaves
<1> QED
  BY <1>1, <1>2, <1>3, <1>4 DEF Statuses

\* Reports are only ever added.
LEMMA ReportsGrow ==
  ASSUME ReportsKnown,
         UNCHANGED reports \/ \E s \in Sessions, status \in Statuses : Log(s, status)
  PROVE  ReportsKnown' /\ \A s \in Sessions : Len(reports[s]) \in Nat /\ Len(reports'[s]) \in Nat
                                              /\ Len(reports[s]) <= Len(reports'[s])
<1>1. CASE UNCHANGED reports
  BY <1>1 DEF ReportsKnown
<1>2. ASSUME NEW s \in Sessions, NEW status \in Statuses, Log(s, status)
      PROVE  ReportsKnown' /\ \A t \in Sessions : Len(reports[t]) \in Nat /\ Len(reports'[t]) \in Nat
                                                  /\ Len(reports[t]) <= Len(reports'[t])
  <2>1. reports' = [reports EXCEPT ![s] = Append(reports[s], status)]
    BY <1>2 DEF Log
  <2>2. reports[s] \in Seq(Statuses)
    BY DEF ReportsKnown
  <2>3. Append(reports[s], status) \in Seq(Statuses)
        /\ Len(Append(reports[s], status)) = Len(reports[s]) + 1
    BY <2>2
  <2>4. ReportsKnown'
    BY <2>1, <2>3 DEF ReportsKnown
  <2>5. \A t \in Sessions : reports[t] \in Seq(Statuses) /\ reports'[t] \in Seq(Statuses)
    BY <2>4 DEF ReportsKnown
  <2>6. \A t \in Sessions : t # s => reports'[t] = reports[t]
    BY <2>1 DEF ReportsKnown
  <2>7. reports'[s] = Append(reports[s], status)
    BY <2>1 DEF ReportsKnown
  <2>8. \A t \in Sessions : Len(reports[t]) \in Nat /\ Len(reports'[t]) \in Nat
    BY <2>5
  <2> QED
    BY <2>3, <2>4, <2>6, <2>7, <2>8
<1> QED
  BY <1>1, <1>2

\* No relay step touches a session that has not been created.
LEMMA UncreatedRests ==
  ASSUME PartyShape, ReportsKnown, Untouched, UNCHANGED token,
         \/ \E s \in Sessions :
              \/ token[s] # "none" /\ \E role \in Roles, c \in Conns : LegOpens(s, role, c)
              \/ SessionCloses(s) \/ AbortReported(s)
         \/ \E c \in Conns : ConnectionLeaves(c)
  PROVE  PartyShape' /\ Untouched'
<1>1. ASSUME NEW s \in Sessions, token[s] # "none",
             NEW role \in Roles, NEW c \in Conns, LegOpens(s, role, c)
      PROVE  PartyShape' /\ Untouched'
  <2>1. \A t \in Sessions : t # s => party'[t] = party[t] /\ reports'[t] = reports[t]
    BY <1>1 DEF LegOpens, Log, PartyShape, ReportsKnown
  <2>2. UNCHANGED owed /\ PartyShape'
    BY <1>1 DEF LegOpens, PartyShape
  <2> QED
    BY <1>1, <2>1, <2>2 DEF Untouched
<1>2. ASSUME NEW s \in Sessions, SessionCloses(s)
      PROVE  PartyShape' /\ Untouched'
  <2>1. \A t \in Sessions : t # s => party'[t] = party[t] /\ reports'[t] = reports[t]
    BY <1>2 DEF SessionCloses, Log, PartyShape, ReportsKnown
  <2>2. UNCHANGED owed /\ PartyShape' /\ DOMAIN party[s] # {}
    BY <1>2 DEF SessionCloses, PartyShape
  <2> QED
    BY <1>2, <2>1, <2>2 DEF Untouched
<1>3. ASSUME NEW s \in Sessions, AbortReported(s)
      PROVE  PartyShape' /\ Untouched'
  <2>1. \A t \in Sessions : t # s => owed'[t] = owed[t] /\ reports'[t] = reports[t]
    BY <1>3 DEF AbortReported, Log, PartyShape, ReportsKnown
  <2>2. UNCHANGED party /\ PartyShape' /\ owed[s] # 0
    BY <1>3 DEF AbortReported, PartyShape
  <2> QED
    BY <1>3, <2>1, <2>2 DEF Untouched
<1>4. ASSUME NEW c \in Conns, ConnectionLeaves(c)
      PROVE  PartyShape' /\ Untouched'
  <2> DEFINE broken == {s \in Sessions : LegsOf(s, c) # {} /\ DOMAIN Without(s, c) # {}}
  <2>1. party' = [s \in Sessions |-> Without(s, c)]
    BY <1>4 DEF ConnectionLeaves
  <2>2. \/ UNCHANGED <<owed, reports>>
        \/ \E first \in broken :
              /\ Log(first, "aborted")
              /\ owed' = [s \in Sessions |->
                   IF s \in broken \ {first} THEN owed[s] + 1 ELSE owed[s]]
    BY <1>4 DEF ConnectionLeaves
  <2>3. PartyShape'
    BY <2>1, <2>2 DEF PartyShape
  <2>4. ASSUME NEW t \in Sessions, DOMAIN party[t] = {}
        PROVE  DOMAIN party'[t] = {} /\ t \notin broken
    BY <2>1, <2>4 DEF Without, LegsOf
  <2>5. \A t \in Sessions : t \notin broken => owed'[t] = owed[t] /\ reports'[t] = reports[t]
    <3> HIDE DEF broken
    <3>1. broken \subseteq Sessions
      BY DEF broken
    <3> QED
      BY <2>2, <3>1 DEF Log, PartyShape, ReportsKnown
  <2> QED
    BY <2>3, <2>4, <2>5 DEF Untouched
<1> QED
  BY <1>1, <1>2, <1>3, <1>4

\* What has been reported is not changed.
LEMMA OldReports ==
  ASSUME ReportsKnown,
         UNCHANGED reports \/ \E s \in Sessions, status \in Statuses : Log(s, status),
         NEW t \in Sessions, NEW i \in 1..Len(reports[t])
  PROVE  reports'[t][i] = reports[t][i]
<1>1. reports[t] \in Seq(Statuses)
  BY DEF ReportsKnown
<1>2. CASE UNCHANGED reports
  BY <1>2
<1>3. ASSUME NEW s \in Sessions, NEW status \in Statuses, Log(s, status)
      PROVE  reports'[t][i] = reports[t][i]
  <2>1. reports'[t] = reports[t] \/ reports'[t] = Append(reports[t], status)
    BY <1>3 DEF Log, ReportsKnown
  <2> QED
    BY <1>1, <2>1
<1> QED
  BY <1>2, <1>3

\* A relay step queues the writes of what it reports, and moves no row.
LEMMA RelayKeeps ==
  ASSUME IInv, PartyShape', Untouched', UNCHANGED <<token, overdue, row, offered, faults>>,
         UNCHANGED reports \/ \E s \in Sessions, status \in Statuses : Log(s, status),
         \A s \in Sessions : Len(reports'[s]) <= MaxReports,
         pool' = pool \cup
           UNION {{s} \X (Len(reports[s]) + 1 .. Len(reports'[s])) : s \in Sessions}
  PROVE  IInv'
<1>1. ReportsKnown' /\ \A s \in Sessions : Len(reports[s]) \in Nat /\ Len(reports'[s]) \in Nat
                                           /\ Len(reports[s]) <= Len(reports'[s])
  BY ReportsGrow DEF IInv
<1>2. \A p \in pool' : p \in pool \/ \E s \in Sessions, k \in 1..MaxReports :
                                       p = <<s, k>> /\ k \in 1..Len(reports'[s])
  BY <1>1
<1>3. pool' \subseteq Sessions \X (1..MaxReports)
  BY <1>2 DEF IInv, TypeOK
<1>4. PoolReported'
  <2> SUFFICES ASSUME NEW s \in Sessions, NEW k \in 1..MaxReports, <<s, k>> \in pool'
               PROVE  k \in 1..Len(reports'[s])
    BY DEF PoolReported
  <2>1. CASE <<s, k>> \in pool
    BY <2>1, <1>1 DEF IInv, PoolReported
  <2>2. CASE <<s, k>> \notin pool
    BY <2>2, <1>2
  <2> QED
    BY <2>1, <2>2
<1>5. ASSUME NEW s \in Sessions
      PROVE  Written(s)' = Written(s)
  <2>1. \A i \in 1..Len(reports[s]) :
          /\ reports'[s][i] = reports[s][i]
          /\ <<s, i>> \in pool' <=> <<s, i>> \in pool
    <3>1. ASSUME NEW i \in 1..Len(reports[s])
          PROVE  reports'[s][i] = reports[s][i]
      BY OldReports DEF IInv
    <3>2. ASSUME NEW i \in 1..Len(reports[s]), <<s, i>> \in pool'
          PROVE  <<s, i>> \in pool
      BY <3>2, <1>1
    <3> QED
      BY <3>1, <3>2
  <2>2. \A i \in 1..Len(reports'[s]) : <<s, i>> \notin pool' => i \in 1..Len(reports[s])
    BY <1>1
  <2>3. 1..Len(reports[s]) \subseteq 1..Len(reports'[s])
    BY <1>1
  <2> QED
    BY <2>1, <2>2, <2>3 DEF Written
<1>6. RowSaysWhatWasReported'
  BY <1>5 DEF IInv, RowSaysWhatWasReported
<1> QED
  BY <1>1, <1>3, <1>4, <1>6 DEF IInv, TypeOK, RowHasToken

\* At the start there is nothing.
LEMMA InitKeeps == Init => IInv
<1> SUFFICES ASSUME Init PROVE IInv
  OBVIOUS
<1>1. ReportsKnown
  BY DEF Init, LifecycleInit, ReportsKnown
<1>2. PartyShape
  BY DEF Init, LifecycleInit, PartyShape
<1>3. Untouched
  BY DEF Init, LifecycleInit, Untouched
<1> QED
  BY <1>1, <1>2, <1>3 DEF Init, IInv, TypeOK, PoolReported, RowHasToken, RowSaysWhatWasReported

\* A report, when it commits, says what the relay said.
LEMMA CommitKnown ==
  ASSUME IInv, NEW s \in Sessions, NEW k \in 1..MaxReports, <<s, k>> \in pool
  PROVE  k \in 1..Len(reports[s]) /\ reports[s][k] \in Statuses
<1>1. k \in 1..Len(reports[s])
  BY DEF IInv, PoolReported
<1>2. reports[s] \in Seq(Statuses)
  BY DEF IInv, ReportsKnown
<1> QED
  BY <1>1, <1>2

\* A report that commits is one of what has been written then.
LEMMA CommitWrites ==
  ASSUME IInv, NEW s \in Sessions, NEW k \in 1..MaxReports, <<s, k>> \in pool,
         pool' = pool \ {<<s, k>>}, UNCHANGED reports
  PROVE  /\ Written(s)' = Written(s) \cup {reports[s][k]}
         /\ \A t \in Sessions : t # s => Written(t)' = Written(t)
<1>1. k \in 1..Len(reports[s])
  BY CommitKnown
<1> QED
  BY <1>1 DEF Written

\* What has been written was reported.
LEMMA WrittenKnown ==
  ASSUME IInv, NEW s \in Sessions
  PROVE  Written(s) \subseteq Statuses
<1>1. reports[s] \in Seq(Statuses)
  BY DEF IInv, ReportsKnown
<1>2. \A w \in Written(s) : \E i \in 1..Len(reports[s]) : w = reports[s][i]
  BY DEF Written
<1>3. \A i \in 1..Len(reports[s]) : reports[s][i] \in Statuses
  BY <1>1
<1> QED
  BY <1>2, <1>3

\* No step breaks it.
LEMMA NextKeeps == IInv /\ [Next]_vars => IInv'
<1> SUFFICES ASSUME IInv, [Next]_vars PROVE IInv'
  OBVIOUS
<1> DEFINE Rest == ReportsKnown /\ PoolReported /\ PartyShape /\ Untouched
<1>a. ASSUME UNCHANGED <<lifecycleVars, pool>>, \A s \in Sessions : token'[s] = "none" => token[s] = "none"
      PROVE  Rest' /\ \A s \in Sessions : Written(s)' = Written(s)
  BY <1>a DEF IInv, ReportsKnown, PoolReported, PartyShape, Untouched, Written, lifecycleVars
<1>1. ASSUME NEW s \in Sessions, CreateTransfer(s)
      PROVE  IInv'
  <2>1. /\ token[s] = "none" /\ token' = [token EXCEPT ![s] = "valid"]
        /\ \/ row' = [row EXCEPT ![s] = "offered"] /\ UNCHANGED faults
           \/ UNCHANGED row /\ faults < MaxFaults /\ faults' = faults + 1
        /\ UNCHANGED <<lifecycleVars, overdue, offered, pool>>
    BY <1>1 DEF CreateTransfer, Attempt
  <2>2. TypeOK'
    BY <2>1 DEF IInv, TypeOK, Pending
  <2>3. \A t \in Sessions : token'[t] = "none" => token[t] = "none"
    BY <2>1 DEF IInv, TypeOK
  <2>4. Rest' /\ \A t \in Sessions : Written(t)' = Written(t)
    BY <1>a, <2>1, <2>3
  <2>5. Written(s) = {}
    <3>1. reports[s] = << >>
      BY <2>1 DEF IInv, Untouched
    <3>2. \A w \in Written(s) : \E i \in 1..Len(reports[s]) : w = reports[s][i]
      BY DEF Written
    <3> QED
      BY <3>1, <3>2
  <2>6. \A t \in Sessions : t # s => token'[t] = token[t] /\ row'[t] = row[t]
    BY <2>1 DEF IInv, TypeOK
  <2>7. faults' = 0 => faults = 0 /\ row'[s] = "offered"
    BY <2>1 DEF IInv, TypeOK
  <2>8. token'[s] # "none"
    BY <2>1 DEF IInv, TypeOK
  <2>9. RowHasToken'
    BY <2>6, <2>8 DEF IInv, RowHasToken
  <2>10. RowSaysWhatWasReported'
    BY <2>4, <2>5, <2>6, <2>7 DEF IInv, RowSaysWhatWasReported
  <2> QED
    BY <2>2, <2>4, <2>9, <2>10 DEF IInv
<1>2. ASSUME NEW s \in Sessions, TokenExpires(s) \/ RowExpires(s) \/ TransferRequest(s)
      PROVE  IInv'
  <2>1. /\ UNCHANGED <<lifecycleVars, row, pool, faults>>
        /\ \A t \in Sessions : token'[t] = "none" <=> token[t] = "none"
    BY <1>2 DEF TokenExpires, RowExpires, TransferRequest, apiVars, IInv, TypeOK
  <2>2. TypeOK'
    BY <1>2 DEF TokenExpires, RowExpires, TransferRequest, apiVars, IInv, TypeOK
  <2>3. Rest' /\ \A t \in Sessions : Written(t)' = Written(t)
    BY <1>a, <2>1
  <2> QED
    BY <2>1, <2>2, <2>3 DEF IInv, RowHasToken, RowSaysWhatWasReported
<1>4. ASSUME NEW s \in Sessions, NEW role \in Roles, NEW c \in Conns, OpenLeg(s, role, c)
      PROVE  IInv'
  <2>1. PartyShape' /\ Untouched'
    BY <1>4, UncreatedRests DEF OpenLeg, RelayStep, apiVars, IInv
  <2> QED
    BY <1>4, <2>1, OneReport, RelayKeeps DEF OpenLeg, RelayStep, apiVars
<1>5. ASSUME NEW s \in Sessions, CloseSession(s) \/ ReportAbort(s)
      PROVE  IInv'
  <2>1. PartyShape' /\ Untouched'
    BY <1>5, UncreatedRests DEF CloseSession, ReportAbort, RelayStep, apiVars, IInv
  <2> QED
    BY <1>5, <2>1, OneReport, RelayKeeps DEF CloseSession, ReportAbort, RelayStep, apiVars
<1>6. ASSUME NEW c \in Conns, LoseConnection(c)
      PROVE  IInv'
  <2>1. PartyShape' /\ Untouched'
    BY <1>6, UncreatedRests DEF LoseConnection, RelayStep, apiVars, IInv
  <2> QED
    BY <1>6, <2>1, OneReport, RelayKeeps DEF LoseConnection, RelayStep, apiVars
<1>7. ASSUME NEW s \in Sessions, NEW k \in 1..MaxReports, UpdateTransferSession(s, k)
      PROVE  IInv'
  <2>1. /\ <<s, k>> \in pool /\ pool' = pool \ {<<s, k>>}
        /\ UNCHANGED <<lifecycleVars, token, overdue, offered>>
    BY <1>7 DEF UpdateTransferSession
  <2>2. reports[s][k] \in Statuses /\ UNCHANGED reports
    BY <2>1, CommitKnown DEF lifecycleVars
  <2>3. \/ UNCHANGED faults /\ row[s] = NoRow /\ UNCHANGED row
        \/ UNCHANGED faults /\ row[s] # NoRow /\ row' = [row EXCEPT ![s] = reports[s][k]]
        \/ UNCHANGED row /\ faults < MaxFaults /\ faults' = faults + 1
    BY <1>7 DEF UpdateTransferSession, Attempt
  <2>4. /\ faults' \in 0..MaxFaults
        /\ faults' = 0 => faults = 0 /\ (row[s] = NoRow \/ row'[s] = reports[s][k])
    BY <2>3 DEF IInv, TypeOK
  <2>5. /\ row' \in [Sessions -> Pending \cup Finished \cup {"expired", NoRow}]
        /\ \A t \in Sessions : t # s => row'[t] = row[t]
        /\ row'[s] = NoRow <=> row[s] = NoRow
    BY <2>2, <2>3 DEF IInv, TypeOK, Statuses, Pending, Finished
  <2>6. TypeOK'
    BY <2>1, <2>4, <2>5 DEF IInv, TypeOK
  <2>7. Rest'
    BY <2>1 DEF IInv, ReportsKnown, PoolReported, PartyShape, Untouched, lifecycleVars
  <2>8. RowHasToken'
    BY <2>1, <2>5 DEF IInv, RowHasToken
  <2>9. /\ Written(s)' = Written(s) \cup {reports[s][k]}
        /\ \A t \in Sessions : t # s => Written(t)' = Written(t)
    BY <2>1, <2>2, CommitWrites
  <2>10. RowSaysWhatWasReported'
    <3> SUFFICES ASSUME NEW t \in Sessions, faults' = 0, token'[t] # "none"
                 PROVE  \/ row'[t] \in Written(t)'
                        \/ row'[t] = "offered" /\ Written(t)' = {}
                        \/ row'[t] = "expired" /\ (Written(t)' = {} \/ "active" \in Written(t)')
      BY DEF RowSaysWhatWasReported
    <3>1. \/ row[t] \in Written(t)
          \/ row[t] = "offered" /\ Written(t) = {}
          \/ row[t] = "expired" /\ (Written(t) = {} \/ "active" \in Written(t))
      BY <2>1, <2>4 DEF IInv, RowSaysWhatWasReported
    <3>2. Written(t) \subseteq Statuses
      BY WrittenKnown
    <3>3. CASE t # s
      BY <2>5, <2>9, <3>1, <3>3
    <3>4. CASE t = s
      <4>1. row[s] # NoRow
        BY <3>1, <3>2, <3>4 DEF Statuses, Pending, Finished
      <4> QED
        BY <2>4, <2>9, <3>4, <4>1
    <3> QED
      BY <3>3, <3>4
  <2> QED
    BY <2>6, <2>7, <2>8, <2>10 DEF IInv
<1>8. CASE ExpireTransferSessions
  <2>1. /\ row' = [s \in Sessions |-> IF Swept(s) THEN "expired" ELSE row[s]]
        /\ UNCHANGED <<lifecycleVars, token, overdue, offered, pool, faults>>
    BY <1>8 DEF ExpireTransferSessions
  <2>2. TypeOK'
    BY <2>1 DEF IInv, TypeOK
  <2>3. Rest' /\ \A t \in Sessions : Written(t)' = Written(t)
    BY <1>a, <2>1
  <2>4. RowHasToken'
    BY <2>1 DEF IInv, RowHasToken, Swept, Pending
  <2>5. RowSaysWhatWasReported'
    <3> SUFFICES ASSUME NEW t \in Sessions, faults = 0, token[t] # "none"
                 PROVE  \/ row'[t] \in Written(t)
                        \/ row'[t] = "offered" /\ Written(t) = {}
                        \/ row'[t] = "expired" /\ (Written(t) = {} \/ "active" \in Written(t))
      BY <2>1, <2>3 DEF RowSaysWhatWasReported
    <3>1. \/ row[t] \in Written(t)
          \/ row[t] = "offered" /\ Written(t) = {}
          \/ row[t] = "expired" /\ (Written(t) = {} \/ "active" \in Written(t))
      BY DEF IInv, RowSaysWhatWasReported
    <3>2. Written(t) \subseteq Statuses
      BY WrittenKnown
    <3>3. row'[t] = row[t] \/ (row'[t] = "expired" /\ row[t] \in Pending)
      BY <2>1 DEF Swept
    <3> QED
      BY <3>1, <3>2, <3>3 DEF Pending, Statuses
  <2> QED
    BY <2>2, <2>3, <2>4, <2>5 DEF IInv
<1>9. CASE Crash
  <2>1. /\ party' = [s \in Sessions |-> << >>] /\ owed' = [s \in Sessions |-> 0]
        /\ faults < MaxFaults /\ faults' = faults + 1 /\ pool' = {}
        /\ UNCHANGED <<reports, token, overdue, row, offered>>
    BY <1>9 DEF Crash, apiVars
  <2>2. faults' # 0 /\ faults' \in 0..MaxFaults
    BY <2>1 DEF IInv, TypeOK
  <2>3. PartyShape' /\ Untouched'
    BY <2>1 DEF IInv, PartyShape, Untouched
  <2> QED
    BY <2>1, <2>2, <2>3 DEF IInv, TypeOK, ReportsKnown, PoolReported, RowHasToken,
                            RowSaysWhatWasReported
<1>10. CASE UNCHANGED vars
  <2>1. Rest' /\ \A t \in Sessions : Written(t)' = Written(t)
    BY <1>a, <1>10 DEF vars
  <2> QED
    BY <1>10, <2>1 DEF vars, IInv, TypeOK, RowHasToken, RowSaysWhatWasReported
<1> QED
  BY <1>1, <1>2, <1>4, <1>5, <1>6, <1>7, <1>8, <1>9, <1>10 DEF Next

\* The inductive invariant holds in every reachable state.
THEOREM InductiveInvariant == Spec => []IInv
  BY InitKeeps, NextKeeps, PTL DEF Spec

\* Every variable keeps its type.
THEOREM TypeCorrect == Spec => []TypeOK
<1>1. IInv => TypeOK
  BY DEF IInv
<1> QED
  BY <1>1, InductiveInvariant, PTL

\* Whatever order the writes of a transfer and the sweep come in, its row says
\* what was reported.
THEOREM RowsSayReports == Spec => []RowSaysWhatWasReported
<1>1. IInv => RowSaysWhatWasReported
  BY DEF IInv
<1> QED
  BY <1>1, InductiveInvariant, PTL

\* Only the sweep and the commit of a report of its own move a row.
THEOREM ReportsMoveRows == Spec => RowsMoveByReports
<1> DEFINE Moves == \A s \in Sessions :
                      row'[s] # row[s] /\ row[s] # NoRow =>
                        \/ row'[s] = "expired" /\ row[s] \in Pending
                        \/ \E k \in 1..Len(reports[s]) :
                             /\ <<s, k>> \in pool \ pool'
                             /\ row'[s] = reports[s][k]
<1>1. IInv /\ [Next]_vars => [Moves]_vars
  <2> SUFFICES ASSUME IInv, [Next]_vars, NEW s \in Sessions, row'[s] # row[s], row[s] # NoRow
               PROVE  \/ row'[s] = "expired" /\ row[s] \in Pending
                      \/ \E k \in 1..Len(reports[s]) :
                           /\ <<s, k>> \in pool \ pool'
                           /\ row'[s] = reports[s][k]
    OBVIOUS
  <2>1. ASSUME NEW t \in Sessions, CreateTransfer(t)
        PROVE  FALSE
    BY <2>1 DEF CreateTransfer, Attempt, IInv, TypeOK, RowHasToken
  <2>2. ASSUME NEW t \in Sessions, NEW k \in 1..MaxReports, UpdateTransferSession(t, k)
        PROVE  t = s /\ k \in 1..Len(reports[s]) /\ <<s, k>> \in pool \ pool'
               /\ row'[s] = reports[s][k]
    <3>1. k \in 1..Len(reports[t]) /\ <<t, k>> \in pool \ pool'
      BY <2>2, CommitKnown DEF UpdateTransferSession
    <3>2. row' = [row EXCEPT ![t] = reports[t][k]]
      BY <2>2 DEF UpdateTransferSession, Attempt
    <3> QED
      BY <3>1, <3>2 DEF IInv, TypeOK
  <2>3. CASE ExpireTransferSessions
    BY <2>3 DEF ExpireTransferSessions, Swept
  <2>4. CASE UNCHANGED row
    BY <2>4
  <2>5. \/ \E t \in Sessions : CreateTransfer(t)
        \/ \E t \in Sessions, k \in 1..MaxReports : UpdateTransferSession(t, k)
        \/ ExpireTransferSessions
        \/ UNCHANGED row
    BY DEF Next, TokenExpires, RowExpires, TransferRequest, OpenLeg, CloseSession, ReportAbort,
           LoseConnection, RelayStep, Crash, apiVars, vars
  <2> QED
    BY <2>1, <2>2, <2>3, <2>4, <2>5
<1> QED
  BY <1>1, InductiveInvariant, PTL DEF Spec, RowsMoveByReports
=============================================================================
