------------------------ MODULE EdgePresence_proofs ------------------------
EXTENDS EdgePresence, TLAPS

USE ConnsAssumption, HomeAssumption, BoundsAssumption
    DEF ConnsAssumption, HomeAssumption, BoundsAssumption

\* Nothing is registered when the process starts.
LEMMA InitIInv == Init => IInv
  BY DEF Init, IInv, TypeOK, TablesAgree, HandlerLocals, EntriesAreLatest,
         LatestIsServed, PC, Row, Serving

\* A task joins the queue of its node.
LEMMA SubmitType ==
  ASSUME TypeOK, NEW n \in Nodes, NEW d \in Devices, NEW online \in BOOLEAN,
         Submit(n, d, online)
  PROVE  writes' \in [Nodes -> Seq(PresenceWrite)]
<1> DEFINE w == [device |-> d, online |-> online]
<1>1. w \in PresenceWrite
  BY DEF PresenceWrite
<1>2. writes \in [Nodes -> Seq(PresenceWrite)]
  BY DEF TypeOK
<1>3. Append(writes[n], w) \in Seq(PresenceWrite)
  <2> HIDE DEF w
  <2> QED BY <1>1, <1>2
<1>4. writes' = [writes EXCEPT ![n] = Append(writes[n], w)]
  BY DEF Submit
<1> HIDE DEF w
<1> QED
  BY <1>2, <1>3, <1>4

\* A task leaves the queue of its node.
LEMMA TakeType ==
  ASSUME TypeOK, NEW n \in Nodes, writes[n] # << >>
  PROVE  /\ Head(writes[n]) \in PresenceWrite
         /\ [writes EXCEPT ![n] = Tail(writes[n])] \in [Nodes -> Seq(PresenceWrite)]
<1>1. writes \in [Nodes -> Seq(PresenceWrite)]
  BY DEF TypeOK
<1>2. Head(writes[n]) \in PresenceWrite /\ Tail(writes[n]) \in Seq(PresenceWrite)
  BY <1>1
<1> QED
  BY <1>1, <1>2

\* The finally clause of a handler that knows its device.
LEMMA TeardownType ==
  ASSUME TypeOK, NEW c \in Conns, NEW d \in Devices,
         Deregister(Home[c], d, c), DropConnection(Home[c], d, c)
  PROVE  /\ entries' \in [Nodes -> [Devices -> Conns \cup {NoConn}]]
         /\ connections' \in [Nodes -> [Devices -> Conns \cup {NoConn}]]
         /\ writes' \in [Nodes -> Seq(PresenceWrite)]
<1>1. Home[c] \in Nodes
  OBVIOUS
<1>2. entries' \in [Nodes -> [Devices -> Conns \cup {NoConn}]]
  <2>1. CASE entries[Home[c]][d] = c
    <3>1. entries' = [entries EXCEPT ![Home[c]][d] = NoConn]
      BY <2>1 DEF Deregister
    <3> QED
      BY <1>1, <3>1 DEF TypeOK
  <2>2. CASE entries[Home[c]][d] # c
    BY <2>2 DEF Deregister, TypeOK
  <2> QED
    BY <2>1, <2>2
<1>3. connections' \in [Nodes -> [Devices -> Conns \cup {NoConn}]]
  BY DEF DropConnection, TypeOK
<1>4. writes' \in [Nodes -> Seq(PresenceWrite)]
  <2>1. CASE entries[Home[c]][d] = c
    <3>1. Submit(Home[c], d, FALSE)
      BY <2>1 DEF Deregister
    <3> QED
      BY <1>1, <3>1, SubmitType
  <2>2. CASE entries[Home[c]][d] # c
    BY <2>2 DEF Deregister, TypeOK
  <2> QED
    BY <2>1, <2>2
<1> QED
  BY <1>2, <1>3, <1>4

\* Every step of a handler, of the writer thread or of the environment keeps
\* the types; the locals of a handler say which device it may register.
LEMMA NextTypeOK == TypeOK /\ HandlerLocals /\ [Next]_vars => TypeOK'
<1> SUFFICES ASSUME TypeOK, HandlerLocals, [Next]_vars PROVE TypeOK'
  OBVIOUS
<1> USE DEF TypeOK, HandlerLocals, PC, Row, PresenceWrite, Step, registryVars, dbVars, connVars
<1>1. ASSUME NEW c \in Conns, Accept(c) PROVE TypeOK'
  BY <1>1 DEF Accept
<1>2. ASSUME NEW c \in Conns, HandshakeRefused(c) PROVE TypeOK'
  BY <1>2 DEF HandshakeRefused
<1>3. ASSUME NEW c \in Conns, NEW d \in Devices, Hello(c, d) PROVE TypeOK'
  BY <1>3 DEF Hello
<1>4. ASSUME NEW c \in Conns, AuthRejected(c) PROVE TypeOK'
  BY <1>4 DEF AuthRejected
<1>5. ASSUME NEW c \in Conns, AuthAccepted(c) PROVE TypeOK'
  <2>1. pc' \in [Conns -> PC]
    BY <1>5 DEF AuthAccepted, Register, Submit
  <2>2. entries' \in [Nodes -> [Devices -> Conns \cup {NoConn}]]
    BY <1>5 DEF AuthAccepted, Register, Submit
  <2>3. connections' \in [Nodes -> [Devices -> Conns \cup {NoConn}]]
    BY <1>5 DEF AuthAccepted, Register, Submit
  <2>4. latest' \in [Nodes -> [Devices -> Conns \cup {NoConn}]]
    BY <1>5 DEF AuthAccepted, Register, Submit
  <2>5. writes' \in [Nodes -> Seq(PresenceWrite)]
    <3>1. Submit(Home[c], hello[c], TRUE) /\ hello[c] \in Devices
      BY <1>5 DEF AuthAccepted, Register
    <3> QED
      BY <3>1, SubmitType
  <2> QED
    BY <1>5, <2>1, <2>2, <2>3, <2>4, <2>5 DEF AuthAccepted, Register, Submit
<1>6. ASSUME NEW c \in Conns, AckSent(c) PROVE TypeOK'
  BY <1>6 DEF AckSent
<1>7. ASSUME NEW c \in Conns, AckFails(c) PROVE TypeOK'
  BY <1>7 DEF AckFails
<1>8. ASSUME NEW c \in Conns, Frame(c) PROVE TypeOK'
  <2>1. pc' \in [Conns -> PC]
    BY <1>8 DEF Frame
  <2>2. missed' \in [Conns -> 0..(MaxMissed - 1)]
    BY <1>8 DEF Frame
  <2> QED
    BY <1>8, <2>1, <2>2 DEF Frame
<1>9. ASSUME NEW c \in Conns, IdleProbe(c) PROVE TypeOK'
  <2>1. pc' \in [Conns -> PC]
    BY <1>9 DEF IdleProbe
  <2>2. missed' \in [Conns -> 0..(MaxMissed - 1)]
    BY <1>9 DEF IdleProbe
  <2> QED
    BY <1>9, <2>1, <2>2 DEF IdleProbe
<1>10. ASSUME NEW c \in Conns, IdleTimeout(c) PROVE TypeOK'
  <2>1. pc' \in [Conns -> PC]
    BY <1>10 DEF IdleTimeout
  <2>2. missed' \in [Conns -> 0..(MaxMissed - 1)]
    BY <1>10 DEF IdleTimeout
  <2> QED
    BY <1>10, <2>1, <2>2 DEF IdleTimeout
<1>11. ASSUME NEW c \in Conns, WriteDone(c) \/ RelayDone(c) PROVE TypeOK'
  BY <1>11 DEF WriteDone, RelayDone
<1>12. ASSUME NEW c \in Conns, ConnectionLost(c) PROVE TypeOK'
  <2>1. pc' \in [Conns -> PC]
    BY <1>12 DEF ConnectionLost
  <2>2. missed' \in [Conns -> 0..(MaxMissed - 1)]
    BY <1>12 DEF ConnectionLost
  <2> QED
    BY <1>12, <2>1, <2>2 DEF ConnectionLost
<1>13. ASSUME NEW c \in Conns, Teardown(c) PROVE TypeOK'
  <2>1. pc' \in [Conns -> PC]
    BY <1>13 DEF Teardown, Deregister, DropConnection, Submit
  <2>2. drone' \in [Conns -> {"up", "stalled", "gone"}]
    BY <1>13 DEF Teardown, Deregister, DropConnection, Submit
  <2>3. /\ entries' \in [Nodes -> [Devices -> Conns \cup {NoConn}]]
        /\ connections' \in [Nodes -> [Devices -> Conns \cup {NoConn}]]
        /\ writes' \in [Nodes -> Seq(PresenceWrite)]
    <3>1. CASE device_id[c] = NoDevice
      BY <1>13, <3>1 DEF Teardown
    <3>2. CASE device_id[c] # NoDevice
      BY <1>13, <3>2, TeardownType DEF Teardown
    <3> QED
      BY <3>1, <3>2
  <2> QED
    BY <1>13, <2>1, <2>2, <2>3 DEF Teardown
<1>14. ASSUME NEW n \in Nodes, PersistPresence(n) PROVE TypeOK'
  <2>1. writes' \in [Nodes -> Seq(PresenceWrite)]
    BY <1>14, TakeType DEF PersistPresence
  <2>2. drone_network_state' \in [Devices -> Row]
    BY <1>14, TakeType DEF PersistPresence
  <2> QED
    BY <1>14, <2>1, <2>2 DEF PersistPresence
<1>15. ASSUME NEW n \in Nodes, PersistFails(n) PROVE TypeOK'
  <2>1. writes' \in [Nodes -> Seq(PresenceWrite)]
    BY <1>15, TakeType DEF PersistFails
  <2>2. dbFailures' \in 0..MaxDbFailures
    BY <1>15 DEF PersistFails
  <2> QED
    BY <1>15, <2>1, <2>2 DEF PersistFails
<1>16. ASSUME NEW c \in Conns, PeerGone(c) \/ PeerStalls(c) PROVE TypeOK'
  BY <1>16 DEF PeerGone, PeerStalls
<1>17. ASSUME NEW n \in Nodes, Crash(n) PROVE TypeOK'
  <2>1. pc' \in [Conns -> PC]
    BY <1>17 DEF Crash
  <2>2. hello' \in [Conns -> Devices \cup {NoDevice}]
    BY <1>17 DEF Crash
  <2>3. missed' \in [Conns -> 0..(MaxMissed - 1)]
    BY <1>17 DEF Crash
  <2>4. drone' \in [Conns -> {"up", "stalled", "gone"}]
    BY <1>17 DEF Crash
  <2>5. entries' \in [Nodes -> [Devices -> Conns \cup {NoConn}]]
    BY <1>17 DEF Crash
  <2>6. connections' \in [Nodes -> [Devices -> Conns \cup {NoConn}]]
    BY <1>17 DEF Crash
  <2>7. latest' \in [Nodes -> [Devices -> Conns \cup {NoConn}]]
    BY <1>17 DEF Crash
  <2>8. writes' \in [Nodes -> Seq(PresenceWrite)]
    <3>1. << >> \in Seq(PresenceWrite)
      OBVIOUS
    <3>2. writes' = [writes EXCEPT ![n] = << >>]
      BY <1>17 DEF Crash
    <3> QED
      BY <3>1, <3>2
  <2>9. crashes' \in [Nodes -> 0..MaxCrashes]
    BY <1>17 DEF Crash
  <2> QED
    BY <1>17, <2>1, <2>2, <2>3, <2>4, <2>5, <2>6, <2>7, <2>8, <2>9 DEF Crash
<1>18. CASE UNCHANGED vars
  BY <1>18 DEF vars
<1> QED
  BY <1>1, <1>2, <1>3, <1>4, <1>5, <1>6, <1>7, <1>8, <1>9, <1>10, <1>11, <1>12, <1>13, <1>14, <1>15, <1>16, <1>17, <1>18 DEF Next, Handler

\* The rest of the inductive invariant.
LEMMA NextIInv == IInv /\ [Next]_vars => IInv'
<1> SUFFICES ASSUME IInv, [Next]_vars PROVE IInv'
  OBVIOUS
<1>0. TypeOK'
  BY NextTypeOK DEF IInv
<1> USE <1>0 DEF IInv
<1> DEFINE Rest == TablesAgree /\ HandlerLocals /\ EntriesAreLatest /\ LatestIsServed
<1> USE DEF Step, registryVars, dbVars, connVars, TablesAgree, HandlerLocals,
        EntriesAreLatest, LatestIsServed, Serving
<1>1. ASSUME NEW c \in Conns, Accept(c) PROVE Rest'
  BY <1>1 DEF TypeOK, PC, Accept
<1>2. ASSUME NEW c \in Conns, HandshakeRefused(c) PROVE Rest'
  BY <1>2 DEF TypeOK, PC, HandshakeRefused
<1>3. ASSUME NEW c \in Conns, NEW d \in Devices, Hello(c, d) PROVE Rest'
  BY <1>3 DEF TypeOK, PC, Hello
<1>4. ASSUME NEW c \in Conns, AuthRejected(c) PROVE Rest'
  BY <1>4 DEF TypeOK, PC, AuthRejected
<1>5. ASSUME NEW c \in Conns, AuthAccepted(c) PROVE Rest'
  BY <1>5 DEF TypeOK, PC, AuthAccepted, Register, Submit
<1>6. ASSUME NEW c \in Conns, AckSent(c) PROVE Rest'
  BY <1>6 DEF TypeOK, PC, AckSent
<1>7. ASSUME NEW c \in Conns, AckFails(c) PROVE Rest'
  BY <1>7 DEF TypeOK, PC, AckFails
<1>8. ASSUME NEW c \in Conns, Frame(c) PROVE Rest'
  BY <1>8 DEF TypeOK, PC, Frame
<1>9. ASSUME NEW c \in Conns, IdleProbe(c) PROVE Rest'
  BY <1>9 DEF TypeOK, PC, IdleProbe
<1>10. ASSUME NEW c \in Conns, IdleTimeout(c) PROVE Rest'
  BY <1>10 DEF TypeOK, PC, IdleTimeout
<1>11. ASSUME NEW c \in Conns, WriteDone(c) \/ RelayDone(c) PROVE Rest'
  <2>1. CASE WriteDone(c)
    BY <2>1 DEF TypeOK, PC, WriteDone
  <2>2. CASE RelayDone(c)
    BY <2>2 DEF TypeOK, PC, RelayDone
  <2> QED
    BY <1>11, <2>1, <2>2
<1>12. ASSUME NEW c \in Conns, ConnectionLost(c) PROVE Rest'
  BY <1>12 DEF TypeOK, PC, ConnectionLost
<1>13. ASSUME NEW c \in Conns, Teardown(c) PROVE Rest'
  <2>1. pc[c] = "teardown" /\ pc' = [pc EXCEPT ![c] = "closed"]
    BY <1>13 DEF Teardown
  <2>2. UNCHANGED <<hello, device_id, latest>>
    BY <1>13 DEF Teardown
  <2>3. CASE device_id[c] = NoDevice
    <3>1. UNCHANGED <<entries, connections>>
      BY <1>13, <2>3 DEF Teardown
    <3> QED
      BY <2>1, <2>2, <2>3, <3>1 DEF TypeOK, PC
  <2>4. CASE device_id[c] # NoDevice
    <3> DEFINE n0 == Home[c]
               d0 == device_id[c]
    <3>1. n0 \in Nodes /\ d0 \in Devices
      BY <2>4 DEF TypeOK
    <3>2. CASE entries[n0][d0] = c
      <4>1. /\ entries' = [entries EXCEPT ![n0][d0] = NoConn]
            /\ connections' = [connections EXCEPT ![n0][d0] = NoConn]
        BY <1>13, <2>4, <3>1, <3>2 DEF Teardown, Deregister, DropConnection
      <4> QED
        BY <2>1, <2>2, <2>4, <3>1, <3>2, <4>1 DEF TypeOK, PC
    <3>3. CASE entries[n0][d0] # c
      <4>1. UNCHANGED <<entries, connections>>
        BY <1>13, <2>4, <3>1, <3>3 DEF Teardown, Deregister, DropConnection
      <4> QED
        BY <2>1, <2>2, <2>4, <3>1, <3>3, <4>1 DEF TypeOK, PC
    <3> QED
      BY <3>2, <3>3
  <2> QED
    BY <2>3, <2>4
<1>14. ASSUME NEW n \in Nodes, PersistPresence(n) PROVE Rest'
  BY <1>14 DEF TypeOK, PC, PersistPresence
<1>15. ASSUME NEW n \in Nodes, PersistFails(n) PROVE Rest'
  BY <1>15 DEF TypeOK, PC, PersistFails
<1>16. ASSUME NEW c \in Conns, PeerGone(c) \/ PeerStalls(c) PROVE Rest'
  BY <1>16 DEF TypeOK, PC, PeerGone, PeerStalls
<1>17. ASSUME NEW n \in Nodes, Crash(n) PROVE Rest'
  BY <1>17 DEF TypeOK, PC, Crash
<1>18. CASE UNCHANGED vars
  BY <1>18 DEF vars
<1> QED
  BY <1>1, <1>2, <1>3, <1>4, <1>5, <1>6, <1>7, <1>8, <1>9, <1>10, <1>11, <1>12, <1>13, <1>14, <1>15, <1>16, <1>17, <1>18 DEF Next, Handler

\* What the handlers, the registry and the connections table agree on between
\* any two awaits.
THEOREM InductiveInvariant == Spec => []IInv
  BY InitIInv, NextIInv, PTL DEF Spec

\* Every variable keeps its type.
THEOREM TypeCorrect == Spec => []TypeOK
<1>1. IInv => TypeOK
  BY DEF IInv
<1> QED
  BY <1>1, InductiveInvariant, PTL

\* The newest connection of a device stays present while it is served.
THEOREM PresenceSafe == Spec => []NewestIsPresent
<1>1. IInv => NewestIsPresent
  BY DEF IInv, EntriesAreLatest, LatestIsServed, NewestIsPresent
<1> QED
  BY <1>1, InductiveInvariant, PTL

\* The registry and the connections table name the same connections.
THEOREM TablesMatch == Spec => []TablesAgree
<1>1. IInv => TablesAgree
  BY DEF IInv
<1> QED
  BY <1>1, InductiveInvariant, PTL

\* The finally clause leaves no entry of a handshake that returned.
THEOREM EntriesAreServed == Spec => []PresentHasHandler
<1>1. IInv => PresentHasHandler
  BY DEF IInv, EntriesAreLatest, LatestIsServed, PresentHasHandler
<1> QED
  BY <1>1, InductiveInvariant, PTL

-----------------------------------------------------------------------------
(* The presence mirror.                                                    *)

\* A submitted write that says what its registry now says keeps every row of
\* every node on course.
LEMMA SubmitSettles ==
  ASSUME TypeOK,
         NEW n \in Nodes, NEW d \in Devices, NEW online \in BOOLEAN,
         Submit(n, d, online),
         UNCHANGED drone_network_state,
         online = (entries'[n][d] # NoConn),
         NEW m \in Nodes, NEW e \in Devices,
         m # n \/ e # d => entries'[m][e] = entries[m][e],
         Settles(m, e)
  PROVE  Settles(m, e)'
<1> DEFINE w == [device |-> d, online |-> online]
           q == writes[n]
<1>1. writes \in [Nodes -> Seq(PresenceWrite)] /\ q \in Seq(PresenceWrite)
  BY DEF TypeOK
<1>2. /\ writes'[n] = Append(q, w)
      /\ \A k \in Nodes : k # n => writes'[k] = writes[k]
  BY <1>1 DEF Submit
<1>3. CASE m # n
  BY <1>2, <1>3 DEF Settles, LastWriteFor
<1>4. CASE m = n
  <2>1. /\ Len(writes'[n]) = Len(q) + 1
        /\ writes'[n][Len(q) + 1] = w
        /\ \A i \in 1..Len(q) : writes'[n][i] = q[i]
        /\ Len(q) \in Nat
    BY <1>1, <1>2
  <2>2. w.device = d /\ w.online = online
    OBVIOUS
  <2> HIDE DEF w, q
  <2>3. CASE e = d
    <3>1. ASSUME NEW i \in 1..Len(writes'[n]), LastWriteFor(n, d, i)'
          PROVE  i = Len(q) + 1
      BY <2>1, <2>2, <3>1 DEF LastWriteFor
    <3>2. ~ \A i \in 1..Len(writes'[n]) : writes'[n][i].device # d
      BY <2>1, <2>2
    <3> QED
      BY <1>4, <2>1, <2>2, <2>3, <3>1, <3>2 DEF Settles
  <2>4. CASE e # d
    <3>1. ASSUME NEW i \in 1..Len(writes'[n]), LastWriteFor(n, e, i)'
          PROVE  i \in 1..Len(q) /\ LastWriteFor(n, e, i)
      BY <2>1, <2>2, <2>4, <3>1 DEF LastWriteFor, q
    <3>2. (\A i \in 1..Len(writes'[n]) : writes'[n][i].device # e) =>
             \A i \in 1..Len(q) : q[i].device # e
      BY <2>1
    <3> QED
      BY <1>4, <2>1, <2>4, <3>1, <3>2 DEF Settles, q
  <2> QED
    BY <2>3, <2>4
<1> QED
  BY <1>3, <1>4

\* The writer applying its oldest task keeps every row on course too.
LEMMA PersistSettles ==
  ASSUME TypeOK, NEW n \in Nodes, PersistPresence(n),
         NEW m \in Nodes, NEW e \in Devices, Settles(m, e)
  PROVE  Settles(m, e)'
<1> DEFINE q == writes[n]
           h == Head(q)
<1>1. writes \in [Nodes -> Seq(PresenceWrite)] /\ q \in Seq(PresenceWrite) /\ q # << >>
  BY DEF TypeOK, PersistPresence
<1>2. /\ writes'[n] = Tail(q)
      /\ \A k \in Nodes : k # n => writes'[k] = writes[k]
      /\ UNCHANGED entries
  BY <1>1 DEF PersistPresence, registryVars
<1>3. /\ h = q[1]
      /\ h \in PresenceWrite
      /\ Len(q) \in Nat \ {0}
      /\ Len(Tail(q)) = Len(q) - 1
      /\ \A i \in 1..(Len(q) - 1) : Tail(q)[i] = q[i + 1]
  BY <1>1
<1>4. /\ drone_network_state'[h.device] = [edge_online |-> h.online, edge_node |-> n]
      /\ \A f \in Devices : f # h.device =>
            drone_network_state'[f] = drone_network_state[f]
  BY <1>3 DEF PersistPresence, TypeOK, PresenceWrite
<1> HIDE DEF q, h
<1>5. CASE m # n
  <2>1. drone_network_state'[e].edge_node = m => e # h.device
    BY <1>4, <1>5
  <2> QED
    BY <1>2, <1>4, <1>5, <2>1 DEF Settles, LastWriteFor
<1>6. CASE m = n
  <2>1. ASSUME NEW i \in 1..Len(writes'[n]), LastWriteFor(n, e, i)'
        PROVE  writes'[n][i].online = (entries'[n][e] # NoConn)
    <3>1. i + 1 \in 1..Len(q) /\ writes'[n][i] = q[i + 1]
      BY <1>2, <1>3
    <3>2. ASSUME NEW j \in 1..Len(q), j > i + 1
          PROVE  q[j].device # e
      <4>1. j - 1 \in 1..Len(writes'[n]) /\ j - 1 > i /\ writes'[n][j - 1] = q[j]
        BY <1>2, <1>3, <3>2
      <4> QED
        BY <2>1, <4>1 DEF LastWriteFor
    <3>3. LastWriteFor(n, e, i + 1)
      BY <2>1, <3>1, <3>2 DEF LastWriteFor, q
    <3> QED
      BY <1>2, <1>6, <3>1, <3>3 DEF Settles, q
  <2>2. ASSUME \A i \in 1..Len(writes'[n]) : writes'[n][i].device # e,
               drone_network_state'[e].edge_node = n
        PROVE  drone_network_state'[e].edge_online = (entries'[n][e] # NoConn)
    <3>1. ASSUME NEW j \in 1..Len(q), j > 1
          PROVE  q[j].device # e
      <4>1. j - 1 \in 1..Len(writes'[n]) /\ writes'[n][j - 1] = q[j]
        BY <1>2, <1>3, <3>1
      <4> QED
        BY <2>2, <4>1
    <3>2. CASE e = h.device
      <4>1. LastWriteFor(n, e, 1)
        BY <1>3, <3>1, <3>2 DEF LastWriteFor, q
      <4>2. h.online = (entries[n][e] # NoConn)
        BY <1>3, <1>6, <4>1 DEF Settles, q
      <4> QED
        BY <1>2, <1>4, <3>2, <4>2
    <3>3. CASE e # h.device
      <4>1. \A j \in 1..Len(q) : q[j].device # e
        BY <1>3, <3>1, <3>3
      <4> QED
        BY <1>2, <1>4, <1>6, <2>2, <3>3, <4>1 DEF Settles, q
    <3> QED
      BY <3>2, <3>3
  <2> QED
    BY <1>6, <2>1, <2>2 DEF Settles
<1> QED
  BY <1>5, <1>6

\* No step lets a row and the queue behind it part from the registry.
LEMMA NextRowFollows ==
  IInv /\ RowFollowsItsNode /\ [Next]_vars => RowFollowsItsNode'
<1> SUFFICES ASSUME IInv, RowFollowsItsNode, [Next]_vars,
                    NEW m \in Nodes, NEW e \in Devices,
                    dbFailures' = 0, crashes'[m] = 0
             PROVE  Settles(m, e)'
  BY DEF RowFollowsItsNode
<1>a. TypeOK
  BY DEF IInv
<1> DEFINE Idle == UNCHANGED <<entries, writes, drone_network_state, dbFailures, crashes>>
<1>b. ASSUME UNCHANGED <<dbFailures, crashes>>
      PROVE  Settles(m, e)
  BY <1>b DEF RowFollowsItsNode
<1>c. ASSUME Idle PROVE Settles(m, e)'
  BY <1>b, <1>c DEF Settles, LastWriteFor
<1> USE DEF dbVars, registryVars
<1>1. ASSUME NEW c \in Conns, Handler(c), ~AuthAccepted(c), ~Teardown(c)
      PROVE  Idle
  BY <1>1 DEF Handler, Accept, HandshakeRefused, Hello, AuthRejected, AckSent,
         AckFails, Frame, IdleProbe, IdleTimeout, WriteDone, RelayDone,
         ConnectionLost
<1>2. ASSUME NEW c \in Conns, PeerGone(c) \/ PeerStalls(c)
      PROVE  Idle
  BY <1>2 DEF PeerGone, PeerStalls
<1>3. ASSUME NEW c \in Conns, AuthAccepted(c)
      PROVE  Settles(m, e)'
  <2> DEFINE n == Home[c]
             d == hello[c]
  <2>1. n \in Nodes /\ d \in Devices /\ c # NoConn
    BY <1>3, <1>a DEF AuthAccepted, Step, IInv, HandlerLocals, TypeOK
  <2>2. /\ Submit(n, d, TRUE)
        /\ entries' = [entries EXCEPT ![n][d] = c]
        /\ UNCHANGED <<drone_network_state, dbFailures, crashes>>
    BY <1>3 DEF AuthAccepted, Register
  <2>3. /\ entries'[n][d] = c
        /\ m # n \/ e # d => entries'[m][e] = entries[m][e]
    BY <1>a, <2>1, <2>2 DEF TypeOK
  <2> HIDE DEF n, d
  <2>4. TRUE = (entries'[n][d] # NoConn)
    BY <2>1, <2>3
  <2> QED
    BY <1>a, <1>b, <2>1, <2>2, <2>3, <2>4, SubmitSettles
<1>4. ASSUME NEW c \in Conns, Teardown(c)
      PROVE  Settles(m, e)'
  <2> DEFINE n == Home[c]
             d == device_id[c]
  <2>1. CASE d = NoDevice \/ entries[n][d] # c
    BY <1>4, <1>c, <2>1 DEF Teardown, Deregister
  <2>2. CASE d # NoDevice /\ entries[n][d] = c
    <3>1. n \in Nodes /\ d \in Devices
      BY <1>a, <2>2 DEF TypeOK
    <3>2. /\ Submit(n, d, FALSE)
          /\ entries' = [entries EXCEPT ![n][d] = NoConn]
          /\ UNCHANGED <<drone_network_state, dbFailures, crashes>>
      BY <1>4, <2>2 DEF Teardown, Deregister
    <3>3. /\ entries'[n][d] = NoConn
          /\ m # n \/ e # d => entries'[m][e] = entries[m][e]
      BY <1>a, <3>1, <3>2 DEF TypeOK
    <3> HIDE DEF n, d
    <3>4. FALSE = (entries'[n][d] # NoConn)
      BY <3>1, <3>3
    <3> QED
      BY <1>a, <1>b, <3>1, <3>2, <3>3, <3>4, SubmitSettles
  <2> QED
    BY <2>1, <2>2
<1>5. ASSUME NEW n \in Nodes, PersistPresence(n)
      PROVE  Settles(m, e)'
  <2>1. UNCHANGED <<dbFailures, crashes>>
    BY <1>5 DEF PersistPresence
  <2> QED
    BY <1>5, <1>a, <1>b, <2>1, PersistSettles
<1>6. ASSUME NEW n \in Nodes, PersistFails(n)
      PROVE  FALSE
  BY <1>6, <1>a DEF PersistFails, TypeOK
<1>7. ASSUME NEW n \in Nodes, Crash(n)
      PROVE  Settles(m, e)'
  <2>1. m # n /\ UNCHANGED <<dbFailures, drone_network_state>> /\ crashes[m] = 0
    BY <1>7, <1>a DEF Crash, TypeOK
  <2>2. writes'[m] = writes[m] /\ entries'[m] = entries[m]
    BY <1>7, <1>a, <2>1 DEF Crash, TypeOK
  <2> QED
    BY <2>1, <2>2 DEF RowFollowsItsNode, Settles, LastWriteFor
<1>8. CASE UNCHANGED vars
  BY <1>8, <1>c DEF vars
<1> QED
  BY <1>1, <1>2, <1>3, <1>4, <1>5, <1>6, <1>7, <1>8, <1>c DEF Next

\* The database row a node last wrote ends up telling the truth about that
\* node's registry, unless a write failed or the node crashed.
THEOREM RowFollows == Spec => []RowFollowsItsNode
<1>1. Init => RowFollowsItsNode
  BY ConnsAssumption DEF Init, RowFollowsItsNode, Settles, LastWriteFor, Row
<1> QED
  BY <1>1, NextRowFollows, InductiveInvariant, PTL DEF Spec

-----------------------------------------------------------------------------
(* Refinement: the registry implements the lease.                          *)

\* A step that moves no entry and no connection between phases.
LEMMA StutterLease ==
  ASSUME UNCHANGED entries, \A k \in Conns : HeldBy(k)' = HeldBy(k)
  PROVE  UNCHANGED PL!leaseVars
  BY DEF PL!leaseVars, LeasePhase

\* A connection whose phase moves while the slots do not: it gave up.
LEMMA AbandonLease ==
  ASSUME NEW c \in Conns, UNCHANGED entries,
         HeldBy(c) \in {"fresh", "held"}, HeldBy(c)' = "over",
         \A k \in Conns : k # c => HeldBy(k)' = HeldBy(k)
  PROVE  PL!Abandon(c)
  BY DEF PL!Abandon, LeasePhase

\* Every step of the Edge is a step of the lease, or leaves it as it is.
LEMMA NextLease == IInv /\ [Next]_vars => [PL!LeaseNext]_(PL!leaseVars)
<1> SUFFICES ASSUME IInv, [Next]_vars
             PROVE  PL!LeaseNext \/ UNCHANGED PL!leaseVars
  OBVIOUS
<1>a. /\ pc \in [Conns -> PC]
      /\ entries \in [Nodes -> [Devices -> Conns \cup {NoConn}]]
      /\ hello \in [Conns -> Devices \cup {NoDevice}]
      /\ device_id \in [Conns -> Devices \cup {NoDevice}]
  BY DEF IInv, TypeOK
<1>b. HandlerLocals /\ EntriesAreLatest
  BY DEF IInv
<1> USE DEF registryVars, dbVars, connVars, Step, HeldBy, Serving
<1>1. ASSUME NEW c \in Conns,
             \/ Accept(c) \/ (\E d \in Devices : Hello(c, d))
             \/ AckSent(c) \/ Frame(c) \/ IdleProbe(c) \/ IdleTimeout(c)
             \/ WriteDone(c) \/ RelayDone(c) \/ ConnectionLost(c)
             \/ PeerGone(c) \/ PeerStalls(c)
      PROVE  UNCHANGED PL!leaseVars
  <2>1. UNCHANGED entries
    BY <1>1 DEF Accept, Hello, AckSent, Frame, IdleProbe, IdleTimeout,
                WriteDone, RelayDone, ConnectionLost, PeerGone, PeerStalls
  <2>2. \A k \in Conns : HeldBy(k)' = HeldBy(k)
    BY <1>1, <1>a, <1>b DEF HandlerLocals, Accept, Hello, AckSent, Frame,
         IdleProbe, IdleTimeout, WriteDone, RelayDone, ConnectionLost, PeerGone,
         PeerStalls
  <2> QED
    BY <2>1, <2>2, StutterLease
<1>2. ASSUME NEW c \in Conns, HandshakeRefused(c) \/ AuthRejected(c) \/ AckFails(c)
      PROVE  PL!Abandon(c)
  <2>1. /\ UNCHANGED entries
        /\ HeldBy(c) \in {"fresh", "held"} /\ HeldBy(c)' = "over"
        /\ \A k \in Conns : k # c => HeldBy(k)' = HeldBy(k)
    BY <1>2, <1>a, <1>b DEF HandlerLocals, HandshakeRefused, AuthRejected, AckFails
  <2> QED
    BY <2>1, AbandonLease
<1>3. ASSUME NEW c \in Conns, AuthAccepted(c)
      PROVE  PL!Acquire(hello[c], c) /\ hello[c] \in Devices
  <2>1. hello[c] \in Devices
    BY <1>3, <1>a, <1>b DEF HandlerLocals, AuthAccepted
  <2>2. entries' = [entries EXCEPT ![Home[c]][hello[c]] = c]
    BY <1>3 DEF AuthAccepted, Register
  <2>3. LeasePhase' = [LeasePhase EXCEPT ![c] = "held"] /\ LeasePhase[c] = "fresh"
    BY <1>3, <1>a DEF LeasePhase, AuthAccepted
  <2> QED
    BY <2>1, <2>2, <2>3 DEF PL!Acquire
<1>4. ASSUME NEW c \in Conns, Teardown(c)
      PROVE  PL!Release(c) \/ UNCHANGED PL!leaseVars
  <2>1. /\ pc[c] = "teardown" /\ pc' = [pc EXCEPT ![c] = "closed"]
        /\ UNCHANGED device_id
    BY <1>4 DEF Teardown
  <2>2. CASE device_id[c] = NoDevice
    <3>1. UNCHANGED entries /\ \A k \in Conns : HeldBy(k)' = HeldBy(k)
      BY <1>4, <1>a, <2>1, <2>2 DEF Teardown
    <3> QED
      BY <3>1, StutterLease
  <2>3. CASE device_id[c] # NoDevice
    <3> DEFINE n == Home[c]
               d == device_id[c]
    <3>1. n \in Nodes /\ d \in Devices /\ c # NoConn
      BY <1>a, <2>3
    <3>2. Deregister(n, d, c)
      BY <1>4, <2>3 DEF Teardown
    <3>3. \A m \in Nodes, e \in Devices : entries[m][e] = c => m = n /\ e = d
      BY <1>b, <2>3, <3>1 DEF EntriesAreLatest
    <3>4. \A m \in Nodes, e \in Devices :
            entries'[m][e] = IF entries[m][e] = c THEN NoConn ELSE entries[m][e]
      <4>1. CASE entries[n][d] = c
        <5>1. entries' = [entries EXCEPT ![n][d] = NoConn]
          BY <3>2, <4>1 DEF Deregister
        <5> QED
          BY <1>a, <3>1, <3>3, <4>1, <5>1
      <4>2. CASE entries[n][d] # c
        BY <3>1, <3>2, <3>3, <4>2 DEF Deregister
      <4> QED
        BY <4>1, <4>2
    <3>5. entries' = [m \in Nodes |-> [e \in Devices |->
                        IF entries[m][e] = c THEN NoConn ELSE entries[m][e]]]
      <4>1. entries' \in [Nodes -> [Devices -> Conns \cup {NoConn}]]
        <5>1. \/ UNCHANGED entries
              \/ entries' = [entries EXCEPT ![n][d] = NoConn]
          BY <3>2, Zenon DEF Deregister
        <5>2. entries[n] \in [Devices -> Conns \cup {NoConn}]
          BY <1>a, <3>1
        <5> HIDE DEF n, d
        <5> QED
          BY <1>a, <3>1, <5>1, <5>2
      <4>2. ASSUME NEW m \in Nodes
            PROVE  entries'[m] = [e \in Devices |->
                     IF entries[m][e] = c THEN NoConn ELSE entries[m][e]]
        <5>1. entries'[m] \in [Devices -> Conns \cup {NoConn}]
          BY <4>1
        <5> QED
          BY <3>4, <5>1
      <4> QED
        BY <4>1, <4>2
    <3>6. LeasePhase' = [LeasePhase EXCEPT ![c] = "over"] /\ LeasePhase[c] = "held"
      BY <1>a, <2>1, <2>3 DEF LeasePhase
    <3> QED
      BY <3>5, <3>6 DEF PL!Release
  <2> QED
    BY <2>2, <2>3
<1>5. ASSUME NEW n \in Nodes, PersistPresence(n) \/ PersistFails(n)
      PROVE  UNCHANGED PL!leaseVars
  <2>1. UNCHANGED entries /\ \A k \in Conns : HeldBy(k)' = HeldBy(k)
    BY <1>5 DEF PersistPresence, PersistFails
  <2> QED
    BY <2>1, StutterLease
<1>6. ASSUME NEW n \in Nodes, Crash(n)
      PROVE  PL!Fail(n, {c \in Conns : Home[c] = n /\ pc[c] # "new"})
  <2> DEFINE C == {c \in Conns : Home[c] = n /\ pc[c] # "new"}
  <2>1. entries' = [entries EXCEPT ![n] = [d \in Devices |-> NoConn]]
    BY <1>6 DEF Crash
  <2>2. LeasePhase' = [k \in Conns |->
                         IF k \in C \/ (Home[k] = n /\ LeasePhase[k] = "held")
                           THEN "over" ELSE LeasePhase[k]]
    BY <1>6, <1>a DEF LeasePhase, Crash
  <2> QED
    BY <2>1, <2>2 DEF PL!Fail
<1>7. CASE UNCHANGED vars
  <2>1. UNCHANGED entries /\ \A k \in Conns : HeldBy(k)' = HeldBy(k)
    BY <1>7 DEF vars
  <2> QED
    BY <2>1, StutterLease
<1>8. CASE \E c \in Conns : Handler(c) \/ PeerGone(c) \/ PeerStalls(c)
  <2> PICK c \in Conns : Handler(c) \/ PeerGone(c) \/ PeerStalls(c)
    BY <1>8
  <2>1. CASE AuthAccepted(c)
    BY <1>3, <2>1 DEF PL!LeaseNext
  <2>2. CASE Teardown(c)
    BY <1>4, <2>2 DEF PL!LeaseNext
  <2>3. CASE HandshakeRefused(c) \/ AuthRejected(c) \/ AckFails(c)
    BY <1>2, <2>3 DEF PL!LeaseNext
  <2> QED
    BY <1>1, <2>1, <2>2, <2>3 DEF Handler
<1>9. CASE \E n \in Nodes : Crash(n)
  <2> PICK n \in Nodes : Crash(n)
    BY <1>9
  <2>1. {c \in Conns : Home[c] = n /\ pc[c] # "new"} \in SUBSET Conns
    OBVIOUS
  <2> QED
    BY <1>6, <2>1 DEF PL!LeaseNext
<1> QED
  BY <1>5, <1>7, <1>8, <1>9 DEF Next

\* The Edge's registry is an implementation of the abstract presence lease:
\* only its holder, a newer connection or a crash takes a slot away.
THEOREM RegistryImplementsLease == Spec => ImplementsLease
<1>1. Init => PL!LeaseInit
  BY DEF Init, PL!LeaseInit, LeasePhase, HeldBy
<1> QED
  BY <1>1, NextLease, InductiveInvariant, PTL DEF Spec, ImplementsLease, PL!Lease
=============================================================================
