---------------------------- MODULE EdgePresence ----------------------------
(***************************************************************************)
(* The life of a mux connection on the Edge (edge/server.py), the presence *)
(* registry (edge/registry.py), the table of live connections, and the     *)
(* presence writer that mirrors the registry to the drone_network_state    *)
(* rows of PostgreSQL (edge/edge_app.py, postgres_store.py).               *)
(*                                                                         *)
(* Every connection is one coroutine running handle_connection.  Its       *)
(* program counter is the await it is parked at, and an action is the      *)
(* code from one await to the next, which the asyncio loop runs without    *)
(* interruption.  A connection stands for its socket, its _Connection and  *)
(* its session id: all three are created together and never reused.        *)
(***************************************************************************)
EXTENDS Naturals, Sequences

CONSTANTS Conns,          \* connections, each used once
          NoConn,         \* no connection in a table
          Nodes,          \* Edge processes (one, or two while a deploy rolls)
          Devices,        \* device ids
          Home,           \* the Edge process each connection arrives at
          NoDevice,       \* Python's None for a device id
          NoNode,         \* edge_node of a row no Edge has written
          MayStall,       \* connections whose Drone may stop reading
          MaxMissed,      \* max_missed_pings
          MaxDbFailures,  \* bound on failed presence writes
          MaxCrashes      \* bound on Edge process crashes

ASSUME ConnsAssumption ==
  /\ NoConn \notin Conns
  /\ NoDevice \notin Devices
  /\ NoNode \notin Nodes
ASSUME HomeAssumption == Home \in [Conns -> Nodes]
ASSUME StallAssumption == MayStall \subseteq Conns
ASSUME BoundsAssumption ==
  /\ MaxMissed \in Nat \ {0}
  /\ MaxDbFailures \in Nat
  /\ MaxCrashes \in Nat

VARIABLES
  pc,                   \* the await each handler is parked at
  hello,                \* _handshake's local: the device id HELLO named
  device_id,            \* handle_connection's local: None until _handshake returns
  missed,               \* _serve's count of silent intervals
  drone,                \* the Drone: "up", "stalled" (alive, but not reading) or "gone"
  entries,              \* PresenceRegistry._entries, node by node
  connections,          \* MuxServer._connections, node by node
  latest,               \* history: the last connection registered for a device
  writes,               \* tasks queued on the single presence-writer thread
  drone_network_state,  \* the edge_* columns
  dbFailures,           \* presence writes that raised so far
  crashes               \* how often each Edge process has died

registryVars == <<entries, connections, latest>>
dbVars == <<drone_network_state, dbFailures>>
connVars == <<pc, hello, device_id, missed, drone>>
vars == <<connVars, registryVars, writes, dbVars, crashes>>

-----------------------------------------------------------------------------
PC == {"new", "hello", "auth", "ack", "serve", "write", "relay", "teardown",
       "closed"}
PresenceWrite == [device : Devices, online : BOOLEAN]
Row == [edge_online : BOOLEAN, edge_node : Nodes \cup {NoNode}]

TypeOK ==
  /\ pc \in [Conns -> PC]
  /\ hello \in [Conns -> Devices \cup {NoDevice}]
  /\ device_id \in [Conns -> Devices \cup {NoDevice}]
  /\ missed \in [Conns -> 0..(MaxMissed - 1)]
  /\ drone \in [Conns -> {"up", "stalled", "gone"}]
  /\ entries \in [Nodes -> [Devices -> Conns \cup {NoConn}]]
  /\ connections \in [Nodes -> [Devices -> Conns \cup {NoConn}]]
  /\ latest \in [Nodes -> [Devices -> Conns \cup {NoConn}]]
  /\ writes \in [Nodes -> Seq(PresenceWrite)]
  /\ drone_network_state \in [Devices -> Row]
  /\ dbFailures \in 0..MaxDbFailures
  /\ crashes \in [Nodes -> 0..MaxCrashes]

Init ==
  /\ pc = [c \in Conns |-> "new"]
  /\ hello = [c \in Conns |-> NoDevice]
  /\ device_id = [c \in Conns |-> NoDevice]
  /\ missed = [c \in Conns |-> 0]
  /\ drone = [c \in Conns |-> "up"]
  /\ entries = [n \in Nodes |-> [d \in Devices |-> NoConn]]
  /\ connections = [n \in Nodes |-> [d \in Devices |-> NoConn]]
  /\ latest = [n \in Nodes |-> [d \in Devices |-> NoConn]]
  /\ writes = [n \in Nodes |-> << >>]
  /\ drone_network_state =
       [d \in Devices |-> [edge_online |-> FALSE, edge_node |-> NoNode]]
  /\ dbFailures = 0
  /\ crashes = [n \in Nodes |-> 0]

-----------------------------------------------------------------------------
(* The registry, and the writer its hooks feed.                            *)

\* The handler of c resumes at await "from" and runs on to await "to".
Step(c, from, to) ==
  /\ pc[c] = from
  /\ pc' = [pc EXCEPT ![c] = to]

\* As if the executor had threads to spare: a task may overtake its elders.
SubmitUnordered(n, d, online) ==
  \E first \in BOOLEAN :
    LET w == [device |-> d, online |-> online]
    IN  writes' = [writes EXCEPT ![n] =
                     IF first THEN <<w>> \o @ ELSE Append(@, w)]

\* own_executor.submit(task) by the on_connect or on_disconnect hook of node n.
Submit(n, d, online) ==
  writes' = [writes EXCEPT ![n] =
               Append(@, [device |-> d, online |-> online])]

\* registry.register(entry), then _connections[device_id] = conn.
Register(n, d, c) ==
  /\ entries' = [entries EXCEPT ![n][d] = c]
  /\ connections' = [connections EXCEPT ![n][d] = c]
  /\ latest' = [latest EXCEPT ![n][d] = c]
  /\ Submit(n, d, TRUE)

\* Without the session check.
DeregisterAnySession(n, d, c) ==
  IF entries[n][d] # NoConn
    THEN /\ entries' = [entries EXCEPT ![n][d] = NoConn]
         /\ Submit(n, d, FALSE)
    ELSE UNCHANGED <<entries, writes>>

\* registry.deregister(device_id, session_id): only the entry of this very
\* session goes, and on_disconnect runs only when an entry went.
Deregister(n, d, c) ==
  IF entries[n][d] = c
    THEN /\ entries' = [entries EXCEPT ![n][d] = NoConn]
         /\ Submit(n, d, FALSE)
    ELSE UNCHANGED <<entries, writes>>

\* Without the identity check.
DropAnyConnection(n, d, c) ==
  connections' = [connections EXCEPT ![n][d] = NoConn]

\* if self._connections.get(device_id) is conn: del self._connections[device_id]
DropConnection(n, d, c) ==
  connections' = IF connections[n][d] = c
                   THEN [connections EXCEPT ![n][d] = NoConn]
                   ELSE connections

-----------------------------------------------------------------------------
(* handle_connection, _handshake and _serve.                               *)

\* The server accepts a connection and waits for the first frame.
Accept(c) ==
  /\ Step(c, "new", "hello")
  /\ UNCHANGED <<hello, device_id, missed, drone, registryVars, writes,
                 dbVars, crashes>>

\* EOF, a frame that is not control, or a message that is not HELLO.
HandshakeRefused(c) ==
  /\ Step(c, "hello", "teardown")
  /\ UNCHANGED <<hello, device_id, missed, drone, registryVars, writes,
                 dbVars, crashes>>

\* HELLO names device d; the token check goes to the thread pool.
Hello(c, d) ==
  /\ drone[c] # "gone"
  /\ Step(c, "hello", "auth")
  /\ hello' = [hello EXCEPT ![c] = d]
  /\ UNCHANGED <<device_id, missed, drone, registryVars, writes, dbVars,
                 crashes>>

\* The token is wrong, the device unknown, or the lookup failed.
AuthRejected(c) ==
  /\ Step(c, "auth", "teardown")
  /\ hello' = [hello EXCEPT ![c] = NoDevice]
  /\ UNCHANGED <<device_id, missed, drone, registryVars, writes, dbVars,
                 crashes>>

\* The token is right: presence is registered, then HELLO_ACK is awaited.
AuthAccepted(c) ==
  /\ Step(c, "auth", "ack")
  /\ Register(Home[c], hello[c], c)
  /\ UNCHANGED <<hello, device_id, missed, drone, dbVars, crashes>>

\* HELLO_ACK is on its way: _handshake returns the device id to its caller.
AckSent(c) ==
  /\ Step(c, "ack", "serve")
  /\ device_id' = [device_id EXCEPT ![c] = hello[c]]
  /\ hello' = [hello EXCEPT ![c] = NoDevice]
  /\ UNCHANGED <<missed, drone, registryVars, writes, dbVars, crashes>>

\* Sending HELLO_ACK raises: _handshake never returns, device_id stays None.
AckFails(c) ==
  /\ drone[c] = "gone"
  /\ Step(c, "ack", "teardown")
  /\ hello' = [hello EXCEPT ![c] = NoDevice]
  /\ UNCHANGED <<device_id, missed, drone, registryVars, writes, dbVars,
                 crashes>>

\* Connections of the same node that c can have something relayed or offered to:
\* those that registered once.
Peers(c) == {p \in Conns \ {c} : Home[p] = Home[c] /\ pc[p] \notin {"new", "hello", "auth"}}

\* A frame arrives.  It needs no answer (PONG, an unknown type), it is
\* answered on this socket (PING), it is passed on to another Drone's socket
\* (DATA, SIGNAL, an offer, READY or CLOSE of a relay), or it ends the
\* connection (BYE, a frame or message that does not decode).
Frame(c) ==
  /\ drone[c] # "gone"
  /\ \/ \E next \in {"serve", "write", "teardown"} : Step(c, "serve", next)
     \/ Peers(c) # {} /\ Step(c, "serve", "relay")
  /\ missed' = [missed EXCEPT ![c] = 0]
  /\ UNCHANGED <<hello, device_id, drone, registryVars, writes, dbVars, crashes>>

\* Without the limit on missed pings, and without counting them.
IdleProbeUnlimited(c) ==
  /\ Step(c, "serve", "write")
  /\ missed' = [missed EXCEPT ![c] = @ + 1]
  /\ UNCHANGED <<hello, device_id, drone, registryVars, writes, dbVars, crashes>>

IdleProbeUncounted(c) ==
  /\ Step(c, "serve", "write")
  /\ UNCHANGED <<hello, device_id, missed, drone, registryVars, writes,
                 dbVars, crashes>>

\* ping_interval passes without a whole frame: probe the Drone with a PING,
IdleProbe(c) ==
  /\ missed[c] + 1 < MaxMissed
  /\ Step(c, "serve", "write")
  /\ missed' = [missed EXCEPT ![c] = @ + 1]
  /\ UNCHANGED <<hello, device_id, drone, registryVars, writes, dbVars, crashes>>

\* Past the finally clause.
IdleTimeoutSkipsFinally(c) ==
  /\ missed[c] + 1 >= MaxMissed
  /\ Step(c, "serve", "closed")
  /\ missed' = [missed EXCEPT ![c] = 0]
  /\ UNCHANGED <<hello, device_id, drone, registryVars, writes, dbVars, crashes>>

\* or, after max_missed_pings of them, give it up.
IdleTimeout(c) ==
  /\ missed[c] + 1 >= MaxMissed
  /\ Step(c, "serve", "teardown")
  /\ missed' = [missed EXCEPT ![c] = 0]
  /\ UNCHANGED <<hello, device_id, drone, registryVars, writes, dbVars, crashes>>

\* drain returns and the handler goes back to reading.
WriteDone(c) ==
  /\ Step(c, "write", "serve")
  /\ UNCHANGED <<hello, device_id, missed, drone, registryVars, writes,
                 dbVars, crashes>>

\* The send to the other Drone has drained or its error was swallowed: read
\* on, or first tell this Drone that its offer did not get through.
RelayDone(c) ==
  /\ \E next \in {"serve", "write"} : Step(c, "relay", next)
  /\ UNCHANGED <<hello, device_id, missed, drone, registryVars, writes,
                 dbVars, crashes>>

\* A read or a write on a dead socket raises; handle_connection catches it.
ConnectionLost(c) ==
  /\ drone[c] = "gone"
  /\ \E from \in {"serve", "write"} : Step(c, from, "teardown")
  /\ missed' = [missed EXCEPT ![c] = 0]
  /\ UNCHANGED <<hello, device_id, drone, registryVars, writes, dbVars, crashes>>

\* The finally clause once _teardown_relay has returned: presence and the
\* connections table are cleaned up only when device_id is known.  A Drone
\* that was gone is of no interest any more.
Teardown(c) ==
  /\ Step(c, "teardown", "closed")
  /\ IF device_id[c] = NoDevice
       THEN UNCHANGED <<entries, connections, writes>>
       ELSE /\ Deregister(Home[c], device_id[c], c)
            /\ DropConnection(Home[c], device_id[c], c)
  /\ drone' = [drone EXCEPT ![c] = IF @ = "gone" THEN "up" ELSE @]
  /\ UNCHANGED <<hello, device_id, missed, latest, dbVars, crashes>>

-----------------------------------------------------------------------------
(* The presence-writer thread, and the environment.                        *)

\* The writer's next task: the upsert of update_device_edge_presence.
PersistPresence(n) ==
  /\ writes[n] # << >>
  /\ LET w == Head(writes[n])
     IN  drone_network_state' = [drone_network_state EXCEPT ![w.device] =
           [edge_online |-> w.online, edge_node |-> n]]
  /\ writes' = [writes EXCEPT ![n] = Tail(@)]
  /\ UNCHANGED <<connVars, registryVars, dbFailures, crashes>>

\* The upsert raises: the failure is logged and the write is gone.
PersistFails(n) ==
  /\ writes[n] # << >>
  /\ dbFailures < MaxDbFailures
  /\ dbFailures' = dbFailures + 1
  /\ writes' = [writes EXCEPT ![n] = Tail(@)]
  /\ UNCHANGED <<connVars, registryVars, drone_network_state, crashes>>

\* The Drone loses power or its network: nothing more arrives from it.
PeerGone(c) ==
  /\ pc[c] \notin {"new", "closed"}
  /\ drone[c] # "gone"
  /\ drone' = [drone EXCEPT ![c] = "gone"]
  /\ UNCHANGED <<pc, hello, device_id, missed, registryVars, writes, dbVars,
                 crashes>>

\* The Drone stays alive but reads no more: what is sent to it, by its own
\* handler or by another's, may never drain.  Before it has registered nothing
\* that matters is sent to it.
PeerStalls(c) ==
  /\ c \in MayStall
  /\ pc[c] \notin {"new", "hello", "auth", "closed"}
  /\ drone[c] = "up"
  /\ drone' = [drone EXCEPT ![c] = "stalled"]
  /\ UNCHANGED <<pc, hello, device_id, missed, registryVars, writes, dbVars,
                 crashes>>

\* An Edge process dies with all it holds in memory; a new one starts empty.
Crash(n) ==
  /\ crashes[n] < MaxCrashes
  /\ crashes' = [crashes EXCEPT ![n] = @ + 1]
  /\ pc' = [c \in Conns |->
              IF Home[c] = n /\ pc[c] # "new" THEN "closed" ELSE pc[c]]
  /\ entries' = [entries EXCEPT ![n] = [d \in Devices |-> NoConn]]
  /\ connections' = [connections EXCEPT ![n] = [d \in Devices |-> NoConn]]
  /\ latest' = [latest EXCEPT ![n] = [d \in Devices |-> NoConn]]
  /\ writes' = [writes EXCEPT ![n] = << >>]
  /\ hello' = [c \in Conns |-> IF Home[c] = n THEN NoDevice ELSE hello[c]]
  /\ missed' = [c \in Conns |-> IF Home[c] = n THEN 0 ELSE missed[c]]
  /\ drone' = [c \in Conns |-> IF Home[c] = n THEN "up" ELSE drone[c]]
  /\ UNCHANGED <<device_id, dbVars>>

Handler(c) ==
  \/ Accept(c)
  \/ HandshakeRefused(c)
  \/ \E d \in Devices : Hello(c, d)
  \/ AuthRejected(c)
  \/ AuthAccepted(c)
  \/ AckSent(c)
  \/ AckFails(c)
  \/ Frame(c)
  \/ IdleProbe(c)
  \/ IdleTimeout(c)
  \/ WriteDone(c)
  \/ RelayDone(c)
  \/ ConnectionLost(c)
  \/ Teardown(c)

Next ==
  \/ \E c \in Conns : Handler(c) \/ PeerGone(c) \/ PeerStalls(c)
  \/ \E n \in Nodes : PersistPresence(n) \/ PersistFails(n) \/ Crash(n)

(***************************************************************************)
(* Fairness.  The event loop resumes a coroutine whose await has ended: a  *)
(* token check that answers, a send that drains or raises (TCP gives up on *)
(* a dead peer).  No timeout guards a send, so one to a Drone that stopped *)
(* reading may never end: an answer ends unless the connection's own Drone *)
(* is stalled, what is relayed (also by the finally clause) unless another *)
(* Drone of the node is.  The idle timer is fair only against a Drone that *)
(* is gone: a chatty one never lets it fire.  Nothing obliges a Drone to   *)
(* say HELLO or to stay.  The writer thread takes the next task.           *)
(***************************************************************************)
PeersRead(c) == \A p \in Peers(c) : drone[p] # "stalled"

Fairness ==
  /\ \A c \in Conns :
       /\ WF_vars(AuthRejected(c) \/ AuthAccepted(c))
       /\ WF_vars(drone[c] # "stalled" /\ (AckSent(c) \/ AckFails(c)))
       /\ WF_vars(drone[c] # "stalled" /\
                    (WriteDone(c) \/ (pc[c] = "write" /\ ConnectionLost(c))))
       /\ WF_vars(PeersRead(c) /\ RelayDone(c))
       /\ WF_vars(drone[c] = "gone" /\ (IdleProbe(c) \/ IdleTimeout(c) \/ ConnectionLost(c)))
       /\ WF_vars(PeersRead(c) /\ Teardown(c))
  /\ \A n \in Nodes : WF_vars(PersistPresence(n) \/ PersistFails(n))

Spec == Init /\ [][Next]_vars
FairSpec == Spec /\ Fairness

-----------------------------------------------------------------------------
(* Properties.                                                             *)

\* The registry and the connections table never disagree on a device: a
\* TRANSFER_OFFER goes out exactly when the device is shown as present, and
\* to the connection whose session is shown (server.py 131-134, 166-167).
TablesAgree ==
  \A n \in Nodes, d \in Devices : connections[n][d] = entries[n][d]

\* Handlers that have registered and have not reached their finally clause.
Serving == {"ack", "serve", "write", "relay"}

\* Newest connection wins, and keeps winning: however the handlers of older
\* connections of a device end, the newest one stays the entry for as long as
\* it is served (registry.py 79-93).
NewestIsPresent ==
  \A n \in Nodes, d \in Devices :
    LET c == latest[n][d]
    IN  c # NoConn /\ pc[c] \in Serving => entries[n][d] = c

\* An entry outlives its handler only when HELLO_ACK could not be sent: once
\* the handshake has returned, the finally clause takes the entry down.
PresentHasHandler ==
  \A n \in Nodes, d \in Devices :
    LET c == entries[n][d]
    IN  c # NoConn /\ device_id[c] # NoDevice => pc[c] # "closed"

\* Of the writes queued on node n, the i-th is the last one about device d.
LastWriteFor(n, d, i) ==
  /\ writes[n][i].device = d
  /\ \A j \in 1..Len(writes[n]) : j > i => writes[n][j].device # d

\* The last queued write about d says what the registry of n says now; with
\* none queued the row does, if n wrote it.
Settles(n, d) ==
  /\ \A i \in 1..Len(writes[n]) :
       LastWriteFor(n, d, i) =>
         writes[n][i].online = (entries[n][d] # NoConn)
  /\ /\ \A i \in 1..Len(writes[n]) : writes[n][i].device # d
     /\ drone_network_state[d].edge_node = n
     => drone_network_state[d].edge_online = (entries[n][d] # NoConn)

\* The edge_* columns lag the registry of the node that wrote them but never
\* end up wrong (the one-thread executor of edge_app.py 130-159): only a
\* failed write or a crash of that node can spoil this.
RowFollowsItsNode ==
  \A n \in Nodes, d \in Devices :
    dbFailures = 0 /\ crashes[n] = 0 => Settles(n, d)

\* Where a connection is in its one lease of the registry.
HeldBy(c) ==
  IF pc[c] \in {"new", "hello", "auth"} THEN "fresh"
  ELSE IF pc[c] \in Serving \/ (pc[c] = "teardown" /\ device_id[c] # NoDevice)
    THEN "held" ELSE "over"

LeasePhase == [c \in Conns |-> HeldBy(c)]

PL == INSTANCE PresenceLease WITH holder <- entries, phase <- LeasePhase

\* The registry implements the abstract lease of PresenceLease.
ImplementsLease == PL!Lease

-----------------------------------------------------------------------------
(* The strengthening that makes the invariants above inductive.            *)

HandlerLocals ==
  \A c \in Conns :
    /\ pc[c] \in {"auth", "ack"} => hello[c] # NoDevice
    /\ pc[c] \in {"new", "hello", "auth", "ack"} => device_id[c] = NoDevice
    /\ pc[c] \in {"serve", "write", "relay"} => device_id[c] # NoDevice

EntriesAreLatest ==
  \A n \in Nodes, d \in Devices :
    LET c == entries[n][d]
    IN  c # NoConn =>
          /\ Home[c] = n
          /\ latest[n][d] = c
          /\ pc[c] \notin {"new", "hello", "auth"}
          /\ pc[c] = "ack" => hello[c] = d
          /\ device_id[c] # NoDevice => device_id[c] = d /\ pc[c] # "closed"

LatestIsServed ==
  \A n \in Nodes, d \in Devices :
    LET c == latest[n][d]
    IN  c # NoConn =>
          /\ Home[c] = n
          /\ pc[c] \notin {"new", "hello", "auth"}
          /\ pc[c] \in Serving => entries[n][d] = c

IInv ==
  TypeOK /\ TablesAgree /\ HandlerLocals /\ EntriesAreLatest /\ LatestIsServed

-----------------------------------------------------------------------------
\* A Drone that vanished is taken off the registry, whatever its handler was
\* doing, unless another Drone of the node stops reading for good: its handler
\* may be parked in a relay send to that one, where no idle timer runs.  An
\* entry whose HELLO_ACK could not be sent stays (server.py 51-54, 126-137,
\* 166-187).
GoneIsEvicted ==
  \A c \in Conns :
    []<>PeersRead(c) =>
      (drone[c] = "gone" /\ pc[c] \in {"serve", "write", "relay", "teardown"}
         /\ device_id[c] # NoDevice ~>
       \A n \in Nodes, d \in Devices : entries[n][d] # c)

\* The database ends up telling the truth of the registry of the node that
\* wrote last, unless that node crashed or a write failed.
MirrorSettles ==
  \A n \in Nodes, d \in Devices :
    LET row == drone_network_state[d]
    IN  <>[](row.edge_node = n /\ dbFailures = 0 /\ crashes[n] = 0
               => row.edge_online = (entries[n][d] # NoConn))
=============================================================================
