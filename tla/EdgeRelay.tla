----------------------------- MODULE EdgeRelay -----------------------------
(***************************************************************************)
(* The relay: RelayHub (edge/relay.py) and the handlers of MuxServer that  *)
(* use it (edge/server.py), with the writer lock of every _Connection.     *)
(*                                                                         *)
(* One coroutine per connection reads a message, changes the hub at once,  *)
(* then awaits one send after another.  A send waits in the FIFO queue of  *)
(* the target's asyncio.Lock; its frame is written when it gets the lock,  *)
(* and it keeps the lock until drain returns or raises.  While it waits    *)
(* every other coroutine runs, and the hub changes under it.               *)
(*                                                                         *)
(* A connection here has finished its handshake (see EdgePresence), and is *)
(* known to the hub by its id only.                                        *)
(***************************************************************************)
EXTENDS Naturals, Sequences, FiniteSets, SequencesExt

CONSTANTS Conns,      \* mux connections
          Sessions,   \* transfer session ids
          Faults,     \* what may befall a Drone: "gone", "stalled"
          MaxInputs,  \* bound on the messages the Drones send
          MaxFaults   \* bound on the Drones that die or stop reading

ASSUME BoundsAssumption == MaxInputs \in Nat /\ MaxFaults \in Nat
ASSUME FaultsAssumption == Faults \subseteq {"gone", "stalled"}
ASSUME FiniteAssumption == IsFiniteSet(Conns) /\ IsFiniteSet(Sessions)

VARIABLES
  phase,     \* "serving", then "teardown" (the finally clause), then "closed"
  legs,      \* RelaySession.legs in insertion order; empty: no such session
  todo,      \* sends the handler of a connection still has to make
  lockq,     \* _Connection._lock: the holder, then the waiters
  wire,      \* history: what was written to a connection's socket
  inputs,    \* history: how many messages the Drones have sent
  drone,     \* the Drone: "up", "stalled" (alive, but not reading) or "gone"
  reports    \* history: lifecycle reports of _emit_transfer_status

hubVars == <<legs, todo, lockq, wire>>
connVars == <<phase, inputs, drone>>
vars == <<connVars, hubVars, reports>>

-----------------------------------------------------------------------------
Roles == {"sender", "receiver"}
Other(role) == IF role = "sender" THEN "receiver" ELSE "sender"
Leg == [role : Roles, conn : Conns]

Reported == {"active", "completed", "aborted"}
\* A frame for a leg.  DATA frames are numbered in the order they were read.
Frames == [kind : {"ready", "close"}, session : Sessions] \cup
          [kind : {"data"}, session : Sessions, from : Conns, n : 1..MaxInputs]
\* A send to make; one made by the finally clause reports "aborted" first.
Send == [to : Conns, frame : Frames, aborts : BOOLEAN]

TypeOK ==
  /\ phase \in [Conns -> {"serving", "teardown", "closed"}]
  /\ legs \in [Sessions -> Seq(Leg)]
  /\ \A s \in Sessions : Len(legs[s]) <= 2
  /\ todo \in [Conns -> Seq(Send)]
  /\ lockq \in [Conns -> Seq(Conns)]
  /\ wire \in [Conns -> Seq(Frames)]
  /\ inputs \in 0..MaxInputs
  /\ drone \in [Conns -> {"up", "stalled", "gone"}]
  /\ reports \in [Sessions -> Seq(Reported)]

Init ==
  /\ phase = [c \in Conns |-> "serving"]
  /\ legs = [s \in Sessions |-> << >>]
  /\ todo = [c \in Conns |-> << >>]
  /\ lockq = [c \in Conns |-> << >>]
  /\ wire = [c \in Conns |-> << >>]
  /\ inputs = 0
  /\ drone = [c \in Conns |-> "up"]
  /\ reports = [s \in Sessions |-> << >>]

-----------------------------------------------------------------------------
(* RelaySession.                                                           *)

HasRole(ls, role) == \E leg \in ToSet(ls) : leg.role = role

\* With a second leg of a role filed next to the first.
PutLegTwice(ls, role, c) == Append(ls, [role |-> role, conn |-> c])

\* legs[role] = leg: a role already present keeps its place in the dict.
PutLeg(ls, role, c) ==
  IF HasRole(ls, role)
    THEN [i \in 1..Len(ls) |->
            IF ls[i].role = role THEN [role |-> role, conn |-> c] ELSE ls[i]]
    ELSE Append(ls, [role |-> role, conn |-> c])

\* Blind to a sender that joins a waiting receiver.
IsReadySenderFirst(ls) == Len(ls) = 2 /\ ls[1].role = "sender"

IsReady(ls) == HasRole(ls, "sender") /\ HasRole(ls, "receiver")

\* peer_of_conn: the leg opposite to the first leg of c, if both exist.
PeersOf(ls, c) ==
  LET mine == {i \in 1..Len(ls) : ls[i].conn = c}
  IN  {leg.conn : leg \in
        {l \in ToSet(ls) :
           \E i \in mine : /\ \A j \in mine : i <= j
                           /\ l.role = Other(ls[i].role)}}

\* Only the leg that leg_for_conn finds.
WithoutLegOf(ls, c) ==
  IF \E leg \in ToSet(ls) : leg.conn = c
    THEN RemoveAt(ls, SelectInSeq(ls, LAMBDA leg : leg.conn = c))
    ELSE ls

\* The i-th leg, unless there is none or it is of c.
LegUnlessOf(ls, i, c) ==
  IF i <= Len(ls) /\ ls[i].conn # c THEN <<ls[i]>> ELSE << >>

\* drop_connection: no leg of c stays, in either of the two roles.
WithoutLegsOf(ls, c) == LegUnlessOf(ls, 1, c) \o LegUnlessOf(ls, 2, c)

-----------------------------------------------------------------------------
(* _Connection.send.                                                       *)

\* Writing to a closed or broken transport puts nothing on the wire.
Written(w, p, frame) ==
  IF drone[p] = "gone" \/ phase[p] = "closed" THEN w
  ELSE [w EXCEPT ![p] = Append(@, frame)]

\* The handler of c calls send on connection p, given queues q and wire w:
\* with the lock free the frame is written at once, else c waits its turn.
Queued(q, c, p) == [q EXCEPT ![p] = Append(@, c)]
WrittenIfFree(q, w, p, frame) ==
  IF q[p] = << >> THEN Written(w, p, frame) ELSE w

\* _emit_transfer_status: handed to the thread pool, never awaited.
Report(s, status) == reports' = [reports EXCEPT ![s] = Append(@, status)]

\* The handler of c goes on to make the given sends, starting with the
\* first, on lock queues q and wire w.
Continue(c, sends, q, w) ==
  /\ todo' = [todo EXCEPT ![c] = sends]
  /\ IF sends = << >>
       THEN lockq' = q /\ wire' = w
       ELSE LET first == Head(sends)
            IN  /\ lockq' = Queued(q, c, first.to)
                /\ wire' = WrittenIfFree(q, w, first.to, first.frame)

FirstAborts(sends) == sends # << >> /\ Head(sends).aborts

-----------------------------------------------------------------------------
(* The message handlers.                                                   *)

Control(kind, s) == [kind |-> kind, session |-> s]

\* A Drone's next message is read by its handler, back in _serve.
Reads(c) ==
  /\ phase[c] = "serving" /\ todo[c] = << >> /\ drone[c] # "gone"
  /\ inputs < MaxInputs
  /\ inputs' = inputs + 1

\* One control frame for each of the legs ls.
ToLegs(ls, kind, s) ==
  [i \in 1..Len(ls) |->
     [to |-> ls[i].conn, frame |-> Control(kind, s), aborts |-> FALSE]]

\* RELAY_OPEN: the leg is filed; a pair is told RELAY_READY leg by leg.
RelayOpen(c, s, role) ==
  /\ Reads(c)
  /\ LET ls == PutLeg(legs[s], role, c)
     IN  /\ legs' = [legs EXCEPT ![s] = ls]
         /\ IF IsReady(ls)
              THEN /\ Report(s, "active")
                   /\ Continue(c, ToLegs(ls, "ready", s), lockq, wire)
              ELSE UNCHANGED <<reports, todo, lockq, wire>>
  /\ UNCHANGED <<phase, drone>>

\* RELAY_CLOSE: the session goes, whoever asked; its other legs are told.
RelayClose(c, s) ==
  /\ Reads(c)
  /\ legs' = [legs EXCEPT ![s] = << >>]
  /\ IF legs[s] # << >> THEN Report(s, "completed") ELSE UNCHANGED reports
  /\ Continue(c, ToLegs(WithoutLegsOf(legs[s], c), "close", s), lockq, wire)
  /\ UNCHANGED <<phase, drone>>

\* A relay DATA frame (or SIGNAL): its target is fixed now, before the wait
\* for the rate limiter and for the target's lock.  Without a peer it is lost.
Forward(c, s) ==
  /\ Reads(c)
  /\ \/ /\ PeersOf(legs[s], c) = {}
        /\ UNCHANGED todo
     \/ \E p \in PeersOf(legs[s], c) :
          todo' = [todo EXCEPT ![c] =
            <<[to |-> p, aborts |-> FALSE,
               frame |-> [kind |-> "data", session |-> s, from |-> c,
                          n |-> inputs']]>>]
  /\ UNCHANGED <<phase, drone, legs, lockq, wire, reports>>

Waiting(c) == \E p \in Conns : c \in ToSet(lockq[p])

\* The limiter lets the frame pass (at once, when the rate is unlimited).
LimiterGrants(c) ==
  /\ todo[c] # << >> /\ ~Waiting(c)
  /\ Continue(c, todo[c], lockq, wire)
  /\ UNCHANGED <<connVars, legs, reports>>

\* Drains for ever on a dead peer; repeats a send that takes long; gives up
\* the sends that are left once one has failed.
EndsIfAlive(p) == lockq[p] # << >> /\ drone[p] # "gone"
RestAfterRetry(c, p) == IF drone[p] = "stalled" THEN todo[c] ELSE Tail(todo[c])
RestIfSent(c, p) == IF drone[p] = "gone" THEN << >> ELSE Tail(todo[c])

\* The holder of the lock of p may be through, and what it has left to send.
Ends(p) == lockq[p] # << >>
Rest(c, p) == Tail(todo[c])

\* drain returns, or raises on a dead peer, which the handlers swallow: the
\* lock passes to the next waiter, whose frame is written, and the handler
\* that held it makes its next send.
SendEnds(p) ==
  /\ Ends(p)
  /\ LET c == Head(lockq[p])
         q == [lockq EXCEPT ![p] = Tail(@)]
         w == IF q[p] = << >> THEN wire
              ELSE Written(wire, p, Head(todo[Head(q[p])]).frame)
         rest == Rest(c, p)
     IN  /\ Continue(c, rest, q, w)
         /\ IF FirstAborts(rest)
              THEN Report(Head(rest).frame.session, "aborted")
              ELSE UNCHANGED reports
  /\ UNCHANGED <<connVars, legs>>

\* The handler ends (BYE, EOF, idle timeout, a read error): drop_connection
\* takes all its legs off the hub, and the peers are told one by one.
Teardown(c) ==
  /\ phase[c] = "serving" /\ todo[c] = << >>
  /\ phase' = [phase EXCEPT ![c] = "teardown"]
  /\ legs' = [s \in Sessions |-> WithoutLegsOf(legs[s], c)]
  /\ LET orphaned == {s \in Sessions : legs'[s] # << >> /\ legs'[s] # legs[s]}
     IN  \E order \in SetToSeqs(orphaned) :
           /\ Continue(c, [i \in 1..Len(order) |->
                             [to |-> Head(legs'[order[i]]).conn, aborts |-> TRUE,
                              frame |-> Control("close", order[i])]],
                       lockq, wire)
           /\ IF order = << >> THEN UNCHANGED reports ELSE Report(Head(order), "aborted")
  /\ UNCHANGED <<inputs, drone>>

\* The finally clause is through: the writer is closed.
Closed(c) ==
  /\ phase[c] = "teardown" /\ todo[c] = << >>
  /\ phase' = [phase EXCEPT ![c] = "closed"]
  /\ UNCHANGED <<inputs, drone, hubVars, reports>>

-----------------------------------------------------------------------------
(* The environment: a Drone dies or its process hangs.                     *)

Fault(c, health) ==
  /\ phase[c] # "closed" /\ drone[c] = "up"
  /\ Cardinality({k \in Conns : drone[k] # "up"}) < MaxFaults
  /\ drone' = [drone EXCEPT ![c] = health]
  /\ UNCHANGED <<phase, inputs, hubVars, reports>>

Handler(c) ==
  \/ \E s \in Sessions, role \in Roles : RelayOpen(c, s, role)
  \/ \E s \in Sessions : RelayClose(c, s) \/ Forward(c, s)
  \/ LimiterGrants(c)
  \/ Teardown(c)
  \/ Closed(c)

Next ==
  \E c \in Conns :
    \/ Handler(c)
    \/ SendEnds(c)
    \/ \E health \in Faults : Fault(c, health)

(***************************************************************************)
(* Fairness.  The loop resumes a handler whose limiter sleep is over and   *)
(* one whose target drains; TCP drains while the Drone reads, and raises   *)
(* once it is dead.  A Drone that hangs with its socket open may never let *)
(* a send end.  Nothing obliges a Drone to send anything.                  *)
(***************************************************************************)
Fairness ==
  \A c \in Conns :
    /\ WF_vars(LimiterGrants(c))
    /\ WF_vars(drone[c] # "stalled" /\ SendEnds(c))
    /\ WF_vars(Closed(c))

Spec == Init /\ [][Next]_vars
FairSpec == Spec /\ Fairness

-----------------------------------------------------------------------------
(* Properties.                                                             *)

\* No session holds a leg of a connection whose handler has left _serve.
NoStrayLegs ==
  \A s \in Sessions : \A leg \in ToSet(legs[s]) : phase[leg.conn] = "serving"

\* DATA of one Drone for one session is written to a connection in the order
\* that Drone sent it, across limiter, locks, closes and re-opened legs.
DataInOrder ==
  \A p \in Conns : \A i, j \in 1..Len(wire[p]) :
    LET f == wire[p][i]
        g == wire[p][j]
    IN  /\ i < j /\ f.kind = "data" /\ g.kind = "data"
        /\ f.session = g.session /\ f.from = g.from
        => f.n < g.n

Count(q, x) == Cardinality({i \in 1..Len(q) : q[i] = x})

\* A relay is reported aborted at most once per time it was reported active.
AbortsArePaired ==
  \A s \in Sessions : \A k \in 1..Len(reports[s]) :
    LET past == SubSeq(reports[s], 1, k)
    IN  Count(past, "aborted") <= Count(past, "active")

\* When no handler has a send left to make, both Drones of every pair on the
\* hub have been told RELAY_READY: nobody waits for a peer that is there.
NobodyWaitsForReady ==
  (\A c \in Conns : todo[c] = << >>) =>
    \A s \in Sessions : IsReady(legs[s]) =>
      \A leg \in ToSet(legs[s]) :
        \/ drone[leg.conn] = "gone"
        \/ \E f \in ToSet(wire[leg.conn]) : f.kind = "ready" /\ f.session = s

\* The finally clause gets through unless some Drone has stopped reading.
TeardownEnds ==
  \A c \in Conns :
    phase[c] = "teardown" ~>
      phase[c] = "closed" \/ \E p \in Conns : drone[p] = "stalled"

\* The finally clauses under way that still have to report s; each names a
\* session once, and reports it when it comes to the send about it.
Owing(s) ==
  {c \in Conns : \E i \in 2..Len(todo[c]) :
                   todo[c][i].aborts /\ todo[c][i].frame.session = s}
OwedReports == [s \in Sessions |-> Cardinality(Owing(s))]

\* RelaySession.legs without the order of the dict.
Party ==
  [s \in Sessions |->
     [role \in {leg.role : leg \in ToSet(legs[s])} |->
        (CHOOSE leg \in ToSet(legs[s]) : leg.role = role).conn]]

RL == INSTANCE RelayLifecycle WITH party <- Party, owed <- OwedReports

\* The hub and its reports implement the lifecycle of RelayLifecycle.
ImplementsLifecycle == RL!Lifecycle
=============================================================================
