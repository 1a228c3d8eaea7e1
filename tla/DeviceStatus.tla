---------------------------- MODULE DeviceStatus ----------------------------
(***************************************************************************)
(* Online, offline and publicly resolvable Drones, as the container of     *)
(* Overmind decides them.  Three threads work on the same memory and rows: *)
(* the event loop (heartbeats, the list of Drones, the admin overview),    *)
(* the device-status poller and the reachability poller (main.py 354-364,  *)
(* 451-672, 2034-2050, 2475-2490; db.py 2022-2084, 2181-2221).             *)
(*                                                                         *)
(* last_seen is kept only as fresh or stale against                        *)
(* SWARM_OFFLINE_THRESHOLD_SECONDS.  What is said to the users is left to  *)
(* NotificationDelivery, and that a notice may be suppressed as a          *)
(* repetition with it; here a notice only makes its run end in a mirror.   *)
(***************************************************************************)
EXTENDS Naturals, Sequences, FiniteSets, SequencesExt, FiniteSetsExt

CONSTANTS
  Drones,      \* approved Drones, by internal id
  Public,      \* the ones that have reported a public address
  Registered,  \* all of them, by registered_at
  Limit,       \* DEVICE_STATUS_MAX_DEVICES_PER_RUN; 0 is no limit
  ProbeLimits, \* choices of PUBLIC_REACHABILITY_MAX_DEVICES_PER_RUN, likewise
  MaxLoads,    \* bound on loads of the admin overview
  MaxFaults,   \* bound on what disturbs them: Drones switched off, on or late,
               \* changed port forwards, failed statements, restarts
  None         \* no Drone in db.devices, no heartbeat, no replaced memory

ASSUME DeviceStatusAssumption ==
  /\ Public \subseteq Drones
  /\ Registered \in SetToSeqs(Drones)
  /\ {Limit, MaxLoads, MaxFaults} \cup ProbeLimits \subseteq Nat

\* The threads that look for online/offline edges.
Threads == {"loop", "poller"}

VARIABLES
  up,         \* Drones that are switched on and report
  reach,      \* Drones that answer with their own id at their public address
  devices,    \* db.devices: what the process remembers of each Drone
  order,      \* its Drones, by last_status_checked_at or else last_seen
  unchecked,  \* the Drones without last_status_checked_at
  beat,       \* the heartbeat the event loop is in, with previous_status
  todo,       \* per thread, the Drones its status run has still to check
  judged,     \* per thread, the Drone it is at and is_online
  dirty,      \* threads whose run recorded a notice
  orphans,    \* the Drones of the poller's run, if db.devices was replaced
  seenRow,    \* drones.last_seen
  resolvable, \* drone_network_state.public_resolvable, "unset" without checked_at
  probeLimit, \* PUBLIC_REACHABILITY_MAX_DEVICES_PER_RUN of the process
  probes,     \* the reachability run: listed Drones with the probe's answer
  loads, faults

envVars == <<up, reach, probeLimit>>
memVars == <<devices, order, unchecked>>
runVars == <<todo, judged, dirty, orphans>>
rowVars == <<seenRow, resolvable>>
vars == <<envVars, memVars, beat, runVars, rowVars, probes, loads, faults>>

Seen == {"fresh", "stale"}
Statuses == {"unset", "online", "offline"}
Words == {"unset", "yes", "no"}
Device == [seen : Seen, known : Statuses, probed : Words]

TypeOK ==
  /\ up \subseteq Drones /\ reach \subseteq Public /\ probeLimit \in ProbeLimits
  /\ devices \in [Drones -> Device \cup {None}]
  /\ order \in Seq(Drones)
  /\ ToSet(order) = {d \in Drones : devices[d] # None}
  /\ unchecked \subseteq Drones
  /\ beat \in [drone : Drones, previous : Statuses] \cup {None}
  /\ todo \in [Threads -> Seq(Drones)]
  /\ judged \in [Threads -> [drone : Drones, status : Statuses] \cup {None}]
  /\ dirty \subseteq Threads
  /\ orphans \in [Drones -> Device \cup {None}] \cup {None}
  /\ seenRow \in [Drones -> Seen]
  /\ resolvable \in [Drones -> Words]
  /\ \A d \in DOMAIN probes :
       d \in Public /\ probes[d] \in [listed : Words, answer : Words]
  /\ loads \in 0..MaxLoads /\ faults \in 0..MaxFaults

\* All Drones have just registered with this process.
Init ==
  /\ up = Drones
  /\ reach \in SUBSET Public
  /\ probeLimit \in ProbeLimits
  /\ devices = [d \in Drones |->
                  [seen |-> "fresh", known |-> "online", probed |-> "unset"]]
  /\ order \in SetToSeqs(Drones)
  /\ unchecked = Drones
  /\ beat = None
  /\ todo = [t \in Threads |-> << >>]
  /\ judged = [t \in Threads |-> None]
  /\ dirty = {}
  /\ orphans = None
  /\ seenRow = [d \in Drones |-> "fresh"]
  /\ resolvable = [d \in Drones |-> "unset"]
  /\ probes = << >>
  /\ loads = 0 /\ faults = 0

Remembers(d) == devices[d] # None

IsLast(d) == Append(Remove(order, d), d)

-----------------------------------------------------------------------------
(* The mirror of the memory into the rows.                                 *)

\* public_resolvable after the mirror of a device: a device without probe
\* data keeps the row's (_mirror_device_details).
Carried(dev, word) == IF dev.probed = "unset" THEN word ELSE dev.probed

\* store_app_state after a persisting call, on the rows as they are then.
Mirrored(mem, rows) ==
  /\ seenRow' = [d \in Drones |->
                   IF mem[d] = None THEN rows[d] ELSE mem[d].seen]
  /\ resolvable' = [d \in Drones |->
                      IF mem[d] = None THEN resolvable[d]
                      ELSE Carried(mem[d], resolvable[d])]

Fault == faults < MaxFaults /\ faults' = faults + 1
NoFault == faults' = faults

-----------------------------------------------------------------------------
(* The event loop.                                                         *)

LoopIsFree ==
  /\ beat = None
  /\ todo["loop"] = << >> /\ judged["loop"] = None /\ "loop" \notin dirty

\* touch_device_last_seen; one that fails is logged and the handler goes on.
TouchLastSeen(d) ==
  \/ seenRow' = [seenRow EXCEPT ![d] = "fresh"] /\ NoFault
  \/ seenRow' = seenRow /\ Fault

\* A heartbeat touches the row, then last_seen in memory; previous_status is
\* read first.  A Drone that is not in memory has no status to change.
Hear(d) ==
  /\ LoopIsFree
  /\ d \in up
  /\ TouchLastSeen(d)
  /\ IF Remembers(d)
       THEN /\ beat' = [drone |-> d, previous |-> devices[d].known]
            /\ devices' = [devices EXCEPT ![d].seen = "fresh"]
            /\ order' = IF d \in unchecked THEN IsLast(d) ELSE order
       ELSE /\ beat' = [drone |-> d, previous |-> "online"]
            /\ UNCHANGED <<devices, order>>
  /\ UNCHANGED <<envVars, unchecked, runVars, resolvable, probes, loads>>

\* The rest of update_device_last_seen, and the mirror of the whole memory.
Answer ==
  /\ beat # None
  /\ devices' = IF beat.previous = "online" THEN devices
                ELSE [devices EXCEPT ![beat.drone].known = "online"]
  /\ \/ Mirrored(devices', seenRow) /\ NoFault
     \/ UNCHANGED rowVars /\ Fault
  /\ beat' = None
  /\ UNCHANGED <<envVars, order, unchecked, runVars, probes, loads>>

\* The memory takes the Drones as the rows have them: no last_known_status,
\* no last_status_checked_at, and the probe data of this moment.  A run of
\* the poller goes on with the dictionaries it has listed.
AdminOverview ==
  /\ LoopIsFree
  /\ loads < MaxLoads
  /\ loads' = loads + 1
  /\ devices' = [d \in Drones |->
       [seen |-> seenRow[d], known |-> "unset", probed |-> resolvable[d]]]
  /\ order' \in {s \in SetToSeqs(Drones) : \A i, j \in DOMAIN s :
       seenRow[s[i]] = "fresh" /\ seenRow[s[j]] = "stale" => j < i}
  /\ unchecked' = Drones
  /\ orphans' = IF orphans = None THEN devices ELSE orphans
  /\ UNCHANGED <<envVars, beat, todo, judged, dirty, rowVars, probes, faults>>

-----------------------------------------------------------------------------
(* update_device_status_notifications, in the poller and in list_devices.  *)

\* The Drones of a run: the ones checked longest ago.
Due(t) ==
  IF t = "loop" \/ Limit = 0 THEN order
  ELSE SubSeq(order, 1, IF Limit < Len(order) THEN Limit ELSE Len(order))

StatusRun(t) ==
  /\ todo[t] = << >> /\ judged[t] = None /\ t \notin dirty
  /\ t = "loop" => LoopIsFree
  /\ todo' = [todo EXCEPT ![t] = Due(t)]
  /\ orphans' = IF t = "poller" THEN None ELSE orphans
  /\ UNCHANGED <<envVars, memVars, beat, judged, dirty, rowVars, probes, loads, faults>>

\* The dictionaries a run works on.
Orphaned(t) == t = "poller" /\ orphans # None
Held(t) == IF Orphaned(t) THEN orphans ELSE devices

CheckedInPlace(d) == order

\* Where a Drone goes in the order when last_status_checked_at is set.
Checked(d) == IsLast(d)

\* The next Drone is stamped, and its last_seen compared with the cutoff.
Judge(t) ==
  /\ todo[t] # << >> /\ judged[t] = None
  /\ LET d == Head(todo[t])
     IN  /\ judged' = [judged EXCEPT ![t] = [drone |-> d, status |->
              IF Held(t)[d].seen = "fresh" THEN "online" ELSE "offline"]]
         /\ IF Orphaned(t) THEN UNCHANGED <<order, unchecked>>
            ELSE order' = Checked(d) /\ unchecked' = unchecked \ {d}
  /\ todo' = [todo EXCEPT ![t] = Tail(@)]
  /\ UNCHANGED <<envVars, devices, beat, dirty, orphans, rowVars, probes, loads, faults>>

\* The status is compared with last_known_status, and recorded; a Drone that
\* changed is told of, one whose status was not known is not.
Settle(t) ==
  /\ judged[t] # None
  /\ LET d == judged[t].drone
         current == judged[t].status
         previous == Held(t)[d].known
     IN  /\ IF Orphaned(t)
              THEN /\ orphans' = [orphans EXCEPT ![d].known = current]
                   /\ devices' = devices
              ELSE /\ devices' = [devices EXCEPT ![d].known = current]
                   /\ orphans' = orphans
         /\ dirty' = IF previous \in {"unset", current} THEN dirty ELSE dirty \cup {t}
  /\ judged' = [judged EXCEPT ![t] = None]
  /\ UNCHANGED <<envVars, order, unchecked, beat, todo, rowVars, probes, loads, faults>>

\* A run that recorded a notice is a persisting call, and mirrors the memory.
EndRun(t) ==
  /\ t \in dirty /\ todo[t] = << >> /\ judged[t] = None
  /\ dirty' = dirty \ {t}
  /\ \/ Mirrored(devices, seenRow) /\ NoFault
     \/ UNCHANGED rowVars /\ Fault
  /\ UNCHANGED <<envVars, memVars, beat, todo, judged, orphans, probes, loads>>

-----------------------------------------------------------------------------
(* poll_public_reachability_once.                                          *)

\* ORDER BY checked_at ASC NULLS FIRST, registered_at ASC.  The order of those
\* with a checked_at is left open: a mirror may put back an earlier one.
GoesFirst(c, d) ==
  /\ resolvable[c] = "unset"
  /\ \/ resolvable[d] # "unset"
     \/ \E i, j \in DOMAIN Registered : i < j /\ Registered[i] = c /\ Registered[j] = d

\* list_all_approved_devices, with LIMIT or without.
Listings ==
  IF probeLimit = 0 \/ probeLimit >= Cardinality(Drones) THEN {Drones}
  ELSE {l \in kSubset(probeLimit, Drones) : \A d \in l, c \in Drones \ l : ~GoesFirst(c, d)}

\* The rows are listed, and the probes started.  One without a public address
\* is never resolvable, which is no news.
ReachabilityRun ==
  /\ probes = << >>
  /\ \E l \in Listings :
       probes' = [d \in l \cap Public |-> [listed |-> resolvable[d], answer |-> "unset"]]
  /\ UNCHANGED <<envVars, memVars, beat, runVars, rowVars, loads, faults>>

\* A worker of the pool has asked the Drone's public address who it is.
Probe(d) ==
  /\ d \in DOMAIN probes /\ probes[d].answer = "unset"
  /\ probes' = [probes EXCEPT ![d].answer = IF d \in reach THEN "yes" ELSE "no"]
  /\ UNCHANGED <<envVars, memVars, beat, runVars, rowVars, loads, faults>>

IsNewsOnce(p) == p.answer = "yes" /\ p.listed # "yes"

\* Whether a run writes an answer: not when it is what was listed.
IsNews(p) == (p.answer = "yes") # (p.listed = "yes")

Done(d) == [c \in DOMAIN probes \ {d} |-> probes[c]]

\* update_device_reachability: the row is written whatever it says by now.
UpdateReachability(d, answer) == resolvable' = [resolvable EXCEPT ![d] = answer]

\* Answers are taken as they come; one that is news is written to the row.
RecordProbe(d) ==
  /\ d \in DOMAIN probes /\ probes[d].answer # "unset"
  /\ IF IsNews(probes[d]) THEN UpdateReachability(d, probes[d].answer)
     ELSE resolvable' = resolvable
  /\ probes' = Done(d)
  /\ UNCHANGED <<envVars, memVars, beat, runVars, seenRow, loads, faults>>

\* The budget of the run is used up, or a statement raises: the Drones that
\* are left have to wait for a next run.  This may befall any run.
ReachabilityRunEnds ==
  /\ probes # << >>
  /\ probes' = << >>
  /\ UNCHANGED <<envVars, memVars, beat, runVars, rowVars, loads, faults>>

-----------------------------------------------------------------------------
(* The Drones, time and the platform.                                      *)

Change ==
  /\ Fault
  /\ \/ reach' = reach /\ \E d \in Drones : up' = (up \ {d}) \cup ({d} \ up)
     \/ up' = up /\ \E d \in Public : reach' = (reach \ {d}) \cup ({d} \ reach)
  /\ UNCHANGED <<probeLimit, memVars, beat, runVars, rowVars, probes, loads>>

Aged(mem, d) ==
  IF mem[d] = None THEN mem ELSE [mem EXCEPT ![d].seen = "stale"]

\* A Drone has been silent for the threshold: off, or late.
Lapse(d) ==
  /\ seenRow[d] = "fresh" \/ (Remembers(d) /\ devices[d].seen = "fresh")
  /\ beat # None => beat.drone # d
  /\ IF d \in up THEN Fault ELSE NoFault
  /\ devices' = Aged(devices, d)
  /\ orphans' = IF orphans = None THEN None ELSE Aged(orphans, d)
  /\ seenRow' = [seenRow EXCEPT ![d] = "stale"]
  /\ UNCHANGED <<envVars, order, unchecked, beat, todo, judged, dirty, resolvable, probes, loads>>

\* The process is replaced: it starts with no Drones, and heartbeats do not
\* bring any back.
Restart ==
  /\ Fault
  /\ devices' = [d \in Drones |-> None]
  /\ order' = << >>
  /\ unchecked' = {}
  /\ beat' = None
  /\ todo' = [t \in Threads |-> << >>]
  /\ judged' = [t \in Threads |-> None]
  /\ dirty' = {}
  /\ orphans' = None
  /\ probes' = << >>
  /\ UNCHANGED <<envVars, rowVars, loads>>

Run(t) == StatusRun(t) \/ Judge(t) \/ Settle(t) \/ EndRun(t)

Next ==
  \/ \E d \in Drones : Hear(d) \/ Probe(d) \/ RecordProbe(d) \/ Lapse(d)
  \/ Answer \/ AdminOverview
  \/ \E t \in Threads : Run(t)
  \/ ReachabilityRun \/ ReachabilityRunEnds
  \/ Change \/ Restart

(***************************************************************************)
(* Fairness: the pollers run again and again and end their runs; the event *)
(* loop ends what it has begun; a Drone that stays off lapses.  Heartbeats *)
(* and requests owe nothing.                                               *)
(***************************************************************************)
Fairness ==
  /\ WF_vars(Run("poller"))
  /\ WF_vars(Answer)
  /\ WF_vars(Judge("loop") \/ Settle("loop") \/ EndRun("loop"))
  /\ \A d \in Drones : WF_vars(Probe(d)) /\ WF_vars(RecordProbe(d))
                       /\ WF_vars(d \notin up /\ Lapse(d))
  /\ WF_vars(ReachabilityRun)

Spec == Init /\ [][Next]_vars
FairSpec == Spec /\ Fairness

-----------------------------------------------------------------------------
(* Properties.                                                             *)

\* A Drone that the process remembers and that stays silent is recorded as
\* offline for good, one that is heard stays online for good: whichever
\* Drones the limit of a run leaves out, and however the two status runs, the
\* heartbeats and the overview interleave (db.py 2187-2209).
StatusSettles ==
  \A d \in Drones :
    /\ <>[](Remembers(d) /\ devices[d].seen = "stale") =>
         <>[](Remembers(d) /\ devices[d].known = "offline")
    /\ <>[](Remembers(d) /\ devices[d].seen = "fresh") =>
         <>[](Remembers(d) /\ devices[d].known = "online")

Agrees(d) == (resolvable[d] = "yes") = (d \in reach)
MemoryAgrees(d) ==
  Remembers(d) /\ devices[d].probed # "unset" =>
    (devices[d].probed = "yes") = (d \in reach)

Steady(d) == <>[](d \in reach) \/ <>[](d \notin reach)

\* The runs get to a Drone again and again: they do without a limit and while
\* no run is cut short.
IsProbed(d) ==
  \/ []<><<RecordProbe(d)>>_vars
  \/ probeLimit = 0 /\ <>[][~ReachabilityRunEnds]_vars

\* Once the public address of a Drone answers the same all the time, and the
\* runs get to it, its row says so again and again, whatever the mirrors write
\* over it, and for good if the memory does not hold an older answer (main.py
\* 508-600, postgres_store.py 4670-4708).
ReachabilitySettles ==
  \A d \in Public :
    Steady(d) /\ IsProbed(d) =>
      /\ []<>Agrees(d)
      /\ <>[]MemoryAgrees(d) => <>[]Agrees(d)
=============================================================================
