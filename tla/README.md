# A formal model of Batocera Overmind

Overmind is the control plane of a fleet of Batocera game consoles ("Drones"):
a FastAPI application on PostgreSQL that runs as AWS Lambda functions or as a
container, and an always-on asyncio process, the *Edge*, to which every Drone
keeps one multiplexed TLS connection.  The Edge knows who is present and relays
file transfers between Drones that cannot reach each other.

This directory holds TLA+ modules for the parts of Overmind whose correctness
depends on the order in which things happen, the TLC configurations that check
them on small instances, and TLAPS proofs of the invariants that matter most.
Paths below are relative to `src/src/overmind/` unless they begin with
`README.md`, `docs/` or `tests/`.

## 1. The system: an inventory

| Component | State | Operations | Talks to |
|---|---|---|---|
| Edge connection handler (`edge/server.py`, `edge/auth.py`) | one coroutine per connection, `_connections` by device | handshake, read loop, idle probes, teardown | registry, relay hub, Drones |
| Presence registry (`edge/registry.py`) | `_entries` by device | `register`, `deregister`, `touch` | hooks: presence writer |
| Presence writer (`edge/edge_app.py`) | queue of a one-thread executor | upsert of the `edge_*` columns | PostgreSQL |
| Relay hub (`edge/relay.py`, `edge/server.py`) | sessions with up to two legs; writer lock per connection; rate limiter | `open_leg`, `close_session`, `drop_connection`, `forward` | connections, status writer |
| Transfer sessions (`main.py`, `postgres_store.py`, `transfer_tokens.py`, `edge/edge_app.py`) | signed token, `transfer_sessions` rows, status writes in a thread pool | create, offer, status update, sweep | API, Edge, scheduled job |
| Device action queue (`postgres_store.py`, `db.py`, `main.py`) | `drone_actions`, `drone_action_results` | create, claim, requeue, complete, clear, time out | Drones, users, scheduled job, notifications |
| Notifications (`db.py`, `notification_delivery.py`, `postgres_store.py`) | rows of `notifications` and `notification_recipients`, copies in the memory of every process | record, mirror, digest, read, dismiss | every component that reports an event |
| State mirror (`db.py`, `postgres_store.py`) | memory of every API process, rows of all tables | persist after each call of a list | PostgreSQL |
| Onboarding (`db.py`, `postgres_store.py`, `main.py`) | integration tokens, requests waiting for approval, Drones and their credentials | issue, claim, revoke; register, accept, deny, assign, claim ownership; rotate, delete | users, Drones, super-admin |
| Swarms and access (`db.py`, `access_policy.py`, `main.py`) | swarms, members and roles, invitations | found, invite, renew, accept, change role, remove | users |
| Accounts (`db.py`, `main.py`, `auth.py`) | accounts, links sent by e-mail | sign up, verify, log in (password, provider), reset, erase | users, swarms |
| Asset inventory (`db.py`, `postgres_store.py`) | games per Drone, thumbprints | full, delta and chunked upload; purge; master list | Drones, cache, actions |
| Device status (`db.py`, `main.py`, `postgres_store.py`) | last seen, last known status, public reachability | heartbeat, status run, reachability run | notifications |
| Response cache (`cache.py`) | answers with a time to live | fill, invalidate, expire | asset inventory |
| Edge mux codec (`edge/protocol.py`) | bytes in a stream | encode, read a frame | connections |
| Everything else | — | downloads log, snapshots, presenters, managed configs, certificates, STUN, Lambda dispatch, UI | — |

What is hard in each, and what makes it correct:

* **Edge connections.**  A Drone reconnects before its old handler has noticed
  the loss; handlers end at any await; the Edge crashes or is replaced during a
  deploy; presence is mirrored to PostgreSQL by another thread.  Correct means:
  the newest connection is the present one, two tables agree, a handler that
  ends cleans up its own entry and no other, and the row follows the registry.
* **Relay.**  All handlers share the hub and wait for each other's writer locks.
  While one waits, the session it is about is closed, re-opened, or loses a
  leg.  Correct means: no leg of a dead connection, data in order, reports that
  pair up, nobody left waiting for RELAY_READY, a teardown that ends.
* **Transfer sessions.**  Status writes overtake each other, fail, or die with
  the Edge; the sweep runs by the clock.  Correct means: no row is pending for
  ever, and rows move by reports and sweeps only.
* **Action queue.**  A poll's answer is lost, a completion is repeated, races
  the timeout, the requeue, or the user's "clear".  Correct means: an outcome
  is final and is told once, the oldest goes first, every action ends.
* **Notifications.**  Every process mirrors what it remembers over the rows
  that the digest job claims and the user marks.  Correct means: one digest per
  queuing, a read mark that survives, a queue that is worked off.
* **Onboarding.**  A request is spread over several transactions; two Drones
  claim one token; what a worker remembers of tokens, requests and Drones is
  mirrored over what others have decided since.  Correct means: a Drone is
  somebody's only by consent, authorised by a token of its owner, known by its
  own credential, and able to report with the token it registered with.
* **Swarms and accounts.**  Invitations and links live in one worker's memory,
  roles and accounts in the rows, and stale copies are merged in any order.
  Some deployments take an address on trust.  Correct means: nobody is verified,
  invited or a member who did not earn it, nobody but the founder manages a
  swarm, a swarm never loses its owner.
* **Asset inventory.**  Uploads come in pieces to different workers, break off,
  or go on in a worker for which the Drone has stopped waiting; the thumbprint
  echoed by a heartbeat decides whether the Drone uploads again, and mirrors
  wipe it.  Correct means: an echo that matches the disk lies about no games but
  those which a few known events have lost, and re-uploading comes to an end.
* **Device status.**  Two threads run the same status check on shared
  dictionaries that a third replaces; probe results are written to rows that
  mirrors write back.  Correct means: a silent Drone ends up offline, one that
  reports online, and reachability ends up true.

`PROJECT.json` lists these hazards line by line, each with the properties that
watch it, or the reason why none does.

## 2. Modules

| Module | What it is | Proofs |
|---|---|---|
| `PresenceLease` | abstract: one lease per node and device, newest taker wins | — |
| `EdgePresence` | handlers, registry, connections table, presence writer | `EdgePresence_proofs` |
| `RelayLifecycle` | abstract: parties of a session and its lifecycle reports | — |
| `EdgeRelay` | hub, handlers, writer locks, limiter | `EdgeRelay_proofs` |
| `TransferSessions` | API, Edge, pool, rows and sweep around `RelayLifecycle` | `TransferSessions_proofs` |
| `ActionQueue` | rows of `drone_actions`, Drone, job, workers | `ActionQueue_proofs` |
| `NotificationDelivery` | processes with memories, rows, digest job, user | `NotificationDelivery_proofs` |
| `Onboarding` | tokens, requests, Drones in rows and memories | `Onboarding_proofs` |
| `SwarmAccess` | accounts, swarms, members, invitations in rows and memories | `SwarmAccess_proofs` |
| `AssetInventory` | uploads and the requests of workers step by step, thumbprint, purge, master list | `AssetInventory_proofs` |
| `DeviceStatus` | the container's event loop and its two pollers | — |
| `MC*` | instances of the above for TLC | — |

Composition: `EdgePresence` implements `PresenceLease`; `EdgeRelay` implements
`RelayLifecycle`; `TransferSessions` *extends* `RelayLifecycle` and puts the
API, the thread pool and the database around it, so what it shows about rows
holds for the relay of `EdgeRelay`.  The five modules about the API each carry
their own part of the state mirror: the mirror writes all tables in one
transaction, but no property here relates tables of two of these modules.

What could come next: `FrameStream`, frames in pieces under the cancellation of
`wait_for` (`edge/server.py:183`); `PersistGate`, the unlocked
`_operation_depth` of `db.__getattribute__`; `EdgePresence` and `EdgeRelay`
together, so that who waits for which Drone is told by the hub rather than left
open; the notices of `DeviceStatus` with their suppression.

Modules that carry proofs declare no RECURSIVE operator, name the assumptions
on their constants, and build their invariants from named conjuncts.

## 3. How the modules correspond to the code

**EdgePresence.**  `pc[c]` is the await at which the coroutine
`handle_connection` of connection `c` is parked: `hello` (first frame), `auth`
(token check in the thread pool), `ack` (send of HELLO_ACK), `serve` (read
loop), `write` (an answer or a PING), `relay` (a send to a peer, awaited in the
read loop), `teardown` (the finally clause, in `_teardown_relay`).  A `drone`
is `up`, `gone`, or `stalled`: alive, but no longer reading, so that what is
sent to it may never drain, neither by its own handler nor by another's that
relays to it or reports to it in a finally clause.  asyncio runs the code
between two awaits without interruption, so each action is one such stretch.
`hello` and `device_id` are the locals of `_handshake` and of its caller; that
they are two is the point: presence is registered while the caller's is still
`None`. `entries` and `connections` are the two tables, `writes` the queue of
the one-thread executor, `drone_network_state` the columns it writes.  `Crash`
empties one node.  A token check that fails and a refused HELLO go straight to
the finally clause: the error frame sent on the way changes no state.  `touch`
only moves a timestamp and is left out.

**EdgeRelay.**  `legs[s]` is `RelaySession.legs`, with the order of the dict;
`lockq[p]` is the FIFO of the `asyncio.Lock` of connection `p` (holder first);
`todo[c]` is what is left of the send loop the handler of `c` is in; `wire[p]`
records what was written.  A send that finds the lock free writes at once; a
waiter's frame is written when it gets the lock; `SendEnds` is `drain`
returning, or raising, which every send loop swallows.  A Drone may die
(`gone`: writes vanish, drains end) or hang (`stalled`: drains may never end).
`Teardown` is `drop_connection` up to the first await, and takes sessions in any
order, as sets do.  PONG, PING and TRANSFER_OFFER sends are left out: they
change nothing but the length of the lock queues.  A session's dict has at most
the two roles as keys (`TypeOK` says so of `legs[s]`), which is why
`WithoutLegsOf` is the first leg and the second, each unless it is of the
connection that leaves.  `Owing(s)` are the finally clauses that still have to
report `s`; their number is `owed[s]` of `RelayLifecycle`.

**TransferSessions.**  `token` is the signed transfer token, which expires by
the Edge's clock; `overdue` are the sessions whose row is past its `expires_at`
by the database's.  The two times are taken apart (`main.py:2428`,
`transfer_tokens.py:44`) and either may pass first.  `pool` the status writes
in flight, each the k-th report of its session, committing in any order, as
tasks of the default executor do; `Attempt` is a statement that may raise and
is then only logged. The development mode without a transfer secret, where
RELAY tokens are not checked, and the permission checks of the API are left
out.

**ActionQueue.**  One action per transaction: the claim (requeue, select,
update), the status update of a completion, its result row, its notification.
A completion is the last three in a row, so `post[r].at` tells how far the
handler of report `r` has got when its worker dies.  `age` abstracts
`claimed_at` to the two thresholds of the code: 10 minutes (timeout) and 15
minutes (requeue).  The Drone is external: it runs what it heard of, and
reports each outcome as often as `Reports` allows.  Reports without a result,
the `log_sources` side effect and the in-memory fallback without PostgreSQL are
left out.

**NotificationDelivery.**  `mem[p]` is `db.notifications` of one Lambda
instance, `row` the `delivery_pending` column, `seen` the recipient's columns
(`dismissed` implies read).  A call is a sequence of `stage`s between which
other instances run: append and lean insert, then the mirror; or hydrate, claim,
send, mirror.  The mirror writes every remembered notification over its row.
`SKIP LOCKED` is a choice among the rows a mirror in progress may have locked.
The aggregation window is a choice too: a digest tells of any part of the
unread batch, or of nothing when the channel raises.  `due` is history: how
often a row was queued less how often it was told.  The poller thread of the
container (same memory, other thread), deduplication, the 500-entry caps and
the loading limit of 500 are left out.

**Onboarding.**  `tok`, `drone`, `pend` are the rows of `integration_tokens`,
`drones` (with their credentials and the admin claim as `owner`) and
`pending_drone_connections`; `mtok`, `mpend`, `mdev` what each worker remembers
of them.  Reads prefer rows and fall back to memory (`Known`, `Found`), a
change of a Drone that has a row changes only the copy that
`get_device_by_device_id` returned (`OnCopy`), and every persisting call ends in
`PersistState`, which writes the whole memory over the rows, or fails as a
whole when a Drone is remembered under another internal id (`CanMirror`).
`stage` and `job` say what a request does next: registering is a SELECT, an
UPDATE, a mirror, then the credential or the request, then another mirror.  A
credential stands for the token it was made from.  `presented` and `consent`
are history.  Only the swarm of `SwarmOwner` receives requests, and every user
may see them; who may see what is the matter of `SwarmAccess`.

**SwarmAccess.**  `user`, `swarm`, `member`, `invite` are rows, the same with an
`m` memory; `verification` and `reset` are the unused links, which only the
worker that sent them knows.  A request is one step up to its mirror; signing up
is `Register`, a mirror, `Welcome` (which tells the super-admin, through a swarm
of the system with id `AdminSwarm`, and mirrors that), and `Greet`; inviting is
two steps, for the auto-acceptance comes after a mirror of its own.
`CompleteSocialLogin` writes the rows and `RecordRelationships` the memory.  A
person is their address.  `proved`, `trusted`, `founded` and `invited` are
history: an address is proved by a link that was sent to it, or by a provider;
it is taken on trust by `OVERMIND_AUTO_VERIFY_REGISTRATION`, by the development
login, or as the first, unverified, of several addresses of a provider.
`AutoVerify` says which values that flag may have from deployment to deployment,
`Providers` whether a provider is enabled, `Admin` whose address is
`SUPER_ADMIN_EMAIL`.

**AssetInventory.**  `request[w]` is how far `store_rom_metadata` has got on
worker `w`: `clear`/`forget`, `add` (one transaction for each system), `drop`,
`record` (the thumbprint), `answer` (the mirror); `batch`, `gone` and `last` are
what the request carries.  `upload` is what the Drone is about, and `upload.at`
the worker it waits for: after `GiveUp` the request goes on without it, beside
the next upload.  A thumbprint is the set of games it was computed of, and
whether one is recorded goes by the request's own word (`IsComplete`).  Rows are
deleted by `GameId` across systems, and games without one are not deleted at
all.  `remembers` are the workers with the Drone in `db.devices`; their mirrors
write NULL over the thumbprint, which none of the loaders reads.  The Drone's
side is external: it installs and removes games as it likes, uploads when the
echo differs from its disk, and sends a delta only on top of its last
acknowledged upload.  `lost` is history: the games that were taken out of the
rows, and not put back since, by a request nobody waited for or that failed, by
a purge, or as a namesake of another.

**DeviceStatus.**  `devices` is `db.devices`, `order` its order by
`last_status_checked_at` or else `last_seen`; `beat` a heartbeat between
reading `previous_status` and recording the new one; `todo` and `judged` a
status run of either thread between listing, stamping and comparing; `orphans`
the dictionaries of a run whose `db.devices` was replaced by the overview;
`probes` the reachability run with what it listed, which is all approved Drones
or, by `probeLimit`, those that come first in the order of `Listings`.
`last_seen` is fresh or stale against the threshold, so a run takes less time
than that threshold.  Notices only make their run end in a mirror.

## 4. What the runs check

| Run | Instance | Distinct states | Shows |
|---|---|---|---|
| `edge_presence` | 2 nodes, 3 connections (two at one node), 1 device, 2 missed pings, 1 failed write, 1 crash per node | 462,279 | `TablesAgree`, `NewestIsPresent`, `PresentHasHandler`, `RowFollowsItsNode`, implements `PresenceLease` |
| `edge_presence_live` | the same without failed writes and crashes; Drones may be lost, and one may stop reading | 168,428 | `GoneIsEvicted`, `MirrorSettles` |
| `edge_relay` | 3 connections, 1 session, 4 messages, 1 fault | 260,043 | `NoStrayLegs`, `DataInOrder`, `AbortsArePaired`, `NobodyWaitsForReady`, implements `RelayLifecycle` |
| `edge_relay_live` | 2 connections, 2 sessions, 4 messages, 1 fault | 178,916 | `TeardownEnds` |
| `transfer_sessions` | 2 sessions, 2 reports each, 1 fault | 330,711 | `RowSaysWhatWasReported`, `RowsMoveByReports`, `PendingEnds` |
| `action_queue` | 2 actions (one silent), 2 reports, 1 per poll, 1 fault | 548,101 | `NotifiedOnce`, `OneResultPerAction`, `OutcomeIsFinal`, `OldestFirst`, `EveryActionEnds` |
| `notifications` | 2 job instances, 2 notifications, 1 per run, 1 fault, 1 other call | 2,339,162 | `OneDigestPerQueuing`, `ReadStaysRead` |
| `notifications_live` | 1 worker, 1 job instance, 2 notifications, 1 per run, 2 other calls | 136,827 | `QueuedIsRetired` |
| `onboarding` | 2 workers, 2 Drones, 2 users with a token each, 3 requests, 1 fault | 316,706 | `OwnedByConsent`, `AuthorizedByOwner`, `KnownByItsOwnCredential`, `RegisteredCanReport` |
| `swarm_access` | 2 workers, a founder, who is the super-admin, and a newcomer, with and without the flag, providers, up to 3 swarms and the system's, 2 invitations, 2 days, 3 requests, 2 faults | 647,828 | `AccessIsEarned`, `OnlyFoundersAreOverlords`, `OwnerIsMember` |
| `asset_inventory` | 2 games of two systems under one id, 2 workers, 2 games that come or go, 1 other call, 1 upload that fails or is given up | 1,375,526 | `OnlyLostIsMissing`, `UploadingEnds` |
| `device_status` | 2 Drones (one with a public address), status runs of 1, reachability runs of 1 or of all, 1 overview, 1 fault | 272,630 | `StatusSettles`, `ReachabilitySettles` |

The liveness-only runs and those of `Onboarding`, `SwarmAccess`,
`AssetInventory` and `DeviceStatus` do not repeat their module's `TypeOK`; that
of the first three is part of what is proved (section 6).  Each property is
paired in `PROJECT.json` with a plausible slip in one mapped definition under
which TLC finds it violated.

*Why these bounds.*  Three connections let a device be superseded while it is
being superseded; two nodes cover a rolling deploy, and nodes share only the
row.  Two missed pings separate the probe from the eviction.  In the relay, a
third connection is what makes a replaced leg differ from a peer; four messages
suffice for open, open, data and a close or re-open in between; the second
session makes one teardown owe several reports.  Two transfer reports are a
pair `active`, then an end, which is all that can be overtaken.  Two actions
with one claim per poll make order matter; two reports give a repetition and a
race.  Two notifications with one claim per run make a run leave something
behind.  Two workers are a memory that decides and one that is stale; every
property of `Onboarding` and `SwarmAccess` relates one Drone, swarm or
invitation to its origin, and two Drones, users and tokens are enough to take
one for the other.  Three requests of onboarding are a registration, a decision
and one that interferes; three of swarms are a sign-up or an invitation and two
more, each of several steps, with two faults to lose a mirror and a memory.
Two games are one that stays and one that goes, in two systems, so that each
upload takes two transactions; two changes let a set of games come back.  One
request that is given up is one more beside the next upload.  One connection
whose Drone stops reading, of two at its node, lets another handler wait for
it.  Two Drones with runs of one let a limit leave one out.  Counters exist to
bound faults and external messages only; they are named in the modules.

*Deadlock* is not checked: all inputs are bounded (connections are used once,
messages, requests and ids run out), after which the system rightly rests.

*Symmetry* is used in `edge_presence` (connections of one node), `edge_relay`
(connections, sessions), `notifications` (instances, notifications),
`onboarding` (instances, Drones) and `swarm_access` (instances), never in a run
with liveness.

## 5. Fairness

* `EdgePresence`: the loop resumes what can go on; token checks answer; the
  writer thread takes the next task; the idle timer is fair only against a Drone
  that is gone, since any frame re-arms it.  A send drains or raises (TCP gives
  up on a dead peer) unless the Drone has stopped reading: a handler's own send
  if its Drone is stalled, a relayed one, in the read loop or in the finally
  clause, if another connected to its node is.  `GoneIsEvicted` therefore
  supposes that no such Drone stalls for good.  No Drone has to connect, to
  finish a handshake, or to stay.
* `EdgeRelay`: the limiter's sleep ends; a send ends unless its target has
  stopped reading; a finally clause with nothing to send ends.
* `TransferSessions`: the database's clock passes the row's expiry, the pool runs
  its tasks, the job runs every minute.  The token may stay valid meanwhile.
* `ActionQueue`: the Drone polls, claims grow old, and the job (every minute)
  sees a claim between its timeout (10 minutes) and its requeue (15 minutes):
  strong fairness, since a poll may take that state away again and again.
* `NotificationDelivery`: the schedule starts the job, a started call goes on.
* `AssetInventory`: the Drone goes on sending heartbeats and what it has begun
  to upload, a worker finishes its request, what has expired leaves the cache.
  Nothing makes a worker forget a Drone: Lambda retires instances in the end, a
  container goes on.  `UploadingEnds` has as its hypothesis that each worker is
  without the Drone again and again; without it uploading never ends (section 7,
  item 9).
* `DeviceStatus`: both pollers run again and again, the event loop ends what it
  has begun, a Drone that stays off lapses.  Heartbeats and requests owe nothing.
  A reachability run may be cut short at any time and any number of times, as
  its budget does; so `ReachabilitySettles` supposes of a Drone that runs get to
  it again and again, which they do by themselves when there is no limit and no
  run is cut short any more (`IsProbed`).

## 6. What is proved

TLAPS checks these for all values of the constants: any number of nodes,
devices, connections, workers, users, games, requests and faults.

* `EdgePresence_proofs`.  `TypeOK`, `TablesAgree`, `NewestIsPresent` and
  `PresentHasHandler` are not inductive by themselves: that a finally clause
  removes the right entry depends on what the handler's locals say.  `IInv` adds
  `HandlerLocals` (which locals are set at which await), `EntriesAreLatest` (an
  entry belongs to the last registration of its device, by a connection of its
  node, whose handler knows it as that device) and `LatestIsServed` (the last
  registered connection, while served, is the entry).  `RowFollows` needs
  `IInv` and two lemmas on the queue: appending the current truth, and moving
  the head to the row, keep the last word about a device right.
  `RegistryImplementsLease` maps every step to `Acquire`, `Release`, `Abandon`,
  `Fail` or a stutter; `Release` needs `IInv` to know that a connection holds
  no lease but the one it leaves.
* `ActionQueue_proofs`.  A report *owns* its action's outcome from the moment it
  commits the status.  `IInv` says that owners are unique, that the row shows
  the owner's outcome, and that nothing was notified while the owner is still
  on its way.  `NotifiesOnce` and `StoresOneResult` follow; `OutcomesAreFinal`
  needs types only, one step per action.  `OldestGoFirst` needs `CreatedOnce`: an
  action enters the queue once, so that `Older` is an order, whatever is older
  than an action is older than all that come after it, and the count against
  `Limit` is monotone.
* `EdgeRelay_proofs` works with four invariants, each resting on the ones before.
  - `TypeInv` adds to `TypeOK` that a session has no two legs of one role and
    that turns fit (`TurnsFit`): whoever is in the queue of a writer lock has as
    its next send one to that connection, and stands there once.  So a handler
    is in one queue at a time, which everything else needs.  `LegsAreServed`
    follows: `Teardown` takes both roles.
  - `DataInv`: a handler has at most one DATA frame under way, numbered no higher
    than what was read, and one that does not yet hold its lock is newer than
    all that its Drone has had written anywhere (`PendingIsNewer`).
    `DataStaysInOrder` is its part `OrderedOn(wire)`.
  - `ReadyInv`: the holder of a lock has written its frame (`HoldersWrote`), and
    each leg of a pair has been told RELAY_READY, is gone, or is in the rest of
    some send loop (`PairsTold`).  With nothing left to send the last is
    impossible: `PairsAreTold`.  This is where a re-opened leg or a broken send
    could lose a READY.
  - `OwedInv`: for each session, the aborts reported, those owed, and one more if
    a pair is on the hub, are together no more than the reports of `active`
    (`Balanced`), and a finally clause names each session once (`NamedOnce`).
    Without the one more it is not inductive: a pair that breaks moves it to
    owed or to reported.  `AbortsStayPaired` follows for every prefix.
  `RelayImplementsLifecycle` maps `Party` and `OwedReports` step by step:
  `RelayOpen` is `LegOpens`; `RelayClose` is `SessionCloses`, or a stutter if
  there was nothing to close; `Teardown` is `ConnectionLeaves`, with the session
  it reports first as the witness; `SendEnds` is `AbortReported` when the next
  send is about an owed session, else a stutter; all other steps stutter.  That
  a finally clause owes a report about each orphaned session but the first, one
  each, is the lemma `TeardownOwes`.  Sequences are reasoned about by index:
  `Append`, `Tail` and `\o` of one element need no induction.
* `TransferSessions_proofs`.  `RowSaysWhatWasReported` is inductive with the
  types once the invariant says that a write in the pool is a report the relay
  has made (`PoolReported`), that a row comes with its token (`RowHasToken`),
  and that before the token nothing is on the relay and nothing reported
  (`Untouched`).  `ReportsMoveRows` says per step where a row may go.
* `NotificationDelivery_proofs`.  `due[x] >= 0` is not inductive: a run that has
  claimed `x` is still to tell of it.  `Owed` counts the runs that hold `x`, and
  one more while the row is queued, and says that this is at most `due[x]`; the
  claim moves one from the row to a run, telling spends it.
* `Onboarding_proofs`.  `Provenance` says of everything that may end up in a row
  where it comes from: Drones in rows and memories (`DronesGood`), requests
  (`RequestsGood`), tokens (`TokensGood`) and what requests under way carry
  (`JobsGood`), so that mirrors, merges and copies can only spread what is good.
  `HeldOnce` (no worker remembers twice a Drone without a row) is needed where
  one of them is chosen.  Each part of the state has a lemma saying which steps
  touch it, and one that they keep it.
* `SwarmAccess_proofs`.  `IInv` splits into what is said of accounts, groups,
  mail and work.  `InvitedOnRecord` and `OwnerFounded` say where an invitation
  and an owner come from; `OwnerOnRecord`, that a worker which remembers a swarm
  has its owner's membership to mirror with it, unless the row is there;
  `SystemSwarm`, that the super-admin alone counts as founder of the system's;
  `LinksKnown` and `JobKnown`, that links and half-done requests are about
  accounts that exist.  `AccessEarned` is for all deployments at once: where
  `AutoVerify` is {FALSE} and `Providers` FALSE, nobody is taken on trust, and
  access takes a proof.
* `AssetInventory_proofs`.  `OnlyTheLostAreMissing` depends on what an upload has
  written, lost or taken out when a request records its thumbprint, on the last
  acknowledged upload being in the rows, but for lost games, for a delta to build
  on, and on every statement that takes games out of the rows noting them in
  `lost` or in `upload.took`.  It holds for any ids and systems, and for any
  number of requests that go on unawaited.

The assumptions are those of the modules: null values differ from real ones, a
home node for every connection, bounds that are natural numbers, a finite set of
processes (`NotificationDelivery`), finite sets of connections and sessions
(`EdgeRelay`: what a dict holds at one time, and what `OwedReports` counts),
founders with swarms of their own.

*Model-checked only.*  All liveness (`GoneIsEvicted`, `MirrorSettles`,
`TeardownEnds`, `PendingEnds`, `EveryActionEnds`, `QueuedIsRetired`,
`UploadingEnds`, and both properties of `DeviceStatus`): fairness and ENABLED
are beyond the prover.  Every invariant, action property and refinement that a
run checks is also a theorem.

## 7. Where code and words differ

Met while modelling.  None of these is a run; the modules do what the code does.

1. *A ghost on the registry.*  `edge/server.py:12` promises deregistration on
   disconnect.  A connection whose HELLO_ACK cannot be sent was registered and
   is never deregistered (131-134, 166-168), until the device connects again.
   `PresentHasHandler` states, and the proof confirms, that this is the only way.
2. *Data before READY.*  `edge/relay.py:7` says that the Edge tells each leg
   RELAY_READY and then forwards.  `forward` (131) looks at the legs only; with
   two sends under way, data overtakes READY.
3. *A completed transfer that expired.*  The sweep is for transfers that "never
   ran to completion" (`main.py:465`); an `active` write that commits after
   `completed` (`edge/edge_app.py:179`) makes a finished one look unfinished.
4. *A notification delivered twice.*  `db.py:361` calls the lean insert
   idempotent with any later mirror; the mirror re-queues what the digest job
   has retired meanwhile (`postgres_store.py:5000`).  A digest run's mirror also
   clears `dismissed_at` of a notification dismissed before its digest, and a
   worker that keeps mirroring old notifications keeps newer ones out of the
   limited runs, which is why `QueuedIsRetired` bounds such calls.
5. *A result that is dropped.*  A report that comes after the timeout is
   accepted without its result being stored (`postgres_store.py:3333`), though
   `migrations/0006.drone_action_results.sql:3` promises one row per report that
   carries a result.
6. *A chunked upload clears nothing.*  "db clears on the first chunk for
   replace_all" (`postgres_store.py:5377`), but `_store_asset_inventory_chunk`
   (`db.py` 745-785) does not: games removed from the disk stay in `drone_games`
   under the new thumbprint.  `tests/test_api.py` asserts the contrary for the
   in-memory mode.
7. *Reachability and status.*  "A snapshot can never silently reset a Drone"
   (`postgres_store.py` 4670-4676): an overview snapshot carries `checked_at`,
   so a stale mirror does reset `public_resolvable`, and the notice is repeated.
   A limit "relies on oldest-checked-first ordering to round-robin a very large
   fleet" (`main.py` 155-156), but `checked_at` is written on change only, so
   that under a limit the same Drones may come first in every run and others
   never be probed; nor does a run whose budget is used up, "deferring remaining
   Drones to next run" (557), see to it that the next one gets further.
   `IsProbed` leaves both out of `ReachabilitySettles`.  A status run knows only
   Drones in memory: on Lambda the job has none, and a restarted container has
   none until an overview.  A second offline notice within 900 seconds is dropped
   for good, and workers do not share the memory of it.
8. *Columns a mirror empties.*  `load_admin_overview_state` (962-1088) loads
   Drones without credential, token and thumbprints, and the next mirror of that
   worker (4591-4640) writes NULL over them: the Drone cannot report until it
   registers again, although by `README.md:185` its token lasts until it is
   rotated; and every thumbprint so wiped costs an upload, although "the next
   heartbeat echoes the value the Drone itself sent" (`db.py` 2803-2805).
9. *Uploads for ever, and thumbprints that outlive their rows.*  Resync is
   Drone-driven so that there is no endless loop (`main.py` 2507-2512).  In the
   container the process that registered a Drone holds it in memory without a
   thumbprint and mirrors NULL with every heartbeat, so the Drone uploads for
   ever.  Conversely, games are missing under a thumbprint that says they are
   there: after a purge, which keeps the thumbprint (2361, `db.py` 734-743);
   after a full upload that broke off when the rows were cleared, if the disk
   is as before; after a request the Drone no longer waits for has deleted rows
   or recorded a thumbprint beside the next upload; after a batch that failed,
   if a later one says that the inventory is complete (2772-2791); after a
   deletion by `gamelist_id`, which goes across systems (`postgres_store.py`
   5410-5414). `lost` collects them, and `OnlyLostIsMissing` says that there
   are no others.  A delta deletes no game without `gamelist_id`.  The count
   caches are invalidated under the internal id but keyed by the device's.
10. *Claiming ownership.*  `README.md:384` says that an owned Drone cannot be
    claimed by a different user, and that the claim returns a bearer token;
    `claim_drone_ownership` (`main.py` 1934-1969) asks nobody but the account
    that logs in, hands the Drone over, and returns no token.  A worker without
    the Drone in memory gives it a new internal id, and every later mirror of
    that worker fails on `UNIQUE (device_id)`.
11. *Changes that stay in one worker.*  `remove_swarm_member`, `delete_device`
    and the admin's deletions change memory only, so the rows bring back what
    was removed.  A stale copy of `users` undoes a password reset or a
    verification; `verify_email_token` is mirrored only when it makes the user
    a swarm (`create_swarm` is on the list of persisting calls, `db.py:147`, it
    is not), so accepting the invitations of that address may stay in memory.
    Invitation, verification and reset links work only on the worker that made
    them.  An accepted invitation is reopened by a stale mirror, or stays
    accepted without a membership.  An owner invited to their own swarm becomes
    an overseer of it, and `ensure_personal_swarm` makes a second swarm on a
    second worker.  A token revoked elsewhere is still accepted through the
    memory fallback.  The overview does not load `fleet_settings`, so that
    mirrors reset `auto_sync_roms`.
12. *Access on trust.*  "Invitations remain tied to the invited email address"
    (`README.md`), but an address counts as verified without a proof: by the flag
    (`main.py:1077`); by `POST /api/auth/{provider}` (1188-1199), which completes
    a login for any address posted to it; and by a provider's first address, if
    none is marked primary and verified (1287).  `AccessIsEarned` counts these as
    trust, which needs the flag or an enabled provider.

## 8. Not modelled, and why

Formatting and selection of data (presenters, snapshots, managed configs) and
library or platform I/O (certificates, TLS, STUN, e-mail transport, secrets,
metrics, UI) have no state whose order matters.  The downloads log consists of
upserts by id that nothing else waits for.  Of the components marked `partly` in
`PROJECT.json`, what is left out is: the mode without PostgreSQL, in which one
process holds everything and nothing is merged; deduplication and suppression of
notices and the caps on remembered lists; listings, names, wording and
permission checks that only select what is returned; BIOS, artwork and log rows,
which take the way of games; and the reading of a frame in pieces.
