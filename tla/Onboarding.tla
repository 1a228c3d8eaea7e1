----------------------------- MODULE Onboarding -----------------------------
(***************************************************************************)
(* How a Drone joins: integration tokens, requests waiting for approval,   *)
(* the Drones and their credentials (db.py "Drone onboarding token         *)
(* operations" and "Device operations", the tables behind them in          *)
(* postgres_store.py, the handlers of main.py under "Device Management").  *)
(*                                                                         *)
(* A worker answers most questions from PostgreSQL, but it keeps its own   *)
(* memory of tokens, requests and Drones, which other workers never        *)
(* refresh, and ends every persisting call by mirroring all of that memory *)
(* into the rows.  A worker runs one request at a time; the statements of  *)
(* one call are one step, except where another worker's step in between    *)
(* makes a difference: inside claim_integration_token, between the calls   *)
(* of one request, and before each mirror.                                 *)
(*                                                                         *)
(* A credential is the token it was made from.  All users are overlords of *)
(* one swarm, whose owner is SwarmOwner, so all of them see its requests.  *)
(***************************************************************************)
EXTENDS Integers, FiniteSets

CONSTANTS Workers,     \* Lambda instances
          Drones,      \* device_id's
          Users,
          Tokens,      \* integration tokens
          Issuer,      \* the user who creates a token
          SwarmOwner,
          None,
          Minted,      \* a credential Overmind generates for a Drone
          MaxIds,      \* bound on the internal ids generated
          MaxCalls,    \* bound on requests
          MaxFaults    \* bound on failed mirrors and recycled workers

ASSUME IssuerAssumption == Issuer \in [Tokens -> Users] /\ SwarmOwner \in Users
ASSUME BoundsAssumption == MaxIds \in Nat /\ MaxCalls \in Nat /\ MaxFaults \in Nat

VARIABLES
  tok,        \* integration_tokens: None or the row
  drone,      \* drones: None or the row, by device_id
  pend,       \* pending_drone_connections
  mtok,       \* db.integration_tokens, worker by worker
  mpend,      \* db.pending_drone_connections
  mdev,       \* db.devices
  stage,      \* what a worker does next
  job,        \* the request it is in the middle of
  ids,        \* internal ids generated so far
  presented,  \* history: the credentials each Drone has presented
  consent,    \* history: the users who accepted or claimed each Drone, or
              \* whose swarm the super-admin put it in
  calls, faults

rows == <<tok, drone, pend>>
memory == <<mtok, mpend, mdev>>
history == <<presented, consent>>
vars == <<rows, memory, stage, job, ids, history, calls, faults>>

-----------------------------------------------------------------------------
TokenRow == [revoked : BOOLEAN, bound : Drones \cup {None}]
Request == [user : Users \cup {None}, auth : Tokens \cup {None},
            hash : Tokens \cup {None}, status : {"none", "pending", "denied"}]
Device == [id : 1..MaxIds, drone : Drones, owner : Users, auth : Tokens \cup {None},
           hash : Tokens \cup {Minted, None}, approved : BOOLEAN]

ASSUME NoneAssumption ==
  /\ None \notin Tokens \cup Users \cup Drones \cup {Minted} \cup TokenRow \cup Device
  /\ Minted \notin Tokens

\* create_integration_token_record.
NewToken == [revoked |-> FALSE, bound |-> None]

NoRequest == [user |-> None, auth |-> None, hash |-> None, status |-> "none"]
NoJob == [drone |-> None, token |-> None, user |-> None, bound |-> None]

\* What follows the mirror that ends a call of the same request.
AfterMirror == [claimed |-> "register", refused |-> "untrusted",
                owned |-> "deny", mirror |-> "idle"]
Stages == {"idle", "claiming", "register", "untrusted", "deny"} \cup DOMAIN AfterMirror

TypeOK ==
  /\ tok \in [Tokens -> TokenRow \cup {None}]
  /\ drone \in [Drones -> Device \cup {None}]
  /\ pend \in [Drones -> Request]
  /\ mtok \in [Workers -> [Tokens -> TokenRow \cup {None}]]
  /\ mpend \in [Workers -> [Drones -> Request]]
  /\ mdev \in [Workers -> SUBSET Device]
  /\ stage \in [Workers -> Stages]
  /\ job \in [Workers -> [drone : Drones \cup {None}, token : Tokens \cup {None},
                          user : Users \cup {None}, bound : Drones \cup {None}]]
  /\ ids \in 0..MaxIds
  /\ presented \subseteq Drones \X Tokens
  /\ consent \subseteq Drones \X Users
  /\ calls \in 0..MaxCalls
  /\ faults \in 0..MaxFaults

\* Some tokens were created by workers recycled since.
Init ==
  /\ tok \in [Tokens -> {None, NewToken}]
  /\ drone = [d \in Drones |-> None]
  /\ pend = [d \in Drones |-> NoRequest]
  /\ mtok = [w \in Workers |-> [t \in Tokens |-> None]]
  /\ mpend = [w \in Workers |-> [d \in Drones |-> NoRequest]]
  /\ mdev = [w \in Workers |-> {}]
  /\ stage = [w \in Workers |-> "idle"]
  /\ job = [w \in Workers |-> NoJob]
  /\ ids = 0
  /\ presented = {} /\ consent = {}
  /\ calls = 0 /\ faults = 0

-----------------------------------------------------------------------------
Go(w, from, to) == stage[w] = from /\ stage' = [stage EXCEPT ![w] = to]
Request1(w, to) == Go(w, "idle", to) /\ calls < MaxCalls /\ calls' = calls + 1
Fault == faults < MaxFaults /\ faults' = faults + 1
Or(new, old) == IF new = None THEN old ELSE new

\* Looking for any Drone instead of this one.
HeldAny(w, d) == mdev[w]

\* db.devices with that device_id; get_device_by_device_id: the row, or else
\* what memory holds (a row is never deleted, so memory holds one at most).
Held(w, d) == {m \in mdev[w] : m.drone = d}
Known(w, d) ==
  IF drone[d] # None THEN drone[d]
  ELSE IF Held(w, d) # {} THEN CHOOSE m \in Held(w, d) : TRUE ELSE None

IsApproved(m) == m # None /\ m.approved
IsUsable(entry) == entry # None /\ ~entry.revoked

\* The requests that the listing queries return.
IsVisible(d) == pend[d].status = "pending" /\ ~IsApproved(drone[d])
WithVisible(w) == [d \in Drones |-> IF IsVisible(d) THEN pend[d] ELSE mpend[w][d]]

\* get_pending_drone_connection: the row, or else what memory holds.
Found(w, d) == WithVisible(w)[d]

ForgetRequest(w, d) ==
  /\ pend' = [pend EXCEPT ![d] = NoRequest]
  /\ mpend' = [mpend EXCEPT ![w][d] = NoRequest]

\* Keeping the token named first.
MergedKeepingFirst(earlier, user, auth, hash) ==
  [user |-> Or(user, earlier.user), auth |-> Or(earlier.auth, auth),
   hash |-> Or(hash, earlier.hash), status |-> "pending"]

\* What a request says anew replaces what an earlier one said.
Merged(earlier, user, auth, hash) ==
  [user |-> Or(user, earlier.user), auth |-> Or(auth, earlier.auth),
   hash |-> Or(hash, earlier.hash), status |-> "pending"]

\* create_pending_drone_connection: the request of an approved Drone is dropped.
CreatePending(w, d, user, auth, hash) ==
  IF IsApproved(Known(w, d)) THEN ForgetRequest(w, d)
  ELSE LET request == Merged(pend[d], user, auth, hash)
       IN /\ pend' = [pend EXCEPT ![d] = request]
          /\ mpend' = [mpend EXCEPT ![w][d] = request]

\* create_device: the Drone in memory, if there is one, is deduplicated and
\* handed over; otherwise it gets a new internal id.  The request is dropped.
CreateDevice(w, d, owner, hash, auth) ==
  LET new(id) == [id |-> id, drone |-> d, owner |-> owner, auth |-> auth,
                  hash |-> hash, approved |-> TRUE]
      others == mdev[w] \ Held(w, d)
  IN /\ \/ /\ Held(w, d) = {} /\ ids < MaxIds
           /\ ids' = ids + 1
           /\ mdev' = [mdev EXCEPT ![w] = others \cup {new(ids + 1)}]
        \/ /\ UNCHANGED ids
           /\ \E keep \in Held(w, d) :
                mdev' = [mdev EXCEPT ![w] = others \cup {new(keep.id)}]
     /\ ForgetRequest(w, d)

\* A field of the Drone changed on the dict that get_device_by_device_id
\* returned: memory changes only when there is no row to copy.
OnCopy(w, d, changed) ==
  mdev' = IF drone[d] # None THEN mdev
          ELSE [mdev EXCEPT ![w] = (@ \ Held(w, d)) \cup changed]

\* revoke_integration_token: the row, and what memory holds of it.
Revoked(tokens, t) ==
  IF IsUsable(tokens[t]) THEN [tokens EXCEPT ![t].revoked = TRUE] ELSE tokens

Revoke(w, t) ==
  IF ~IsUsable(tok[t]) THEN UNCHANGED <<tok, mtok>>
  ELSE /\ tok' = Revoked(tok, t)
       /\ mtok' = [mtok EXCEPT ![w] = Revoked(@, t)]

-----------------------------------------------------------------------------
(* Integration tokens.                                                     *)

RecordToken(w, t) ==
  /\ tok' = [tok EXCEPT ![t] = NewToken]
  /\ mtok' = [mtok EXCEPT ![w][t] = NewToken]

CreateIntegrationToken(w, t) ==
  /\ tok[t] = None
  /\ Request1(w, "mirror")
  /\ RecordToken(w, t)
  /\ UNCHANGED <<drone, pend, mpend, mdev, job, ids, history, faults>>

RevokeIntegrationToken(w, t) ==
  /\ tok[t] # None
  /\ Request1(w, "mirror")
  /\ Revoke(w, t)
  /\ UNCHANGED <<drone, pend, mpend, mdev, job, ids, history, faults>>

\* The user's part of memory becomes what the rows say.
IssuedBy(u) == {t \in Tokens : Issuer[t] = u /\ tok[t] # None}
RefreshTokens(w, u) ==
  mtok' = [mtok EXCEPT ![w] =
    [t \in Tokens |-> IF t \in IssuedBy(u) THEN tok[t]
                      ELSE IF Issuer[t] = u THEN None ELSE mtok[w][t]]]

ListIntegrationTokens(w, u) ==
  /\ Request1(w, "idle")
  /\ RefreshTokens(w, u)
  /\ UNCHANGED <<rows, mpend, mdev, job, ids, history, faults>>

-----------------------------------------------------------------------------
(* A Drone registers or reports.                                           *)

Free(entry, d) == entry.bound \in {None, d}
RowAccepts(t, d) == IsUsable(tok[t]) /\ Free(tok[t], d)
MemoryAccepts(w, t, d) == IsUsable(mtok[w][t]) /\ Free(mtok[w][t], d)
ClaimedBy(d, t) == [drone |-> d, token |-> t, user |-> Issuer[t], bound |-> None]

\* register_device, up to the SELECT of claim_integration_token.  A token the
\* rows refuse is looked for in memory.
RegisterDevice(w, d, t) ==
  /\ presented' = presented \cup {<<d, t>>}
  /\ \/ /\ RowAccepts(t, d)
        /\ Request1(w, "claiming")
        /\ job' = [job EXCEPT ![w] = [ClaimedBy(d, t) EXCEPT !.bound = tok[t].bound]]
        /\ UNCHANGED mtok
     \/ /\ ~RowAccepts(t, d) /\ MemoryAccepts(w, t, d)
        /\ Request1(w, "claimed")
        /\ job' = [job EXCEPT ![w] = ClaimedBy(d, t)]
        /\ mtok' = [mtok EXCEPT ![w][t].bound = d]
     \/ /\ ~RowAccepts(t, d) /\ ~MemoryAccepts(w, t, d)
        /\ Request1(w, "refused")
        /\ job' = [job EXCEPT ![w] = ClaimedBy(d, t)]
        /\ UNCHANGED mtok
  /\ UNCHANGED <<rows, mpend, mdev, ids, consent, faults>>

\* Its UPDATE, which keeps a device bound meanwhile; memory is told the one
\* that the SELECT saw, or else this one.
ClaimIntegrationToken(w) ==
  LET d == job[w].drone
      t == job[w].token
  IN /\ Go(w, "claiming", "claimed")
     /\ tok' = [tok EXCEPT ![t].bound = Or(@, d)]
     /\ mtok' = [mtok EXCEPT ![w][t] = [revoked |-> FALSE, bound |-> Or(job[w].bound, d)]]
     /\ UNCHANGED <<drone, pend, mpend, mdev, job, ids, history, calls, faults>>

\* The rest of register_device: the user's approved Drone changes its token
\* (set_device_authorization_token), any other waits for approval.
\* Revoking the token the Drone has just presented again.
SupersedesAny(dev, t) == dev.auth # None

Supersedes(dev, t) == dev.auth \notin {None, t}
WithCredential(dev, t) == [dev EXCEPT !.auth = t, !.hash = t]

SetDeviceAuthorization(w, d, t) ==
  LET dev == Known(w, d)
      now == WithCredential(dev, t)
  IN /\ IF Supersedes(dev, t) THEN Revoke(w, dev.auth) ELSE UNCHANGED <<tok, mtok>>
     /\ drone' = IF drone[d] = None THEN drone ELSE [drone EXCEPT ![d] = now]
     /\ mdev' = [mdev EXCEPT ![w] = {m \in @ : m.id # dev.id} \cup {now}]
     /\ UNCHANGED <<pend, mpend>>

RegisterClaimed(w) ==
  LET d == job[w].drone
      dev == Known(w, d)
  IN /\ Go(w, "register", "mirror")
     /\ IF IsApproved(dev) /\ dev.owner = job[w].user
        THEN SetDeviceAuthorization(w, d, job[w].token)
        ELSE /\ CreatePending(w, d, job[w].user, job[w].token, None)
             /\ UNCHANGED <<tok, mtok, drone, mdev>>
     /\ job' = [job EXCEPT ![w] = NoJob]
     /\ UNCHANGED <<ids, history, calls, faults>>

\* _record_untrusted_drone_connection: nobody's, with the hash of what the
\* Drone presented.
RecordUntrusted(w) ==
  /\ Go(w, "untrusted", "mirror")
  /\ CreatePending(w, job[w].drone, None, None, job[w].token)
  /\ job' = [job EXCEPT ![w] = NoJob]
  /\ UNCHANGED <<tok, drone, mtok, mdev, ids, history, calls, faults>>

\* verify_device_token.
Verifies(w, d, t) ==
  LET dev == Known(w, d)
  IN /\ IsApproved(dev)
     /\ dev.hash = t
     /\ dev.auth # None => IsUsable(tok[dev.auth]) /\ Issuer[dev.auth] = dev.owner

\* Users see the approved Drones of the swarm (user_can_access_device).
CanAccess(w, d) == IsApproved(Known(w, d))

\* delete_device keeps the Drone's identity.
RemoveDevice(w, d) ==
  /\ OnCopy(w, d, {[m EXCEPT !.approved = FALSE] : m \in Held(w, d)})
  /\ mpend' = [mpend EXCEPT ![w][d] = NoRequest]

Heartbeat(w, d, t) ==
  /\ presented' = presented \cup {<<d, t>>}
  /\ Request1(w, "mirror")
  /\ IF Verifies(w, d, t) THEN UNCHANGED <<pend, mpend>>
     ELSE CreatePending(w, d, None, None, t)
  /\ UNCHANGED <<tok, drone, mtok, mdev, job, ids, consent, faults>>

\* disconnect_device_from_drone: the Drone, by its own credential.
DisconnectDevice(w, d, credential) ==
  /\ Verifies(w, d, credential)
  /\ Request1(w, "mirror")
  /\ RemoveDevice(w, d)
  /\ UNCHANGED <<rows, mtok, job, ids, history, faults>>

-----------------------------------------------------------------------------
(* An overlord or the super-admin decides.                                 *)

ListDroneConnections(w) ==
  /\ Request1(w, "idle")
  /\ mpend' = [mpend EXCEPT ![w] = WithVisible(w)]
  /\ UNCHANGED <<rows, mtok, mdev, job, ids, history, faults>>

\* accept_pending_drone_connection reads the request from the row, or else
\* from memory, and the token behind it from memory alone.
Accept(w, u, d) ==
  LET conn == Found(w, d)
      backed == /\ conn.auth # None
                /\ Issuer[conn.auth] = u /\ IsUsable(mtok[w][conn.auth])
      dev == Known(w, d)
  IN \/ /\ conn.status # "pending" \/ conn.user # u
        /\ mpend' = [mpend EXCEPT ![w][d] = conn]
        /\ UNCHANGED <<pend, mdev, ids, consent>>
     \/ /\ conn.status = "pending" /\ conn.user = u
        /\ consent' = consent \cup {<<d, u>>}
        /\ IF dev # None /\ dev.owner = u
           THEN /\ OnCopy(w, d, {[m EXCEPT !.approved = TRUE,
                                   !.auth = IF backed THEN conn.auth ELSE @,
                                   !.hash = IF backed THEN conn.auth ELSE @] :
                              m \in Held(w, d)})
                /\ ForgetRequest(w, d)
                /\ UNCHANGED ids
           ELSE CreateDevice(w, d, u, IF backed THEN conn.auth ELSE Minted, conn.auth)

AcceptDroneConnection(w, u, d) ==
  /\ Request1(w, "mirror")
  /\ Accept(w, u, d)
  /\ UNCHANGED <<tok, drone, mtok, job, presented, faults>>

Denied(requests, d) ==
  [requests EXCEPT ![d].status = IF @ = "none" THEN @ ELSE "denied"]

Deny(w, d) ==
  /\ pend' = Denied(pend, d)
  /\ mpend' = [mpend EXCEPT ![w][d] = NoRequest]

DenyDroneConnection(w, d) ==
  /\ Request1(w, "mirror")
  /\ Deny(w, d)
  /\ UNCHANGED <<tok, drone, mtok, mdev, job, ids, history, faults>>

\* The Drone goes to whoever requested it.
AssigneeRequester(conn) == conn.user

Assignee(conn) == SwarmOwner

\* The credential of the request, or that of the token behind it.
CredentialOf(conn) ==
  IF conn.hash # None THEN conn.hash
  ELSE IF conn.auth # None /\ conn.user # None /\ IsUsable(tok[conn.auth])
       THEN conn.auth ELSE None

Assignable(conn) == conn.status = "pending" /\ CredentialOf(conn) # None

\* admin_assign_pending_drone_connection, in the swarm of SwarmOwner.
Assign(w, d, conn) ==
  /\ CreateDevice(w, d, Assignee(conn), CredentialOf(conn),
                  IF conn.user = Assignee(conn) THEN conn.auth ELSE None)
  /\ consent' = consent \cup {<<d, SwarmOwner>>}

AssignDroneConnection(w, d) ==
  LET conn == WithVisible(w)[d]
  IN \/ /\ Assignable(conn)
        /\ Request1(w, "mirror")
        /\ Assign(w, d, conn)
        /\ UNCHANGED <<tok, drone, mtok, job, presented, faults>>
     \/ /\ ~Assignable(conn)
        /\ Request1(w, "idle")
        /\ mpend' = [mpend EXCEPT ![w] = WithVisible(w)]
        /\ UNCHANGED <<rows, mtok, mdev, job, ids, history, faults>>

\* claim_drone_ownership: create_device, add_device_admin_claim and, with its
\* own mirror, deny_pending_drone_connection.
ClaimOwnership(w, u, d) ==
  /\ Request1(w, "owned")
  /\ CreateDevice(w, d, u, Minted, None)
  /\ consent' = consent \cup {<<d, u>>}
  /\ job' = [job EXCEPT ![w].drone = d]
  /\ UNCHANGED <<tok, drone, mtok, presented, faults>>

DenyClaimed(w) ==
  /\ Go(w, "deny", "mirror")
  /\ Deny(w, job[w].drone)
  /\ job' = [job EXCEPT ![w] = NoJob]
  /\ UNCHANGED <<tok, drone, mtok, mdev, ids, history, calls, faults>>

-----------------------------------------------------------------------------
(* Existing Drones.                                                        *)

Rotate(w, d) == OnCopy(w, d, {[m EXCEPT !.hash = Minted] : m \in Held(w, d)})

RotateDeviceToken(w, d) ==
  /\ CanAccess(w, d)
  /\ Request1(w, "mirror")
  /\ Rotate(w, d)
  /\ UNCHANGED <<rows, mtok, mpend, job, ids, history, faults>>

DeleteDevice(w, d) ==
  /\ CanAccess(w, d)
  /\ Request1(w, "mirror")
  /\ RemoveDevice(w, d)
  /\ UNCHANGED <<rows, mtok, job, ids, history, faults>>

\* admin_delete_device forgets the Drone altogether, in this worker.
EraseDevice(w, dev) ==
  /\ mdev' = [mdev EXCEPT ![w] = {m \in @ : m.id # dev.id}]
  /\ mpend' = [mpend EXCEPT ![w][dev.drone] = NoRequest]

AdminDeleteDrone(w, d) ==
  /\ Known(w, d) # None
  /\ Request1(w, "mirror")
  /\ EraseDevice(w, Known(w, d))
  /\ UNCHANGED <<rows, mtok, job, ids, history, faults>>

\* What load_admin_overview_state reads of a row.
Overview(row) == [row EXCEPT !.auth = None, !.hash = None]

RefreshOverview(w) ==
  mdev' = [mdev EXCEPT ![w] = {Overview(drone[d]) : d \in {e \in Drones : drone[e] # None}}]

AdminOverview(w) ==
  /\ Request1(w, "idle")
  /\ RefreshOverview(w)
  /\ mpend' = [mpend EXCEPT ![w] = WithVisible(w)]
  /\ UNCHANGED <<rows, mtok, job, ids, history, faults>>

-----------------------------------------------------------------------------
(* The mirror.                                                             *)

\* device_id is unique: a Drone under another internal id fails the whole
\* transaction.
CanMirror(w) ==
  \A m \in mdev[w] : drone[m.drone] # None => drone[m.drone].id = m.id

MirroredTokens(w) == [t \in Tokens |-> IF mtok[w][t] = None THEN tok[t] ELSE mtok[w][t]]
MirroredDrones(w) ==
  [d \in Drones |-> IF Held(w, d) = {} THEN drone[d] ELSE CHOOSE m \in Held(w, d) : TRUE]
MirroredRequests(w) ==
  [d \in Drones |-> IF mpend[w][d].status = "none" THEN pend[d] ELSE mpend[w][d]]

PersistState(w) ==
  /\ stage[w] \in DOMAIN AfterMirror
  /\ Go(w, stage[w], AfterMirror[stage[w]])
  /\ \/ /\ CanMirror(w)
        /\ tok' = MirroredTokens(w)
        /\ drone' = MirroredDrones(w)
        /\ pend' = MirroredRequests(w)
        /\ UNCHANGED faults
     \/ ~CanMirror(w) /\ UNCHANGED <<rows, faults>>
     \/ Fault /\ UNCHANGED rows
  /\ UNCHANGED <<memory, job, ids, history, calls>>

\* The instance is recycled, perhaps in the middle of a request.
Recycle(w) ==
  /\ Fault
  /\ mtok' = [mtok EXCEPT ![w] = [t \in Tokens |-> None]]
  /\ mpend' = [mpend EXCEPT ![w] = [d \in Drones |-> NoRequest]]
  /\ mdev' = [mdev EXCEPT ![w] = {}]
  /\ stage' = [stage EXCEPT ![w] = "idle"]
  /\ job' = [job EXCEPT ![w] = NoJob]
  /\ UNCHANGED <<rows, ids, history, calls>>

Next ==
  \E w \in Workers :
    \/ \E t \in Tokens : CreateIntegrationToken(w, t) \/ RevokeIntegrationToken(w, t)
    \/ \E u \in Users : ListIntegrationTokens(w, u)
    \/ \E d \in Drones, t \in Tokens : RegisterDevice(w, d, t) \/ Heartbeat(w, d, t)
    \/ \E d \in Drones, c \in Tokens \cup {Minted} : DisconnectDevice(w, d, c)
    \/ ClaimIntegrationToken(w) \/ RegisterClaimed(w) \/ RecordUntrusted(w)
    \/ ListDroneConnections(w)
    \/ \E u \in Users, d \in Drones : AcceptDroneConnection(w, u, d) \/ ClaimOwnership(w, u, d)
    \/ \E d \in Drones : DenyDroneConnection(w, d) \/ AssignDroneConnection(w, d)
    \/ DenyClaimed(w)
    \/ \E d \in Drones : RotateDeviceToken(w, d) \/ DeleteDevice(w, d) \/ AdminDeleteDrone(w, d)
    \/ AdminOverview(w) \/ PersistState(w) \/ Recycle(w)

Spec == Init /\ [][Next]_vars

-----------------------------------------------------------------------------
(* Whatever workers remember and in whatever order they write it back, a   *)
(* Drone in the table, or in a worker's memory, belongs to a user who      *)
(* accepted or claimed it, or in whose swarm the super-admin put it: no    *)
(* registration, report, merge or mirror alone makes a Drone somebody's    *)
(* (create_device, _mirror_app_state_to_relational).                       *)
OwnedByConsent ==
  /\ \A d \in Drones : drone[d] # None => <<d, drone[d].owner>> \in consent
  /\ \A w \in Workers : \A m \in mdev[w] : <<m.drone, m.owner>> \in consent

(* verify_device_token looks a Drone's token up among those of its owner:  *)
(* the token a Drone, or a request, is authorised by is one that this very *)
(* user issued, although requests are merged column by column and rows are *)
(* written from several memories.                                          *)
AuthorizedByOwner ==
  /\ \A d \in Drones :
       /\ drone[d] # None /\ drone[d].auth # None => Issuer[drone[d].auth] = drone[d].owner
       /\ pend[d].auth # None => Issuer[pend[d].auth] = pend[d].user
  /\ \A w \in Workers : \A m \in mdev[w] :
       m.auth # None => Issuer[m.auth] = m.owner

(* The credential a Drone is known by was presented by that same Drone, or *)
(* generated for it; a token is bound only to a Drone that presented it.   *)
(* Two Drones that claim one token at the same time do not end up with     *)
(* each other's (claim_integration_token, upsert_pending_drone_connection).*)
KnownByItsOwnCredential ==
  /\ \A d \in Drones :
       drone[d] # None /\ drone[d].hash \in Tokens => <<d, drone[d].hash>> \in presented
  /\ \A t \in Tokens :
       tok[t] # None /\ tok[t].bound # None => <<tok[t].bound, t>> \in presented

(* A Drone that registers again with a token of its owner can report with  *)
(* it as soon as register_device has changed its row, unless that token    *)
(* was revoked meanwhile: the credential, the token behind it and the      *)
(* previous token's revocation change together.                            *)
RegisteredCanReport ==
  [][\A w \in Workers, d \in Drones, t \in Tokens :
       /\ stage[w] = "register" /\ stage'[w] = "mirror"
       /\ job[w].drone = d /\ job[w].token = t
       /\ IsApproved(drone[d]) /\ drone[d].owner = job[w].user
       /\ ~tok[t].revoked
       => /\ IsApproved(drone'[d]) /\ drone'[d].hash = t /\ drone'[d].auth = t
          /\ ~tok'[t].revoked]_vars
=============================================================================
