-------------------------- MODULE Onboarding_proofs --------------------------
(***************************************************************************)
(* That Drones go to those who consented, authorised by a token of their   *)
(* owner and known by a credential of their own, for any number of         *)
(* workers, Drones, users, tokens, requests and faults.                    *)
(***************************************************************************)
EXTENDS Onboarding, TLAPS

USE IssuerAssumption, NoneAssumption, BoundsAssumption
    DEF IssuerAssumption, NoneAssumption, BoundsAssumption

\* What the rows and every memory may hold: a Drone somebody consented to, ...
GoodDevice(m) ==
  /\ <<m.drone, m.owner>> \in consent
  /\ m.auth # None => Issuer[m.auth] = m.owner
  /\ m.hash \in Tokens => <<m.drone, m.hash>> \in presented

\* ... the request of the Drone that presented what is in it, ...
GoodRequest(d, request) ==
  /\ request.auth # None => Issuer[request.auth] = request.user /\ <<d, request.auth>> \in presented
  /\ request.hash # None => <<d, request.hash>> \in presented

\* ... and a token bound, if to anybody, to a Drone that presented it.
GoodToken(t, entry) ==
  entry # None /\ entry.bound # None => <<entry.bound, t>> \in presented

DronesGood ==
  /\ \A d \in Drones : drone[d] # None => drone[d].drone = d /\ GoodDevice(drone[d])
  /\ \A w \in Workers : \A m \in mdev[w] : GoodDevice(m)
RequestsGood ==
  \A d \in Drones : GoodRequest(d, pend[d]) /\ \A w \in Workers : GoodRequest(d, mpend[w][d])
TokensGood ==
  \A t \in Tokens : GoodToken(t, tok[t]) /\ \A w \in Workers : GoodToken(t, mtok[w][t])

\* A request under way knows its Drone and the token that was presented.
OfToken == {"claiming", "claimed", "register", "refused", "untrusted"}
JobsGood ==
  \A w \in Workers :
    /\ stage[w] \in OfToken =>
         /\ job[w].drone # None /\ job[w].token # None
         /\ job[w].user = Issuer[job[w].token]
         /\ <<job[w].drone, job[w].token>> \in presented
         /\ job[w].bound # None => <<job[w].bound, job[w].token>> \in presented
    /\ stage[w] = "claiming" => tok[job[w].token] # None
    /\ stage[w] \in {"owned", "deny"} => job[w].drone # None

\* Until a Drone is in the table no worker remembers it twice.
HeldOnce ==
  \A d \in Drones : drone[d] = None =>
    \A w \in Workers : \A m, n \in Held(w, d) : m = n

Provenance == DronesGood /\ RequestsGood /\ TokensGood /\ JobsGood /\ HeldOnce
IInv == TypeOK /\ Provenance

-----------------------------------------------------------------------------
(* What the helpers return.                                                *)

\* The Drone chosen among those held is one of them.
LEMMA HeldChosen ==
  ASSUME NEW w, NEW d, Held(w, d) # {}
  PROVE  (CHOOSE m \in Held(w, d) : TRUE) \in Held(w, d)
OBVIOUS

\* A Drone that a worker knows is that Drone, and a good one.
LEMMA KnownGood ==
  ASSUME IInv, NEW w \in Workers, NEW d \in Drones, Known(w, d) # None
  PROVE  Known(w, d) \in Device /\ Known(w, d).drone = d /\ GoodDevice(Known(w, d))
<1>1. CASE drone[d] # None
  BY <1>1 DEF Known, IInv, TypeOK, Provenance, DronesGood
<1>2. CASE drone[d] = None /\ Held(w, d) # {}
  <2>1. Known(w, d) \in Held(w, d)
    BY <1>2, HeldChosen DEF Known
  <2> QED
    BY <2>1 DEF Held, IInv, TypeOK, Provenance, DronesGood
<1> QED
  BY <1>1, <1>2 DEF Known

\* The requests a worker sees are of their Drones.
LEMMA VisibleGood ==
  ASSUME IInv, NEW w \in Workers
  PROVE  WithVisible(w) \in [Drones -> Request]
         /\ \A d \in Drones : GoodRequest(d, WithVisible(w)[d])
BY DEF WithVisible, IInv, TypeOK, Provenance, RequestsGood

\* What was presented and consented to stays so.
LEMMA GoodStays ==
  ASSUME presented \subseteq presented', consent \subseteq consent'
  PROVE  /\ \A m : GoodDevice(m) => GoodDevice(m)'
         /\ \A d, request : GoodRequest(d, request) => GoodRequest(d, request)'
         /\ \A t, entry : GoodToken(t, entry) => GoodToken(t, entry)'
BY DEF GoodDevice, GoodRequest, GoodToken

-----------------------------------------------------------------------------
(* What a step may do to each part of the state.                           *)

\* The history only grows, and the bounds hold.
LEMMA HistorySteps ==
  ASSUME TypeOK, [Next]_vars
  PROVE  /\ presented \subseteq presented' /\ presented' \subseteq Drones \X Tokens
         /\ consent \subseteq consent' /\ consent' \subseteq Drones \X Users
         /\ calls' \in 0..MaxCalls /\ faults' \in 0..MaxFaults
<1>1. ASSUME NEW w \in Workers, NEW d \in Drones, NEW t \in Tokens,
             RegisterDevice(w, d, t) \/ Heartbeat(w, d, t)
      PROVE  presented' = presented \cup {<<d, t>>} /\ UNCHANGED consent
  BY <1>1 DEF RegisterDevice, Heartbeat
<1>2. ASSUME NEW w \in Workers, NEW u \in Users, NEW d \in Drones,
             AcceptDroneConnection(w, u, d) \/ ClaimOwnership(w, u, d)
      PROVE  (UNCHANGED consent \/ consent' = consent \cup {<<d, u>>}) /\ UNCHANGED presented
  BY <1>2 DEF AcceptDroneConnection, Accept, ClaimOwnership
<1>3. ASSUME NEW w \in Workers, NEW d \in Drones, AssignDroneConnection(w, d)
      PROVE  (UNCHANGED consent \/ consent' = consent \cup {<<d, SwarmOwner>>}) /\ UNCHANGED presented
  BY <1>3 DEF AssignDroneConnection, Assign, history
<1>4. \/ \E w \in Workers : \E d \in Drones, t \in Tokens : RegisterDevice(w, d, t) \/ Heartbeat(w, d, t)
      \/ \E w \in Workers : \E u \in Users, d \in Drones :
           AcceptDroneConnection(w, u, d) \/ ClaimOwnership(w, u, d)
      \/ \E w \in Workers : \E d \in Drones : AssignDroneConnection(w, d)
      \/ UNCHANGED <<presented, consent>>
  BY DEF Next, vars, history, CreateIntegrationToken, RevokeIntegrationToken, ListIntegrationTokens,
     DisconnectDevice, ClaimIntegrationToken, RegisterClaimed, RecordUntrusted, ListDroneConnections,
     DenyDroneConnection, DenyClaimed, RotateDeviceToken, DeleteDevice, AdminDeleteDrone,
     AdminOverview, PersistState, Recycle
<1>5. ((\E w, to : Request1(w, to)) \/ UNCHANGED calls) /\ (Fault \/ UNCHANGED faults)
  <2>1. ASSUME NEW w \in Workers, NEW t \in Tokens,
               CreateIntegrationToken(w, t) \/ RevokeIntegrationToken(w, t)
        PROVE  (\E to : Request1(w, to)) /\ UNCHANGED faults
    BY <2>1 DEF CreateIntegrationToken, RevokeIntegrationToken
  <2>2. ASSUME NEW w \in Workers, NEW u \in Users, ListIntegrationTokens(w, u)
        PROVE  (\E to : Request1(w, to)) /\ UNCHANGED faults
    BY <2>2 DEF ListIntegrationTokens
  <2>3. ASSUME NEW w \in Workers, NEW d \in Drones, NEW t \in Tokens,
               RegisterDevice(w, d, t) \/ Heartbeat(w, d, t)
        PROVE  (\E to : Request1(w, to)) /\ UNCHANGED faults
    BY <2>3 DEF RegisterDevice, Heartbeat
  <2>4. ASSUME NEW w \in Workers, NEW d \in Drones, NEW c, DisconnectDevice(w, d, c)
        PROVE  (\E to : Request1(w, to)) /\ UNCHANGED faults
    BY <2>4 DEF DisconnectDevice
  <2>5. ASSUME NEW w \in Workers,
               ClaimIntegrationToken(w) \/ RegisterClaimed(w) \/ RecordUntrusted(w) \/ DenyClaimed(w)
        PROVE  UNCHANGED <<calls, faults>>
    BY <2>5 DEF ClaimIntegrationToken, RegisterClaimed, RecordUntrusted, DenyClaimed
  <2>6. ASSUME NEW w \in Workers, ListDroneConnections(w) \/ AdminOverview(w)
        PROVE  (\E to : Request1(w, to)) /\ UNCHANGED faults
    BY <2>6 DEF ListDroneConnections, AdminOverview
  <2>7. ASSUME NEW w \in Workers, NEW u \in Users, NEW d \in Drones,
               AcceptDroneConnection(w, u, d) \/ ClaimOwnership(w, u, d)
        PROVE  (\E to : Request1(w, to)) /\ UNCHANGED faults
    BY <2>7 DEF AcceptDroneConnection, ClaimOwnership
  <2>8. ASSUME NEW w \in Workers, NEW d \in Drones,
               \/ DenyDroneConnection(w, d) \/ AssignDroneConnection(w, d)
               \/ RotateDeviceToken(w, d) \/ DeleteDevice(w, d) \/ AdminDeleteDrone(w, d)
        PROVE  (\E to : Request1(w, to)) /\ UNCHANGED faults
    BY <2>8 DEF DenyDroneConnection, AssignDroneConnection, RotateDeviceToken, DeleteDevice,
                AdminDeleteDrone
  <2>9. ASSUME NEW w \in Workers, PersistState(w) \/ Recycle(w)
        PROVE  UNCHANGED calls /\ (Fault \/ UNCHANGED faults)
    BY <2>9 DEF PersistState, Recycle
  <2>10. CASE UNCHANGED vars
    BY <2>10 DEF vars
  <2> QED
    BY <2>1, <2>2, <2>3, <2>4, <2>5, <2>6, <2>7, <2>8, <2>9, <2>10 DEF Next
<1>7. calls' \in 0..MaxCalls
  BY <1>5 DEF TypeOK, Request1
<1>8. faults' \in 0..MaxFaults
  BY <1>5 DEF TypeOK, Fault
<1>9. presented \subseteq presented' /\ presented' \subseteq Drones \X Tokens
  BY <1>1, <1>2, <1>3, <1>4 DEF TypeOK
<1>10. consent \subseteq consent' /\ consent' \subseteq Drones \X Users
  BY <1>1, <1>2, <1>3, <1>4 DEF TypeOK
<1> QED
  BY <1>7, <1>8, <1>9, <1>10

\* What happens to tokens.
LEMMA TokenSteps ==
  ASSUME [Next]_vars
  PROVE  \/ UNCHANGED <<tok, mtok>>
         \/ \E w \in Workers, t \in Tokens : RecordToken(w, t)
         \/ \E w \in Workers : \E t : Revoke(w, t)
         \/ \E w \in Workers, u \in Users : UNCHANGED tok /\ RefreshTokens(w, u)
         \/ \E w \in Workers, d \in Drones, t \in Tokens : RegisterDevice(w, d, t)
         \/ \E w \in Workers : ClaimIntegrationToken(w) \/ PersistState(w) \/ Recycle(w)
BY DEF Next, vars, rows, memory, history, CreateIntegrationToken, RevokeIntegrationToken,
   ListIntegrationTokens, Heartbeat, AcceptDroneConnection, ClaimOwnership, AssignDroneConnection,
   DisconnectDevice, RegisterClaimed, SetDeviceAuthorization, RecordUntrusted, ListDroneConnections,
   DenyDroneConnection, DenyClaimed, RotateDeviceToken, DeleteDevice, AdminDeleteDrone,
   AdminOverview

-----------------------------------------------------------------------------
(* Tokens.                                                                 *)

TokenTypes ==
  /\ tok \in [Tokens -> TokenRow \cup {None}]
  /\ mtok \in [Workers -> [Tokens -> TokenRow \cup {None}]]

\* A token is revoked, and bound to nobody by that.
LEMMA RevokeKeeps ==
  ASSUME NEW tokens \in [Tokens -> TokenRow \cup {None}], NEW t
  PROVE  /\ Revoked(tokens, t) \in [Tokens -> TokenRow \cup {None}]
         /\ \A k \in Tokens : (Revoked(tokens, t)[k] = None <=> tokens[k] = None)
                              /\ (tokens[k] # None => Revoked(tokens, t)[k].bound = tokens[k].bound)
<1>1. CASE IsUsable(tokens[t]) /\ t \in Tokens
  <2>1. Revoked(tokens, t) = [tokens EXCEPT ![t] = [tokens[t] EXCEPT !.revoked = TRUE]]
    BY <1>1 DEF Revoked
  <2>2. tokens[t] \in TokenRow
    BY <1>1 DEF IsUsable
  <2>3. [tokens[t] EXCEPT !.revoked = TRUE] \in TokenRow
        /\ [tokens[t] EXCEPT !.revoked = TRUE].bound = tokens[t].bound
    BY <2>2 DEF TokenRow
  <2> QED
    BY <2>1, <2>2, <2>3
<1>2. CASE ~IsUsable(tokens[t])
  BY <1>2 DEF Revoked
<1>3. CASE t \notin Tokens
  <2>1. Revoked(tokens, t) = tokens
    BY <1>3 DEF Revoked
  <2> QED
    BY <2>1
<1> QED
  BY <1>1, <1>2, <1>3

\* A row of a token is never deleted, and every step keeps tokens good.
LEMMA TokensKept ==
  ASSUME IInv, [Next]_vars
  PROVE  TokenTypes' /\ TokensGood' /\ \A t \in Tokens : tok[t] # None => tok'[t] # None
<1> DEFINE P == TokenTypes' /\ TokensGood' /\ \A t \in Tokens : tok[t] # None => tok'[t] # None
<1>1. TypeOK /\ TokenTypes /\ TokensGood
  BY DEF IInv, TypeOK, TokenTypes, Provenance
<1>2. /\ presented \subseteq presented' /\ consent \subseteq consent'
      /\ \A t, entry : GoodToken(t, entry) => GoodToken(t, entry)'
  BY <1>1, HistorySteps, GoodStays
<1>3. CASE UNCHANGED <<tok, mtok>>
  BY <1>1, <1>2, <1>3 DEF TokenTypes, TokensGood
<1>4. ASSUME NEW w \in Workers, NEW t \in Tokens, RecordToken(w, t) PROVE P
  <2>1. NewToken \in TokenRow /\ GoodToken(t, NewToken)'
    BY DEF NewToken, TokenRow, GoodToken
  <2>2. TokenTypes'
    BY <1>1, <1>4, <2>1 DEF TokenTypes, RecordToken
  <2>3. TokensGood'
    BY <1>1, <1>2, <1>4, <2>1 DEF TokenTypes, TokensGood, RecordToken
  <2> QED
    BY <1>1, <1>4, <2>1, <2>2, <2>3 DEF TokenTypes, RecordToken
<1>5. ASSUME NEW w \in Workers, NEW t, Revoke(w, t) PROVE P
  <2>1. CASE UNCHANGED <<tok, mtok>>
    BY <1>3, <2>1
  <2>2. CASE tok' = Revoked(tok, t) /\ mtok' = [mtok EXCEPT ![w] = Revoked(mtok[w], t)]
    <3>1. /\ Revoked(tok, t) \in [Tokens -> TokenRow \cup {None}]
          /\ Revoked(mtok[w], t) \in [Tokens -> TokenRow \cup {None}]
          /\ \A k \in Tokens :
               /\ Revoked(tok, t)[k] = None <=> tok[k] = None
               /\ tok[k] # None => Revoked(tok, t)[k].bound = tok[k].bound
               /\ Revoked(mtok[w], t)[k] = None <=> mtok[w][k] = None
               /\ mtok[w][k] # None => Revoked(mtok[w], t)[k].bound = mtok[w][k].bound
      BY <1>1, RevokeKeeps DEF TokenTypes
    <3>2. TokenTypes'
      BY <1>1, <2>2, <3>1 DEF TokenTypes
    <3>3. \A k \in Tokens : GoodToken(k, tok[k])'
      BY <1>1, <1>2, <2>2, <3>1 DEF TokensGood, GoodToken
    <3>4. \A k \in Tokens, v \in Workers : GoodToken(k, mtok[v][k])'
      <4> SUFFICES ASSUME NEW k \in Tokens, NEW v \in Workers
                   PROVE  mtok'[v][k] # None /\ mtok'[v][k].bound # None
                            => <<mtok'[v][k].bound, k>> \in presented'
        BY DEF GoodToken
      <4>1. mtok'[v] = IF v = w THEN Revoked(mtok[w], t) ELSE mtok[v]
        BY <1>1, <2>2 DEF TokenTypes
      <4>2. mtok[v][k] # None /\ mtok[v][k].bound # None => <<mtok[v][k].bound, k>> \in presented'
        BY <1>1, <1>2 DEF TokensGood, GoodToken
      <4> QED
        BY <3>1, <4>1, <4>2
    <3> QED
      BY <2>2, <3>1, <3>2, <3>3, <3>4 DEF TokensGood
  <2> QED
    BY <1>5, <2>1, <2>2 DEF Revoke
<1>6. ASSUME NEW w \in Workers, NEW u \in Users, UNCHANGED tok, RefreshTokens(w, u) PROVE P
  <2>1. TokenTypes'
    BY <1>1, <1>6 DEF TokenTypes, RefreshTokens
  <2>2. TokensGood'
    BY <1>1, <1>2, <1>6 DEF TokenTypes, TokensGood, RefreshTokens, GoodToken
  <2> QED
    BY <1>6, <2>1, <2>2
<1>7. ASSUME NEW w \in Workers, NEW d \in Drones, NEW t \in Tokens, RegisterDevice(w, d, t) PROVE P
  <2>1. UNCHANGED tok /\ <<d, t>> \in presented'
    BY <1>7 DEF RegisterDevice, rows
  <2>2. CASE UNCHANGED mtok
    BY <1>3, <2>1, <2>2
  <2>3. CASE MemoryAccepts(w, t, d)
             /\ mtok' = [mtok EXCEPT ![w] = [mtok[w] EXCEPT ![t] = [mtok[w][t] EXCEPT !.bound = d]]]
    <3>1. mtok[w][t] \in TokenRow
      BY <1>1, <2>3 DEF TokenTypes, MemoryAccepts, IsUsable
    <3>2. [mtok[w][t] EXCEPT !.bound = d] \in TokenRow /\ [mtok[w][t] EXCEPT !.bound = d].bound = d
      BY <3>1 DEF TokenRow
    <3>3. TokenTypes'
      BY <1>1, <2>1, <2>3, <3>2 DEF TokenTypes
    <3>4. TokensGood'
      BY <1>1, <1>2, <2>1, <2>3, <3>2 DEF TokenTypes, TokensGood, GoodToken
    <3> QED
      BY <2>1, <3>3, <3>4
  <2> QED
    BY <1>7, <2>2, <2>3 DEF RegisterDevice
<1>8. ASSUME NEW w \in Workers, ClaimIntegrationToken(w) PROVE P
  <2> DEFINE d == job[w].drone
             t == job[w].token
  <2>1. stage[w] = "claiming" /\ d \in Drones /\ t \in Tokens /\ job[w].bound \in Drones \cup {None}
    BY <1>8 DEF ClaimIntegrationToken, Go, IInv, TypeOK, Provenance, JobsGood, OfToken
  <2>2. <<d, t>> \in presented /\ (job[w].bound # None => <<job[w].bound, t>> \in presented)
        /\ tok[t] # None
    BY <2>1 DEF IInv, Provenance, JobsGood, OfToken
  <2>3. tok' = [tok EXCEPT ![t] = [tok[t] EXCEPT !.bound = Or(tok[t].bound, d)]]
        /\ mtok' = [mtok EXCEPT ![w] = [mtok[w] EXCEPT ![t] =
                      [revoked |-> FALSE, bound |-> Or(job[w].bound, d)]]]
    BY <1>8 DEF ClaimIntegrationToken
  <2>4. tok[t] \in TokenRow
    BY <1>1, <2>1, <2>2 DEF TokenTypes
  <2>5. /\ [tok[t] EXCEPT !.bound = Or(tok[t].bound, d)] \in TokenRow
        /\ [tok[t] EXCEPT !.bound = Or(tok[t].bound, d)].bound = Or(tok[t].bound, d)
        /\ [revoked |-> FALSE, bound |-> Or(job[w].bound, d)] \in TokenRow
    BY <2>1, <2>4 DEF TokenRow, Or
  <2>6. TokenTypes'
    BY <1>1, <2>1, <2>3, <2>5 DEF TokenTypes
  <2>7. <<Or(tok[t].bound, d), t>> \in presented' /\ <<Or(job[w].bound, d), t>> \in presented'
    BY <1>1, <1>2, <2>1, <2>2 DEF TokensGood, GoodToken, Or
  <2>8. \A k \in Tokens : GoodToken(k, tok[k])'
    BY <1>1, <1>2, <2>1, <2>3, <2>5, <2>7 DEF TokenTypes, TokensGood, GoodToken
  <2>9. \A k \in Tokens, v \in Workers : GoodToken(k, mtok[v][k])'
    BY <1>1, <1>2, <2>1, <2>3, <2>7 DEF TokenTypes, TokensGood, GoodToken
  <2>10. \A k \in Tokens : tok[k] # None => tok'[k] # None
    BY <1>1, <2>1, <2>3, <2>5 DEF TokenTypes
  <2> QED
    BY <2>6, <2>8, <2>9, <2>10 DEF TokensGood
<1>9. ASSUME NEW w \in Workers, PersistState(w) PROVE P
  <2>1. UNCHANGED mtok /\ (tok' = MirroredTokens(w) \/ UNCHANGED tok)
    BY <1>9 DEF PersistState, rows, memory
  <2>2. TokenTypes' /\ TokensGood'
    BY <1>1, <1>2, <2>1 DEF TokenTypes, TokensGood, MirroredTokens
  <2> QED
    BY <2>1, <2>2 DEF MirroredTokens
<1>10. ASSUME NEW w \in Workers, Recycle(w) PROVE P
  <2>1. UNCHANGED tok /\ mtok' = [mtok EXCEPT ![w] = [t \in Tokens |-> None]]
    BY <1>10 DEF Recycle, rows
  <2>2. TokenTypes'
    BY <1>1, <2>1 DEF TokenTypes
  <2>3. TokensGood'
    BY <1>1, <1>2, <2>1 DEF TokenTypes, TokensGood, GoodToken
  <2> QED
    BY <2>1, <2>2, <2>3
<1> QED
  BY <1>3, <1>4, <1>5, <1>6, <1>7, <1>8, <1>9, <1>10, TokenSteps

-----------------------------------------------------------------------------
(* Drones.                                                                 *)

DroneTypes ==
  /\ drone \in [Drones -> Device \cup {None}]
  /\ mdev \in [Workers -> SUBSET Device]
  /\ ids \in 0..MaxIds
RowsStay == \A d \in Drones : drone[d] # None => drone'[d] # None

\* What happens to Drones.
LEMMA DroneSteps ==
  ASSUME [Next]_vars
  PROVE  \/ UNCHANGED <<drone, mdev, ids>>
         \/ \E w \in Workers, u \in Users, d \in Drones :
              AcceptDroneConnection(w, u, d) \/ ClaimOwnership(w, u, d)
         \/ \E w \in Workers, d \in Drones :
              \/ AssignDroneConnection(w, d) \/ AdminDeleteDrone(w, d)
              \/ (RemoveDevice(w, d) \/ Rotate(w, d)) /\ UNCHANGED <<drone, ids>>
         \/ \E w \in Workers :
              RegisterClaimed(w) \/ AdminOverview(w) \/ PersistState(w) \/ Recycle(w)
<1>1. ASSUME NEW w \in Workers, NEW t \in Tokens,
             CreateIntegrationToken(w, t) \/ RevokeIntegrationToken(w, t)
      PROVE  UNCHANGED <<drone, mdev, ids>>
  BY <1>1 DEF CreateIntegrationToken, RevokeIntegrationToken
<1>2. ASSUME NEW w \in Workers, NEW u \in Users, ListIntegrationTokens(w, u)
      PROVE  UNCHANGED <<drone, mdev, ids>>
  BY <1>2 DEF ListIntegrationTokens, rows
<1>3. ASSUME NEW w \in Workers, NEW d \in Drones, NEW t \in Tokens,
             RegisterDevice(w, d, t) \/ Heartbeat(w, d, t)
      PROVE  UNCHANGED <<drone, mdev, ids>>
  BY <1>3 DEF RegisterDevice, Heartbeat, rows
<1>4. ASSUME NEW w \in Workers, NEW d \in Drones, NEW c,
             DisconnectDevice(w, d, c) \/ RotateDeviceToken(w, d) \/ DeleteDevice(w, d)
      PROVE  (RemoveDevice(w, d) \/ Rotate(w, d)) /\ UNCHANGED <<drone, ids>>
  BY <1>4 DEF DisconnectDevice, RotateDeviceToken, DeleteDevice, rows
<1>5. ASSUME NEW w \in Workers,
             \/ ClaimIntegrationToken(w) \/ RecordUntrusted(w) \/ DenyClaimed(w)
             \/ ListDroneConnections(w) \/ \E d \in Drones : DenyDroneConnection(w, d)
      PROVE  UNCHANGED <<drone, mdev, ids>>
  BY <1>5 DEF ClaimIntegrationToken, RecordUntrusted, DenyClaimed, ListDroneConnections,
              DenyDroneConnection, rows
<1>6. CASE UNCHANGED vars
  BY <1>6 DEF vars, rows, memory
<1> QED
  BY <1>1, <1>2, <1>3, <1>4, <1>5, <1>6 DEF Next

\* One memory changes: what it now holds is good, and no Drone twice that is
\* not in the table.
LEMMA MemoryKept ==
  ASSUME IInv, presented \subseteq presented', consent \subseteq consent',
         UNCHANGED drone, ids' \in 0..MaxIds,
         NEW w \in Workers, NEW new \in SUBSET Device, mdev' = [mdev EXCEPT ![w] = new],
         \A m \in new : GoodDevice(m)',
         \A d \in Drones : drone[d] = None =>
           \A m, n \in new : m.drone = d /\ n.drone = d => m = n
  PROVE  DroneTypes' /\ DronesGood' /\ HeldOnce' /\ RowsStay
<1>1. mdev \in [Workers -> SUBSET Device] /\ drone \in [Drones -> Device \cup {None}]
  BY DEF IInv, TypeOK
<1>2. \A v \in Workers : mdev'[v] = IF v = w THEN new ELSE mdev[v]
  BY <1>1
<1>3. DroneTypes'
  BY <1>1 DEF DroneTypes
<1>4. DronesGood'
  BY <1>2, GoodStays DEF IInv, Provenance, DronesGood
<1>5. HeldOnce'
  BY <1>2 DEF IInv, Provenance, HeldOnce, Held
<1> QED
  BY <1>3, <1>4, <1>5 DEF RowsStay

\* What a worker holds is good, and stays so.
LEMMA HeldGood ==
  ASSUME IInv, presented \subseteq presented', consent \subseteq consent', NEW w \in Workers
  PROVE  /\ mdev[w] \in SUBSET Device
         /\ \A m \in mdev[w] : GoodDevice(m)'
         /\ \A d \in Drones : drone[d] = None =>
              \A m, n \in mdev[w] : m.drone = d /\ n.drone = d => m = n
BY GoodStays DEF IInv, TypeOK, Provenance, DronesGood, HeldOnce, Held

\* A Drone that is handed over to somebody who consented.
LEMMA CreateKept ==
  ASSUME IInv, presented \subseteq presented', consent \subseteq consent', UNCHANGED drone,
         NEW w \in Workers, NEW d \in Drones, NEW owner \in Users,
         NEW hash \in Tokens \cup {Minted, None}, NEW auth \in Tokens \cup {None},
         CreateDevice(w, d, owner, hash, auth),
         <<d, owner>> \in consent',
         auth # None => Issuer[auth] = owner,
         hash \in Tokens => <<d, hash>> \in presented'
  PROVE  DroneTypes' /\ DronesGood' /\ HeldOnce' /\ RowsStay
<1> DEFINE Made(id) == [id |-> id, drone |-> d, owner |-> owner, auth |-> auth,
                        hash |-> hash, approved |-> TRUE]
           others == mdev[w] \ Held(w, d)
<1>1. \E id \in 1..MaxIds : mdev' = [mdev EXCEPT ![w] = others \cup {Made(id)}]
  <2>1. ASSUME ids < MaxIds, mdev' = [mdev EXCEPT ![w] = others \cup {Made(ids + 1)}]
        PROVE  \E id \in 1..MaxIds : mdev' = [mdev EXCEPT ![w] = others \cup {Made(id)}]
    <3>1. ids + 1 \in 1..MaxIds
      BY <2>1 DEF IInv, TypeOK
    <3> QED
      BY <2>1, <3>1
  <2>2. ASSUME NEW keep \in Held(w, d), mdev' = [mdev EXCEPT ![w] = others \cup {Made(keep.id)}]
        PROVE  \E id \in 1..MaxIds : mdev' = [mdev EXCEPT ![w] = others \cup {Made(id)}]
    <3>1. keep.id \in 1..MaxIds
      BY HeldGood DEF Held, Device
    <3> QED
      BY <2>2, <3>1
  <2> QED
    BY <2>1, <2>2 DEF CreateDevice
<1>2. ids' \in 0..MaxIds
  <2>1. (ids < MaxIds /\ ids' = ids + 1) \/ UNCHANGED ids
    BY DEF CreateDevice
  <2> QED
    BY <2>1 DEF IInv, TypeOK
<1>3. PICK id \in 1..MaxIds : mdev' = [mdev EXCEPT ![w] = others \cup {Made(id)}]
  BY <1>1
<1>4. /\ Made(id) \in Device /\ Made(id).drone = d /\ Made(id).owner = owner
      /\ Made(id).auth = auth /\ Made(id).hash = hash
  BY DEF Device
<1>5. GoodDevice(Made(id))'
  BY <1>4 DEF GoodDevice
<1>6. others \cup {Made(id)} \in SUBSET Device
      /\ \A m \in others \cup {Made(id)} : GoodDevice(m)'
  BY <1>4, <1>5, HeldGood
<1>7. \A e \in Drones : drone[e] = None =>
        \A m, n \in others \cup {Made(id)} : m.drone = e /\ n.drone = e => m = n
  BY <1>4, HeldGood DEF Held
<1> HIDE DEF Made, others
<1> QED
  BY <1>2, <1>3, <1>6, <1>7, MemoryKept

\* A Drone that is changed in memory alone, or not at all.
LEMMA CopyKept ==
  ASSUME IInv, presented \subseteq presented', consent \subseteq consent',
         UNCHANGED <<drone, ids>>,
         NEW w \in Workers, NEW d \in Drones, NEW changed, OnCopy(w, d, changed),
         drone[d] = None => /\ changed \in SUBSET Device
                            /\ \A m \in changed : m.drone = d /\ GoodDevice(m)'
                            /\ \A m, n \in changed : m = n
  PROVE  DroneTypes' /\ DronesGood' /\ HeldOnce' /\ RowsStay
<1>1. UNCHANGED drone /\ ids' \in 0..MaxIds
  BY DEF IInv, TypeOK
<1>2. CASE drone[d] # None
  <2>1. mdev' = [mdev EXCEPT ![w] = mdev[w]]
    BY <1>2 DEF OnCopy, IInv, TypeOK
  <2>2. /\ mdev[w] \in SUBSET Device
        /\ \A m \in mdev[w] : GoodDevice(m)'
        /\ \A e \in Drones : drone[e] = None =>
             \A m, n \in mdev[w] : m.drone = e /\ n.drone = e => m = n
    BY HeldGood
  <2> QED
    BY <1>1, <2>1, <2>2, MemoryKept
<1>3. CASE drone[d] = None
  <2> DEFINE new == (mdev[w] \ Held(w, d)) \cup changed
  <2>1. mdev' = [mdev EXCEPT ![w] = new]
    BY <1>3 DEF OnCopy
  <2>2. new \in SUBSET Device /\ \A m \in new : GoodDevice(m)'
    BY <1>3, HeldGood
  <2>3. \A e \in Drones : drone[e] = None =>
          \A m, n \in new : m.drone = e /\ n.drone = e => m = n
    BY <1>3, HeldGood DEF Held
  <2> HIDE DEF new
  <2> QED
    BY <1>1, <2>1, <2>2, <2>3, MemoryKept
<1> QED
  BY <1>2, <1>3

\* Removing a Drone, or giving it a new credential, is such a change.
LEMMA RemoveKept ==
  ASSUME IInv, presented \subseteq presented', consent \subseteq consent',
         UNCHANGED <<drone, ids>>, NEW w \in Workers, NEW d \in Drones,
         RemoveDevice(w, d) \/ Rotate(w, d)
  PROVE  DroneTypes' /\ DronesGood' /\ HeldOnce' /\ RowsStay
<1>1. mdev[w] \in SUBSET Device /\ \A m \in Held(w, d) : m \in Device /\ GoodDevice(m)'
  BY HeldGood DEF Held
<1>2. drone[d] = None => \A m, n \in Held(w, d) : m = n
  BY DEF IInv, Provenance, HeldOnce
<1>3. CASE RemoveDevice(w, d)
  <2> DEFINE changed == {[m EXCEPT !.approved = FALSE] : m \in Held(w, d)}
  <2>1. OnCopy(w, d, changed)
    BY <1>3 DEF RemoveDevice
  <2>2. ASSUME NEW m \in Held(w, d), NEW n, n = [m EXCEPT !.approved = FALSE]
        PROVE  n \in Device /\ n.drone = d /\ GoodDevice(n)'
    <3>1. m \in Device /\ m.drone = d /\ GoodDevice(m)'
      BY <1>1 DEF Held
    <3>2. /\ n \in Device /\ n.drone = m.drone /\ n.owner = m.owner /\ n.auth = m.auth
          /\ n.hash \in {m.hash, Minted}
      BY <2>2, <3>1 DEF Device
    <3> QED
      BY <3>1, <3>2 DEF GoodDevice
  <2>3. drone[d] = None => \A m, n \in changed : m = n
    BY <1>2
  <2>4. changed \in SUBSET Device /\ \A m \in changed : m.drone = d /\ GoodDevice(m)'
    BY <2>2
  <2> HIDE DEF changed
  <2> QED
    BY <2>1, <2>3, <2>4, CopyKept
<1>4. CASE Rotate(w, d)
  <2> DEFINE changed == {[m EXCEPT !.hash = Minted] : m \in Held(w, d)}
  <2>1. OnCopy(w, d, changed)
    BY <1>4 DEF Rotate
  <2>2. ASSUME NEW m \in Held(w, d), NEW n, n = [m EXCEPT !.hash = Minted]
        PROVE  n \in Device /\ n.drone = d /\ GoodDevice(n)'
    <3>1. m \in Device /\ m.drone = d /\ GoodDevice(m)'
      BY <1>1 DEF Held
    <3>2. /\ n \in Device /\ n.drone = m.drone /\ n.owner = m.owner /\ n.auth = m.auth
          /\ n.hash \in {m.hash, Minted}
      BY <2>2, <3>1 DEF Device
    <3> QED
      BY <3>1, <3>2 DEF GoodDevice
  <2>3. drone[d] = None => \A m, n \in changed : m = n
    BY <1>2
  <2>4. changed \in SUBSET Device /\ \A m \in changed : m.drone = d /\ GoodDevice(m)'
    BY <2>2
  <2> HIDE DEF changed
  <2> QED
    BY <2>1, <2>3, <2>4, CopyKept
<1> QED
  BY <1>3, <1>4

\* An accepted Drone goes to the user it asked for, who accepted it, with the
\* token of that user it had presented.
LEMMA AcceptKept ==
  ASSUME IInv, presented \subseteq presented', consent \subseteq consent',
         NEW w \in Workers, NEW u \in Users, NEW d \in Drones, AcceptDroneConnection(w, u, d)
  PROVE  DroneTypes' /\ DronesGood' /\ HeldOnce' /\ RowsStay
<1> DEFINE conn == Found(w, d)
           backed == /\ conn.auth # None
                     /\ Issuer[conn.auth] = u /\ IsUsable(mtok[w][conn.auth])
           dev == Known(w, d)
<1>1. UNCHANGED drone /\ Accept(w, u, d)
  BY DEF AcceptDroneConnection
<1>2. conn \in Request /\ GoodRequest(d, conn)
  BY VisibleGood DEF Found
<1>3. CASE UNCHANGED <<mdev, ids>>
  <2>1. mdev' = [mdev EXCEPT ![w] = mdev[w]] /\ ids' \in 0..MaxIds
    BY <1>3 DEF IInv, TypeOK
  <2>2. /\ mdev[w] \in SUBSET Device
        /\ \A m \in mdev[w] : GoodDevice(m)'
        /\ \A e \in Drones : drone[e] = None =>
             \A m, n \in mdev[w] : m.drone = e /\ n.drone = e => m = n
    BY HeldGood
  <2> QED
    BY <1>1, <2>1, <2>2, MemoryKept
<1>4. CASE conn.user = u /\ consent' = consent \cup {<<d, u>>} /\ dev # None /\ dev.owner = u /\ UNCHANGED ids
           /\ OnCopy(w, d, {[m EXCEPT !.approved = TRUE,
                               !.auth = IF backed THEN conn.auth ELSE @,
                               !.hash = IF backed THEN conn.auth ELSE @] : m \in Held(w, d)})
  <2> DEFINE F(m) == [m EXCEPT !.approved = TRUE,
                               !.auth = IF backed THEN conn.auth ELSE @,
                               !.hash = IF backed THEN conn.auth ELSE @]
             changed == {F(m) : m \in Held(w, d)}
  <2>1. OnCopy(w, d, changed)
    BY <1>4
  <2>2. drone[d] = None => \A m \in Held(w, d) : m = dev
    <3>1. drone[d] = None /\ Held(w, d) # {} => dev \in Held(w, d)
      BY HeldChosen DEF Known
    <3> QED
      BY <3>1 DEF IInv, Provenance, HeldOnce
  <2>3. ASSUME drone[d] = None, NEW m \in Held(w, d), NEW n, n = F(m)
        PROVE  n \in Device /\ n.drone = d /\ GoodDevice(n)'
    <3>1. m \in Device /\ m.drone = d /\ m.owner = u /\ GoodDevice(m)'
      BY <1>4, <2>2, <2>3, HeldGood DEF Held
    <3>2. conn.auth \in Tokens \cup {None} /\ (conn.auth # None => <<d, conn.auth>> \in presented')
      BY <1>2 DEF Request, GoodRequest
    <3>3. /\ n \in Device /\ n.drone = d /\ n.owner = u
          /\ n.auth = IF backed THEN conn.auth ELSE m.auth
          /\ n.hash = IF backed THEN conn.auth ELSE m.hash
      BY <2>3, <3>1, <3>2 DEF Device
    <3>4. n.auth # None => Issuer[n.auth] = u
      BY <3>1, <3>3 DEF GoodDevice
    <3>5. n.hash \in Tokens => <<d, n.hash>> \in presented'
      BY <3>1, <3>2, <3>3 DEF GoodDevice
    <3> QED
      BY <1>4, <3>3, <3>4, <3>5 DEF GoodDevice
  <2>4. drone[d] = None => \A m, n \in changed : m = n
    BY <2>2
  <2>5. drone[d] = None => changed \in SUBSET Device /\ \A m \in changed : m.drone = d /\ GoodDevice(m)'
    BY <2>3
  <2> HIDE DEF changed
  <2> QED
    BY <1>1, <1>4, <2>1, <2>4, <2>5, CopyKept
<1>5. CASE conn.user = u /\ consent' = consent \cup {<<d, u>>}
           /\ CreateDevice(w, d, u, IF backed THEN conn.auth ELSE Minted, conn.auth)
  <2>1. conn.auth \in Tokens \cup {None}
        /\ (IF backed THEN conn.auth ELSE Minted) \in Tokens \cup {Minted, None}
    BY <1>2 DEF Request
  <2>2. conn.auth # None => Issuer[conn.auth] = u
    BY <1>2, <1>5 DEF GoodRequest
  <2>3. (IF backed THEN conn.auth ELSE Minted) \in Tokens =>
          <<d, IF backed THEN conn.auth ELSE Minted>> \in presented'
    BY <1>2 DEF GoodRequest
  <2>4. <<d, u>> \in consent'
    BY <1>5
  <2> HIDE DEF conn, backed
  <2> QED
    BY <1>1, <1>5, <2>1, <2>2, <2>3, <2>4, CreateKept
<1> QED
  BY <1>1, <1>3, <1>4, <1>5 DEF Accept

\* A claimed Drone is the claimer's, with a credential made for it.
LEMMA ClaimKept ==
  ASSUME IInv, presented \subseteq presented', consent \subseteq consent',
         NEW w \in Workers, NEW u \in Users, NEW d \in Drones, ClaimOwnership(w, u, d)
  PROVE  DroneTypes' /\ DronesGood' /\ HeldOnce' /\ RowsStay
<1>1. UNCHANGED drone /\ CreateDevice(w, d, u, Minted, None) /\ <<d, u>> \in consent'
  BY DEF ClaimOwnership
<1> QED
  BY <1>1, CreateKept

\* An assigned Drone is the swarm owner's, with the credential it presented.
LEMMA AssignKept ==
  ASSUME IInv, presented \subseteq presented', consent \subseteq consent',
         NEW w \in Workers, NEW d \in Drones, AssignDroneConnection(w, d)
  PROVE  DroneTypes' /\ DronesGood' /\ HeldOnce' /\ RowsStay
<1> DEFINE conn == WithVisible(w)[d]
           auth == IF conn.user = Assignee(conn) THEN conn.auth ELSE None
<1>1. conn \in Request /\ GoodRequest(d, conn)
  BY VisibleGood
<1>2. CASE UNCHANGED <<drone, mdev, ids>>
  <2>1. mdev' = [mdev EXCEPT ![w] = mdev[w]] /\ ids' \in 0..MaxIds
    BY <1>2 DEF IInv, TypeOK
  <2>2. /\ mdev[w] \in SUBSET Device
        /\ \A m \in mdev[w] : GoodDevice(m)'
        /\ \A e \in Drones : drone[e] = None =>
             \A m, n \in mdev[w] : m.drone = e /\ n.drone = e => m = n
    BY HeldGood
  <2> QED
    BY <1>2, <2>1, <2>2, MemoryKept
<1>3. CASE UNCHANGED drone /\ Assign(w, d, conn)
  <2>1. CreateDevice(w, d, SwarmOwner, CredentialOf(conn), auth) /\ <<d, SwarmOwner>> \in consent'
    BY <1>3 DEF Assign, Assignee
  <2>2. CredentialOf(conn) \in Tokens \cup {Minted, None} /\ auth \in Tokens \cup {None}
    BY <1>1 DEF CredentialOf, Request
  <2>3. auth # None => Issuer[auth] = SwarmOwner
    BY <1>1 DEF GoodRequest, Assignee
  <2>4. CredentialOf(conn) \in Tokens => <<d, CredentialOf(conn)>> \in presented'
    BY <1>1 DEF CredentialOf, GoodRequest
  <2> HIDE DEF conn, auth
  <2> QED
    BY <1>3, <2>1, <2>2, <2>3, <2>4, CreateKept
<1> QED
  BY <1>2, <1>3 DEF AssignDroneConnection, rows

\* A request under way is about a Drone and a token of its user, which the
\* Drone presented.
LEMMA JobGood ==
  ASSUME IInv, NEW w \in Workers, stage[w] \in OfToken
  PROVE  /\ job[w].drone \in Drones /\ job[w].token \in Tokens
         /\ job[w].user = Issuer[job[w].token] /\ job[w].bound \in Drones \cup {None}
         /\ <<job[w].drone, job[w].token>> \in presented
BY DEF IInv, TypeOK, Provenance, JobsGood

\* A Drone that registers anew gets the token of its owner that it presented.
LEMMA RegisterKept ==
  ASSUME IInv, presented \subseteq presented', consent \subseteq consent',
         NEW w \in Workers, RegisterClaimed(w)
  PROVE  DroneTypes' /\ DronesGood' /\ HeldOnce' /\ RowsStay
<1> DEFINE d == job[w].drone
           t == job[w].token
           dev == Known(w, d)
           now == WithCredential(dev, t)
<1>1. d \in Drones /\ t \in Tokens /\ job[w].user = Issuer[t] /\ <<d, t>> \in presented /\ UNCHANGED ids
  BY JobGood DEF RegisterClaimed, Go, OfToken
<1>2. CASE UNCHANGED <<drone, mdev>>
  <2>1. DroneTypes' /\ HeldOnce' /\ RowsStay
    BY <1>1, <1>2 DEF IInv, TypeOK, Provenance, DroneTypes, HeldOnce, Held, RowsStay
  <2>2. DronesGood'
    BY <1>2, GoodStays DEF IInv, Provenance, DronesGood
  <2> QED
    BY <2>1, <2>2
<1>3. CASE IsApproved(dev) /\ dev.owner = job[w].user
           /\ drone' = (IF drone[d] = None THEN drone ELSE [drone EXCEPT ![d] = now])
           /\ mdev' = [mdev EXCEPT ![w] = {m \in mdev[w] : m.id # dev.id} \cup {now}]
  <2>1. dev \in Device /\ dev.drone = d /\ GoodDevice(dev)
    BY <1>1, <1>3, KnownGood DEF IsApproved
  <2>2. /\ now \in Device /\ now.drone = d /\ now.owner = Issuer[t]
        /\ now.auth = t /\ now.hash = t
    BY <1>1, <1>3, <2>1 DEF WithCredential, Device
  <2>3. <<d, Issuer[t]>> \in consent' /\ <<d, t>> \in presented'
    BY <1>1, <1>3, <2>1 DEF GoodDevice
  <2>4. \A n : n = now => n \in Device /\ n # None /\ n.drone = d /\ GoodDevice(n)'
    BY <2>2, <2>3 DEF GoodDevice
  <2> HIDE DEF now
  <2>5. PICK n : n = now
    OBVIOUS
  <2>6. drone' = (IF drone[d] = None THEN drone ELSE [drone EXCEPT ![d] = n])
        /\ mdev' = [mdev EXCEPT ![w] = {m \in mdev[w] : m.id # dev.id} \cup {n}]
    BY <1>3, <2>5
  <2>7. n \in Device /\ n # None /\ n.drone = d /\ GoodDevice(n)'
    BY <2>4, <2>5
  <2>8. drone \in [Drones -> Device \cup {None}] /\ mdev \in [Workers -> SUBSET Device]
    BY DEF IInv, TypeOK
  <2>9. DroneTypes' /\ RowsStay
    BY <1>1, <2>6, <2>7, <2>8 DEF IInv, TypeOK, DroneTypes, RowsStay
  <2>10. DronesGood'
    <3>1. ASSUME NEW e \in Drones, NEW m, m = drone'[e], m # None
          PROVE  m.drone = e /\ GoodDevice(m)'
      <4>1. m = n \/ m = drone[e]
        BY <2>6, <2>8, <3>1
      <4>2. m = n => e = d \/ m = drone[e]
        BY <1>1, <2>6, <2>8, <3>1
      <4> QED
        BY <2>7, <3>1, <4>1, <4>2, GoodStays DEF IInv, Provenance, DronesGood
    <3>2. \A v \in Workers : \A m \in mdev'[v] : m = n \/ m \in mdev[v]
      BY <2>6, <2>8
    <3>3. \A v \in Workers : \A m \in mdev'[v] : GoodDevice(m)'
      BY <2>7, <3>2, GoodStays DEF IInv, Provenance, DronesGood
    <3> QED
      BY <3>1, <3>3 DEF DronesGood
  <2>11. HeldOnce'
    <3> SUFFICES ASSUME NEW e \in Drones, drone'[e] = None, NEW v \in Workers,
                        NEW a \in mdev'[v], NEW b \in mdev'[v], a.drone = e, b.drone = e
                 PROVE  a = b
      BY DEF HeldOnce, Held
    <3>1. drone[e] = None
      BY <1>1, <2>6, <2>7, <2>8
    <3>2. CASE v # w
      BY <2>6, <2>8, <3>1, <3>2 DEF IInv, Provenance, HeldOnce, Held
    <3>3. CASE v = w /\ e # d
      BY <2>6, <2>7, <2>8, <3>1, <3>3 DEF IInv, Provenance, HeldOnce, Held
    <3>4. CASE v = w /\ e = d
      <4>1. dev \in Held(w, d)
        BY <1>3, <3>1, <3>4, HeldChosen DEF Known, IsApproved
      <4>2. \A m \in mdev[w] : m.drone = d => m = dev
        BY <1>1, <3>1, <3>4, <4>1 DEF IInv, Provenance, HeldOnce, Held
      <4> QED
        BY <2>6, <2>8, <3>4, <4>2
    <3> QED
      BY <3>2, <3>3, <3>4
  <2> QED
    BY <2>9, <2>10, <2>11
<1> QED
  BY <1>2, <1>3 DEF RegisterClaimed, SetDeviceAuthorization

\* Every step keeps Drones good.
LEMMA DronesKept ==
  ASSUME IInv, [Next]_vars
  PROVE  DroneTypes' /\ DronesGood' /\ HeldOnce' /\ RowsStay
<1> DEFINE P == DroneTypes' /\ DronesGood' /\ HeldOnce' /\ RowsStay
<1>1. presented \subseteq presented' /\ consent \subseteq consent'
  BY HistorySteps DEF IInv
<1>2. drone \in [Drones -> Device \cup {None}] /\ mdev \in [Workers -> SUBSET Device]
  BY DEF IInv, TypeOK
<1>3. CASE UNCHANGED <<drone, mdev, ids>>
  <2>1. DroneTypes' /\ HeldOnce' /\ RowsStay
    BY <1>3 DEF IInv, TypeOK, Provenance, DroneTypes, HeldOnce, Held, RowsStay
  <2>2. DronesGood'
    BY <1>1, <1>3, GoodStays DEF IInv, Provenance, DronesGood
  <2> QED
    BY <2>1, <2>2
<1>4. ASSUME NEW w \in Workers, NEW d \in Drones, AdminDeleteDrone(w, d) PROVE P
  <2> DEFINE new == {m \in mdev[w] : m.id # Known(w, d).id}
  <2>1. UNCHANGED <<drone, ids>> /\ mdev' = [mdev EXCEPT ![w] = new]
    BY <1>4 DEF AdminDeleteDrone, EraseDevice, rows
  <2>2. new \in SUBSET Device /\ ids' \in 0..MaxIds
    BY <1>2, <2>1 DEF IInv, TypeOK
  <2>3. (\A m \in new : GoodDevice(m)') /\ \A e \in Drones : drone[e] = None =>
           \A m, n \in new : m.drone = e /\ n.drone = e => m = n
    BY <1>1, HeldGood
  <2> HIDE DEF new
  <2> QED
    BY <1>1, <2>1, <2>2, <2>3, MemoryKept
<1>5. ASSUME NEW w \in Workers, AdminOverview(w) PROVE P
  <2> DEFINE new == {Overview(drone[d]) : d \in {e \in Drones : drone[e] # None}}
  <2>1. UNCHANGED <<drone, ids>> /\ mdev' = [mdev EXCEPT ![w] = new]
    BY <1>5 DEF AdminOverview, RefreshOverview, rows
  <2>2. \A d \in Drones : drone[d] # None => drone[d] \in Device /\ drone[d].drone = d /\ GoodDevice(drone[d])
    BY <1>2 DEF IInv, Provenance, DronesGood
  <2>3. ASSUME NEW d \in Drones, drone[d] # None, NEW n, n = Overview(drone[d])
        PROVE  n \in Device /\ n.drone = d /\ GoodDevice(n)'
    <3>1. /\ n \in Device /\ n.drone = d /\ n.owner = drone[d].owner
          /\ n.auth = None /\ n.hash = None
      <4>1. PICK row : row = drone[d]
        OBVIOUS
      <4>2. row \in Device /\ row.drone = d /\ n = [row EXCEPT !.auth = None, !.hash = None]
        BY <2>2, <2>3, <4>1 DEF Overview
      <4> QED
        BY <4>1, <4>2 DEF Device
    <3>2. <<d, drone[d].owner>> \in consent
      BY <2>2, <2>3 DEF GoodDevice
    <3> QED
      BY <1>1, <3>1, <3>2 DEF GoodDevice
  <2>4. new \in SUBSET Device /\ \A n \in new : GoodDevice(n)' /\ drone[n.drone] # None
    BY <2>3
  <2>5. ids' \in 0..MaxIds
    BY <2>1 DEF IInv, TypeOK
  <2> HIDE DEF new
  <2> QED
    BY <1>1, <2>1, <2>4, <2>5, MemoryKept
<1>6. ASSUME NEW w \in Workers, PersistState(w) PROVE P
  <2>1. UNCHANGED <<mdev, ids>> /\ (drone' = MirroredDrones(w) \/ UNCHANGED drone)
    BY <1>6 DEF PersistState, memory, rows
  <2>2. CASE drone' = MirroredDrones(w)
    <3>1. \A d \in Drones : Held(w, d) # {} => drone'[d] \in Held(w, d)
      BY <2>2, HeldChosen DEF MirroredDrones
    <3>2. \A d \in Drones : Held(w, d) = {} => drone'[d] = drone[d]
      BY <2>2 DEF MirroredDrones
    <3>3. \A d \in Drones : \A m \in Held(w, d) : m \in Device /\ m # None /\ m.drone = d /\ GoodDevice(m)'
      BY <1>1, <1>2, HeldGood DEF Held
    <3>4. DroneTypes' /\ RowsStay
      BY <1>2, <2>1, <2>2, <3>1, <3>2, <3>3
         DEF IInv, TypeOK, DroneTypes, RowsStay, MirroredDrones
    <3>5. DronesGood'
      <4>1. ASSUME NEW d \in Drones, NEW m, m = drone'[d], m # None
            PROVE  m.drone = d /\ GoodDevice(m)'
        BY <1>1, <3>1, <3>2, <3>3, <4>1, GoodStays DEF IInv, Provenance, DronesGood
      <4>2. \A v \in Workers : \A m \in mdev'[v] : GoodDevice(m)'
        BY <1>1, <2>1, GoodStays DEF IInv, Provenance, DronesGood
      <4> QED
        BY <4>1, <4>2 DEF DronesGood
    <3>6. HeldOnce'
      BY <2>1, <3>4 DEF IInv, Provenance, HeldOnce, Held, RowsStay
    <3> QED
      BY <3>4, <3>5, <3>6
  <2> QED
    BY <1>3, <2>1, <2>2
<1>7. ASSUME NEW w \in Workers, Recycle(w) PROVE P
  <2>1. UNCHANGED <<drone, ids>> /\ mdev' = [mdev EXCEPT ![w] = {}]
    BY <1>7 DEF Recycle, rows
  <2>2. ids' \in 0..MaxIds
    BY <2>1 DEF IInv, TypeOK
  <2> QED
    BY <1>1, <2>1, <2>2, MemoryKept
<1> QED
  BY <1>1, <1>3, <1>4, <1>5, <1>6, <1>7, AcceptKept, ClaimKept, AssignKept, RemoveKept, RegisterKept,
     DroneSteps

-----------------------------------------------------------------------------
(* Requests.                                                               *)

RequestTypes ==
  /\ pend \in [Drones -> Request]
  /\ mpend \in [Workers -> [Drones -> Request]]

\* One request changes, in a memory and perhaps in its row.
LEMMA OneRequest ==
  ASSUME IInv, presented \subseteq presented', consent \subseteq consent',
         NEW w \in Workers, NEW d \in Drones,
         NEW row \in Request, GoodRequest(d, row)',
         NEW remembered \in Request, GoodRequest(d, remembered)',
         UNCHANGED pend \/ pend' = [pend EXCEPT ![d] = row],
         mpend' = [mpend EXCEPT ![w][d] = remembered]
  PROVE  RequestTypes' /\ RequestsGood'
<1>1. pend \in [Drones -> Request] /\ mpend \in [Workers -> [Drones -> Request]]
  BY DEF IInv, TypeOK
<1>2. RequestTypes'
  BY <1>1 DEF RequestTypes
<1>3. ASSUME NEW e \in Drones, NEW request, request = pend'[e]
      PROVE  GoodRequest(e, request)'
  BY <1>1, <1>3, GoodStays DEF IInv, Provenance, RequestsGood
<1>4. ASSUME NEW e \in Drones, NEW v \in Workers, NEW request, request = mpend'[v][e]
      PROVE  GoodRequest(e, request)'
  BY <1>1, <1>4, GoodStays DEF IInv, Provenance, RequestsGood
<1> QED
  BY <1>2, <1>3, <1>4 DEF RequestsGood

\* No request is a good one.
LEMMA NoRequestGood ==
  NoRequest \in Request /\ \A d : GoodRequest(d, NoRequest) /\ GoodRequest(d, NoRequest)'
BY DEF NoRequest, Request, GoodRequest

\* A request that is dropped.
LEMMA ForgetKept ==
  ASSUME IInv, presented \subseteq presented', consent \subseteq consent',
         NEW w \in Workers, NEW d \in Drones,
         ForgetRequest(w, d) \/ (UNCHANGED pend /\ mpend' = [mpend EXCEPT ![w][d] = NoRequest])
  PROVE  RequestTypes' /\ RequestsGood'
BY NoRequestGood, OneRequest DEF ForgetRequest

\* Merging what a Drone says anew with what it said keeps the user and the
\* token of a request together.
LEMMA PendingKept ==
  ASSUME IInv, presented \subseteq presented', consent \subseteq consent',
         NEW w \in Workers, NEW d \in Drones, NEW user \in Users \cup {None},
         NEW auth \in Tokens \cup {None}, NEW hash \in Tokens \cup {None},
         CreatePending(w, d, user, auth, hash),
         auth = None => user = None,
         auth # None => user = Issuer[auth] /\ <<d, auth>> \in presented',
         hash # None => <<d, hash>> \in presented'
  PROVE  RequestTypes' /\ RequestsGood'
<1>1. CASE ForgetRequest(w, d)
  BY <1>1, ForgetKept
<1>2. CASE pend' = [pend EXCEPT ![d] = Merged(pend[d], user, auth, hash)]
           /\ mpend' = [mpend EXCEPT ![w][d] = Merged(pend[d], user, auth, hash)]
  <2>1. PICK earlier : earlier = pend[d]
    OBVIOUS
  <2>2. earlier \in Request /\ GoodRequest(d, earlier)'
    BY <2>1, GoodStays DEF IInv, TypeOK, Provenance, RequestsGood
  <2>3. PICK request : request = Merged(earlier, user, auth, hash)
    OBVIOUS
  <2>4. /\ request \in Request
        /\ request.user = Or(user, earlier.user) /\ request.auth = Or(auth, earlier.auth)
        /\ request.hash = Or(hash, earlier.hash)
    BY <2>2, <2>3 DEF Merged, Request, Or
  <2>5. GoodRequest(d, request)'
    <3>1. ASSUME request.auth # None
          PROVE  Issuer[request.auth] = request.user /\ <<d, request.auth>> \in presented'
      BY <2>2, <2>4, <3>1 DEF GoodRequest, Or
    <3>2. request.hash # None => <<d, request.hash>> \in presented'
      BY <2>2, <2>4 DEF GoodRequest, Or
    <3> QED
      BY <3>1, <3>2 DEF GoodRequest
  <2>6. pend' = [pend EXCEPT ![d] = request] /\ mpend' = [mpend EXCEPT ![w][d] = request]
    BY <1>2, <2>1, <2>3
  <2> QED
    BY <2>4, <2>5, <2>6, OneRequest
<1> QED
  BY <1>1, <1>2 DEF CreatePending

\* A request that is denied says what it said.
LEMMA DenyKept ==
  ASSUME IInv, presented \subseteq presented', consent \subseteq consent',
         NEW w \in Workers, NEW d \in Drones, Deny(w, d)
  PROVE  RequestTypes' /\ RequestsGood'
<1>1. PICK earlier : earlier = pend[d]
  OBVIOUS
<1>2. earlier \in Request /\ GoodRequest(d, earlier)'
  BY <1>1, GoodStays DEF IInv, TypeOK, Provenance, RequestsGood
<1>3. PICK request : request = [earlier EXCEPT !.status = IF earlier.status = "none" THEN earlier.status ELSE "denied"]
  OBVIOUS
<1>4. /\ request \in Request /\ request.user = earlier.user
      /\ request.auth = earlier.auth /\ request.hash = earlier.hash
  BY <1>2, <1>3 DEF Request
<1>5. GoodRequest(d, request)'
  BY <1>2, <1>4 DEF GoodRequest
<1>6. pend' = [pend EXCEPT ![d] = request] /\ mpend' = [mpend EXCEPT ![w][d] = NoRequest]
  BY <1>1, <1>3 DEF Deny, Denied
<1> QED
  BY <1>4, <1>5, <1>6, NoRequestGood, OneRequest

\* A memory that takes over what can be seen.
LEMMA VisibleKept ==
  ASSUME IInv, presented \subseteq presented', consent \subseteq consent',
         NEW w \in Workers, UNCHANGED pend, mpend' = [mpend EXCEPT ![w] = WithVisible(w)]
  PROVE  RequestTypes' /\ RequestsGood'
<1>1. PICK seen : seen = WithVisible(w)
  OBVIOUS
<1>2. seen \in [Drones -> Request] /\ \A d \in Drones : GoodRequest(d, seen[d])
  BY <1>1, VisibleGood
<1>3. pend \in [Drones -> Request] /\ mpend \in [Workers -> [Drones -> Request]]
  BY DEF IInv, TypeOK
<1>4. mpend' = [mpend EXCEPT ![w] = seen]
  BY <1>1
<1>5. RequestTypes'
  BY <1>2, <1>3, <1>4 DEF RequestTypes
<1>6. ASSUME NEW d \in Drones, NEW v \in Workers, NEW request, request = mpend'[v][d]
      PROVE  GoodRequest(d, request)'
  BY <1>2, <1>3, <1>4, <1>6, GoodStays DEF IInv, Provenance, RequestsGood
<1>7. ASSUME NEW d \in Drones, NEW request, request = pend'[d]
      PROVE  GoodRequest(d, request)'
  BY <1>7, GoodStays DEF IInv, Provenance, RequestsGood
<1> QED
  BY <1>5, <1>6, <1>7 DEF RequestsGood

\* What happens to requests.
LEMMA RequestSteps ==
  ASSUME IInv, [Next]_vars
  PROVE  \/ UNCHANGED <<pend, mpend>>
         \/ \E w \in Workers, d \in Drones :
              \/ ForgetRequest(w, d)
              \/ UNCHANGED pend /\ mpend' = [mpend EXCEPT ![w][d] = NoRequest]
              \/ UNCHANGED pend /\ mpend' = [mpend EXCEPT ![w][d] = Found(w, d)]
              \/ Deny(w, d)
         \/ \E w \in Workers, d \in Drones, t \in Tokens : Heartbeat(w, d, t)
         \/ \E w \in Workers : UNCHANGED pend /\ mpend' = [mpend EXCEPT ![w] = WithVisible(w)]
         \/ \E w \in Workers :
              \/ DenyClaimed(w) \/ RegisterClaimed(w) \/ RecordUntrusted(w)
              \/ PersistState(w) \/ Recycle(w)
<1>1. ASSUME NEW w \in Workers, NEW t \in Tokens,
             CreateIntegrationToken(w, t) \/ RevokeIntegrationToken(w, t)
      PROVE  UNCHANGED <<pend, mpend>>
  BY <1>1 DEF CreateIntegrationToken, RevokeIntegrationToken
<1>2. ASSUME NEW w \in Workers, NEW u \in Users, ListIntegrationTokens(w, u)
      PROVE  UNCHANGED <<pend, mpend>>
  BY <1>2 DEF ListIntegrationTokens, rows
<1>3. ASSUME NEW w \in Workers, NEW d \in Drones, NEW t \in Tokens, RegisterDevice(w, d, t)
      PROVE  UNCHANGED <<pend, mpend>>
  BY <1>3 DEF RegisterDevice, rows
<1>4. ASSUME NEW w \in Workers, NEW d \in Drones, NEW c,
             DisconnectDevice(w, d, c) \/ DeleteDevice(w, d)
      PROVE  UNCHANGED pend /\ mpend' = [mpend EXCEPT ![w][d] = NoRequest]
  BY <1>4 DEF DisconnectDevice, DeleteDevice, RemoveDevice, rows
<1>5. ASSUME NEW w \in Workers, NEW d \in Drones, RotateDeviceToken(w, d)
      PROVE  UNCHANGED <<pend, mpend>>
  BY <1>5 DEF RotateDeviceToken, rows
<1>6. ASSUME NEW w \in Workers, ClaimIntegrationToken(w)
      PROVE  UNCHANGED <<pend, mpend>>
  BY <1>6 DEF ClaimIntegrationToken
<1>7. ASSUME NEW w \in Workers, ListDroneConnections(w) \/ AdminOverview(w)
      PROVE  UNCHANGED pend /\ mpend' = [mpend EXCEPT ![w] = WithVisible(w)]
  BY <1>7 DEF ListDroneConnections, AdminOverview, rows
<1>8. ASSUME NEW w \in Workers, NEW u \in Users, NEW d \in Drones, AcceptDroneConnection(w, u, d)
      PROVE  ForgetRequest(w, d) \/ (UNCHANGED pend /\ mpend' = [mpend EXCEPT ![w][d] = Found(w, d)])
  BY <1>8 DEF AcceptDroneConnection, Accept, CreateDevice
<1>9. ASSUME NEW w \in Workers, NEW u \in Users, NEW d \in Drones, ClaimOwnership(w, u, d)
      PROVE  ForgetRequest(w, d)
  BY <1>9 DEF ClaimOwnership, CreateDevice
<1>10. ASSUME NEW w \in Workers, NEW d \in Drones, AssignDroneConnection(w, d)
       PROVE  ForgetRequest(w, d) \/ (UNCHANGED pend /\ mpend' = [mpend EXCEPT ![w] = WithVisible(w)])
  BY <1>10 DEF AssignDroneConnection, Assign, CreateDevice, rows
<1>11. ASSUME NEW w \in Workers, NEW d \in Drones, DenyDroneConnection(w, d)
       PROVE  Deny(w, d)
  BY <1>11 DEF DenyDroneConnection
<1>12. ASSUME NEW w \in Workers, NEW d \in Drones, AdminDeleteDrone(w, d)
       PROVE  UNCHANGED pend /\ mpend' = [mpend EXCEPT ![w][d] = NoRequest]
  <2>1. Known(w, d) # None /\ UNCHANGED pend
        /\ mpend' = [mpend EXCEPT ![w][Known(w, d).drone] = NoRequest]
    BY <1>12 DEF AdminDeleteDrone, EraseDevice, rows
  <2>2. Known(w, d).drone = d
    BY <2>1, KnownGood
  <2> QED
    BY <2>1, <2>2
<1>13. CASE UNCHANGED vars
  BY <1>13 DEF vars, rows, memory
<1> QED
  BY <1>1, <1>2, <1>3, <1>4, <1>5, <1>6, <1>7, <1>8, <1>9, <1>10, <1>11, <1>12, <1>13 DEF Next

\* The user's request, or nobody's, that a Drone's call leaves behind.
LEMMA CallersRequestKept ==
  ASSUME IInv, [Next]_vars, NEW w \in Workers,
         DenyClaimed(w) \/ RegisterClaimed(w) \/ RecordUntrusted(w)
  PROVE  RequestTypes' /\ RequestsGood'
<1> DEFINE d == job[w].drone
           t == job[w].token
<1>1. presented \subseteq presented' /\ consent \subseteq consent'
  BY HistorySteps DEF IInv
<1>2. d \in Drones \cup {None} /\ t \in Tokens \cup {None}
  BY DEF IInv, TypeOK
<1>3. CASE DenyClaimed(w)
  <2>1. stage[w] = "deny" /\ Deny(w, d)
    BY <1>3 DEF DenyClaimed, Go
  <2>2. d \in Drones
    BY <1>2, <2>1 DEF IInv, Provenance, JobsGood
  <2> QED
    BY <1>1, <2>1, <2>2, DenyKept
<1>4. CASE RegisterClaimed(w)
  <2>1. stage[w] \in OfToken
    BY <1>4 DEF RegisterClaimed, Go, OfToken
  <2>2. d \in Drones /\ t \in Tokens /\ job[w].user = Issuer[t] /\ <<d, t>> \in presented
    BY <1>2, <2>1 DEF IInv, Provenance, JobsGood
  <2>3. UNCHANGED <<pend, mpend>> \/ CreatePending(w, d, Issuer[t], t, None)
    BY <1>4, <2>2 DEF RegisterClaimed, SetDeviceAuthorization
  <2>4. CASE UNCHANGED <<pend, mpend>>
    BY <1>1, <2>4, GoodStays DEF IInv, TypeOK, Provenance, RequestTypes, RequestsGood
  <2>5. CASE CreatePending(w, d, Issuer[t], t, None)
    BY <1>1, <2>2, <2>5, PendingKept
  <2> QED
    BY <2>3, <2>4, <2>5
<1>5. CASE RecordUntrusted(w)
  <2>1. stage[w] \in OfToken /\ CreatePending(w, d, None, None, t)
    BY <1>5 DEF RecordUntrusted, Go, OfToken
  <2>2. d \in Drones /\ t \in Tokens /\ <<d, t>> \in presented
    BY <1>2, <2>1 DEF IInv, Provenance, JobsGood
  <2> QED
    BY <1>1, <2>1, <2>2, PendingKept
<1> QED
  BY <1>3, <1>4, <1>5

\* Every step keeps requests good.
LEMMA RequestsKept ==
  ASSUME IInv, [Next]_vars
  PROVE  RequestTypes' /\ RequestsGood'
<1> DEFINE P == RequestTypes' /\ RequestsGood'
<1>1. presented \subseteq presented' /\ consent \subseteq consent'
  BY HistorySteps DEF IInv
<1>2. pend \in [Drones -> Request] /\ mpend \in [Workers -> [Drones -> Request]]
  BY DEF IInv, TypeOK
<1>3. CASE UNCHANGED <<pend, mpend>>
  BY <1>1, <1>3, GoodStays DEF IInv, TypeOK, Provenance, RequestTypes, RequestsGood
<1>4. ASSUME NEW w \in Workers, NEW d \in Drones, UNCHANGED pend,
             mpend' = [mpend EXCEPT ![w][d] = Found(w, d)]
      PROVE  P
  <2>1. PICK found : found = Found(w, d)
    OBVIOUS
  <2>2. found \in Request /\ GoodRequest(d, found)
    BY <2>1, VisibleGood DEF Found
  <2>3. GoodRequest(d, found)'
    BY <1>1, <2>2, GoodStays
  <2>4. mpend' = [mpend EXCEPT ![w][d] = found]
    BY <1>4, <2>1
  <2> QED
    BY <1>1, <1>4, <2>2, <2>3, <2>4, OneRequest
<1>5. ASSUME NEW w \in Workers, NEW d \in Drones, NEW t \in Tokens, Heartbeat(w, d, t) PROVE P
  <2>1. <<d, t>> \in presented' /\ (UNCHANGED <<pend, mpend>> \/ CreatePending(w, d, None, None, t))
    BY <1>5 DEF Heartbeat
  <2> QED
    BY <1>1, <1>3, <2>1, PendingKept
<1>6. ASSUME NEW w \in Workers, PersistState(w) PROVE P
  <2>1. UNCHANGED mpend /\ (pend' = MirroredRequests(w) \/ UNCHANGED pend)
    BY <1>6 DEF PersistState, memory, rows
  <2>2. CASE pend' = MirroredRequests(w)
    <3>1. \A d \in Drones : pend'[d] = pend[d] \/ pend'[d] = mpend[w][d]
      BY <2>2 DEF MirroredRequests
    <3>2. RequestTypes'
      BY <1>2, <2>1, <2>2 DEF RequestTypes, MirroredRequests
    <3>3. ASSUME NEW d \in Drones, NEW request, request = pend'[d] PROVE GoodRequest(d, request)'
      BY <1>1, <3>1, <3>3, GoodStays DEF IInv, Provenance, RequestsGood
    <3>4. ASSUME NEW d \in Drones, NEW v \in Workers, NEW request, request = mpend'[v][d]
          PROVE  GoodRequest(d, request)'
      BY <1>1, <2>1, <3>4, GoodStays DEF IInv, Provenance, RequestsGood
    <3> QED
      BY <3>2, <3>3, <3>4 DEF RequestsGood
  <2> QED
    BY <1>3, <2>1, <2>2
<1>7. ASSUME NEW w \in Workers, Recycle(w) PROVE P
  <2>1. PICK none : none = [d \in Drones |-> NoRequest]
    OBVIOUS
  <2>2. UNCHANGED pend /\ mpend' = [mpend EXCEPT ![w] = none]
    BY <1>7, <2>1 DEF Recycle, rows
  <2>3. none \in [Drones -> Request] /\ \A d \in Drones : GoodRequest(d, none[d])'
    BY <2>1, NoRequestGood
  <2>4. RequestTypes'
    BY <1>2, <2>2, <2>3 DEF RequestTypes
  <2>5. ASSUME NEW d \in Drones, NEW request, request = pend'[d] PROVE GoodRequest(d, request)'
    BY <1>1, <2>2, <2>5, GoodStays DEF IInv, Provenance, RequestsGood
  <2>6. ASSUME NEW d \in Drones, NEW v \in Workers, NEW request, request = mpend'[v][d]
        PROVE  GoodRequest(d, request)'
    <3>1. request = none[d] \/ request = mpend[v][d]
      BY <1>2, <2>2, <2>6
    <3>2. GoodRequest(d, request)
      BY <3>1, <2>1, NoRequestGood DEF IInv, Provenance, RequestsGood
    <3> QED
      BY <1>1, <3>2, GoodStays
  <2> QED
    BY <2>4, <2>5, <2>6 DEF RequestsGood
<1> QED
  BY <1>1, <1>3, <1>4, <1>5, <1>6, <1>7, ForgetKept, DenyKept, VisibleKept, CallersRequestKept,
     RequestSteps

-----------------------------------------------------------------------------
(* Requests under way.                                                     *)

Job == [drone : Drones \cup {None}, token : Tokens \cup {None},
        user : Users \cup {None}, bound : Drones \cup {None}]
JobTypes == stage \in [Workers -> Stages] /\ job \in [Workers -> Job]

\* A step that leaves nothing but the mirror to do, if anything.
Ends(w) ==
  \E to \in {"idle", "mirror"} :
    /\ stage' = [stage EXCEPT ![w] = to]
    /\ UNCHANGED job \/ job' = [job EXCEPT ![w] = NoJob]

\* What happens to the requests under way.
LEMMA JobSteps ==
  ASSUME [Next]_vars
  PROVE  \/ UNCHANGED <<stage, job>>
         \/ \E w \in Workers : Ends(w)
         \/ \E w \in Workers, d \in Drones, t \in Tokens : RegisterDevice(w, d, t)
         \/ \E w \in Workers, u \in Users, d \in Drones : ClaimOwnership(w, u, d)
         \/ \E w \in Workers : ClaimIntegrationToken(w) \/ PersistState(w)
<1>1. ASSUME NEW w \in Workers, NEW t \in Tokens,
             CreateIntegrationToken(w, t) \/ RevokeIntegrationToken(w, t)
      PROVE  Ends(w)
  BY <1>1 DEF CreateIntegrationToken, RevokeIntegrationToken, Request1, Go, Ends
<1>2. ASSUME NEW w \in Workers, NEW u \in Users, ListIntegrationTokens(w, u) PROVE Ends(w)
  BY <1>2 DEF ListIntegrationTokens, Request1, Go, Ends
<1>3. ASSUME NEW w \in Workers, NEW d \in Drones, NEW t \in Tokens, Heartbeat(w, d, t)
      PROVE  Ends(w)
  BY <1>3 DEF Heartbeat, Request1, Go, Ends
<1>4. ASSUME NEW w \in Workers, NEW d \in Drones, NEW c, DisconnectDevice(w, d, c) PROVE Ends(w)
  BY <1>4 DEF DisconnectDevice, Request1, Go, Ends
<1>5. ASSUME NEW w \in Workers, RegisterClaimed(w) \/ RecordUntrusted(w) \/ DenyClaimed(w)
      PROVE  Ends(w)
  BY <1>5 DEF RegisterClaimed, RecordUntrusted, DenyClaimed, Go, Ends
<1>6. ASSUME NEW w \in Workers, ListDroneConnections(w) \/ AdminOverview(w) PROVE Ends(w)
  BY <1>6 DEF ListDroneConnections, AdminOverview, Request1, Go, Ends
<1>7. ASSUME NEW w \in Workers, NEW u \in Users, NEW d \in Drones, AcceptDroneConnection(w, u, d)
      PROVE  Ends(w)
  BY <1>7 DEF AcceptDroneConnection, Request1, Go, Ends
<1>8. ASSUME NEW w \in Workers, NEW d \in Drones,
             DenyDroneConnection(w, d) \/ AssignDroneConnection(w, d)
      PROVE  Ends(w)
  BY <1>8 DEF DenyDroneConnection, AssignDroneConnection, Request1, Go, Ends
<1>9. ASSUME NEW w \in Workers, NEW d \in Drones,
             RotateDeviceToken(w, d) \/ DeleteDevice(w, d) \/ AdminDeleteDrone(w, d)
      PROVE  Ends(w)
  BY <1>9 DEF RotateDeviceToken, DeleteDevice, AdminDeleteDrone, Request1, Go, Ends
<1>10. ASSUME NEW w \in Workers, Recycle(w) PROVE Ends(w)
  BY <1>10 DEF Recycle, Ends
<1>11. CASE UNCHANGED vars
  BY <1>11 DEF vars
<1> QED
  BY <1>1, <1>2, <1>3, <1>4, <1>5, <1>6, <1>7, <1>8, <1>9, <1>10, <1>11 DEF Next

\* One worker goes on; what the others are in the middle of stays good.
LEMMA OneJob ==
  ASSUME IInv, [Next]_vars, NEW w \in Workers, NEW to \in Stages, NEW now \in Job,
         stage' = [stage EXCEPT ![w] = to],
         job' = [job EXCEPT ![w] = now],
         to \in OfToken =>
           /\ now.drone # None /\ now.token # None
           /\ now.user = Issuer[now.token] /\ <<now.drone, now.token>> \in presented'
           /\ now.bound # None => <<now.bound, now.token>> \in presented',
         to = "claiming" => tok'[now.token] # None,
         to \in {"owned", "deny"} => now.drone # None
  PROVE  JobTypes' /\ JobsGood'
<1>1. stage \in [Workers -> Stages] /\ job \in [Workers -> Job]
  BY DEF IInv, TypeOK, Job
<1>2. JobTypes'
  BY <1>1 DEF JobTypes
<1>3. /\ presented \subseteq presented'
      /\ \A t \in Tokens : tok[t] # None => tok'[t] # None
  BY HistorySteps, TokensKept DEF IInv
<1>4. ASSUME NEW v \in Workers, v # w
      PROVE  /\ stage'[v] = stage[v] /\ job'[v] = job[v]
             /\ stage[v] \in OfToken =>
                  /\ job[v].drone # None /\ job[v].token # None
                  /\ job[v].user = Issuer[job[v].token]
                  /\ <<job[v].drone, job[v].token>> \in presented'
                  /\ job[v].bound # None => <<job[v].bound, job[v].token>> \in presented'
             /\ stage[v] \in {"owned", "deny"} => job[v].drone # None
  BY <1>1, <1>3, <1>4 DEF IInv, Provenance, JobsGood
<1>5. ASSUME NEW v \in Workers, v # w, stage[v] = "claiming" PROVE tok'[job[v].token] # None
  <2>1. job[v].token \in Tokens /\ tok[job[v].token] # None
    BY <1>1, <1>5 DEF IInv, Provenance, JobsGood, OfToken, Job
  <2> QED
    BY <1>3, <2>1
<1>6. stage'[w] = to /\ job'[w] = now
  BY <1>1
<1>7. JobsGood'
  BY <1>4, <1>5, <1>6 DEF JobsGood
<1> QED
  BY <1>2, <1>7

\* Every step keeps what is under way good.
LEMMA JobsKept ==
  ASSUME IInv, [Next]_vars
  PROVE  JobTypes' /\ JobsGood'
<1> DEFINE P == JobTypes' /\ JobsGood'
<1>1. stage \in [Workers -> Stages] /\ job \in [Workers -> Job]
  BY DEF IInv, TypeOK, Job
<1>2. /\ presented \subseteq presented'
      /\ \A t \in Tokens : tok[t] # None => tok'[t] # None
  BY HistorySteps, TokensKept DEF IInv
<1>3. CASE UNCHANGED <<stage, job>>
  <2>1. \A v \in Workers : stage[v] = "claiming" => job[v].token \in Tokens
    BY <1>1 DEF IInv, Provenance, JobsGood, OfToken, Job
  <2> QED
    BY <1>1, <1>2, <1>3, <2>1 DEF IInv, Provenance, JobTypes, JobsGood
<1>4. ASSUME NEW w \in Workers, Ends(w) PROVE P
  <2> PICK to \in {"idle", "mirror"} :
           /\ stage' = [stage EXCEPT ![w] = to]
           /\ UNCHANGED job \/ job' = [job EXCEPT ![w] = NoJob]
    BY <1>4 DEF Ends
  <2>1. PICK now \in Job : job' = [job EXCEPT ![w] = now]
    <3>1. NoJob \in Job
      BY DEF NoJob, Job
    <3>2. job[w] \in Job /\ (UNCHANGED job => job' = [job EXCEPT ![w] = job[w]])
      BY <1>1
    <3> QED
      BY <1>4, <3>1, <3>2
  <2>2. to \in Stages /\ to \notin OfToken /\ to \notin {"owned", "deny"}
    BY DEF Stages, OfToken, AfterMirror
  <2> QED
    BY <1>4, <2>1, <2>2, OneJob DEF OfToken
<1>5. ASSUME NEW w \in Workers, NEW d \in Drones, NEW t \in Tokens, RegisterDevice(w, d, t) PROVE P
  <2>1. <<d, t>> \in presented' /\ UNCHANGED tok
    BY <1>5 DEF RegisterDevice, rows
  <2>2. PICK claimed : claimed = ClaimedBy(d, t)
    OBVIOUS
  <2>3. /\ claimed \in Job /\ claimed.drone = d /\ claimed.token = t
        /\ claimed.user = Issuer[t] /\ claimed.bound = None
    BY <2>2 DEF ClaimedBy, Job
  <2>4. CASE stage' = [stage EXCEPT ![w] = "claiming"] /\ RowAccepts(t, d)
             /\ job' = [job EXCEPT ![w] = [claimed EXCEPT !.bound = tok[t].bound]]
    <3>1. tok[t] # None /\ tok[t] \in TokenRow /\ tok[t].bound \in Drones \cup {None}
          /\ (tok[t].bound # None => <<tok[t].bound, t>> \in presented)
      BY <2>4 DEF RowAccepts, IsUsable, IInv, TypeOK, TokenRow, Provenance, TokensGood, GoodToken
    <3>2. PICK now : now = [claimed EXCEPT !.bound = tok[t].bound]
      OBVIOUS
    <3>3. /\ now \in Job /\ now.drone = d /\ now.token = t
          /\ now.user = Issuer[t] /\ now.bound = tok[t].bound
      BY <2>3, <3>1, <3>2 DEF Job
    <3>4. "claiming" \in Stages
      BY DEF Stages
    <3>5. stage' = [stage EXCEPT ![w] = "claiming"] /\ job' = [job EXCEPT ![w] = now]
      BY <2>4, <3>2
    <3>6. /\ now.drone # None /\ now.token # None
          /\ now.user = Issuer[now.token] /\ <<now.drone, now.token>> \in presented'
          /\ now.bound # None => <<now.bound, now.token>> \in presented'
          /\ tok'[now.token] # None
      BY <1>2, <2>1, <3>1, <3>3
    <3> QED
      BY <3>3, <3>4, <3>5, <3>6, OneJob
  <2>5. ASSUME NEW to \in {"claimed", "refused"}, stage' = [stage EXCEPT ![w] = to],
               job' = [job EXCEPT ![w] = claimed]
        PROVE  P
    <3>1. to \in Stages
      BY DEF Stages, AfterMirror
    <3> QED
      BY <2>1, <2>3, <2>5, <3>1, OneJob
  <2>6. \/ /\ stage' = [stage EXCEPT ![w] = "claiming"] /\ RowAccepts(t, d)
           /\ job' = [job EXCEPT ![w] = [claimed EXCEPT !.bound = tok[t].bound]]
        \/ \E to \in {"claimed", "refused"} :
             stage' = [stage EXCEPT ![w] = to] /\ job' = [job EXCEPT ![w] = claimed]
    BY <1>5, <2>2 DEF RegisterDevice, Request1, Go
  <2> QED
    BY <2>4, <2>5, <2>6
<1>6. ASSUME NEW w \in Workers, NEW u \in Users, NEW d \in Drones, ClaimOwnership(w, u, d) PROVE P
  <2>1. PICK now : now = [job[w] EXCEPT !.drone = d]
    OBVIOUS
  <2>2. now \in Job /\ now.drone = d
    BY <1>1, <2>1 DEF Job
  <2>3. stage' = [stage EXCEPT ![w] = "owned"] /\ job' = [job EXCEPT ![w] = now]
    BY <1>6, <2>1 DEF ClaimOwnership, Request1, Go
  <2>4. "owned" \in Stages /\ "owned" \notin OfToken
    BY DEF Stages, AfterMirror, OfToken
  <2> QED
    BY <2>2, <2>3, <2>4, OneJob
<1>7. ASSUME NEW w \in Workers, NEW to \in Stages, to # "claiming", UNCHANGED job,
             stage' = [stage EXCEPT ![w] = to],
             to \in OfToken => stage[w] \in OfToken,
             to \in {"owned", "deny"} => stage[w] \in {"owned", "deny"}
      PROVE  P
  <2>1. PICK now \in Job : now = job[w]
    BY <1>1
  <2>2. job' = [job EXCEPT ![w] = now]
    BY <1>1, <1>7, <2>1
  <2> QED
    BY <1>2, <1>7, <2>1, <2>2, OneJob DEF IInv, Provenance, JobsGood
<1>8. ASSUME NEW w \in Workers, ClaimIntegrationToken(w) PROVE P
  <2>1. "claimed" \in Stages /\ "claiming" \in OfToken
    BY DEF Stages, AfterMirror, OfToken
  <2> QED
    BY <1>7, <1>8, <2>1 DEF ClaimIntegrationToken, Go
<1>9. ASSUME NEW w \in Workers, PersistState(w) PROVE P
  <2>1. /\ stage[w] \in DOMAIN AfterMirror /\ UNCHANGED job
        /\ stage' = [stage EXCEPT ![w] = AfterMirror[stage[w]]]
    BY <1>9 DEF PersistState, Go
  <2>2. PICK to : to = AfterMirror[stage[w]]
    OBVIOUS
  <2>3. /\ to \in Stages /\ to # "claiming"
        /\ to \in OfToken => stage[w] \in OfToken
        /\ to \in {"owned", "deny"} => stage[w] \in {"owned", "deny"}
    BY <2>1, <2>2 DEF AfterMirror, Stages, OfToken
  <2> QED
    BY <1>7, <2>1, <2>2, <2>3
<1> QED
  BY <1>3, <1>4, <1>5, <1>6, <1>8, <1>9, JobSteps

-----------------------------------------------------------------------------
(* The theorems.                                                           *)

\* Nothing has happened yet.
LEMMA InitKeeps == Init => IInv
<1> SUFFICES ASSUME Init PROVE IInv
  OBVIOUS
<1>1. tok \in [Tokens -> {None, NewToken}] /\ NewToken \in TokenRow /\ NewToken.bound = None
  BY DEF Init, NewToken, TokenRow
<1>2. NoRequest \in Request /\ NoRequest.auth = None /\ NoRequest.hash = None
      /\ NoJob \in Job /\ "idle" \in Stages /\ "idle" \notin OfToken
  BY DEF NoRequest, Request, NoJob, Job, Stages, OfToken
<1>3. TypeOK
  <2>1. TokenTypes
    BY <1>1 DEF Init, TokenTypes
  <2>2. DroneTypes
    BY DEF Init, DroneTypes
  <2>3. RequestTypes /\ JobTypes
    BY <1>2 DEF Init, RequestTypes, JobTypes
  <2> QED
    BY <2>1, <2>2, <2>3 DEF Init, TypeOK, TokenTypes, DroneTypes, RequestTypes, JobTypes, Job
<1>4. DronesGood /\ HeldOnce
  BY DEF Init, DronesGood, HeldOnce, Held
<1>5. RequestsGood
  BY <1>2 DEF Init, RequestsGood, GoodRequest
<1>6. TokensGood
  BY <1>1 DEF Init, TokensGood, GoodToken
<1>7. JobsGood
  BY <1>2 DEF Init, JobsGood
<1> QED
  BY <1>3, <1>4, <1>5, <1>6, <1>7 DEF IInv, Provenance

\* The invariant is inductive.
LEMMA NextKeeps == IInv /\ [Next]_vars => IInv'
<1> SUFFICES ASSUME IInv, [Next]_vars PROVE IInv'
  OBVIOUS
<1>1. TokenTypes' /\ DroneTypes' /\ RequestTypes' /\ JobTypes'
  BY TokensKept, DronesKept, RequestsKept, JobsKept
<1>2. TypeOK'
  BY <1>1, HistorySteps DEF IInv, TypeOK, TokenTypes, DroneTypes, RequestTypes, JobTypes, Job
<1>3. Provenance'
  BY TokensKept, DronesKept, RequestsKept, JobsKept DEF Provenance
<1> QED
  BY <1>2, <1>3 DEF IInv

\* In every state of every behaviour the types hold and what rows, memories
\* and requests under way say of a Drone has the origin it should have.
THEOREM InductiveInvariant == Spec => []IInv
BY InitKeeps, NextKeeps, PTL DEF Spec

\* The state has its types.
THEOREM TypeCorrect == Spec => []TypeOK
<1>1. IInv => TypeOK
  BY DEF IInv
<1> QED
  BY <1>1, InductiveInvariant, PTL

\* A Drone in the table or in a worker's memory belongs to a user who accepted
\* or claimed it, or in whose swarm the super-admin put it.
THEOREM ConsentGiven == Spec => []OwnedByConsent
<1>1. IInv => OwnedByConsent
  BY DEF IInv, Provenance, DronesGood, GoodDevice, OwnedByConsent, TypeOK
<1> QED
  BY <1>1, InductiveInvariant, PTL

\* The token a Drone or a request is authorised by is one its user issued.
THEOREM OwnersToken == Spec => []AuthorizedByOwner
<1>1. IInv => AuthorizedByOwner
  BY DEF IInv, Provenance, DronesGood, RequestsGood, GoodDevice, GoodRequest, AuthorizedByOwner
<1> QED
  BY <1>1, InductiveInvariant, PTL

\* The credential a Drone is known by was presented by that Drone, or was
\* generated; a token is bound only to a Drone that presented it.
THEOREM OwnCredential == Spec => []KnownByItsOwnCredential
<1>1. IInv => KnownByItsOwnCredential
  BY DEF IInv, Provenance, DronesGood, TokensGood, GoodDevice, GoodToken, KnownByItsOwnCredential
<1> QED
  BY <1>1, InductiveInvariant, PTL

-----------------------------------------------------------------------------
(* A Drone registers again.                                                *)

\* Only the rest of register_device leads from a claimed token to the mirror.
LEMMA OnlyRegistering ==
  ASSUME TypeOK, [Next]_vars, NEW w \in Workers, stage[w] = "register", stage'[w] = "mirror"
  PROVE  RegisterClaimed(w)
<1> DEFINE Elsewhere == \E v \in Workers : \E from, to : from # "register" /\ Go(v, from, to)
<1>1. stage \in [Workers -> Stages]
  BY DEF TypeOK
<1>2. ~ Elsewhere
  BY <1>1 DEF Go
<1>3. ASSUME NEW v \in Workers, NEW to, Request1(v, to) PROVE FALSE
  BY <1>2, <1>3 DEF Request1
<1>4. ~ \E v \in Workers, t \in Tokens : CreateIntegrationToken(v, t) \/ RevokeIntegrationToken(v, t)
  BY <1>3 DEF CreateIntegrationToken, RevokeIntegrationToken
<1>5. ~ \E v \in Workers, u \in Users : ListIntegrationTokens(v, u)
  BY <1>3 DEF ListIntegrationTokens
<1>6. ~ \E v \in Workers, d \in Drones, t \in Tokens : RegisterDevice(v, d, t) \/ Heartbeat(v, d, t)
  BY <1>3 DEF RegisterDevice, Heartbeat
<1>7. ~ \E v \in Workers, d \in Drones, c \in Tokens \cup {Minted} : DisconnectDevice(v, d, c)
  BY <1>3 DEF DisconnectDevice
<1>8. ~ \E v \in Workers : ListDroneConnections(v) \/ AdminOverview(v)
  BY <1>3 DEF ListDroneConnections, AdminOverview
<1>9. ~ \E v \in Workers, u \in Users, d \in Drones :
          AcceptDroneConnection(v, u, d) \/ ClaimOwnership(v, u, d)
  BY <1>3 DEF AcceptDroneConnection, ClaimOwnership
<1>10. ~ \E v \in Workers, d \in Drones : DenyDroneConnection(v, d) \/ AssignDroneConnection(v, d)
  BY <1>3 DEF DenyDroneConnection, AssignDroneConnection
<1>11. ~ \E v \in Workers, d \in Drones :
           RotateDeviceToken(v, d) \/ DeleteDevice(v, d) \/ AdminDeleteDrone(v, d)
  BY <1>3 DEF RotateDeviceToken, DeleteDevice, AdminDeleteDrone
<1>12. ~ \E v \in Workers : ClaimIntegrationToken(v) \/ RecordUntrusted(v) \/ DenyClaimed(v)
  BY <1>2 DEF ClaimIntegrationToken, RecordUntrusted, DenyClaimed
<1>13. ~ \E v \in Workers : PersistState(v)
  BY <1>2 DEF PersistState, AfterMirror
<1>14. ~ \E v \in Workers : Recycle(v)
  BY <1>1 DEF Recycle
<1>15. ~ UNCHANGED vars
  BY DEF vars
<1>16. ASSUME NEW v \in Workers, RegisterClaimed(v) PROVE v = w
  BY <1>1, <1>16 DEF RegisterClaimed, Go
<1> QED
  BY <1>4, <1>5, <1>6, <1>7, <1>8, <1>9, <1>10, <1>11, <1>12, <1>13, <1>14, <1>15, <1>16 DEF Next

\* The approved Drone that registers again with a token of its owner can report
\* with it from the moment its row changes.
THEOREM RegisteredReports == Spec => RegisteredCanReport
<1> DEFINE Step == \A w \in Workers, d \in Drones, t \in Tokens :
                     /\ stage[w] = "register" /\ stage'[w] = "mirror"
                     /\ job[w].drone = d /\ job[w].token = t
                     /\ IsApproved(drone[d]) /\ drone[d].owner = job[w].user
                     /\ ~tok[t].revoked
                     => /\ IsApproved(drone'[d]) /\ drone'[d].hash = t /\ drone'[d].auth = t
                        /\ ~tok'[t].revoked
<1>1. TypeOK /\ [Next]_vars => [Step]_vars
  <2> SUFFICES ASSUME TypeOK, [Next]_vars, NEW w \in Workers, NEW d \in Drones, NEW t \in Tokens,
                      stage[w] = "register", stage'[w] = "mirror",
                      job[w].drone = d, job[w].token = t,
                      IsApproved(drone[d]), drone[d].owner = job[w].user, ~tok[t].revoked
               PROVE  /\ IsApproved(drone'[d]) /\ drone'[d].hash = t /\ drone'[d].auth = t
                      /\ ~tok'[t].revoked
    OBVIOUS
  <2>1. drone \in [Drones -> Device \cup {None}] /\ tok \in [Tokens -> TokenRow \cup {None}]
    BY DEF TypeOK
  <2>2. PICK dev : dev = drone[d]
    OBVIOUS
  <2>3. dev # None /\ dev.approved /\ dev \in Device /\ Known(w, d) = dev
    BY <2>1, <2>2 DEF IsApproved, Known
  <2>4. SetDeviceAuthorization(w, d, t)
    BY <2>2, <2>3, OnlyRegistering DEF RegisterClaimed, IsApproved
  <2>5. PICK now : now = WithCredential(dev, t)
    OBVIOUS
  <2>6. now \in Device /\ now.approved /\ now.hash = t /\ now.auth = t
    BY <2>3, <2>5 DEF WithCredential, Device
  <2>7. drone' = [drone EXCEPT ![d] = now]
    BY <2>2, <2>3, <2>4, <2>5 DEF SetDeviceAuthorization
  <2>8. IsApproved(now) /\ drone'[d] = now
    BY <2>1, <2>6, <2>7 DEF IsApproved
  <2>9. tok' = tok \/ \E k : k # t /\ tok' = Revoked(tok, k)
    BY <2>3, <2>4 DEF SetDeviceAuthorization, Supersedes, Revoke
  <2>10. tok'[t] = tok[t]
    BY <2>1, <2>9 DEF Revoked
  <2> QED
    BY <2>6, <2>8, <2>10
<1>2. Spec => []TypeOK
  BY TypeCorrect
<1>3. Spec => [][Step]_vars
  BY <1>1, <1>2, PTL DEF Spec
<1> QED
  BY <1>3 DEF RegisteredCanReport
=============================================================================
