---------------------------- MODULE SwarmAccess ----------------------------
(***************************************************************************)
(* Accounts, e-mail verification and password reset, swarms, their members *)
(* and invitations (db.py, postgres_store.py, access_policy.py, and the    *)
(* handlers of main.py under "Authentication" and "Swarms").               *)
(*                                                                         *)
(* Accounts and roles are read from PostgreSQL.  Invitations, links sent   *)
(* by e-mail and most membership changes live in the memory of the worker  *)
(* that served the request, and reach the rows when that worker mirrors    *)
(* all its memory, which adds and overwrites but never deletes.  A worker  *)
(* runs one request at a time; a request is one step up to its mirror, so  *)
(* that other workers' steps fall before the mirror and between the calls  *)
(* of one request.                                                         *)
(*                                                                         *)
(* A person is their e-mail address, and has one account at most.  Names,  *)
(* pictures, settings and the tokens of links are left out: a link is used *)
(* only by somebody who received it.  A deployment may take addresses on   *)
(* trust: by a flag, or from whoever speaks for an enabled provider.       *)
(***************************************************************************)
EXTENDS Integers, FiniteSets

CONSTANTS Workers,     \* Lambda instances
          Users,
          Founders,    \* users with an account and a swarm at the start
          FirstSwarm,  \* their swarms
          Admin,       \* whose address is SUPER_ADMIN_EMAIL, or None
          AutoVerify,  \* what OVERMIND_AUTO_VERIFY_REGISTRATION may be, from
                       \* deployment to deployment
          Providers,   \* a social provider is enabled
          None,
          MaxSwarms, MaxInvites, MaxDay, \* bounds on ids and on time
          MaxCalls,    \* bound on requests
          MaxFaults    \* bound on failed mirrors and recycled workers

AdminSwarm == 0  \* ADMIN_ALERT_SWARM_ID
Swarms == 0..MaxSwarms
Invites == 1..MaxInvites

ASSUME FoundersAssumption ==
  /\ Founders \subseteq Users /\ Cardinality(Founders) \in 0..MaxSwarms
  /\ FirstSwarm \in [Founders -> 1..Cardinality(Founders)]
  /\ \A u, v \in Founders : FirstSwarm[u] = FirstSwarm[v] => u = v
ASSUME DeploymentAssumption ==
  Admin \in Users \cup {None} /\ AutoVerify \subseteq BOOLEAN /\ Providers \in BOOLEAN
ASSUME BoundsAssumption == {MaxSwarms, MaxInvites, MaxDay, MaxCalls, MaxFaults} \subseteq Nat

VARIABLES
  user,       \* users: None or the row
  swarm,      \* swarms: None or the owner
  member,     \* swarm_memberships: None or the role
  invite,     \* swarm_invitations: None or the row
  muser, mswarm, mmember, minvite,  \* the same in the workers' memories
  verification, reset, \* db.email_verifications, db.password_resets: the
                       \* users with an unused link, worker by worker
  stage, job, \* what a worker does next, and for whom
  day,        \* time, for the expiry of invitations
  swarms, invites,     \* how many ids were generated
  proved,     \* history: who has shown that an address is theirs
  trusted,    \* history: whose address was taken on trust, and not proved since
  founded, invited,    \* history: who founded a swarm (the super-admin the
                       \* system swarm), and who was invited to one
  calls, faults

accounts == <<user, muser, verification, reset>>
groups == <<swarm, mswarm, member, mmember, swarms, founded>>
mail == <<invite, minvite, invites, invited>>
work == <<stage, job, calls>>
evidence == <<proved, trusted>>
vars == <<accounts, groups, mail, work, day, evidence, faults>>

-----------------------------------------------------------------------------
Account == [verified : BOOLEAN, password : {"first", "new"}]
Invitation == [swarm : Swarms, email : Users, accepted : BOOLEAN, until : 0..MaxDay]
Roles == {"overlord", "overseer"}
\* For whom a request goes on, and what lets a new account in.
Job == [user : Users, by : {"mail", "flag", "invitation"}]

ASSUME NoneAssumption == None \notin Users \cup Account \cup Invitation \cup Roles

Accounts == [Users -> Account \cup {None}]
Owners == [Swarms -> Users \cup {None}]
Memberships == [Swarms -> [Users -> Roles \cup {None}]]
Invitations == [Invites -> Invitation \cup {None}]

\* What follows the mirror that ends a call of the same request; the notice
\* about a member has a mirror of its own.
AfterMirror == [created |-> "welcome", alerted |-> "greet", invited |-> "autoaccept",
                noted |-> "mirror", mirror |-> "idle"]
Stages == {"idle", "welcome", "greet", "autoaccept"} \cup DOMAIN AfterMirror

TypeOfAccounts ==
  /\ user \in Accounts /\ muser \in [Workers -> Accounts]
  /\ verification \in [Workers -> SUBSET Users] /\ reset \in [Workers -> SUBSET Users]
  /\ proved \subseteq Users /\ trusted \subseteq Users

TypeOfGroups ==
  /\ swarm \in Owners /\ mswarm \in [Workers -> Owners]
  /\ member \in Memberships /\ mmember \in [Workers -> Memberships]
  /\ swarms \in 0..MaxSwarms /\ founded \subseteq Swarms \X Users

TypeOfMail ==
  /\ invite \in Invitations /\ minvite \in [Workers -> Invitations]
  /\ invites \in 0..MaxInvites /\ invited \subseteq Swarms \X Users
  /\ day \in 0..MaxDay

TypeOfWork ==
  /\ stage \in [Workers -> Stages] /\ job \in [Workers -> Job \cup {None}]
  /\ calls \in 0..MaxCalls /\ faults \in 0..MaxFaults

TypeOK == TypeOfAccounts /\ TypeOfGroups /\ TypeOfMail /\ TypeOfWork

\* create_user_record.
NewAccount(verified) == [verified |-> verified, password |-> "first"]

NoAccounts == [u \in Users |-> None]
NoSwarms == [s \in Swarms |-> None]
NoMembers == [s \in Swarms |-> [u \in Users |-> None]]
NoInvites == [i \in Invites |-> None]
FoundedFirst(s, u) == u \in Founders /\ FirstSwarm[u] = s

Init ==
  /\ user = [u \in Users |->
       IF u \in Founders THEN NewAccount(TRUE) ELSE None]
  /\ swarm = [s \in Swarms |->
       IF \E u \in Users : FoundedFirst(s, u) THEN CHOOSE u \in Users : FoundedFirst(s, u)
       ELSE None]
  /\ member = [s \in Swarms |->
       [u \in Users |-> IF FoundedFirst(s, u) THEN "overlord" ELSE None]]
  /\ invite = NoInvites
  /\ muser = [w \in Workers |-> NoAccounts]
  /\ mswarm = [w \in Workers |-> NoSwarms]
  /\ mmember = [w \in Workers |-> NoMembers]
  /\ minvite = [w \in Workers |-> NoInvites]
  /\ verification = [w \in Workers |-> {}] /\ reset = [w \in Workers |-> {}]
  /\ stage = [w \in Workers |-> "idle"] /\ job = [w \in Workers |-> None]
  /\ day = 0 /\ swarms = Cardinality(Founders) /\ invites = 0
  /\ proved = Founders /\ trusted = {}
  /\ founded = {<<FirstSwarm[u], u>> : u \in Founders} \cup
                 ({AdminSwarm} \X ({Admin} \cap Users))
  /\ invited = {}
  /\ calls = 0 /\ faults = 0

-----------------------------------------------------------------------------
\* A request; `next' is the mirror that follows it, or else "idle".
Call(w, next) ==
  /\ stage[w] = "idle" /\ stage' = [stage EXCEPT ![w] = next]
  /\ calls < MaxCalls /\ calls' = calls + 1
Resume(w, from, next) == stage[w] = from /\ stage' = [stage EXCEPT ![w] = next]
Fault == faults < MaxFaults /\ faults' = faults + 1

\* get_current_user.
IsActive(u) == user[u] # None /\ user[u].verified

\* get_user, get_user_by_email: the rows found are loaded into memory.
WithRow(us) == {u \in us : user'[u] # None}
Load(w, us) ==
  muser' = [muser EXCEPT ![w] =
              [u \in Users |-> IF u \in WithRow(us) THEN user'[u] ELSE @[u]]]

\* get_swarm_member: the row, or else memory.
Role(w, s, u) == IF member[s][u] # None THEN member[s][u] ELSE mmember[w][s][u]
MayManage(w, s, u) == IsActive(u) /\ Role(w, s, u) = "overlord"

IsOpen(i) == i # None /\ ~i.accepted /\ day <= i.until

\* Every open invitation, whoever it was sent to.
MineSentToAnybody(i, u) == IsOpen(i)

Mine(i, u) == IsOpen(i) /\ i.email = u

\* accept_invitations_for_email, on the rows (all) or on one memory.
Accepting(all, u) == [i \in Invites |-> IF Mine(all[i], u) THEN [all[i] EXCEPT !.accepted = TRUE]
                                        ELSE all[i]]
Joining(members, all, u) ==
  [s \in Swarms |-> IF \E i \in Invites : Mine(all[i], u) /\ all[i].swarm = s
                    THEN [members[s] EXCEPT ![u] = "overseer"] ELSE members[s]]

\* create_swarm, but for the membership.
AddSwarm(w, u) ==
  /\ swarms < MaxSwarms /\ swarms' = swarms + 1
  /\ mswarm' = [mswarm EXCEPT ![w][swarms'] = u]
  /\ founded' = founded \cup {<<swarms', u>>}

\* ensure_personal_swarm looks for a swarm of the user in memory alone.
NeedsSwarm(w, u) == \A s \in Swarms : mswarm[w][s] # u
EnsurePersonalSwarm(w, u) ==
  IF NeedsSwarm(w, u) THEN AddSwarm(w, u) ELSE UNCHANGED <<swarms, mswarm, founded>>

\* Its owner is not made a member.
WithoutMember(w, u) == mmember[w]

WithPersonalSwarm(w, u) ==
  IF NeedsSwarm(w, u) THEN [mmember[w] EXCEPT ![swarms + 1][u] = "overlord"] ELSE mmember[w]

\* What follows when an address is known to be the user's: a swarm of their
\* own, and the invitations in this worker's memory.
Settle(w, u) ==
  /\ EnsurePersonalSwarm(w, u)
  /\ mmember' = [mmember EXCEPT ![w] = Joining(WithPersonalSwarm(w, u), minvite[w], u)]
  /\ minvite' = [minvite EXCEPT ![w] = Accepting(minvite[w], u)]
  /\ UNCHANGED <<swarm, member, invite, invites, invited>>

-----------------------------------------------------------------------------
(* Accounts.                                                               *)

\* What a deployment goes by: a proof, or its trust.
Prove(u) == proved' = proved \cup {u} /\ trusted' = trusted \ {u}
Trust(u) == trusted' = trusted \cup ({u} \ proved) /\ UNCHANGED proved

\* create_user: the row at once, the rest in memory.
CreateUser(w, u, verified) ==
  /\ user' = [user EXCEPT ![u] = NewAccount(verified)]
  /\ Load(w, {u})
  /\ IF verified THEN Settle(w, u) ELSE UNCHANGED <<groups, mail>>

\* register, with an invitation that this worker remembers or without one.
Register(w, u) ==
  /\ user[u] = None /\ muser[w][u] = None
  /\ Call(w, "created")
  /\ \E by \in {"mail", "flag", "invitation"} :
       /\ job' = [job EXCEPT ![w] = [user |-> u, by |-> by]]
       /\ \/ /\ by = "mail" /\ FALSE \in AutoVerify
             /\ CreateUser(w, u, FALSE)
             /\ UNCHANGED evidence
          \/ /\ by = "flag" /\ TRUE \in AutoVerify
             /\ CreateUser(w, u, TRUE)
             /\ Trust(u)
          \/ /\ by = "invitation" /\ \E i \in Invites : Mine(minvite[w][i], u)
             /\ CreateUser(w, u, TRUE)
             /\ Prove(u)
  /\ UNCHANGED <<verification, reset, day, faults>>

\* ensure_admin_alert_swarm, in the rows, if they can be reached, and in
\* memory.
EnsureAdminAlertSwarm(w) ==
  /\ \/ /\ swarm' = [swarm EXCEPT ![AdminSwarm] = IF @ = None THEN Admin ELSE @]
        /\ member' = [member EXCEPT ![AdminSwarm][Admin] = "overlord"]
        /\ UNCHANGED faults
     \/ Fault /\ UNCHANGED <<swarm, member>>
  /\ mswarm' = [mswarm EXCEPT ![w][AdminSwarm] = IF @ = None THEN Admin ELSE @]
  /\ mmember' = [mmember EXCEPT ![w][AdminSwarm][Admin] = IF @ = None THEN "overlord" ELSE @]
  /\ UNCHANGED <<swarms, founded>>

\* _super_admin_ids, of others than u.
HearsOf(u) == Admin \notin {None, u} /\ user[Admin] # None

\* register after create_user and its mirror: the super-admin is told.
Welcome(w) ==
  LET u == job[w].user
  IN /\ Resume(w, "welcome", IF HearsOf(u) THEN "alerted" ELSE "greet")
     /\ IF HearsOf(u) THEN EnsureAdminAlertSwarm(w) ELSE UNCHANGED <<groups, faults>>
     /\ UNCHANGED user /\ Load(w, {u, Admin} \cap Users)
     /\ UNCHANGED <<verification, reset, mail, job, calls, day, evidence>>

\* create_and_send_verification.
SendVerification(w, u) == verification' = [verification EXCEPT ![w] = @ \cup {u}]

\* The end of register; the invitation has been accepted by then.
Greet(w) ==
  LET u == job[w].user
  IN /\ Resume(w, "greet", IF job[w].by = "flag" THEN "idle" ELSE "mirror")
     /\ job' = [job EXCEPT ![w] = None]
     /\ IF job[w].by = "mail" THEN SendVerification(w, u) ELSE UNCHANGED verification
     /\ UNCHANGED user /\ Load(w, IF job[w].by = "invitation" THEN {u} ELSE {})
     /\ UNCHANGED <<reset, groups, mail, calls, day, evidence, faults>>

\* register_drone tells the super-admin of a Drone of somebody else's.
RegisterDrone(w, u) ==
  /\ IsActive(u) /\ HearsOf(u)
  /\ Call(w, "mirror")
  /\ EnsureAdminAlertSwarm(w)
  /\ UNCHANGED user /\ Load(w, {u, Admin})
  /\ UNCHANGED <<verification, reset, mail, job, day, evidence>>

\* _authenticate_password_user, with the right password.
Authenticate(w, u) == IsActive(u) /\ UNCHANGED user /\ Load(w, {u})

Login(w, u) ==
  /\ Authenticate(w, u)
  /\ Call(w, "idle")
  /\ UNCHANGED <<verification, reset, groups, mail, job, day, evidence, faults>>

\* update_user_profile, update_user_fleet_settings and
\* update_user_notification_settings write fields that are left out here, and
\* load the row; with a mirror each, like requests of their own.
UpdateUser(w, u) == UNCHANGED user /\ Load(w, {u})

UpdateProfile(w, u) ==
  /\ IsActive(u)
  /\ Call(w, "mirror")
  /\ UpdateUser(w, u)
  /\ UNCHANGED <<verification, reset, groups, mail, job, day, evidence, faults>>

ResendVerification(w, u) ==
  /\ user[u] # None /\ ~user[u].verified
  /\ Call(w, "mirror")
  /\ SendVerification(w, u)
  /\ UNCHANGED user /\ Load(w, {u})
  /\ UNCHANGED <<reset, groups, mail, job, day, evidence, faults>>

\* set_user_verified: the row changes, the rest stays in memory.
SetVerified(w, u) ==
  /\ user' = [user EXCEPT ![u].verified = TRUE]
  /\ Load(w, {u})
  /\ Settle(w, u)

\* By a code or a link that this worker remembers, once.
UseVerification(w, u) ==
  /\ u \in verification[w]
  /\ verification' = [verification EXCEPT ![w] = @ \ {u}]
  /\ SetVerified(w, u)
  /\ Prove(u)
  /\ UNCHANGED <<reset, job, day, faults>>

\* The call behind the code is always mirrored, the one behind the link only
\* if it creates a swarm.
VerifyEmailCode(w, u) == Call(w, "mirror") /\ UseVerification(w, u)
VerifyEmailLink(w, u) ==
  /\ Call(w, IF NeedsSwarm(w, u) THEN "mirror" ELSE "idle")
  /\ UseVerification(w, u)

CreateReset(w, u) == reset' = [reset EXCEPT ![w] = @ \cup {u}]

ForgotPassword(w, u) ==
  /\ user[u] # None
  /\ Call(w, "mirror")
  /\ CreateReset(w, u)
  /\ UNCHANGED user /\ Load(w, {u})
  /\ UNCHANGED <<verification, groups, mail, job, day, evidence, faults>>

\* consume_password_reset changes the copy in memory; the mirror writes it.
ConsumeReset(w, u) ==
  /\ u \in reset[w]
  /\ reset' = [reset EXCEPT ![w] = @ \ {u}]
  /\ muser' = [muser EXCEPT ![w][u] = [user[u] EXCEPT !.password = "new"]]

ResetPassword(w, u) ==
  /\ Call(w, "mirror")
  /\ ConsumeReset(w, u)
  /\ UNCHANGED <<user, verification, groups, mail, job, day, evidence, faults>>

\* Any swarm of the user's, not the one they own.
Joined(u) == {s \in Swarms : member[s][u] # None}

\* Swarms the user owns; the oldest of them is the personal one.
Owned(u) == {s \in Swarms : swarm[s] = u}

\* complete_social_login: one transaction for account, personal swarm s and
\* invitations.
Verified(row) == IF row = None THEN NewAccount(TRUE) ELSE [row EXCEPT !.verified = TRUE]

CompleteSocialLogin(u, s) ==
  /\ user' = [user EXCEPT ![u] = Verified(@)]
  /\ swarm' = [swarm EXCEPT ![s] = IF @ = None THEN u ELSE @]
  /\ member' = Joining([member EXCEPT ![s][u] = "overlord"], invite, u)
  /\ invite' = Accepting(invite, u)

\* What memory takes over of it: not the invitations.
RecordRelationships(w, u, s) ==
  /\ mswarm' = [mswarm EXCEPT ![w][s] = swarm'[s]]
  /\ mmember' = [mmember EXCEPT ![w] = Joining([@ EXCEPT ![s][u] = "overlord"], invite, u)]

\* get_or_create_social_user, for the swarm s.
SocialUser(w, u, s) ==
  /\ CompleteSocialLogin(u, s)
  /\ Load(w, {u})
  /\ RecordRelationships(w, u, s)

\* The oldest swarm of the user, or a new one; how old the system swarm is,
\* its id does not tell.
IsPersonal(s, u) ==
  LET own == Owned(u)
  IN IF own = {} THEN s = swarms + 1
     ELSE s \in own /\ (s = AdminSwarm \/ \A t \in own \ {AdminSwarm} : s <= t)

\* social_auth_callback, on the word of the provider, or on trust: for the
\* first of several addresses, or by social_auth_dev.  No mirror follows.
SocialLogin(w, u) ==
  Providers /\ \E s \in Swarms :
    /\ IsPersonal(s, u)
    /\ Call(w, "idle")
    /\ SocialUser(w, u, s)
    /\ Prove(u) \/ Trust(u)
    /\ IF Owned(u) # {}
       THEN UNCHANGED <<swarms, founded>>
       ELSE swarms' = s /\ founded' = founded \cup {<<s, u>>}
    /\ UNCHANGED <<verification, reset, minvite, invites, invited, job, day, faults>>

-----------------------------------------------------------------------------
(* Swarms and invitations.                                                 *)

CreateSwarm(w, u) ==
  /\ IsActive(u)
  /\ Call(w, "mirror")
  /\ AddSwarm(w, u)
  /\ mmember' = [mmember EXCEPT ![w][swarms'][u] = "overlord"]
  /\ UNCHANGED user /\ Load(w, {u})
  /\ UNCHANGED <<verification, reset, swarm, member, mail, job, day, evidence, faults>>

\* update_swarm_name writes the row, and memory takes the row over.
TakeOver(w, s) ==
  mswarm' = [mswarm EXCEPT ![w][s] = IF swarm[s] # None THEN swarm[s] ELSE @]

RenameSwarm(w, u, s) ==
  /\ MayManage(w, s, u)
  /\ Call(w, "mirror")
  /\ TakeOver(w, s)
  /\ UNCHANGED user /\ Load(w, {u})
  /\ UNCHANGED <<verification, reset, swarm, member, mmember, swarms, founded, mail,
                 job, day, evidence, faults>>

InviteToSwarm(w, s, email) ==
  /\ invites < MaxInvites /\ invites' = invites + 1
  /\ minvite' = [minvite EXCEPT ![w][invites'] =
       [swarm |-> s, email |-> email, accepted |-> FALSE, until |-> day]]
  /\ invited' = invited \cup {<<s, email>>}

InviteSwarmMember(w, u, s, email) ==
  /\ MayManage(w, s, u)
  /\ Call(w, "invited")
  /\ InviteToSwarm(w, s, email)
  /\ job' = [job EXCEPT ![w] = [user |-> email, by |-> "invitation"]]
  /\ UNCHANGED user /\ Load(w, {u})
  /\ UNCHANGED <<verification, reset, groups, invite, day, evidence, faults>>

\* Its second half: an active user accepts at once, in memory, unmirrored.
AutoAccept(w) ==
  LET u == job[w].user
  IN /\ Resume(w, "autoaccept", "idle")
     /\ job' = [job EXCEPT ![w] = None]
     /\ UNCHANGED user /\ Load(w, {u})
     /\ IF IsActive(u)
        THEN /\ mmember' = [mmember EXCEPT ![w] = Joining(@, minvite[w], u)]
             /\ minvite' = [minvite EXCEPT ![w] = Accepting(@, u)]
        ELSE UNCHANGED <<mmember, minvite>>
     /\ UNCHANGED <<verification, reset, swarm, mswarm, member, swarms, founded,
                    invite, invites, invited, calls, day, evidence, faults>>

Renewed(i) == [i EXCEPT !.until = day]

\* A pending invitation that this worker remembers.
IsPending(w, i) == minvite[w][i] # None /\ ~minvite[w][i].accepted

ResendInvitation(w, u, i) ==
  /\ IsPending(w, i)
  /\ MayManage(w, minvite[w][i].swarm, u)
  /\ Call(w, "mirror")
  /\ minvite' = [minvite EXCEPT ![w][i] = Renewed(@)]
  /\ UNCHANGED user /\ Load(w, {u})
  /\ UNCHANGED <<verification, reset, groups, invite, invites, invited, job, day, evidence, faults>>

RemovePending(w, i) == minvite' = [minvite EXCEPT ![w][i] = None]

RemoveInvitation(w, u, i) ==
  /\ IsPending(w, i)
  /\ MayManage(w, minvite[w][i].swarm, u)
  /\ Call(w, "mirror")
  /\ RemovePending(w, i)
  /\ UNCHANGED user /\ Load(w, {u})
  /\ UNCHANGED <<verification, reset, groups, invite, invites, invited, job, day, evidence, faults>>

\* accept_invitation_for_user.
AcceptFor(w, i, u) ==
  /\ mmember' = [mmember EXCEPT ![w][minvite[w][i].swarm][u] = "overseer"]
  /\ minvite' = [minvite EXCEPT ![w][i].accepted = TRUE]

\* The addressee alone, through the link of the invitation.
AcceptInvitation(w, u, i) ==
  /\ IsActive(u)
  /\ Mine(minvite[w][i], u)
  /\ Call(w, "noted")
  /\ AcceptFor(w, i, u)
  /\ UNCHANGED user /\ Load(w, {u})
  /\ UNCHANGED <<verification, reset, swarm, mswarm, member, swarms, founded,
                 invite, invites, invited, job, day, evidence, faults>>

\* remove_swarm_member and update_swarm_member_role know the members, and the
\* owner, that this worker remembers.
Manageable(w, s, u) == mswarm[w][s] \notin {None, u} /\ mmember[w][s][u] # None

ChangeMember(w, u, s, target, role, next, loaded) ==
  /\ MayManage(w, s, u)
  /\ Call(w, IF Manageable(w, s, target) THEN next ELSE "mirror")
  /\ mmember' = IF Manageable(w, s, target) THEN [mmember EXCEPT ![w][s][target] = role]
                ELSE mmember
  /\ UNCHANGED user /\ Load(w, loaded)
  /\ UNCHANGED <<verification, reset, swarm, mswarm, member, swarms, founded, mail,
                 job, day, evidence, faults>>

RemoveSwarmMember(w, u, s, target) == ChangeMember(w, u, s, target, None, "noted", {u, target})
UpdateSwarmMember(w, u, s, target) ==
  ChangeMember(w, u, s, target, "overseer", "mirror", {u})

\* get_swarm_access and invitation_status look up the accounts behind the
\* members and invitations that this worker remembers.
Listed(w, s) ==
  {v \in Users : \/ mmember[w][s][v] # None
                \/ \E i \in Invites : /\ minvite[w][i] # None
                                      /\ minvite[w][i].swarm = s /\ minvite[w][i].email = v}

GetSwarmAccess(w, u, s) ==
  /\ IsActive(u) /\ Role(w, s, u) # None
  /\ Call(w, "idle")
  /\ UNCHANGED user /\ Load(w, {u} \cup Listed(w, s))
  /\ UNCHANGED <<verification, reset, groups, mail, job, day, evidence, faults>>

InvitationStatus(w, i) ==
  /\ minvite[w][i] # None
  /\ minvite[w][i].accepted \/ IsOpen(minvite[w][i])
  /\ Call(w, "idle")
  /\ UNCHANGED user /\ Load(w, {minvite[w][i].email})
  /\ UNCHANGED <<verification, reset, groups, mail, job, day, evidence, faults>>

-----------------------------------------------------------------------------
(* The super-admin.                                                        *)

\* refresh_admin_overview_state.
AdminOverview(w) ==
  /\ Call(w, "idle")
  /\ muser' = [muser EXCEPT ![w] = user]
  /\ mswarm' = [mswarm EXCEPT ![w] = swarm]
  /\ mmember' = [mmember EXCEPT ![w] = member]
  /\ UNCHANGED <<user, verification, reset, swarm, member, swarms, founded, mail,
                 job, day, evidence, faults>>

\* The members and invitations of memory without some swarms and without a user.
Forget(w, gone, who) ==
  /\ mswarm' = [mswarm EXCEPT ![w] = [s \in Swarms |-> IF s \in gone THEN None ELSE @[s]]]
  /\ mmember' = [mmember EXCEPT ![w] =
       [s \in Swarms |-> [u \in Users |-> IF s \in gone \/ u = who THEN None ELSE @[s][u]]]]
  /\ minvite' = [minvite EXCEPT ![w] = [i \in Invites |->
       IF @[i] # None /\ (@[i].swarm \in gone \/ @[i].email = who) THEN None ELSE @[i]]]

\* admin_delete_user forgets the account, its swarms and its invitations
\* (those it sent are for swarms it owns).
EraseUser(w, u) ==
  /\ muser' = [muser EXCEPT ![w][u] = None]
  /\ verification' = [verification EXCEPT ![w] = @ \ {u}]
  /\ reset' = [reset EXCEPT ![w] = @ \ {u}]
  /\ Forget(w, {s \in Swarms : mswarm[w][s] = u}, u)

AdminDeleteUser(w, u) ==
  /\ muser[w][u] # None
  /\ Call(w, "mirror")
  /\ EraseUser(w, u)
  /\ UNCHANGED <<user, swarm, member, swarms, founded, invite, invites, invited,
                 job, day, evidence, faults>>

-----------------------------------------------------------------------------
(* The mirror.                                                             *)

\* Foreign keys: a swarm's owner, a member's swarm and user and an
\* invitation's swarm have rows, or get them first.
HasSwarm(w, s) == swarm[s] # None \/ mswarm[w][s] # None
CanMirror(w) ==
  /\ \A s \in Swarms : (\E u \in Users : mmember[w][s][u] # None) => HasSwarm(w, s)
  /\ \A i \in Invites : minvite[w][i] # None => HasSwarm(w, minvite[w][i].swarm)

Over(mine, theirs) == [k \in DOMAIN mine |-> IF mine[k] = None THEN theirs[k] ELSE mine[k]]
MirroredMembers(w) == [s \in Swarms |-> Over(mmember[w][s], member[s])]

PersistState(w) ==
  /\ stage[w] \in DOMAIN AfterMirror
  /\ Resume(w, stage[w], AfterMirror[stage[w]])
  /\ \/ /\ CanMirror(w)
        /\ user' = Over(muser[w], user)
        /\ swarm' = Over(mswarm[w], swarm)
        /\ member' = MirroredMembers(w)
        /\ invite' = Over(minvite[w], invite)
        /\ UNCHANGED faults
     \/ /\ IF CanMirror(w) THEN Fault ELSE UNCHANGED faults
        /\ UNCHANGED <<user, swarm, member, invite>>
  /\ UNCHANGED <<muser, verification, reset, mswarm, mmember, swarms, founded,
                 minvite, invites, invited, job, calls, day, evidence>>

\* The instance is recycled, perhaps in the middle of a request.
Recycle(w) ==
  /\ Fault
  /\ muser' = [muser EXCEPT ![w] = NoAccounts]
  /\ mswarm' = [mswarm EXCEPT ![w] = NoSwarms]
  /\ mmember' = [mmember EXCEPT ![w] = NoMembers]
  /\ minvite' = [minvite EXCEPT ![w] = NoInvites]
  /\ verification' = [verification EXCEPT ![w] = {}]
  /\ reset' = [reset EXCEPT ![w] = {}]
  /\ stage' = [stage EXCEPT ![w] = "idle"] /\ job' = [job EXCEPT ![w] = None]
  /\ UNCHANGED <<user, swarm, member, swarms, founded, invite, invites, invited,
                 calls, day, evidence>>

NextDay ==
  /\ day < MaxDay /\ day' = day + 1
  /\ UNCHANGED <<accounts, groups, mail, work, evidence, faults>>

Next ==
  \/ \E w \in Workers :
       \/ \E u \in Users :
            \/ Register(w, u) \/ Login(w, u) \/ SocialLogin(w, u)
            \/ UpdateProfile(w, u) \/ ResendVerification(w, u)
            \/ VerifyEmailCode(w, u) \/ VerifyEmailLink(w, u)
            \/ ForgotPassword(w, u) \/ ResetPassword(w, u)
            \/ CreateSwarm(w, u) \/ RegisterDrone(w, u) \/ AdminDeleteUser(w, u)
            \/ \E s \in Swarms : RenameSwarm(w, u, s) \/ GetSwarmAccess(w, u, s)
            \/ \E s \in Swarms, target \in Users :
                 \/ InviteSwarmMember(w, u, s, target)
                 \/ RemoveSwarmMember(w, u, s, target) \/ UpdateSwarmMember(w, u, s, target)
            \/ \E i \in Invites :
                 \/ ResendInvitation(w, u, i) \/ RemoveInvitation(w, u, i)
                 \/ AcceptInvitation(w, u, i)
       \/ \E i \in Invites : InvitationStatus(w, i)
       \/ Welcome(w) \/ Greet(w) \/ AutoAccept(w) \/ AdminOverview(w)
       \/ PersistState(w) \/ Recycle(w)
  \/ NextDay

Spec == Init /\ [][Next]_vars

-----------------------------------------------------------------------------
\* Whom the deployment has reason to let in.
Admitted == proved \cup trusted

\* What earns a verified account, a role, an accepted invitation.
EarnedAccount(u, row) == row # None /\ row.verified => u \in Admitted
EarnedRole(s, u, role) ==
  role # None => <<s, u>> \in founded \/ (<<s, u>> \in invited /\ u \in Admitted)
EarnedAnswer(i) == i # None /\ i.accepted => i.email \in Admitted
OverlordFounded(s, u, role) == role = "overlord" => <<s, u>> \in founded

(* Access is earned, in the rows and in every worker's memory: an account  *)
(* counts as verified, and an invitation as accepted, only for somebody    *)
(* who proved the address theirs, or whom this deployment takes on trust,  *)
(* and a member who did not found the swarm was invited to it at that      *)
(* address.  No merge of stale memories opens a swarm to anybody else      *)
(* ("Invitations remain tied to the invited email address", README.md).    *)
AccessIsEarned ==
  /\ \A u \in Users :
       EarnedAccount(u, user[u]) /\ \A w \in Workers : EarnedAccount(u, muser[w][u])
  /\ \A s \in Swarms, u \in Users :
       /\ EarnedRole(s, u, member[s][u])
       /\ \A w \in Workers : EarnedRole(s, u, mmember[w][s][u])
  /\ \A i \in Invites :
       EarnedAnswer(invite[i]) /\ \A w \in Workers : EarnedAnswer(minvite[w][i])
  /\ trusted # {} => TRUE \in AutoVerify \/ Providers

(* Only the founder of a swarm is ever its overlord, and the super-admin   *)
(* alone that of the system swarm: accepting, inviting, changing roles,    *)
(* social login and the mirror, which all write roles, add read-only       *)
(* members alone (require_swarm_role guards all management).               *)
OnlyFoundersAreOverlords ==
  \A s \in Swarms, u \in Users :
    /\ OverlordFounded(s, u, member[s][u])
    /\ \A w \in Workers : OverlordFounded(s, u, mmember[w][s][u])

(* A swarm in the table always has its owner among its members: swarms and *)
(* memberships come from different calls and different memories, and a     *)
(* swarm without its owner could be managed by nobody.                     *)
OwnerIsMember ==
  \A s \in Swarms : swarm[s] # None => member[s][swarm[s]] # None

-----------------------------------------------------------------------------
(* What makes these inductive.                                             *)

\* An invitation stands for somebody having been invited.
InvitedOnRecord(i) == i # None => <<i.swarm, i.email>> \in invited

\* A swarm belongs to who founded it.
OwnerFounded(s, owner) == owner # None => <<s, owner>> \in founded

\* A worker that remembers a swarm remembers its owner's membership, unless
\* that is in the rows.
OwnerOnRecord(w, s) ==
  mswarm[w][s] # None =>
    mmember[w][s][mswarm[w][s]] # None \/ member[s][mswarm[w][s]] # None

\* Links were sent to accounts that are in the rows for good.
LinksKnown == \A w \in Workers : \A u \in verification[w] \cup reset[w] : user[u] # None

\* The two halves of a registration and of an invitation are for one user.
JobKnown ==
  \A w \in Workers :
    /\ stage[w] \in {"created", "welcome", "alerted", "greet"} =>
         job[w] \in Job /\ user[job[w].user] # None
    /\ stage[w] \in {"invited", "autoaccept"} => job[w] \in Job

\* The super-admin, and nobody else, counts as its founder.
SystemSwarm == \A u \in Users : <<AdminSwarm, u>> \in founded <=> u = Admin

Provenance ==
  /\ SystemSwarm
  /\ \A i \in Invites :
       InvitedOnRecord(invite[i]) /\ \A w \in Workers : InvitedOnRecord(minvite[w][i])
  /\ \A s \in Swarms :
       /\ OwnerFounded(s, swarm[s])
       /\ \A w \in Workers : OwnerFounded(s, mswarm[w][s]) /\ OwnerOnRecord(w, s)

IInv ==
  /\ TypeOK /\ AccessIsEarned /\ OnlyFoundersAreOverlords /\ OwnerIsMember
  /\ Provenance /\ LinksKnown /\ JobKnown
=============================================================================
