------------------------- MODULE SwarmAccess_proofs -------------------------
(***************************************************************************)
(* That access is earned, for any number of workers, users and swarms.     *)
(* IInv falls into what is said of accounts, of groups (swarms and roles), *)
(* of mail (invitations) and of work; most actions disturb one of them.    *)
(***************************************************************************)
EXTENDS SwarmAccess, TLAPS

USE NoneAssumption, BoundsAssumption
    DEF NoneAssumption, BoundsAssumption, Swarms, Invites, AdminSwarm, evidence

AccountsInv ==
  /\ TypeOfAccounts
  /\ \A u \in Users :
       EarnedAccount(u, user[u]) /\ \A w \in Workers : EarnedAccount(u, muser[w][u])
  /\ trusted # {} => TRUE \in AutoVerify \/ Providers
  /\ LinksKnown

GroupsInv ==
  /\ TypeOfGroups
  /\ \A s \in Swarms, u \in Users :
       /\ EarnedRole(s, u, member[s][u]) /\ OverlordFounded(s, u, member[s][u])
       /\ \A w \in Workers : /\ EarnedRole(s, u, mmember[w][s][u])
                             /\ OverlordFounded(s, u, mmember[w][s][u])
  /\ OwnerIsMember
  /\ \A s \in Swarms :
       /\ OwnerFounded(s, swarm[s])
       /\ \A w \in Workers : OwnerFounded(s, mswarm[w][s]) /\ OwnerOnRecord(w, s)
  /\ SystemSwarm

MailInv ==
  /\ TypeOfMail
  /\ \A i \in Invites :
       /\ EarnedAnswer(invite[i]) /\ InvitedOnRecord(invite[i])
       /\ \A w \in Workers : EarnedAnswer(minvite[w][i]) /\ InvitedOnRecord(minvite[w][i])

WorkInv == TypeOfWork /\ JobKnown

\* The invariant is its parts.
LEMMA Parts == IInv <=> AccountsInv /\ GroupsInv /\ MailInv /\ WorkInv
  BY DEF IInv, AccountsInv, GroupsInv, MailInv, WorkInv, TypeOK, AccessIsEarned,
         OnlyFoundersAreOverlords, Provenance

\* And so after a step.
LEMMA PartsNext == AccountsInv' /\ GroupsInv' /\ MailInv' /\ WorkInv' => IInv'
  BY DEF IInv, AccountsInv, GroupsInv, MailInv, WorkInv, TypeOK, AccessIsEarned,
         OnlyFoundersAreOverlords, Provenance

-----------------------------------------------------------------------------
(* What the helpers return.                                                *)

\* Joining adds read-only memberships of u, where u was invited.
LEMMA JoiningFacts ==
  ASSUME NEW members \in Memberships, NEW all \in Invitations, NEW u \in Users
  PROVE  /\ Joining(members, all, u) \in Memberships
         /\ \A s \in Swarms, v \in Users :
              \/ Joining(members, all, u)[s][v] = members[s][v]
              \/ /\ v = u /\ Joining(members, all, u)[s][v] = "overseer"
                 /\ \E i \in Invites : Mine(all[i], u) /\ all[i].swarm = s
<1>1. \A s \in Swarms : members[s] \in [Users -> Roles \cup {None}]
  BY DEF Memberships
<1>2. \A s \in Swarms : [members[s] EXCEPT ![u] = "overseer"] \in [Users -> Roles \cup {None}]
  BY <1>1 DEF Roles
<1>3. Joining(members, all, u) \in Memberships
  BY <1>1, <1>2 DEF Joining, Memberships
<1> QED
  BY <1>1, <1>3 DEF Joining

\* Accepting answers invitations of u, and changes nothing else of them.
LEMMA AcceptingFacts ==
  ASSUME NEW all \in Invitations, NEW u \in Users
  PROVE  /\ Accepting(all, u) \in Invitations
         /\ \A i \in Invites :
              \/ Accepting(all, u)[i] = all[i]
              \/ /\ all[i] # None /\ all[i].email = u
                 /\ Accepting(all, u)[i].swarm = all[i].swarm
                 /\ Accepting(all, u)[i].email = u
<1>1. \A i \in Invites : Mine(all[i], u) => all[i] \in Invitation /\ all[i] # None
  BY DEF Mine, IsOpen, Invitations
<1>2. \A i \in Invites : Mine(all[i], u) => [all[i] EXCEPT !.accepted = TRUE] \in Invitation
  BY <1>1 DEF Invitation
<1>3. Accepting(all, u) \in Invitations
  BY <1>1, <1>2 DEF Accepting, Invitations
<1>4. \A i \in Invites : Mine(all[i], u) =>
        /\ [all[i] EXCEPT !.accepted = TRUE].swarm = all[i].swarm
        /\ [all[i] EXCEPT !.accepted = TRUE].email = u
  BY <1>1 DEF Invitation, Mine
<1> QED
  BY <1>1, <1>3, <1>4 DEF Accepting, Mine

\* Load copies rows.
LEMMA LoadFacts ==
  ASSUME muser \in [Workers -> Accounts], user' \in Accounts,
         NEW w \in Workers, NEW us, Load(w, us)
  PROVE  /\ muser' \in [Workers -> Accounts]
         /\ \A x \in Workers, u \in Users :
              muser'[x][u] = muser[x][u] \/ muser'[x][u] = user'[u]
<1> DEFINE mine == [u \in Users |-> IF u \in WithRow(us) THEN user'[u] ELSE muser[w][u]]
<1>1. muser' = [muser EXCEPT ![w] = mine]
  BY DEF Load
<1>2. mine \in Accounts
  BY DEF Accounts
<1>3. \A u \in Users : mine[u] = muser[w][u] \/ mine[u] = user'[u]
  OBVIOUS
<1> HIDE DEF mine
<1> QED
  BY <1>1, <1>2, <1>3

\* Stages by name, and what the mirror makes of them.
LEMMA StageFacts ==
  /\ {"idle", "welcome", "greet", "alerted", "autoaccept", "created", "invited", "noted", "mirror"} \subseteq Stages
  /\ \A from \in DOMAIN AfterMirror : AfterMirror[from] \in Stages
  BY DEF Stages, AfterMirror

\* Proof and trust both let somebody in, and nobody out.
LEMMA AdmissionFacts ==
  ASSUME NEW u \in Users, Prove(u) \/ Trust(u), proved \subseteq Users, trusted \subseteq Users
  PROVE  /\ Admitted' = Admitted \cup {u} /\ Admitted' \subseteq Users
         /\ Admitted \subseteq Admitted' /\ u \in Admitted'
         /\ trusted' # {} => trusted # {} \/ Trust(u)
  BY DEF Admitted, Prove, Trust

\* A job is for a user.
LEMMA JobFacts == \A j \in Job : j.user \in Users
  BY DEF Job

-----------------------------------------------------------------------------
(* Steps that keep a part.                                                 *)

\* Rows change for the admitted, and memory loads them.
LEMMA AccountsLoaded ==
  ASSUME AccountsInv, NEW w \in Workers, NEW us, Load(w, us),
         Admitted \subseteq Admitted', Admitted' \subseteq Users, user' \in Accounts,
         trusted' # {} => TRUE \in AutoVerify \/ Providers,
         \A u \in Users : user'[u] = user[u] \/ EarnedAccount(u, user[u])',
         verification' \in [Workers -> SUBSET Users], reset' \in [Workers -> SUBSET Users],
         LinksKnown'
  PROVE  AccountsInv'
<1>1. /\ muser' \in [Workers -> Accounts]
      /\ \A x \in Workers, u \in Users :
           muser'[x][u] = muser[x][u] \/ muser'[x][u] = user'[u]
  BY LoadFacts DEF AccountsInv, TypeOfAccounts
<1> QED
  BY <1>1 DEF Admitted, AccountsInv, TypeOfAccounts, EarnedAccount

\* A swarm is founded under a number of its own.
FoundedStep ==
  \/ founded' = founded
  \/ \E s \in 1..MaxSwarms, u \in Users : founded' = founded \cup {<<s, u>>}
LEMMA SystemSwarmKept ==
  ASSUME GroupsInv, FoundedStep
  PROVE  SystemSwarm' /\ founded \subseteq founded'
  BY DEF GroupsInv, SystemSwarm, FoundedStep

\* Nothing about groups changes, whoever is invited or proves an address.
LEMMA GroupsKept ==
  ASSUME GroupsInv, UNCHANGED <<swarm, mswarm, member, mmember, swarms, founded>>,
         Admitted \subseteq Admitted', invited \subseteq invited'
  PROVE  GroupsInv'
  BY SystemSwarmKept DEF FoundedStep, GroupsInv, TypeOfGroups, EarnedRole, OverlordFounded, OwnerIsMember,
                         OwnerFounded, OwnerOnRecord

\* Nothing about mail changes, whoever proves an address.
LEMMA MailKept ==
  ASSUME MailInv, UNCHANGED <<invite, minvite, invites, invited>>,
         Admitted \subseteq Admitted', day' \in 0..MaxDay
  PROVE  MailInv'
  BY DEF MailInv, TypeOfMail, EarnedAnswer, InvitedOnRecord

\* No account leaves the rows.
Grows == \A u \in Users : user[u] # None => user'[u] # None

\* A request in one piece, up to its mirror.
LEMMA WorkCall ==
  ASSUME WorkInv, Grows, NEW w \in Workers, NEW next \in {"idle", "noted", "mirror"},
         Call(w, next), UNCHANGED <<job, faults>>
  PROVE  WorkInv'
<1>1. calls' \in 0..MaxCalls
  BY DEF WorkInv, TypeOfWork, Call
<1>2. stage' = [stage EXCEPT ![w] = next] /\ next \in Stages
  BY StageFacts DEF Call
<1>3. TypeOfWork'
  BY <1>1, <1>2 DEF WorkInv, TypeOfWork
<1>4. JobKnown'
  BY <1>2, JobFacts DEF WorkInv, TypeOfWork, JobKnown, Grows
<1> QED
  BY <1>3, <1>4 DEF WorkInv

\* The first half of a request in two.
LEMMA WorkBegins ==
  ASSUME WorkInv, Grows, NEW w \in Workers, NEW u \in Users,
         NEW next \in {"created", "invited"}, Call(w, next),
         \E by \in {"mail", "flag", "invitation"} :
           job' = [job EXCEPT ![w] = [user |-> u, by |-> by]],
         faults' = faults,
         next = "created" => user'[u] # None
  PROVE  WorkInv'
<1>1. calls' \in 0..MaxCalls
  BY DEF WorkInv, TypeOfWork, Call
<1>2. stage' = [stage EXCEPT ![w] = next] /\ next \in Stages
  BY StageFacts DEF Call
<1> PICK row \in Job : row.user = u /\ job' = [job EXCEPT ![w] = row]
  BY DEF Job
<1>3. TypeOfWork'
  BY <1>1, <1>2 DEF WorkInv, TypeOfWork
<1>4. JobKnown'
  BY <1>2, JobFacts DEF WorkInv, TypeOfWork, JobKnown, Grows
<1> QED
  BY <1>3, <1>4 DEF WorkInv

\* The second half.
LEMMA WorkEnds ==
  ASSUME WorkInv, Grows, NEW w \in Workers, NEW from, NEW next \in {"idle", "mirror"},
         Resume(w, from, next), job' = [job EXCEPT ![w] = None], UNCHANGED <<calls, faults>>
  PROVE  WorkInv'
<1>1. stage' = [stage EXCEPT ![w] = next] /\ next \in Stages
  BY StageFacts DEF Resume
<1>2. TypeOfWork'
  BY <1>1 DEF WorkInv, TypeOfWork
<1>3. JobKnown'
  BY <1>1, JobFacts DEF WorkInv, TypeOfWork, JobKnown, Grows
<1> QED
  BY <1>2, <1>3 DEF WorkInv

\* Roles differ.
LEMMA RoleFacts == "overseer" # "overlord" /\ "overseer" # None /\ "overlord" # None
  BY DEF Roles

\* A role that its member may hold.
Granted(s, u, role) == EarnedRole(s, u, role) /\ OverlordFounded(s, u, role)

\* Roles and owners stay or are granted, and no swarm loses its owner.
LEMMA GroupsStep ==
  ASSUME GroupsInv, TypeOfGroups',
         Admitted \subseteq Admitted', invited \subseteq invited', FoundedStep,
         \A s \in Swarms, u \in Users :
           member'[s][u] = member[s][u] \/ Granted(s, u, member[s][u])',
         \A w \in Workers, s \in Swarms, u \in Users :
           mmember'[w][s][u] = mmember[w][s][u] \/ Granted(s, u, mmember[w][s][u])',
         \A s \in Swarms : swarm'[s] = swarm[s] \/ OwnerFounded(s, swarm[s])',
         \A w \in Workers, s \in Swarms :
           mswarm'[w][s] = mswarm[w][s] \/ OwnerFounded(s, mswarm[w][s])',
         OwnerIsMember', \A w \in Workers, s \in Swarms : OwnerOnRecord(w, s)'
  PROVE  GroupsInv'
<1>0. SystemSwarm' /\ founded \subseteq founded'
  BY SystemSwarmKept
<1>1. ASSUME NEW s \in Swarms, NEW u \in Users
      PROVE  Granted(s, u, member[s][u])' /\ \A w \in Workers : Granted(s, u, mmember[w][s][u])'
  BY <1>0 DEF GroupsInv, Granted, EarnedRole, OverlordFounded
<1>2. ASSUME NEW s \in Swarms
      PROVE  /\ OwnerFounded(s, swarm[s])'
             /\ \A w \in Workers : OwnerFounded(s, mswarm[w][s])'
  BY <1>0 DEF GroupsInv, OwnerFounded
<1> QED
  BY <1>0, <1>1, <1>2 DEF GroupsInv, Granted

\* Of the memberships only some of the invited have come up.
JoinsOnly(new, old) ==
  /\ new \in Memberships
  /\ \A s \in Swarms, u \in Users :
       \/ new[s][u] = old[s][u]
       \/ new[s][u] = "overseer" /\ <<s, u>> \in invited /\ u \in Admitted

\* In one worker's memory, memberships only come up, granted ones.
LEMMA MembersJoin ==
  ASSUME GroupsInv, NEW w \in Workers, NEW joined, JoinsOnly(joined, mmember[w]),
         mmember' = [mmember EXCEPT ![w] = joined],
         UNCHANGED <<swarm, mswarm, member, swarms, founded>>,
         Admitted \subseteq Admitted', invited \subseteq invited'
  PROVE  GroupsInv'
<1>a. /\ joined \in Memberships
      /\ \A s \in Swarms, u \in Users :
           \/ joined[s][u] = mmember[w][s][u]
           \/ joined[s][u] = "overseer" /\ <<s, u>> \in invited /\ u \in Admitted
  BY DEF JoinsOnly
<1>1. TypeOfGroups'
  BY <1>a DEF GroupsInv, TypeOfGroups
<1>2. \A x \in Workers : mmember'[x] = IF x = w THEN joined ELSE mmember[x]
  BY DEF GroupsInv, TypeOfGroups
<1>3. \A x \in Workers, s \in Swarms, u \in Users :
        \/ mmember'[x][s][u] = mmember[x][s][u]
        \/ /\ mmember'[x][s][u] # None
           /\ Granted(s, u, mmember[x][s][u])'
  <2> TAKE x \in Workers, s \in Swarms, u \in Users
  <2>1. CASE mmember'[x][s][u] = mmember[x][s][u]
    BY <2>1
  <2>2. CASE mmember'[x][s][u] = "overseer" /\ <<s, u>> \in invited /\ u \in Admitted
    BY <2>2, RoleFacts DEF Granted, EarnedRole, OverlordFounded
  <2> QED
    BY <1>a, <1>2, <2>1, <2>2
<1>4. \A x \in Workers, s \in Swarms : OwnerOnRecord(x, s)'
  BY <1>3 DEF GroupsInv, TypeOfGroups, OwnerOnRecord, Owners
<1>5. OwnerIsMember'
  BY DEF GroupsInv, OwnerIsMember
<1> QED
  BY <1>1, <1>3, <1>4, <1>5, GroupsStep DEF FoundedStep

\* One worker's invitations stay, go, or are on record and answered by the
\* admitted alone.
LEMMA MailStep ==
  ASSUME MailInv, NEW w \in Workers, NEW all \in Invitations,
         minvite' = [minvite EXCEPT ![w] = all], invite' = invite,
         invites' \in 0..MaxInvites, invited \subseteq invited',
         invited' \subseteq Swarms \X Users, Admitted \subseteq Admitted', day' \in 0..MaxDay,
         \A i \in Invites :
           \/ all[i] = minvite[w][i] \/ all[i] = None
           \/ /\ all[i].accepted => all[i].email \in Admitted'
              /\ <<all[i].swarm, all[i].email>> \in invited'
  PROVE  MailInv'
<1>1. minvite \in [Workers -> Invitations]
  BY DEF MailInv, TypeOfMail
<1>2. \A x \in Workers : minvite'[x] = IF x = w THEN all ELSE minvite[x]
  BY <1>1
<1>3. \A i \in Invites : all[i] # None =>
        (all[i].accepted => all[i].email \in Admitted') /\ <<all[i].swarm, all[i].email>> \in invited'
  BY DEF MailInv, EarnedAnswer, InvitedOnRecord
<1>4. TypeOfMail'
  BY <1>1 DEF MailInv, TypeOfMail
<1> QED
  BY <1>2, <1>3, <1>4 DEF MailInv, EarnedAnswer, InvitedOnRecord

\* One worker accepts the invitations of somebody who was admitted.
LEMMA AcceptMail ==
  ASSUME MailInv, NEW w \in Workers, NEW u \in Users,
         minvite' = [minvite EXCEPT ![w] = Accepting(minvite[w], u)],
         UNCHANGED <<invite, invites, invited, day>>,
         Admitted \subseteq Admitted', u \in Admitted'
  PROVE  MailInv'
<1> DEFINE A == Accepting(minvite[w], u)
<1>1. minvite \in [Workers -> Invitations]
  BY DEF MailInv, TypeOfMail
<1>2. /\ A \in Invitations
      /\ \A i \in Invites :
           \/ A[i] = minvite[w][i]
           \/ /\ minvite[w][i] # None /\ minvite[w][i].email = u
              /\ A[i].swarm = minvite[w][i].swarm /\ A[i].email = u
  BY <1>1, AcceptingFacts
<1>3. minvite' = [minvite EXCEPT ![w] = A]
  OBVIOUS
<1> HIDE DEF A
<1>4. \A i \in Invites :
        A[i] = minvite[w][i] \/ (A[i].email = u /\ <<A[i].swarm, u>> \in invited)
  <2> TAKE i \in Invites
  <2>1. minvite[w][i] # None => <<minvite[w][i].swarm, minvite[w][i].email>> \in invited
    BY DEF MailInv, InvitedOnRecord
  <2> QED
    BY <1>2, <2>1
<1>5. \A i \in Invites :
        \/ A[i] = minvite[w][i]
        \/ /\ A[i].accepted => A[i].email \in Admitted'
           /\ <<A[i].swarm, A[i].email>> \in invited'
  BY <1>4
<1>6. /\ invites' \in 0..MaxInvites /\ day' \in 0..MaxDay
      /\ invited \subseteq invited' /\ invited' \subseteq Swarms \X Users
  BY DEF MailInv, TypeOfMail
<1>7. A \in Invitations
  BY <1>2
<1> QED
  BY <1>3, <1>5, <1>6, <1>7, MailStep

\* A swarm of the user's own, and what they were invited to.
LEMMA SettleKeeps ==
  ASSUME GroupsInv, MailInv, NEW w \in Workers, NEW u \in Users, Settle(w, u),
         Admitted \subseteq Admitted', u \in Admitted', day' = day
  PROVE  GroupsInv' /\ MailInv'
<1> DEFINE P == WithPersonalSwarm(w, u)
<1> DEFINE J == Joining(P, minvite[w], u)
<1>a. /\ minvite[w] \in Invitations /\ minvite \in [Workers -> Invitations]
      /\ mmember[w] \in Memberships /\ mmember \in [Workers -> Memberships]
      /\ mswarm[w] \in Owners /\ mswarm \in [Workers -> Owners]
      /\ swarms \in 0..MaxSwarms
  BY DEF MailInv, TypeOfMail, GroupsInv, TypeOfGroups
<1>b. UNCHANGED <<swarm, member, invite, invites, invited>>
  BY DEF Settle
<1>1. /\ swarms' \in 0..MaxSwarms /\ founded \subseteq founded' /\ FoundedStep
      /\ founded' \subseteq Swarms \X Users
      /\ mswarm' \in [Workers -> Owners] /\ P \in Memberships
      /\ \A x \in Workers, s \in Swarms :
           \/ mswarm'[x][s] = mswarm[x][s]
           \/ x = w /\ mswarm'[x][s] = u /\ <<s, u>> \in founded' /\ P[s][u] # None
      /\ \A s \in Swarms, v \in Users :
           \/ P[s][v] = mmember[w][s][v]
           \/ P[s][v] = "overlord" /\ <<s, v>> \in founded'
  <2>1. CASE NeedsSwarm(w, u)
    <3>1. /\ swarms + 1 \in 1..MaxSwarms /\ swarms' = swarms + 1
          /\ mswarm' = [mswarm EXCEPT ![w][swarms + 1] = u]
          /\ founded' = founded \cup {<<swarms + 1, u>>}
      BY <2>1, <1>a DEF Settle, EnsurePersonalSwarm, AddSwarm
    <3>2. P = [mmember[w] EXCEPT ![swarms + 1][u] = "overlord"]
      BY <2>1 DEF WithPersonalSwarm
    <3>3. /\ P \in Memberships
          /\ \A s \in Swarms, v \in Users :
               P[s][v] = IF s = swarms + 1 /\ v = u THEN "overlord" ELSE mmember[w][s][v]
      BY <1>a, <3>1, <3>2 DEF Memberships, Roles
    <3>4. /\ mswarm' \in [Workers -> Owners]
          /\ \A x \in Workers, s \in Swarms :
               mswarm'[x][s] = IF x = w /\ s = swarms + 1 THEN u ELSE mswarm[x][s]
      BY <1>a, <3>1 DEF Owners
    <3>5. founded \subseteq founded' /\ founded' \subseteq Swarms \X Users /\ FoundedStep
      BY <3>1 DEF GroupsInv, TypeOfGroups, FoundedStep
    <3>6. P[swarms + 1][u] # None /\ <<swarms + 1, u>> \in founded'
      BY <3>1, <3>3 DEF Roles
    <3> HIDE DEF P
    <3>7. swarms' \in 0..MaxSwarms
      BY <3>1, <1>a
    <3>8. \A x \in Workers, s \in Swarms :
           \/ mswarm'[x][s] = mswarm[x][s]
           \/ x = w /\ mswarm'[x][s] = u /\ <<s, u>> \in founded' /\ P[s][u] # None
      BY <3>4, <3>6
    <3>9. \A s \in Swarms, v \in Users :
           \/ P[s][v] = mmember[w][s][v]
           \/ P[s][v] = "overlord" /\ <<s, v>> \in founded'
      BY <3>3, <3>6
    <3> QED
      BY <3>3, <3>4, <3>5, <3>7, <3>8, <3>9
  <2>2. CASE ~NeedsSwarm(w, u)
    <3>1. P = mmember[w] /\ UNCHANGED <<swarms, mswarm, founded>>
      BY <2>2 DEF WithPersonalSwarm, Settle, EnsurePersonalSwarm
    <3> HIDE DEF P
    <3> QED
      BY <3>1, <1>a DEF GroupsInv, TypeOfGroups, FoundedStep
  <2> HIDE DEF P
  <2> QED
    BY <2>1, <2>2
<1> HIDE DEF P
<1>2. J \in Memberships
  BY <1>1, <1>a, JoiningFacts
<1>3. \A s \in Swarms, v \in Users :
        \/ J[s][v] = P[s][v]
        \/ /\ v = u /\ J[s][v] = "overseer"
           /\ \E i \in Invites : Mine(minvite[w][i], u) /\ minvite[w][i].swarm = s
  BY <1>1, <1>a, JoiningFacts
<1>4. \A s \in Swarms, v \in Users :
        \/ J[s][v] = P[s][v]
        \/ J[s][v] = "overseer" /\ <<s, v>> \in invited /\ v \in Admitted'
  <2>1. ASSUME NEW i \in Invites, Mine(minvite[w][i], u)
        PROVE  <<minvite[w][i].swarm, u>> \in invited
    BY <2>1 DEF MailInv, InvitedOnRecord, Mine, IsOpen
  <2> QED
    BY <2>1, <1>3
<1>5. mmember' = [mmember EXCEPT ![w] = J]
  BY DEF P, Settle
<1> HIDE DEF J
<1>6. TypeOfGroups'
  BY <1>a, <1>b, <1>1, <1>2, <1>5 DEF GroupsInv, TypeOfGroups
<1>7. \A x \in Workers : mmember'[x] = IF x = w THEN J ELSE mmember[x]
  BY <1>a, <1>5
<1>8. \A x \in Workers, s \in Swarms, v \in Users :
        \/ mmember'[x][s][v] = mmember[x][s][v]
        \/ mmember'[x][s][v] # None /\ Granted(s, v, mmember[x][s][v])'
  <2> TAKE x \in Workers, s \in Swarms, v \in Users
  <2>1. CASE x # w
    BY <2>1, <1>7
  <2>2. CASE x = w
    BY <2>2, <1>b, <1>1, <1>4, <1>7, RoleFacts DEF Granted, EarnedRole, OverlordFounded
  <2> QED
    BY <2>1, <2>2
<1>9. \A x \in Workers, s \in Swarms : OwnerOnRecord(x, s)'
  <2> TAKE x \in Workers, s \in Swarms
  <2>1. CASE mswarm'[x][s] = mswarm[x][s]
    BY <2>1, <1>a, <1>b, <1>8 DEF GroupsInv, TypeOfGroups, OwnerOnRecord, Owners
  <2>2. CASE x = w /\ mswarm'[x][s] = u /\ P[s][u] # None
    BY <2>2, <1>4, <1>7 DEF OwnerOnRecord, Roles
  <2> QED
    BY <2>1, <2>2, <1>1
<1>10. OwnerIsMember'
  BY <1>b DEF GroupsInv, OwnerIsMember
<1>11. GroupsInv'
  <2>1. \A x \in Workers, s \in Swarms :
          mswarm'[x][s] = mswarm[x][s] \/ OwnerFounded(s, mswarm[x][s])'
    BY <1>1 DEF OwnerFounded
  <2> QED
    BY <2>1, <1>b, <1>1, <1>6, <1>8, <1>9, <1>10, GroupsStep
<1>12. MailInv'
  <2> DEFINE A == Accepting(minvite[w], u)
  <2>1. minvite' = [minvite EXCEPT ![w] = A]
    BY DEF Settle
  <2> QED
    BY <2>1, <1>b, AcceptMail
<1> QED
  BY <1>11, <1>12

-----------------------------------------------------------------------------
(* One lemma for each action, or for actions alike.                        *)

\* At the start there are the founders and their swarms alone.
LEMMA InitKeeps == Init => IInv
<1> SUFFICES ASSUME Init PROVE IInv
  OBVIOUS
<1> USE FoundersAssumption DEF FoundersAssumption
<1>1. /\ NoAccounts \in Accounts /\ NoSwarms \in Owners
      /\ NoMembers \in Memberships /\ NoInvites \in Invitations
  BY DEF NoAccounts, NoSwarms, NoMembers, NoInvites, Accounts, Owners, Memberships, Invitations
<1>2. \A s \in Swarms : (\E u \in Users : FoundedFirst(s, u)) =>
        /\ (CHOOSE u \in Users : FoundedFirst(s, u)) \in Users
        /\ FoundedFirst(s, CHOOSE u \in Users : FoundedFirst(s, u))
  OBVIOUS
<1>3. \A s \in Swarms : /\ swarm[s] \in Users \cup {None}
                        /\ swarm[s] # None => FoundedFirst(s, swarm[s])
  BY <1>2 DEF Init
<1>4. \A s \in Swarms, u \in Users : FoundedFirst(s, u) => <<s, u>> \in founded
  BY DEF Init, FoundedFirst
<1>5. AccountsInv
  <2>1. user \in Accounts
    BY DEF Init, NewAccount, Accounts, Account
  <2>2. \A u \in Users : EarnedAccount(u, user[u])
    BY DEF Admitted, Init, EarnedAccount
  <2>3. \A w \in Workers, u \in Users : muser[w][u] = None
    BY DEF Init, NoAccounts
  <2> QED
    BY <1>1, <2>1, <2>2, <2>3 DEF Init, AccountsInv, TypeOfAccounts, EarnedAccount, LinksKnown
<1>6. GroupsInv
  <2>1. TypeOfGroups
    <3>1. swarm \in Owners
      BY <1>3 DEF Init, Owners
    <3>2. member \in Memberships
      BY DEF Init, Memberships, Roles
    <3>3. founded \subseteq Swarms \X Users
      BY DEF Init
    <3> QED
      BY <1>1, <3>1, <3>2, <3>3 DEF Init, TypeOfGroups
  <2>2. \A s \in Swarms, u \in Users :
          member[s][u] = IF FoundedFirst(s, u) THEN "overlord" ELSE None
    BY DEF Init
  <2>3. \A w \in Workers, s \in Swarms, u \in Users :
          mmember[w][s][u] = None /\ mswarm[w][s] = None
    BY DEF Init, NoMembers, NoSwarms
  <2>4. \A s \in Swarms, u \in Users : Granted(s, u, member[s][u])
    <3> TAKE s \in Swarms, u \in Users
    <3>1. member[s][u] = None \/ <<s, u>> \in founded
      BY <1>4, <2>2
    <3> QED
      BY <3>1, RoleFacts DEF Granted, EarnedRole, OverlordFounded
  <2>5. OwnerIsMember
    BY <1>3, <2>2, RoleFacts DEF OwnerIsMember
  <2>6. \A w \in Workers, s \in Swarms : mswarm[w][s] = None
    BY DEF Init, NoSwarms
  <2>7. \A s \in Swarms : OwnerFounded(s, swarm[s])
    BY <1>3, <1>4 DEF OwnerFounded
  <2>8. \A w \in Workers, s \in Swarms, u \in Users : mmember[w][s][u] = None
    BY DEF Init, NoMembers
  <2>9. \A s \in Swarms, u \in Users : \A w \in Workers : Granted(s, u, mmember[w][s][u])
    BY <2>8, RoleFacts DEF Granted, EarnedRole, OverlordFounded
  <2>10. SystemSwarm
    BY DeploymentAssumption DEF Init, SystemSwarm, DeploymentAssumption
  <2> QED
    BY <2>1, <2>4, <2>5, <2>6, <2>7, <2>9, <2>10
    DEF GroupsInv, Granted, OwnerFounded, OwnerOnRecord
<1>7. MailInv
  <2>1. \A i \in Invites : invite[i] = None /\ \A w \in Workers : minvite[w][i] = None
    BY DEF Init, NoInvites
  <2>2. TypeOfMail
    BY <1>1 DEF Init, TypeOfMail
  <2> QED
    BY <2>1, <2>2 DEF MailInv, EarnedAnswer, InvitedOnRecord
<1>8. WorkInv
  BY StageFacts DEF Init, WorkInv, TypeOfWork, JobKnown
<1> QED
  BY <1>5, <1>6, <1>7, <1>8, Parts

\* Requests that load rows and send links at most.
LEMMA QuietKeeps ==
  ASSUME IInv, NEW w \in Workers, NEW us, NEW next \in {"idle", "mirror"},
         Call(w, next), Load(w, us),
         UNCHANGED <<user, groups, mail, job, day, proved, trusted, Admitted, faults>>,
         verification' \in [Workers -> SUBSET Users], reset' \in [Workers -> SUBSET Users],
         LinksKnown'
  PROVE  IInv'
<1>1. AccountsInv /\ GroupsInv /\ MailInv /\ WorkInv
  BY Parts
<1>2. AccountsInv'
  BY <1>1, AccountsLoaded DEF Admitted, AccountsInv, TypeOfAccounts
<1>3. GroupsInv'
  BY <1>1, GroupsKept DEF groups, mail
<1>4. MailInv'
  BY <1>1, MailKept DEF mail, MailInv, TypeOfMail
<1>5. WorkInv'
  BY <1>1, WorkCall DEF Grows
<1> QED
  BY <1>2, <1>3, <1>4, <1>5, PartsNext

\* The actions that are no more than that.
LEMMA QuietActions ==
  ASSUME IInv, NEW w \in Workers
  PROVE  /\ \A u \in Users :
              Login(w, u) \/ UpdateProfile(w, u) \/ ResendVerification(w, u)
                \/ ForgotPassword(w, u) \/ (\E s \in Swarms : GetSwarmAccess(w, u, s)) => IInv'
         /\ \A i \in Invites : InvitationStatus(w, i) => IInv'
<1>1. /\ verification \in [Workers -> SUBSET Users] /\ reset \in [Workers -> SUBSET Users]
      /\ LinksKnown
  BY Parts DEF AccountsInv, TypeOfAccounts
<1>a. UNCHANGED <<user, verification, reset>> => LinksKnown'
  BY <1>1 DEF LinksKnown
<1>2. ASSUME NEW u \in Users, Login(w, u)
      PROVE  IInv'
  BY <1>1, <1>a, <1>2, QuietKeeps DEF Admitted, Login, Authenticate
<1>3. ASSUME NEW u \in Users, UpdateProfile(w, u)
      PROVE  IInv'
  BY <1>1, <1>a, <1>3, QuietKeeps DEF Admitted, UpdateProfile, UpdateUser
<1>4. ASSUME NEW u \in Users, ResendVerification(w, u)
      PROVE  IInv'
  <2>1. verification' \in [Workers -> SUBSET Users] /\ LinksKnown'
    BY <1>1, <1>4 DEF ResendVerification, SendVerification, LinksKnown
  <2> QED
    BY <1>1, <1>4, <2>1, QuietKeeps DEF Admitted, ResendVerification
<1>5. ASSUME NEW u \in Users, ForgotPassword(w, u)
      PROVE  IInv'
  <2>1. reset' \in [Workers -> SUBSET Users] /\ LinksKnown'
    BY <1>1, <1>5 DEF ForgotPassword, CreateReset, LinksKnown
  <2> QED
    BY <1>1, <1>5, <2>1, QuietKeeps DEF Admitted, ForgotPassword
<1>6. ASSUME NEW u \in Users, NEW s \in Swarms, GetSwarmAccess(w, u, s)
      PROVE  IInv'
  BY <1>1, <1>a, <1>6, QuietKeeps DEF Admitted, GetSwarmAccess
<1>7. ASSUME NEW i \in Invites, InvitationStatus(w, i)
      PROVE  IInv'
  BY <1>1, <1>a, <1>7, QuietKeeps DEF Admitted, InvitationStatus
<1> QED
  BY <1>2, <1>3, <1>4, <1>5, <1>6, <1>7

\* One row of users is written, verified only for somebody who was
\* admitted.
LEMMA UserWritten ==
  ASSUME AccountsInv, NEW w \in Workers, NEW us, NEW u \in Users, NEW row \in Account,
         user' = [user EXCEPT ![u] = row], Load(w, us), row.verified => u \in Admitted',
         Admitted \subseteq Admitted', Admitted' \subseteq Users,
         trusted' # {} => TRUE \in AutoVerify \/ Providers,
         \A x \in Workers : verification'[x] \subseteq verification[x] \cup {u},
         verification' \in [Workers -> SUBSET Users], UNCHANGED reset
  PROVE  AccountsInv' /\ Grows /\ user'[u] # None
<1>1. /\ user \in Accounts /\ row # None
      /\ \A v \in Users : user'[v] = IF v = u THEN row ELSE user[v]
  BY DEF AccountsInv, TypeOfAccounts, Accounts
<1>2. user' \in Accounts
  BY <1>1 DEF Accounts
<1>3. \A v \in Users : user'[v] = user[v] \/ EarnedAccount(v, user[v])'
  BY <1>1 DEF EarnedAccount
<1>4. Grows
  BY <1>1 DEF Grows
<1>5. LinksKnown'
  BY <1>1 DEF AccountsInv, TypeOfAccounts, LinksKnown
<1> QED
  BY <1>1, <1>2, <1>3, <1>4, <1>5, AccountsLoaded DEF AccountsInv, TypeOfAccounts

\* A registration: nothing but the row, or all that an invitation brings.
LEMMA RegisterKeeps ==
  ASSUME IInv, NEW w \in Workers, NEW u \in Users, Register(w, u)
  PROVE  IInv'
<1>1. AccountsInv /\ GroupsInv /\ MailInv /\ WorkInv
  BY Parts
<1>2. /\ verification \in [Workers -> SUBSET Users] /\ Admitted \subseteq Users
      /\ day \in 0..MaxDay
  BY <1>1 DEF Admitted, AccountsInv, TypeOfAccounts, MailInv, TypeOfMail
<1>3. /\ Call(w, "created")
      /\ \E by \in {"mail", "flag", "invitation"} :
           job' = [job EXCEPT ![w] = [user |-> u, by |-> by]]
      /\ UNCHANGED <<verification, reset, day, faults>>
  BY DEF Register
<1>4. CASE CreateUser(w, u, FALSE) /\ UNCHANGED evidence
  <2>1. NewAccount(FALSE) \in Account /\ ~NewAccount(FALSE).verified
    BY DEF NewAccount, Account
  <2>2. AccountsInv' /\ Grows /\ user'[u] # None
    <3>1. UNCHANGED <<proved, trusted, Admitted>>
      BY <1>4 DEF Admitted
    <3>2. trusted' # {} => TRUE \in AutoVerify \/ Providers
      BY <1>1, <3>1 DEF AccountsInv
    <3> QED
      BY <1>1, <1>2, <1>3, <1>4, <2>1, <3>1, <3>2, UserWritten DEF CreateUser
  <2>3. UNCHANGED <<groups, mail>>
    BY <1>4 DEF CreateUser
  <2>4. GroupsInv' /\ MailInv'
    BY <1>1, <1>2, <1>3, <1>4, <2>3, GroupsKept, MailKept DEF Admitted, groups, mail
  <2>5. WorkInv'
    BY <1>1, <1>3, <2>2, WorkBegins
  <2> QED
    BY <2>2, <2>4, <2>5, PartsNext
<1>5. CASE /\ CreateUser(w, u, TRUE)
           /\ Prove(u) \/ (Trust(u) /\ TRUE \in AutoVerify)
  <2>1. NewAccount(TRUE) \in Account
    BY DEF NewAccount, Account
  <2>2. /\ Admitted \subseteq Admitted' /\ Admitted' \subseteq Users /\ u \in Admitted'
        /\ trusted' # {} => trusted # {} \/ Trust(u)
    <3>1. proved \subseteq Users /\ trusted \subseteq Users
      BY <1>1 DEF AccountsInv, TypeOfAccounts
    <3>2. Prove(u) \/ Trust(u)
      BY <1>5
    <3> QED
      BY <3>1, <3>2, AdmissionFacts
  <2>6. trusted' # {} => TRUE \in AutoVerify \/ Providers
    <3>1. Prove(u) => trusted' \subseteq trusted
      BY DEF Prove
    <3> QED
      BY <3>1, <1>1, <1>5 DEF AccountsInv
  <2>3. AccountsInv' /\ Grows /\ user'[u] # None
    BY <1>1, <1>2, <1>3, <1>5, <2>1, <2>2, <2>6, UserWritten DEF CreateUser
  <2>4. GroupsInv' /\ MailInv'
    BY <1>1, <1>3, <1>5, <2>2, SettleKeeps DEF CreateUser
  <2>5. WorkInv'
    BY <1>1, <1>3, <2>3, WorkBegins
  <2> QED
    BY <2>3, <2>4, <2>5, PartsNext
<1> QED
  BY <1>4, <1>5 DEF Register

\* Requests that change nothing about accounts but what memory holds.
LEMMA AccountsReloaded ==
  ASSUME AccountsInv, NEW w \in Workers, NEW us, Load(w, us),
         UNCHANGED <<user, verification, reset, proved, trusted, Admitted>>
  PROVE  AccountsInv' /\ Grows
  BY AccountsLoaded DEF Admitted, AccountsInv, TypeOfAccounts, LinksKnown, Grows

\* The system swarm is the super-admin's, in the rows and in memory.
LEMMA AlertGroups ==
  ASSUME GroupsInv, NEW w \in Workers, Admin \in Users, EnsureAdminAlertSwarm(w),
         UNCHANGED <<proved, trusted, Admitted, invited>>
  PROVE  GroupsInv'
<1> DEFINE own == [mswarm[w] EXCEPT ![AdminSwarm] = IF @ = None THEN Admin ELSE @]
           joined == [mmember[w] EXCEPT ![AdminSwarm][Admin] = IF @ = None THEN "overlord" ELSE @]
<1>1. /\ swarm \in Owners /\ mswarm \in [Workers -> Owners] /\ mswarm[w] \in Owners
      /\ member \in Memberships /\ mmember \in [Workers -> Memberships]
      /\ mmember[w] \in Memberships /\ swarms \in 0..MaxSwarms
      /\ founded \subseteq Swarms \X Users /\ UNCHANGED <<swarms, founded>>
  BY DEF GroupsInv, TypeOfGroups, EnsureAdminAlertSwarm
<1>2. <<AdminSwarm, Admin>> \in founded
  BY DEF GroupsInv, SystemSwarm
<1>3. /\ mswarm' = [mswarm EXCEPT ![w] = own] /\ mmember' = [mmember EXCEPT ![w] = joined]
  BY <1>1 DEF EnsureAdminAlertSwarm
<1>4. /\ own \in Owners
      /\ \A s \in Swarms : own[s] = mswarm[w][s] \/ (s = AdminSwarm /\ own[s] = Admin)
  BY <1>1 DEF Owners
<1>5. /\ joined \in Memberships
      /\ \A s \in Swarms, u \in Users :
           \/ joined[s][u] = mmember[w][s][u]
           \/ s = AdminSwarm /\ u = Admin /\ joined[s][u] = "overlord"
      /\ joined[AdminSwarm][Admin] # None
  BY <1>1, RoleFacts DEF Memberships, Roles
<1> HIDE DEF own, joined
<1>6. /\ mswarm' \in [Workers -> Owners] /\ mmember' \in [Workers -> Memberships]
      /\ \A x \in Workers : mswarm'[x] = IF x = w THEN own ELSE mswarm[x]
      /\ \A x \in Workers : mmember'[x] = IF x = w THEN joined ELSE mmember[x]
  BY <1>1, <1>3, <1>4, <1>5
<1>7. /\ swarm' \in Owners /\ member' \in Memberships
      /\ \A s \in Swarms : \/ swarm'[s] = swarm[s]
                          \/ /\ s = AdminSwarm /\ swarm'[s] = Admin
                             /\ member'[s][Admin] # None
      /\ \A s \in Swarms, u \in Users :
           \/ member'[s][u] = member[s][u]
           \/ s = AdminSwarm /\ u = Admin /\ member'[s][u] = "overlord"
  <2>1. CASE UNCHANGED <<swarm, member>>
    BY <1>1, <2>1
  <2>2. CASE /\ swarm' = [swarm EXCEPT ![AdminSwarm] = IF @ = None THEN Admin ELSE @]
             /\ member' = [member EXCEPT ![AdminSwarm][Admin] = "overlord"]
    <3>1. /\ swarm' \in Owners
          /\ \A s \in Swarms : swarm'[s] = swarm[s] \/ (s = AdminSwarm /\ swarm'[s] = Admin)
      BY <1>1, <2>2 DEF Owners
    <3>2. /\ member' \in Memberships
          /\ \A s \in Swarms, u \in Users :
               member'[s][u] = IF s = AdminSwarm /\ u = Admin THEN "overlord" ELSE member[s][u]
      BY <1>1, <2>2 DEF Memberships, Roles
    <3> QED
      BY <3>1, <3>2, RoleFacts
  <2> QED
    BY <2>1, <2>2 DEF EnsureAdminAlertSwarm
<1>8. TypeOfGroups'
  BY <1>1, <1>6, <1>7 DEF TypeOfGroups
<1>9. \A s \in Swarms, u \in Users :
        member'[s][u] = member[s][u] \/ (member'[s][u] # None /\ Granted(s, u, member[s][u])')
  BY <1>1, <1>2, <1>7, RoleFacts DEF Granted, EarnedRole, OverlordFounded
<1>10. \A x \in Workers, s \in Swarms, u \in Users :
         \/ mmember'[x][s][u] = mmember[x][s][u]
         \/ mmember'[x][s][u] # None /\ Granted(s, u, mmember[x][s][u])'
  <2> TAKE x \in Workers, s \in Swarms, u \in Users
  <2>1. CASE x = w
    BY <2>1, <1>1, <1>2, <1>5, <1>6, RoleFacts DEF Granted, EarnedRole, OverlordFounded
  <2>2. CASE x # w
    BY <2>2, <1>6
  <2> QED
    BY <2>1, <2>2
<1>11. \A s \in Swarms : swarm'[s] = swarm[s] \/ OwnerFounded(s, swarm[s])'
  BY <1>1, <1>2, <1>7 DEF OwnerFounded
<1>12. \A x \in Workers, s \in Swarms :
         mswarm'[x][s] = mswarm[x][s] \/ OwnerFounded(s, mswarm[x][s])'
  BY <1>1, <1>2, <1>4, <1>6 DEF OwnerFounded
<1>13. OwnerIsMember'
  BY <1>1, <1>7, <1>9 DEF GroupsInv, OwnerIsMember, Owners
<1>14. \A x \in Workers, s \in Swarms : OwnerOnRecord(x, s)'
  <2> TAKE x \in Workers, s \in Swarms
  <2>1. CASE mswarm'[x][s] = mswarm[x][s]
    <3>1. OwnerOnRecord(x, s) /\ mswarm[x][s] \in Users \cup {None}
      BY <1>1 DEF GroupsInv, Owners
    <3> QED
      BY <2>1, <3>1, <1>9, <1>10 DEF OwnerOnRecord
  <2>2. CASE x = w /\ s = AdminSwarm /\ mswarm'[x][s] = Admin
    BY <2>2, <1>5, <1>6 DEF OwnerOnRecord
  <2> QED
    BY <2>1, <2>2, <1>4, <1>6
<1> QED
  BY <1>1, <1>8, <1>9, <1>10, <1>11, <1>12, <1>13, <1>14, GroupsStep DEF Admitted, FoundedStep

\* After a registration the super-admin is told, or nothing happens yet.
LEMMA WelcomeKeeps ==
  ASSUME IInv, NEW w \in Workers, Welcome(w)
  PROVE  IInv'
<1>1. AccountsInv /\ GroupsInv /\ MailInv /\ WorkInv
  BY Parts
<1> DEFINE u == job[w].user
<1>2. /\ UNCHANGED <<user, verification, reset, mail, job, calls, day, proved, trusted, Admitted>>
      /\ Load(w, {u, Admin} \cap Users)
      /\ Resume(w, "welcome", IF HearsOf(u) THEN "alerted" ELSE "greet")
      /\ IF HearsOf(u) THEN EnsureAdminAlertSwarm(w) ELSE UNCHANGED <<groups, faults>>
  BY DEF Admitted, Welcome
<1> HIDE DEF u
<1>3. AccountsInv' /\ Grows
  BY <1>1, <1>2, AccountsReloaded
<1>4. MailInv'
  BY <1>1, <1>2, MailKept DEF mail, MailInv, TypeOfMail
<1>5. GroupsInv' /\ faults' \in 0..MaxFaults
  <2>1. CASE HearsOf(u)
    <3>1. Admin \in Users
      BY <2>1, DeploymentAssumption DEF HearsOf, DeploymentAssumption
    <3>2. GroupsInv'
      BY <1>1, <1>2, <2>1, <3>1, AlertGroups DEF mail
    <3>3. faults' = faults \/ Fault
      BY <1>2, <2>1 DEF EnsureAdminAlertSwarm
    <3> QED
      BY <3>2, <3>3, <1>1 DEF Fault, WorkInv, TypeOfWork
  <2>2. CASE ~HearsOf(u)
    BY <1>1, <1>2, <2>2, GroupsKept DEF groups, mail, WorkInv, TypeOfWork
  <2> QED
    BY <2>1, <2>2
<1>6. WorkInv'
  <2>1. PICK next \in {"alerted", "greet"} : Resume(w, "welcome", next)
    BY <1>2
  <2>2. stage' = [stage EXCEPT ![w] = next] /\ next \in Stages /\ stage[w] = "welcome"
    BY <2>1, StageFacts DEF Resume
  <2>3. TypeOfWork'
    BY <1>1, <1>2, <1>5, <2>2 DEF WorkInv, TypeOfWork
  <2>4. JobKnown'
    BY <1>1, <1>2, <1>3, <2>2, JobFacts DEF WorkInv, TypeOfWork, JobKnown, Grows
  <2> QED
    BY <2>3, <2>4 DEF WorkInv
<1> QED
  BY <1>3, <1>4, <1>5, <1>6, PartsNext

\* The end of a registration.
LEMMA GreetKeeps ==
  ASSUME IInv, NEW w \in Workers, Greet(w)
  PROVE  IInv'
<1>1. AccountsInv /\ GroupsInv /\ MailInv /\ WorkInv
  BY Parts
<1> DEFINE u == job[w].user
<1>2. u \in Users /\ user[u] # None
  BY <1>1 DEF Greet, Resume, WorkInv, JobKnown, Job
<1>3. /\ UNCHANGED <<user, reset, groups, mail, calls, day, proved, trusted, Admitted, faults>>
      /\ Load(w, IF job[w].by = "invitation" THEN {u} ELSE {})
      /\ Resume(w, "greet", IF job[w].by = "flag" THEN "idle" ELSE "mirror")
      /\ job' = [job EXCEPT ![w] = None]
      /\ SendVerification(w, u) \/ UNCHANGED verification
  BY DEF Admitted, Greet
<1> HIDE DEF u
<1>4. /\ verification' \in [Workers -> SUBSET Users] /\ reset' \in [Workers -> SUBSET Users]
      /\ LinksKnown'
  <2>1. CASE UNCHANGED verification
    BY <2>1, <1>1, <1>3 DEF AccountsInv, TypeOfAccounts, LinksKnown
  <2>2. CASE SendVerification(w, u)
    BY <2>2, <1>1, <1>2, <1>3 DEF AccountsInv, TypeOfAccounts, LinksKnown, SendVerification
  <2> QED
    BY <2>1, <2>2, <1>3
<1>5. AccountsInv'
  <2>1. PICK us : Load(w, us)
    BY <1>3
  <2> QED
    BY <1>1, <1>3, <1>4, <2>1, AccountsLoaded DEF Admitted, AccountsInv, TypeOfAccounts
<1>6. GroupsInv' /\ MailInv'
  BY <1>1, <1>3, GroupsKept, MailKept DEF groups, mail, MailInv, TypeOfMail
<1>7. WorkInv'
  <2>1. PICK next \in {"idle", "mirror"} : Resume(w, "greet", next)
    BY <1>3
  <2> QED
    BY <1>1, <1>3, <2>1, WorkEnds DEF Grows
<1> QED
  BY <1>5, <1>6, <1>7, PartsNext

\* The super-admin is told of a Drone.
LEMMA RegisterDroneKeeps ==
  ASSUME IInv, NEW w \in Workers, NEW u \in Users, RegisterDrone(w, u)
  PROVE  IInv'
<1>1. AccountsInv /\ GroupsInv /\ MailInv /\ WorkInv
  BY Parts
<1>2. /\ UNCHANGED <<user, verification, reset, mail, job, day, proved, trusted, Admitted>>
      /\ Load(w, {u, Admin}) /\ Call(w, "mirror") /\ EnsureAdminAlertSwarm(w)
      /\ Admin \in Users
  BY DeploymentAssumption DEF Admitted, RegisterDrone, HearsOf, DeploymentAssumption
<1>3. AccountsInv' /\ Grows
  BY <1>1, <1>2, AccountsReloaded
<1>4. MailInv'
  BY <1>1, <1>2, MailKept DEF mail, MailInv, TypeOfMail
<1>5. GroupsInv'
  BY <1>1, <1>2, AlertGroups DEF mail
<1>6. WorkInv'
  <2>1. faults' = faults \/ Fault
    BY <1>2 DEF EnsureAdminAlertSwarm
  <2>2. faults' \in 0..MaxFaults
    BY <2>1, <1>1 DEF Fault, WorkInv, TypeOfWork
  <2>3. calls' \in 0..MaxCalls
    BY <1>1, <1>2 DEF WorkInv, TypeOfWork, Call
  <2>4. stage' = [stage EXCEPT ![w] = "mirror"] /\ "mirror" \in Stages
    BY <1>2, StageFacts DEF Call
  <2>5. TypeOfWork'
    BY <1>1, <1>2, <2>2, <2>3, <2>4 DEF WorkInv, TypeOfWork
  <2>6. JobKnown'
    BY <1>1, <1>2, <1>3, <2>4, JobFacts DEF WorkInv, TypeOfWork, JobKnown, Grows
  <2> QED
    BY <2>5, <2>6 DEF WorkInv
<1> QED
  BY <1>3, <1>4, <1>5, <1>6, PartsNext

\* A code or a link proves the address.
LEMMA VerifyKeeps ==
  ASSUME IInv, NEW w \in Workers, NEW u \in Users, VerifyEmailCode(w, u) \/ VerifyEmailLink(w, u)
  PROVE  IInv'
<1>1. AccountsInv /\ GroupsInv /\ MailInv /\ WorkInv
  BY Parts
<1>2. UseVerification(w, u)
  BY DEF VerifyEmailCode, VerifyEmailLink
<1>3. /\ user \in Accounts /\ user[u] # None
      /\ verification \in [Workers -> SUBSET Users] /\ Admitted \subseteq Users
  BY <1>1, <1>2 DEF Admitted, AccountsInv, TypeOfAccounts, LinksKnown, UseVerification
<1> DEFINE row == [user[u] EXCEPT !.verified = TRUE]
<1>4. user[u] \in Account
  BY <1>3 DEF Accounts
<1>5. row \in Account
  BY <1>4 DEF Account
<1>6. user' = [user EXCEPT ![u] = row]
  BY <1>2 DEF UseVerification, SetVerified
<1> HIDE DEF row
<1>7. AccountsInv' /\ Grows
  <2>1. verification' = [verification EXCEPT ![w] = @ \ {u}] /\ reset' = reset
    BY <1>2 DEF UseVerification
  <2>2. /\ verification' \in [Workers -> SUBSET Users]
        /\ \A x \in Workers : verification'[x] \subseteq verification[x] \cup {u}
    BY <1>3, <2>1
  <2>3. Load(w, {u}) /\ Prove(u)
    BY <1>2 DEF UseVerification, SetVerified
  <2>4. /\ Admitted \subseteq Admitted' /\ Admitted' \subseteq Users /\ u \in Admitted'
        /\ trusted' # {} => TRUE \in AutoVerify \/ Providers
    <3>1. proved \subseteq Users /\ trusted \subseteq Users /\ trusted' \subseteq trusted
      BY <1>1, <2>3 DEF AccountsInv, TypeOfAccounts, Prove
    <3>2. trusted' # {} => TRUE \in AutoVerify \/ Providers
      BY <3>1, <1>1 DEF AccountsInv
    <3> QED
      BY <2>3, <3>1, <3>2, AdmissionFacts
  <2> QED
    BY <1>1, <1>3, <1>5, <1>6, <2>1, <2>2, <2>3, <2>4, UserWritten
<1>8. GroupsInv' /\ MailInv'
  <2>1. Settle(w, u) /\ Prove(u) /\ day' = day
    BY <1>2 DEF UseVerification, SetVerified
  <2>2. Admitted \subseteq Admitted' /\ u \in Admitted'
    BY <1>1, <2>1, AdmissionFacts DEF AccountsInv, TypeOfAccounts
  <2> QED
    BY <1>1, <2>1, <2>2, SettleKeeps
<1>9. WorkInv'
  BY <1>1, <1>2, <1>7, WorkCall DEF VerifyEmailCode, VerifyEmailLink, UseVerification
<1> QED
  BY <1>7, <1>8, <1>9, PartsNext

\* A new password in memory, on top of the row.
LEMMA ResetKeeps ==
  ASSUME IInv, NEW w \in Workers, NEW u \in Users, ResetPassword(w, u)
  PROVE  IInv'
<1>1. AccountsInv /\ GroupsInv /\ MailInv /\ WorkInv
  BY Parts
<1> DEFINE row == [user[u] EXCEPT !.password = "new"]
<1>2. /\ user \in Accounts /\ user[u] # None /\ muser \in [Workers -> Accounts]
      /\ reset \in [Workers -> SUBSET Users]
  BY <1>1 DEF AccountsInv, TypeOfAccounts, LinksKnown, ResetPassword, ConsumeReset
<1>3. user[u] \in Account
  BY <1>2 DEF Accounts
<1>4. row \in Account /\ row.verified = user[u].verified
  BY <1>3 DEF Account
<1>5. muser' = [muser EXCEPT ![w][u] = row] /\ reset' = [reset EXCEPT ![w] = @ \ {u}]
  BY DEF ResetPassword, ConsumeReset
<1> HIDE DEF row
<1>6. muser' \in [Workers -> Accounts]
  BY <1>2, <1>4, <1>5 DEF Accounts
<1>7. \A x \in Workers, v \in Users :
        muser'[x][v] = IF x = w /\ v = u THEN row ELSE muser[x][v]
  BY <1>2, <1>5 DEF Accounts
<1>8. AccountsInv'
  <2>1. reset' \in [Workers -> SUBSET Users]
    BY <1>2, <1>5
  <2>2. LinksKnown'
    BY <1>1, <1>2, <1>5 DEF ResetPassword, AccountsInv, LinksKnown
  <2>3. UNCHANGED <<user, verification, proved, trusted, Admitted>>
    BY DEF Admitted, ResetPassword
  <2>4. \A x \in Workers, v \in Users : EarnedAccount(v, muser[x][v])'
    BY <1>1, <1>2, <1>4, <1>7, <2>3 DEF AccountsInv, EarnedAccount
  <2> QED
    BY <1>1, <1>6, <2>1, <2>2, <2>3, <2>4 DEF AccountsInv, TypeOfAccounts, EarnedAccount
<1>9. GroupsInv' /\ MailInv'
  BY <1>1, GroupsKept, MailKept DEF Admitted, ResetPassword, groups, mail, MailInv, TypeOfMail
<1>10. WorkInv'
  BY <1>1, WorkCall DEF ResetPassword, Grows
<1> QED
  BY <1>8, <1>9, <1>10, PartsNext

\* A swarm of its founder, in memory alone.
LEMMA CreateKeeps ==
  ASSUME IInv, NEW w \in Workers, NEW u \in Users, CreateSwarm(w, u)
  PROVE  IInv'
<1>1. AccountsInv /\ GroupsInv /\ MailInv /\ WorkInv
  BY Parts
<1>2. /\ swarms \in 0..MaxSwarms /\ mswarm \in [Workers -> Owners]
      /\ mmember \in [Workers -> Memberships] /\ founded \subseteq Swarms \X Users
  BY <1>1 DEF GroupsInv, TypeOfGroups
<1>3. /\ swarms + 1 \in 1..MaxSwarms /\ swarms' = swarms + 1 /\ swarms' \in 0..MaxSwarms
      /\ mswarm' = [mswarm EXCEPT ![w][swarms'] = u]
      /\ mmember' = [mmember EXCEPT ![w][swarms'][u] = "overlord"]
      /\ founded' = founded \cup {<<swarms', u>>}
      /\ UNCHANGED <<swarm, member, invite, minvite, invites, invited, proved, trusted, Admitted, day>>
  BY <1>2 DEF Admitted, CreateSwarm, AddSwarm, mail
<1>4. /\ mswarm' \in [Workers -> Owners]
      /\ \A x \in Workers, s \in Swarms :
           mswarm'[x][s] = IF x = w /\ s = swarms' THEN u ELSE mswarm[x][s]
  BY <1>2, <1>3 DEF Owners
<1>5. /\ mmember' \in [Workers -> Memberships]
      /\ \A x \in Workers, s \in Swarms, v \in Users :
           mmember'[x][s][v] = IF x = w /\ s = swarms' /\ v = u THEN "overlord"
                               ELSE mmember[x][s][v]
  <2> DEFINE P == [mmember[w] EXCEPT ![swarms'][u] = "overlord"]
  <2>1. mmember[w] \in Memberships
    BY <1>2
  <2>2. /\ P \in Memberships
        /\ \A s \in Swarms, v \in Users :
             P[s][v] = IF s = swarms' /\ v = u THEN "overlord" ELSE mmember[w][s][v]
    BY <1>3, <2>1 DEF Memberships, Roles
  <2>3. mmember' = [mmember EXCEPT ![w] = P]
    BY <1>2, <1>3
  <2> HIDE DEF P
  <2>4. \A x \in Workers : mmember'[x] = IF x = w THEN P ELSE mmember[x]
    BY <1>2, <2>3
  <2>5. mmember' \in [Workers -> Memberships]
    BY <1>2, <2>2, <2>3
  <2> QED
    BY <2>2, <2>4, <2>5
<1>6. TypeOfGroups'
  BY <1>1, <1>3, <1>4, <1>5 DEF GroupsInv, TypeOfGroups
<1>7. GroupsInv'
  <2>1. \A x \in Workers, s \in Swarms, v \in Users :
          mmember'[x][s][v] = mmember[x][s][v] \/ Granted(s, v, mmember[x][s][v])'
    BY <1>3, <1>5 DEF Granted, EarnedRole, OverlordFounded
  <2>2. \A x \in Workers, s \in Swarms :
          mswarm'[x][s] = mswarm[x][s] \/ OwnerFounded(s, mswarm[x][s])'
    BY <1>3, <1>4 DEF OwnerFounded
  <2>3. OwnerIsMember'
    BY <1>1, <1>3 DEF GroupsInv, OwnerIsMember
  <2>4. \A x \in Workers, s \in Swarms : OwnerOnRecord(x, s)'
    <3> TAKE x \in Workers, s \in Swarms
    <3>1. CASE x = w /\ s = swarms'
      BY <3>1, <1>4, <1>5, RoleFacts DEF OwnerOnRecord
    <3>2. CASE ~(x = w /\ s = swarms')
      <4>1. mswarm'[x][s] = mswarm[x][s] /\ \A v \in Users : mmember'[x][s][v] = mmember[x][s][v]
        BY <3>2, <1>4, <1>5
      <4> QED
        BY <4>1, <1>1, <1>2, <1>3 DEF GroupsInv, OwnerOnRecord, Owners
    <3> QED
      BY <3>1, <3>2
  <2> QED
    BY <1>1, <1>3, <1>6, <2>1, <2>2, <2>3, <2>4, GroupsStep DEF FoundedStep
<1>8. AccountsInv'
  BY <1>1, AccountsLoaded DEF Admitted, CreateSwarm, AccountsInv, TypeOfAccounts, LinksKnown
<1>9. MailInv'
  BY <1>1, <1>3, MailKept DEF MailInv, TypeOfMail
<1>10. WorkInv'
  BY <1>1, WorkCall DEF CreateSwarm, Grows
<1> QED
  BY <1>7, <1>8, <1>9, <1>10, PartsNext

\* A worker takes over the owner of a row, who is a member there.
LEMMA RenameKeeps ==
  ASSUME IInv, NEW w \in Workers, NEW u \in Users, NEW s \in Swarms, RenameSwarm(w, u, s)
  PROVE  IInv'
<1>1. AccountsInv /\ GroupsInv /\ MailInv /\ WorkInv
  BY Parts
<1>2. /\ swarm \in Owners /\ mswarm \in [Workers -> Owners]
      /\ UNCHANGED <<swarm, member, mmember, swarms, founded>>
      /\ UNCHANGED <<invite, minvite, invites, invited, proved, trusted, Admitted, day>>
  BY <1>1 DEF Admitted, GroupsInv, TypeOfGroups, RenameSwarm, mail
<1>3. /\ mswarm' \in [Workers -> Owners]
      /\ \A x \in Workers, t \in Swarms :
           mswarm'[x][t] = mswarm[x][t] \/ (mswarm'[x][t] = swarm[t] /\ swarm[t] # None)
  BY <1>2 DEF RenameSwarm, TakeOver, Owners
<1>4. GroupsInv'
  <2>1. TypeOfGroups'
    BY <1>1, <1>2, <1>3 DEF GroupsInv, TypeOfGroups
  <2>2. \A x \in Workers, t \in Swarms :
          mswarm'[x][t] = mswarm[x][t] \/ OwnerFounded(t, mswarm[x][t])'
    BY <1>1, <1>2, <1>3 DEF GroupsInv, OwnerFounded
  <2>3. OwnerIsMember'
    BY <1>1, <1>2 DEF GroupsInv, OwnerIsMember
  <2>4. \A x \in Workers, t \in Swarms : OwnerOnRecord(x, t)'
    BY <1>1, <1>2, <1>3 DEF GroupsInv, OwnerOnRecord, OwnerIsMember
  <2> QED
    BY <1>1, <1>2, <2>1, <2>2, <2>3, <2>4, GroupsStep DEF FoundedStep
<1>5. AccountsInv'
  BY <1>1, AccountsLoaded DEF Admitted, RenameSwarm, AccountsInv, TypeOfAccounts, LinksKnown
<1>6. MailInv'
  BY <1>1, <1>2, MailKept DEF MailInv, TypeOfMail
<1>7. WorkInv'
  BY <1>1, WorkCall DEF RenameSwarm, Grows
<1> QED
  BY <1>4, <1>5, <1>6, <1>7, PartsNext

\* An active user was admitted.
LEMMA ActiveProved ==
  ASSUME AccountsInv, NEW u \in Users, IsActive(u)
  PROVE  u \in Admitted
  BY DEF AccountsInv, IsActive, EarnedAccount

\* An invitation is on record.
LEMMA InviteKeeps ==
  ASSUME IInv, NEW w \in Workers, NEW u \in Users, NEW s \in Swarms, NEW email \in Users,
         InviteSwarmMember(w, u, s, email)
  PROVE  IInv'
<1>1. AccountsInv /\ GroupsInv /\ MailInv /\ WorkInv
  BY Parts
<1>2. /\ invites \in 0..MaxInvites /\ minvite \in [Workers -> Invitations]
      /\ day \in 0..MaxDay /\ invited \subseteq Swarms \X Users
  BY <1>1 DEF MailInv, TypeOfMail
<1> DEFINE row == [swarm |-> s, email |-> email, accepted |-> FALSE, until |-> day]
           all == [minvite[w] EXCEPT ![invites + 1] = row]
<1>3. row \in Invitation
  BY <1>2 DEF Invitation
<1>4. /\ invites' = invites + 1 /\ invites' \in Invites /\ invites' \in 0..MaxInvites
      /\ minvite' = [minvite EXCEPT ![w][invites'] = row]
      /\ invited' = invited \cup {<<s, email>>}
  BY <1>2 DEF InviteSwarmMember, InviteToSwarm
<1>5. minvite' = [minvite EXCEPT ![w] = all]
  BY <1>2, <1>4
<1>6. row.accepted = FALSE /\ row.swarm = s /\ row.email = email
  OBVIOUS
<1> HIDE DEF row
<1>7. /\ all \in Invitations
      /\ \A i \in Invites : all[i] = IF i = invites' THEN row ELSE minvite[w][i]
  BY <1>2, <1>3, <1>4 DEF Invitations
<1> HIDE DEF all
<1>8. /\ invited \subseteq invited' /\ invited' \subseteq Swarms \X Users
      /\ UNCHANGED <<invite, proved, trusted, Admitted, day>>
  BY <1>2, <1>4 DEF Admitted, InviteSwarmMember
<1>9. MailInv'
  BY <1>1, <1>2, <1>4, <1>5, <1>6, <1>7, <1>8, MailStep
<1>10. AccountsInv' /\ Grows
  BY <1>1, AccountsReloaded DEF Admitted, InviteSwarmMember
<1>11. GroupsInv'
  BY <1>1, <1>8, GroupsKept DEF InviteSwarmMember, groups
<1>12. WorkInv'
  BY <1>1, <1>10, WorkBegins DEF InviteSwarmMember
<1> QED
  BY <1>9, <1>10, <1>11, <1>12, PartsNext

\* Its second half: an active user joins.
LEMMA AutoAcceptKeeps ==
  ASSUME IInv, NEW w \in Workers, AutoAccept(w)
  PROVE  IInv'
<1>1. AccountsInv /\ GroupsInv /\ MailInv /\ WorkInv
  BY Parts
<1> DEFINE u == job[w].user
<1>2. u \in Users
  BY <1>1 DEF AutoAccept, Resume, WorkInv, JobKnown, Job
<1>3. /\ UNCHANGED <<user, verification, reset, swarm, mswarm, member, swarms, founded>>
      /\ UNCHANGED <<invite, invites, invited, calls, day, proved, trusted, Admitted, faults>>
  BY DEF Admitted, AutoAccept
<1>4. AccountsInv' /\ Grows
  BY <1>1, <1>3, AccountsReloaded DEF AutoAccept
<1>5. WorkInv'
  BY <1>1, <1>3, <1>4, WorkEnds DEF AutoAccept
<1>6. CASE IsActive(u)
  <2> DEFINE J == Joining(mmember[w], minvite[w], u)
  <2>1. /\ mmember' = [mmember EXCEPT ![w] = J]
        /\ minvite' = [minvite EXCEPT ![w] = Accepting(minvite[w], u)]
    BY <1>6 DEF AutoAccept
  <2>2. u \in Admitted
    BY <1>1, <1>2, <1>6, ActiveProved
  <2>3. minvite[w] \in Invitations /\ mmember[w] \in Memberships
    BY <1>1 DEF MailInv, TypeOfMail, GroupsInv, TypeOfGroups
  <2>4. MailInv'
    BY <1>1, <1>2, <1>3, <2>1, <2>2, AcceptMail
  <2>5. J \in Memberships
    BY <1>2, <2>3, JoiningFacts
  <2>6. \A s \in Swarms, v \in Users :
          \/ J[s][v] = mmember[w][s][v]
          \/ J[s][v] = "overseer" /\ <<s, v>> \in invited /\ v \in Admitted
    <3>1. \A s \in Swarms, v \in Users :
            \/ J[s][v] = mmember[w][s][v]
            \/ /\ v = u /\ J[s][v] = "overseer"
               /\ \E i \in Invites : Mine(minvite[w][i], u) /\ minvite[w][i].swarm = s
      BY <1>2, <2>3, JoiningFacts
    <3>2. ASSUME NEW i \in Invites, Mine(minvite[w][i], u)
          PROVE  <<minvite[w][i].swarm, u>> \in invited
      BY <3>2, <1>1 DEF MailInv, InvitedOnRecord, Mine, IsOpen
    <3> HIDE DEF u, J
    <3> QED
      BY <1>3, <2>2, <3>1, <3>2
  <2> HIDE DEF J
  <2>7. GroupsInv'
    <3>1. /\ Admitted \subseteq Admitted' /\ invited \subseteq invited'
          /\ UNCHANGED <<swarm, mswarm, member, swarms, founded>>
      BY <1>3
    <3>2. JoinsOnly(J, mmember[w])
      BY <2>5, <2>6 DEF JoinsOnly
    <3> QED
      BY <1>1, <2>1, <3>1, <3>2, MembersJoin
  <2> QED
    BY <1>4, <1>5, <2>4, <2>7, PartsNext
<1>7. CASE ~IsActive(u)
  <2>1. UNCHANGED <<mmember, minvite>>
    BY <1>7 DEF AutoAccept
  <2>2. GroupsInv' /\ MailInv'
    BY <1>1, <1>3, <2>1, GroupsKept, MailKept DEF MailInv, TypeOfMail
  <2> QED
    BY <1>4, <1>5, <2>2, PartsNext
<1> QED
  BY <1>6, <1>7

\* An invitation is sent again, or withdrawn.
LEMMA InvitationKeeps ==
  ASSUME IInv, NEW w \in Workers, NEW u \in Users, NEW i \in Invites,
         ResendInvitation(w, u, i) \/ RemoveInvitation(w, u, i)
  PROVE  IInv'
<1>1. AccountsInv /\ GroupsInv /\ MailInv /\ WorkInv
  BY Parts
<1>2. minvite[w] \in Invitations /\ minvite \in [Workers -> Invitations] /\ day \in 0..MaxDay
  BY <1>1 DEF MailInv, TypeOfMail
<1>3. /\ UNCHANGED <<user, verification, reset, swarm, mswarm, member, mmember, swarms, founded>>
      /\ UNCHANGED <<invite, invites, invited, job, day, proved, trusted, Admitted, faults>>
      /\ Load(w, {u}) /\ Call(w, "mirror") /\ minvite[w][i] # None
  BY DEF Admitted, ResendInvitation, RemoveInvitation, IsPending, groups
<1>4. AccountsInv' /\ Grows /\ GroupsInv' /\ WorkInv'
  BY <1>1, <1>3, AccountsReloaded, GroupsKept, WorkCall
<1>5. minvite[w][i] \in Invitation
  BY <1>2, <1>3 DEF Invitations
<1>6. CASE ResendInvitation(w, u, i)
  <2> DEFINE row == Renewed(minvite[w][i])
             all == [minvite[w] EXCEPT ![i] = row]
  <2>1. minvite' = [minvite EXCEPT ![w] = all]
    BY <1>2, <1>6 DEF ResendInvitation
  <2>2. /\ row \in Invitation /\ row.accepted = minvite[w][i].accepted
        /\ row.swarm = minvite[w][i].swarm /\ row.email = minvite[w][i].email
    BY <1>2, <1>5 DEF Renewed, Invitation
  <2> HIDE DEF row
  <2>3. /\ all \in Invitations
        /\ \A j \in Invites : all[j] = IF j = i THEN row ELSE minvite[w][j]
    BY <1>2, <2>2 DEF Invitations
  <2> HIDE DEF all
  <2>4. (row.accepted => row.email \in Admitted') /\ <<row.swarm, row.email>> \in invited'
    BY <1>1, <1>3, <2>2 DEF MailInv, EarnedAnswer, InvitedOnRecord
  <2>5. MailInv'
    BY <1>1, <1>3, <2>1, <2>3, <2>4, MailStep DEF MailInv, TypeOfMail
  <2> QED
    BY <1>4, <2>5, PartsNext
<1>7. CASE RemoveInvitation(w, u, i)
  <2> DEFINE all == [minvite[w] EXCEPT ![i] = None]
  <2>1. minvite' = [minvite EXCEPT ![w] = all]
    BY <1>2, <1>7 DEF RemoveInvitation, RemovePending
  <2>2. /\ all \in Invitations
        /\ \A j \in Invites : all[j] = IF j = i THEN None ELSE minvite[w][j]
    BY <1>2 DEF Invitations
  <2> HIDE DEF all
  <2>3. MailInv'
    BY <1>1, <1>3, <2>1, <2>2, MailStep DEF MailInv, TypeOfMail
  <2> QED
    BY <1>4, <2>3, PartsNext
<1> QED
  BY <1>6, <1>7

\* The addressee accepts.
LEMMA AcceptKeeps ==
  ASSUME IInv, NEW w \in Workers, NEW u \in Users, NEW i \in Invites, AcceptInvitation(w, u, i)
  PROVE  IInv'
<1>1. AccountsInv /\ GroupsInv /\ MailInv /\ WorkInv
  BY Parts
<1>2. /\ minvite[w] \in Invitations /\ minvite \in [Workers -> Invitations]
      /\ mmember[w] \in Memberships /\ mmember \in [Workers -> Memberships]
  BY <1>1 DEF MailInv, TypeOfMail, GroupsInv, TypeOfGroups
<1>3. /\ UNCHANGED <<user, verification, reset, swarm, mswarm, member, swarms, founded>>
      /\ UNCHANGED <<invite, invites, invited, job, day, proved, trusted, Admitted, faults>>
      /\ Load(w, {u}) /\ Call(w, "noted")
  BY DEF Admitted, AcceptInvitation
<1>4. AccountsInv' /\ Grows /\ WorkInv'
  BY <1>1, <1>3, AccountsReloaded, WorkCall
<1> DEFINE s == minvite[w][i].swarm
<1>5. /\ u \in Admitted /\ minvite[w][i] \in Invitation /\ minvite[w][i].email = u
      /\ s \in Swarms /\ <<s, u>> \in invited
  <2>1. minvite[w][i] # None /\ minvite[w][i].email = u /\ IsActive(u)
    BY DEF AcceptInvitation, Mine, IsOpen
  <2>2. minvite[w][i] \in Invitation
    BY <1>2, <2>1 DEF Invitations
  <2> QED
    BY <1>1, <2>1, <2>2, ActiveProved DEF Invitation, MailInv, InvitedOnRecord
<1>6. MailInv'
  <2> DEFINE row == [minvite[w][i] EXCEPT !.accepted = TRUE]
             all == [minvite[w] EXCEPT ![i] = row]
  <2>1. minvite' = [minvite EXCEPT ![w] = all]
    BY <1>2 DEF AcceptInvitation, AcceptFor
  <2>2. row \in Invitation /\ row.swarm = s /\ row.email = u
    BY <1>5 DEF Invitation
  <2> HIDE DEF row, s
  <2>3. /\ all \in Invitations
        /\ \A j \in Invites : all[j] = IF j = i THEN row ELSE minvite[w][j]
    BY <1>2, <2>2 DEF Invitations
  <2> HIDE DEF all
  <2> QED
    BY <1>1, <1>3, <1>5, <2>1, <2>2, <2>3, MailStep DEF MailInv, TypeOfMail
<1>7. GroupsInv'
  <2> DEFINE joined == [mmember[w] EXCEPT ![s][u] = "overseer"]
  <2>1. mmember' = [mmember EXCEPT ![w] = joined]
    BY <1>2 DEF AcceptInvitation, AcceptFor
  <2> HIDE DEF s
  <2>2. /\ joined \in Memberships
        /\ \A t \in Swarms, v \in Users :
             joined[t][v] = IF t = s /\ v = u THEN "overseer" ELSE mmember[w][t][v]
    BY <1>2, <1>5 DEF Memberships, Roles
  <2> HIDE DEF joined
  <2> QED
    <3>1. /\ Admitted \subseteq Admitted' /\ invited \subseteq invited'
          /\ UNCHANGED <<swarm, mswarm, member, swarms, founded>>
      BY <1>3
    <3>2. JoinsOnly(joined, mmember[w])
      BY <1>5, <2>2 DEF JoinsOnly
    <3> QED
      BY <1>1, <2>1, <3>1, <3>2, MembersJoin
<1> QED
  BY <1>4, <1>6, <1>7, PartsNext

\* Only the memberships of others than the owner, known to be one, change.
LEMMA ChangeKeeps ==
  ASSUME IInv, NEW w \in Workers, NEW u \in Users, NEW s \in Swarms, NEW target \in Users,
         RemoveSwarmMember(w, u, s, target) \/ UpdateSwarmMember(w, u, s, target)
  PROVE  IInv'
<1>1. AccountsInv /\ GroupsInv /\ MailInv /\ WorkInv
  BY Parts
<1>2. PICK role \in {None, "overseer"}, next \in {"noted", "mirror"}, loaded \in SUBSET Users :
        ChangeMember(w, u, s, target, role, next, loaded)
  BY DEF RemoveSwarmMember, UpdateSwarmMember
<1>3. /\ UNCHANGED <<user, verification, reset, swarm, mswarm, member, swarms, founded>>
      /\ UNCHANGED <<invite, minvite, invites, invited, job, day, proved, trusted, Admitted, faults>>
      /\ Load(w, loaded)
  BY <1>2 DEF Admitted, ChangeMember, mail
<1>4. AccountsInv' /\ Grows
  BY <1>1, <1>3, AccountsReloaded
<1>5. MailInv'
  BY <1>1, <1>3, MailKept DEF MailInv, TypeOfMail
<1>6. WorkInv'
  <2>1. Call(w, next) \/ Call(w, "mirror")
    BY <1>2 DEF ChangeMember
  <2> QED
    BY <1>1, <1>3, <1>4, <2>1, WorkCall
<1>7. GroupsInv'
  <2>1. CASE ~Manageable(w, s, target)
    BY <2>1, <1>1, <1>2, <1>3, GroupsKept DEF ChangeMember
  <2>2. CASE Manageable(w, s, target)
    <3>1. /\ mmember \in [Workers -> Memberships] /\ mswarm[w][s] # target
          /\ mmember[w][s][target] # None
          /\ mmember' = [mmember EXCEPT ![w][s][target] = role]
      BY <2>2, <1>1, <1>2 DEF ChangeMember, Manageable, GroupsInv, TypeOfGroups
    <3>2. /\ mmember' \in [Workers -> Memberships]
          /\ \A x \in Workers, t \in Swarms, v \in Users :
               mmember'[x][t][v] = IF x = w /\ t = s /\ v = target THEN role
                                   ELSE mmember[x][t][v]
      BY <3>1 DEF Memberships, Roles
    <3>3. TypeOfGroups'
      BY <1>1, <1>3, <3>2 DEF GroupsInv, TypeOfGroups
    <3>4. Granted(s, target, role)'
      BY <1>1, <1>3, <3>1, RoleFacts DEF GroupsInv, Granted, EarnedRole, OverlordFounded
    <3>5. \A x \in Workers, t \in Swarms, v \in Users :
            mmember'[x][t][v] = mmember[x][t][v] \/ Granted(t, v, mmember[x][t][v])'
      BY <3>2, <3>4 DEF Granted, EarnedRole, OverlordFounded
    <3>6. OwnerIsMember'
      BY <1>1, <1>3 DEF GroupsInv, OwnerIsMember
    <3>7. \A x \in Workers, t \in Swarms : OwnerOnRecord(x, t)'
      BY <1>1, <1>3, <3>1, <3>2 DEF GroupsInv, TypeOfGroups, OwnerOnRecord, Owners
    <3> QED
      BY <1>1, <1>3, <3>3, <3>5, <3>6, <3>7, GroupsStep DEF FoundedStep
  <2> QED
    BY <2>1, <2>2
<1> QED
  BY <1>4, <1>5, <1>6, <1>7, PartsNext

\* Memory becomes what the rows are.
LEMMA OverviewKeeps ==
  ASSUME IInv, NEW w \in Workers, AdminOverview(w)
  PROVE  IInv'
<1>1. AccountsInv /\ GroupsInv /\ MailInv /\ WorkInv
  BY Parts
<1>2. /\ UNCHANGED <<user, verification, reset, swarm, member, swarms, founded>>
      /\ UNCHANGED <<invite, minvite, invites, invited, job, day, proved, trusted, Admitted, faults>>
  BY DEF Admitted, AdminOverview, mail
<1>3. /\ user \in Accounts /\ muser \in [Workers -> Accounts]
      /\ swarm \in Owners /\ mswarm \in [Workers -> Owners]
      /\ member \in Memberships /\ mmember \in [Workers -> Memberships]
  BY <1>1 DEF AccountsInv, TypeOfAccounts, GroupsInv, TypeOfGroups
<1>4. /\ \A x \in Workers : muser'[x] = IF x = w THEN user ELSE muser[x]
      /\ \A x \in Workers : mswarm'[x] = IF x = w THEN swarm ELSE mswarm[x]
      /\ \A x \in Workers : mmember'[x] = IF x = w THEN member ELSE mmember[x]
  BY <1>3 DEF AdminOverview
<1>5. /\ muser' \in [Workers -> Accounts] /\ mswarm' \in [Workers -> Owners]
      /\ mmember' \in [Workers -> Memberships]
  BY <1>3 DEF AdminOverview
<1>6. AccountsInv'
  BY <1>1, <1>2, <1>4, <1>5 DEF AccountsInv, TypeOfAccounts, EarnedAccount, LinksKnown
<1>7. GroupsInv'
  <2>1. TypeOfGroups'
    BY <1>1, <1>2, <1>5 DEF GroupsInv, TypeOfGroups
  <2>2. \A x \in Workers, s \in Swarms, u \in Users :
          mmember'[x][s][u] = mmember[x][s][u] \/ Granted(s, u, mmember[x][s][u])'
    <3> TAKE x \in Workers, s \in Swarms, u \in Users
    <3>1. Granted(s, u, member[s][u])
      BY <1>1 DEF GroupsInv, Granted
    <3>2. UNCHANGED <<founded, invited, Admitted>>
      BY <1>2
    <3> QED
      BY <1>4, <3>1, <3>2 DEF Granted, EarnedRole, OverlordFounded
  <2>3. \A x \in Workers, s \in Swarms :
          mswarm'[x][s] = mswarm[x][s] \/ OwnerFounded(s, mswarm[x][s])'
    BY <1>1, <1>2, <1>4 DEF GroupsInv, OwnerFounded
  <2>4. OwnerIsMember'
    BY <1>1, <1>2 DEF GroupsInv, OwnerIsMember
  <2>5. \A x \in Workers, s \in Swarms : OwnerOnRecord(x, s)'
    BY <1>1, <1>2, <1>4 DEF GroupsInv, OwnerOnRecord, OwnerIsMember
  <2> QED
    BY <1>1, <1>2, <2>1, <2>2, <2>3, <2>4, <2>5, GroupsStep DEF FoundedStep
<1>8. MailInv'
  BY <1>1, <1>2, MailKept DEF MailInv, TypeOfMail
<1>9. WorkInv'
  BY <1>1, <1>2, WorkCall DEF AdminOverview, Grows
<1> QED
  BY <1>6, <1>7, <1>8, <1>9, PartsNext

\* Memory loses a user with the swarms they own.
LEMMA EraseKeeps ==
  ASSUME IInv, NEW w \in Workers, NEW u \in Users, AdminDeleteUser(w, u)
  PROVE  IInv'
<1>1. AccountsInv /\ GroupsInv /\ MailInv /\ WorkInv
  BY Parts
<1>2. /\ UNCHANGED <<user, swarm, member, swarms, founded, proved, trusted, Admitted>>
      /\ UNCHANGED <<invite, invites, invited, job, day, faults>>
  BY DEF Admitted, AdminDeleteUser
<1> DEFINE gone == {s \in Swarms : mswarm[w][s] = u}
           owners == [s \in Swarms |-> IF s \in gone THEN None ELSE mswarm[w][s]]
           members == [s \in Swarms |-> [v \in Users |->
                         IF s \in gone \/ v = u THEN None ELSE mmember[w][s][v]]]
           all == [i \in Invites |->
                     IF /\ minvite[w][i] # None
                        /\ (minvite[w][i].swarm \in gone \/ minvite[w][i].email = u)
                     THEN None ELSE minvite[w][i]]
<1>3. /\ muser' = [muser EXCEPT ![w][u] = None]
      /\ verification' = [verification EXCEPT ![w] = @ \ {u}]
      /\ reset' = [reset EXCEPT ![w] = @ \ {u}]
      /\ mswarm' = [mswarm EXCEPT ![w] = owners]
      /\ mmember' = [mmember EXCEPT ![w] = members]
      /\ minvite' = [minvite EXCEPT ![w] = all]
  BY DEF AdminDeleteUser, EraseUser, Forget
<1>4. AccountsInv'
  <2>1. /\ muser \in [Workers -> Accounts] /\ verification \in [Workers -> SUBSET Users]
        /\ reset \in [Workers -> SUBSET Users]
    BY <1>1 DEF AccountsInv, TypeOfAccounts
  <2>2. /\ muser' \in [Workers -> Accounts]
        /\ \A x \in Workers, v \in Users : muser'[x][v] = muser[x][v] \/ muser'[x][v] = None
    BY <1>3, <2>1 DEF Accounts
  <2>3. /\ verification' \in [Workers -> SUBSET Users] /\ reset' \in [Workers -> SUBSET Users]
        /\ \A x \in Workers : verification'[x] \subseteq verification[x]
                              /\ reset'[x] \subseteq reset[x]
    BY <1>3, <2>1
  <2> QED
    BY <1>1, <1>2, <2>2, <2>3 DEF AccountsInv, TypeOfAccounts, EarnedAccount, LinksKnown
<1>5. /\ mswarm \in [Workers -> Owners] /\ mmember \in [Workers -> Memberships]
      /\ minvite \in [Workers -> Invitations]
  BY <1>1 DEF GroupsInv, TypeOfGroups, MailInv, TypeOfMail
<1>6. owners \in Owners /\ members \in Memberships /\ all \in Invitations
  BY <1>5 DEF Owners, Memberships, Invitations
<1>7. \A s \in Swarms :
        /\ owners[s] \notin {u} /\ (owners[s] = mswarm[w][s] \/ owners[s] = None)
        /\ \A v \in Users : members[s][v] = mmember[w][s][v] \/ members[s][v] = None
        /\ \A v \in Users : owners[s] # None /\ v # u => members[s][v] = mmember[w][s][v]
  OBVIOUS
<1>8. \A i \in Invites : all[i] = minvite[w][i] \/ all[i] = None
  OBVIOUS
<1> HIDE DEF owners, members, all
<1>9. /\ mswarm' \in [Workers -> Owners] /\ mmember' \in [Workers -> Memberships]
      /\ \A x \in Workers : mswarm'[x] = IF x = w THEN owners ELSE mswarm[x]
      /\ \A x \in Workers : mmember'[x] = IF x = w THEN members ELSE mmember[x]
  BY <1>3, <1>5, <1>6
<1>10. GroupsInv'
  <2>1. TypeOfGroups'
    BY <1>1, <1>2, <1>9 DEF GroupsInv, TypeOfGroups
  <2>2. \A x \in Workers, s \in Swarms, v \in Users :
          mmember'[x][s][v] = mmember[x][s][v] \/ Granted(s, v, mmember[x][s][v])'
    BY <1>7, <1>9, RoleFacts DEF Granted, EarnedRole, OverlordFounded
  <2>3. \A x \in Workers, s \in Swarms :
          mswarm'[x][s] = mswarm[x][s] \/ OwnerFounded(s, mswarm[x][s])'
    BY <1>7, <1>9 DEF OwnerFounded
  <2>4. OwnerIsMember'
    BY <1>1, <1>2 DEF GroupsInv, OwnerIsMember
  <2>5. \A x \in Workers, s \in Swarms : OwnerOnRecord(x, s)'
    <3> TAKE x \in Workers, s \in Swarms
    <3>1. OwnerOnRecord(x, s) /\ mswarm[x][s] \in Users \cup {None}
      BY <1>1, <1>5 DEF GroupsInv, Owners
    <3>2. CASE x # w
      BY <3>1, <3>2, <1>2, <1>9 DEF OwnerOnRecord
    <3>3. CASE x = w /\ owners[s] # None
      <4>1. owners[s] = mswarm[w][s] /\ owners[s] # u /\ owners[s] \in Users
        BY <3>1, <3>3, <1>7
      <4>2. members[s][owners[s]] = mmember[w][s][owners[s]]
        BY <3>3, <4>1, <1>7
      <4> QED
        BY <3>1, <3>3, <4>1, <4>2, <1>2, <1>9 DEF OwnerOnRecord
    <3>4. CASE x = w /\ owners[s] = None
      BY <3>4, <1>9 DEF OwnerOnRecord
    <3> QED
      BY <3>2, <3>3, <3>4
  <2> QED
    BY <1>1, <1>2, <2>1, <2>2, <2>3, <2>4, <2>5, GroupsStep DEF FoundedStep
<1>11. MailInv'
  BY <1>1, <1>2, <1>3, <1>6, <1>8, MailStep DEF MailInv, TypeOfMail
<1>12. WorkInv'
  BY <1>1, <1>2, WorkCall DEF AdminDeleteUser, Grows
<1> QED
  BY <1>4, <1>10, <1>11, <1>12, PartsNext

\* Over takes each entry from one side or the other.
LEMMA OverFacts ==
  /\ \A mine, theirs \in Accounts :
       /\ Over(mine, theirs) \in Accounts
       /\ \A u \in Users : Over(mine, theirs)[u] = IF mine[u] = None THEN theirs[u] ELSE mine[u]
  /\ \A mine, theirs \in Owners :
       /\ Over(mine, theirs) \in Owners
       /\ \A s \in Swarms : Over(mine, theirs)[s] = IF mine[s] = None THEN theirs[s] ELSE mine[s]
  /\ \A mine, theirs \in [Users -> Roles \cup {None}] :
       /\ Over(mine, theirs) \in [Users -> Roles \cup {None}]
       /\ \A u \in Users : Over(mine, theirs)[u] = IF mine[u] = None THEN theirs[u] ELSE mine[u]
  /\ \A mine, theirs \in Invitations :
       /\ Over(mine, theirs) \in Invitations
       /\ \A i \in Invites : Over(mine, theirs)[i] = IF mine[i] = None THEN theirs[i] ELSE mine[i]
  BY DEF Over, Accounts, Owners, Invitations

\* The mirror merges what was earned on either side.
LEMMA MirrorKeeps ==
  ASSUME IInv, NEW w \in Workers, PersistState(w)
  PROVE  IInv'
<1>1. AccountsInv /\ GroupsInv /\ MailInv /\ WorkInv
  BY Parts
<1>2. /\ UNCHANGED <<muser, verification, reset, mswarm, mmember, swarms, founded>>
      /\ UNCHANGED <<minvite, invites, invited, job, calls, day, proved, trusted, Admitted>>
      /\ faults' = faults \/ Fault
  BY DEF Admitted, PersistState
<1>3. /\ user \in Accounts /\ muser[w] \in Accounts
      /\ swarm \in Owners /\ mswarm[w] \in Owners
      /\ member \in Memberships /\ mmember[w] \in Memberships
      /\ invite \in Invitations /\ minvite[w] \in Invitations
  BY <1>1 DEF AccountsInv, TypeOfAccounts, GroupsInv, TypeOfGroups, MailInv, TypeOfMail
<1>4. Grows => WorkInv'
  <2> SUFFICES ASSUME Grows PROVE WorkInv'
    OBVIOUS
  <2>1. /\ stage[w] \in DOMAIN AfterMirror /\ AfterMirror[stage[w]] \in Stages
        /\ stage' = [stage EXCEPT ![w] = AfterMirror[stage[w]]]
    BY StageFacts DEF PersistState, Resume
  <2>2. faults' \in 0..MaxFaults
    BY <1>1, <1>2 DEF WorkInv, TypeOfWork, Fault
  <2>3. TypeOfWork'
    BY <1>1, <1>2, <2>1, <2>2 DEF WorkInv, TypeOfWork
  <2>4. /\ AfterMirror[stage[w]] \notin {"created", "alerted", "invited"}
        /\ AfterMirror[stage[w]] = "welcome" => stage[w] = "created"
        /\ AfterMirror[stage[w]] = "greet" => stage[w] = "alerted"
        /\ AfterMirror[stage[w]] = "autoaccept" => stage[w] = "invited"
    BY <2>1 DEF AfterMirror
  <2>5. JobKnown'
    BY <1>1, <1>2, <2>1, <2>4, JobFacts DEF WorkInv, TypeOfWork, JobKnown, Grows
  <2> QED
    BY <2>3, <2>5 DEF WorkInv
<1>5. CASE UNCHANGED <<user, swarm, member, invite>>
  <2>1. AccountsInv' /\ Grows
    BY <1>1, <1>2, <1>5 DEF AccountsInv, TypeOfAccounts, EarnedAccount, LinksKnown, Grows
  <2>2. GroupsInv' /\ MailInv'
    BY <1>1, <1>2, <1>5, GroupsKept, MailKept DEF MailInv, TypeOfMail
  <2> QED
    BY <1>4, <2>1, <2>2, PartsNext
<1>6. CASE /\ user' = Over(muser[w], user) /\ swarm' = Over(mswarm[w], swarm)
           /\ member' = MirroredMembers(w) /\ invite' = Over(minvite[w], invite)
  <2>1. /\ user' \in Accounts
        /\ \A u \in Users : user'[u] = IF muser[w][u] = None THEN user[u] ELSE muser[w][u]
    BY <1>3, <1>6, OverFacts
  <2>2. /\ swarm' \in Owners
        /\ \A s \in Swarms : swarm'[s] = IF mswarm[w][s] = None THEN swarm[s] ELSE mswarm[w][s]
    BY <1>3, <1>6, OverFacts
  <2>3. /\ member' \in Memberships
        /\ \A s \in Swarms, u \in Users :
             member'[s][u] = IF mmember[w][s][u] = None THEN member[s][u] ELSE mmember[w][s][u]
    <3>1. \A s \in Swarms : /\ mmember[w][s] \in [Users -> Roles \cup {None}]
                            /\ member[s] \in [Users -> Roles \cup {None}]
      BY <1>3 DEF Memberships
    <3>2. member' = [s \in Swarms |-> Over(mmember[w][s], member[s])]
      BY <1>6 DEF MirroredMembers
    <3>3. \A s \in Swarms : Over(mmember[w][s], member[s]) \in [Users -> Roles \cup {None}]
      BY <3>1, OverFacts
    <3>4. \A s \in Swarms, u \in Users :
            Over(mmember[w][s], member[s])[u]
              = IF mmember[w][s][u] = None THEN member[s][u] ELSE mmember[w][s][u]
      BY <3>1, OverFacts
    <3> QED
      BY <3>2, <3>3, <3>4 DEF Memberships
  <2>4. /\ invite' \in Invitations
        /\ \A i \in Invites : invite'[i] = IF minvite[w][i] = None THEN invite[i] ELSE minvite[w][i]
    BY <1>3, <1>6, OverFacts
  <2>5. AccountsInv' /\ Grows
    BY <1>1, <1>2, <2>1 DEF AccountsInv, TypeOfAccounts, EarnedAccount, LinksKnown, Grows
  <2>6. MailInv'
    BY <1>1, <1>2, <2>4 DEF MailInv, TypeOfMail, EarnedAnswer, InvitedOnRecord
  <2>7. GroupsInv'
    <3>1. TypeOfGroups'
      BY <1>1, <1>2, <2>2, <2>3 DEF GroupsInv, TypeOfGroups
    <3>2. \A s \in Swarms, u \in Users :
            member'[s][u] = member[s][u] \/ Granted(s, u, member[s][u])'
      <4> TAKE s \in Swarms, u \in Users
      <4>1. Granted(s, u, mmember[w][s][u])
        BY <1>1 DEF GroupsInv, Granted
      <4>2. UNCHANGED <<founded, invited, Admitted>>
        BY <1>2
      <4> QED
        BY <2>3, <4>1, <4>2 DEF Granted, EarnedRole, OverlordFounded
    <3>3. \A s \in Swarms : swarm'[s] = swarm[s] \/ OwnerFounded(s, swarm[s])'
      BY <1>1, <1>2, <2>2 DEF GroupsInv, OwnerFounded
    <3>4. \A s \in Swarms, u \in Users :
            (member[s][u] # None \/ mmember[w][s][u] # None) => member'[s][u] # None
      BY <2>3
    <3>5. OwnerIsMember'
      BY <1>1, <1>3, <2>2, <3>4 DEF GroupsInv, OwnerIsMember, OwnerOnRecord, Owners
    <3>6. \A x \in Workers, s \in Swarms : OwnerOnRecord(x, s)'
      <4> TAKE x \in Workers, s \in Swarms
      <4>1. OwnerOnRecord(x, s) /\ mswarm[x][s] \in Users \cup {None}
        BY <1>1 DEF GroupsInv, TypeOfGroups, Owners
      <4> QED
        BY <1>2, <3>4, <4>1 DEF OwnerOnRecord
    <3> QED
      BY <1>1, <1>2, <3>1, <3>2, <3>3, <3>5, <3>6, GroupsStep DEF FoundedStep
  <2> QED
    BY <1>4, <2>5, <2>6, <2>7, PartsNext
<1> QED
  BY <1>5, <1>6 DEF PersistState

\* A worker starts over with nothing.
LEMMA RecycleKeeps ==
  ASSUME IInv, NEW w \in Workers, Recycle(w)
  PROVE  IInv'
<1>1. AccountsInv /\ GroupsInv /\ MailInv /\ WorkInv
  BY Parts
<1>2. /\ UNCHANGED <<user, swarm, member, swarms, founded, invite, invites, invited>>
      /\ UNCHANGED <<calls, day, proved, trusted, Admitted>>
  BY DEF Admitted, Recycle
<1>3. /\ NoAccounts \in Accounts /\ NoSwarms \in Owners
      /\ NoMembers \in Memberships /\ NoInvites \in Invitations
  BY DEF NoAccounts, NoSwarms, NoMembers, NoInvites, Accounts, Owners, Memberships, Invitations
<1>4. AccountsInv'
  <2>1. /\ muser \in [Workers -> Accounts] /\ verification \in [Workers -> SUBSET Users]
        /\ reset \in [Workers -> SUBSET Users]
    BY <1>1 DEF AccountsInv, TypeOfAccounts
  <2>2. /\ muser' \in [Workers -> Accounts]
        /\ \A x \in Workers, u \in Users : muser'[x][u] = muser[x][u] \/ muser'[x][u] = None
    BY <1>3, <2>1 DEF Recycle, NoAccounts
  <2>3. /\ verification' \in [Workers -> SUBSET Users] /\ reset' \in [Workers -> SUBSET Users]
        /\ \A x \in Workers : verification'[x] \subseteq verification[x]
                              /\ reset'[x] \subseteq reset[x]
    BY <2>1 DEF Recycle
  <2> QED
    BY <1>1, <1>2, <2>2, <2>3 DEF AccountsInv, TypeOfAccounts, EarnedAccount, LinksKnown
<1>5. GroupsInv'
  <2>1. mswarm \in [Workers -> Owners] /\ mmember \in [Workers -> Memberships]
    BY <1>1 DEF GroupsInv, TypeOfGroups
  <2>2. /\ mswarm' \in [Workers -> Owners] /\ mmember' \in [Workers -> Memberships]
        /\ \A x \in Workers : mswarm'[x] = IF x = w THEN NoSwarms ELSE mswarm[x]
        /\ \A x \in Workers : mmember'[x] = IF x = w THEN NoMembers ELSE mmember[x]
    BY <1>3, <2>1 DEF Recycle
  <2>3. \A s \in Swarms : NoSwarms[s] = None /\ \A u \in Users : NoMembers[s][u] = None
    BY DEF NoSwarms, NoMembers
  <2>4. TypeOfGroups'
    BY <1>1, <1>2, <2>2 DEF GroupsInv, TypeOfGroups
  <2>5. \A x \in Workers, s \in Swarms, u \in Users :
          mmember'[x][s][u] = mmember[x][s][u] \/ Granted(s, u, mmember[x][s][u])'
    BY <2>2, <2>3, RoleFacts DEF Granted, EarnedRole, OverlordFounded
  <2>6. \A x \in Workers, s \in Swarms :
          mswarm'[x][s] = mswarm[x][s] \/ OwnerFounded(s, mswarm[x][s])'
    BY <2>2, <2>3 DEF OwnerFounded
  <2>7. OwnerIsMember'
    BY <1>1, <1>2 DEF GroupsInv, OwnerIsMember
  <2>8. \A x \in Workers, s \in Swarms : OwnerOnRecord(x, s)'
    BY <1>1, <1>2, <2>2, <2>3 DEF GroupsInv, OwnerOnRecord
  <2> QED
    BY <1>1, <1>2, <2>4, <2>5, <2>6, <2>7, <2>8, GroupsStep DEF FoundedStep
<1>6. MailInv'
  <2>1. \A i \in Invites : NoInvites[i] = None
    BY DEF NoInvites
  <2>2. minvite' = [minvite EXCEPT ![w] = NoInvites]
    BY DEF Recycle
  <2> QED
    BY <1>1, <1>2, <1>3, <2>1, <2>2, MailStep DEF MailInv, TypeOfMail
<1>7. WorkInv'
  <2>1. faults' \in 0..MaxFaults
    BY <1>1 DEF Recycle, WorkInv, TypeOfWork, Fault
  <2>2. /\ stage' = [stage EXCEPT ![w] = "idle"] /\ "idle" \in Stages
        /\ job' = [job EXCEPT ![w] = None]
    BY StageFacts DEF Recycle
  <2>3. TypeOfWork'
    BY <1>1, <1>2, <2>1, <2>2 DEF WorkInv, TypeOfWork
  <2>4. JobKnown'
    BY <1>1, <1>2, <2>2, JobFacts DEF WorkInv, TypeOfWork, JobKnown
  <2> QED
    BY <2>3, <2>4 DEF WorkInv
<1> QED
  BY <1>4, <1>5, <1>6, <1>7, PartsNext

\* Time passes.
LEMMA NextDayKeeps == IInv /\ NextDay => IInv'
<1> SUFFICES ASSUME IInv, NextDay PROVE IInv'
  OBVIOUS
<1>1. AccountsInv /\ GroupsInv /\ MailInv /\ WorkInv
  BY Parts
<1>2. /\ UNCHANGED <<user, muser, verification, reset, swarm, mswarm, member, mmember>>
      /\ UNCHANGED <<swarms, founded, invite, minvite, invites, invited, stage, job, calls>>
      /\ UNCHANGED <<proved, trusted, Admitted, faults>>
  BY DEF Admitted, NextDay, accounts, groups, mail, work
<1>3. day' \in 0..MaxDay
  BY <1>1 DEF NextDay, MailInv, TypeOfMail
<1>4. AccountsInv' /\ WorkInv'
  BY <1>1, <1>2 DEF AccountsInv, TypeOfAccounts, EarnedAccount, LinksKnown,
                    WorkInv, TypeOfWork, JobKnown
<1>5. GroupsInv' /\ MailInv'
  BY <1>1, <1>2, <1>3, GroupsKept, MailKept
<1> QED
  BY <1>4, <1>5, PartsNext

\* Of the memberships only u's have come up: owner of s, and invited.
LogsIn(new, old, s, u) ==
  /\ new \in Memberships /\ new[s][u] # None
  /\ \A t \in Swarms, v \in Users :
       \/ new[t][v] = old[t][v]
       \/ new[t][v] = "overlord" /\ t = s /\ v = u
       \/ new[t][v] = "overseer" /\ <<t, u>> \in invited /\ v = u

\* The word of the provider: account, personal swarm and invitations at once.
LEMMA SocialKeeps ==
  ASSUME IInv, NEW w \in Workers, NEW u \in Users, SocialLogin(w, u)
  PROVE  IInv'
<1>1. AccountsInv /\ GroupsInv /\ MailInv /\ WorkInv
  BY Parts
<1>2. PICK s \in Swarms :
        /\ IsPersonal(s, u) /\ SocialUser(w, u, s) /\ (Prove(u) \/ Trust(u))
        /\ IF Owned(u) # {} THEN UNCHANGED <<swarms, founded>>
           ELSE swarms' = s /\ founded' = founded \cup {<<s, u>>}
  BY DEF SocialLogin
<1>3. /\ Call(w, "idle")
      /\ UNCHANGED <<verification, reset, minvite, invites, invited, job, day, faults>>
  BY DEF SocialLogin
<1>4. /\ user \in Accounts /\ Admitted \subseteq Users
      /\ swarm \in Owners /\ mswarm \in [Workers -> Owners]
      /\ member \in Memberships /\ mmember \in [Workers -> Memberships]
      /\ invite \in Invitations /\ founded \subseteq Swarms \X Users
  BY <1>1 DEF Admitted, AccountsInv, TypeOfAccounts, GroupsInv, TypeOfGroups, MailInv, TypeOfMail
<1>a. /\ Admitted' = Admitted \cup {u} /\ Admitted' \subseteq Users
      /\ Admitted \subseteq Admitted' /\ u \in Admitted'
  <2>1. Prove(u) \/ Trust(u)
    BY <1>2
  <2> QED
    BY <1>1, <2>1, AdmissionFacts DEF AccountsInv, TypeOfAccounts
<1>5. AccountsInv' /\ Grows
  <2> DEFINE row == Verified(user[u])
  <2>1. row \in Account
    BY <1>4 DEF Verified, NewAccount, Accounts, Account
  <2>2. user' = [user EXCEPT ![u] = row] /\ Load(w, {u})
    BY <1>2 DEF SocialUser, CompleteSocialLogin
  <2> HIDE DEF row
  <2>3. /\ trusted' # {} => TRUE \in AutoVerify \/ Providers
        /\ verification' \in [Workers -> SUBSET Users]
        /\ \A x \in Workers : verification'[x] \subseteq verification[x] \cup {u}
    BY <1>1, <1>3 DEF AccountsInv, TypeOfAccounts, SocialLogin
  <2> QED
    BY <1>a, <1>1, <1>3, <2>1, <2>2, <2>3, UserWritten
<1>6. WorkInv'
  BY <1>1, <1>3, <1>5, WorkCall
<1>7. /\ FoundedStep /\ founded \subseteq founded' /\ founded' \subseteq Swarms \X Users
      /\ <<s, u>> \in founded' /\ swarms' \in 0..MaxSwarms
  <2>1. CASE Owned(u) # {}
    <3>1. swarm[s] = u
      BY <2>1, <1>2 DEF IsPersonal, Owned
    <3> QED
      BY <2>1, <3>1, <1>1, <1>2 DEF GroupsInv, TypeOfGroups, OwnerFounded, FoundedStep
  <2>2. CASE Owned(u) = {}
    <3>1. swarms' = s /\ founded' = founded \cup {<<s, u>>} /\ s = swarms + 1
      BY <2>2, <1>2 DEF IsPersonal
    <3> QED
      BY <3>1, <1>1 DEF GroupsInv, TypeOfGroups, FoundedStep
  <2> QED
    BY <2>1, <2>2
<1>8. ASSUME NEW members \in Memberships
      PROVE  LogsIn(Joining([members EXCEPT ![s][u] = "overlord"], invite, u), members, s, u)
  <2> DEFINE P == [members EXCEPT ![s][u] = "overlord"]
             J == Joining(P, invite, u)
  <2>1. /\ P \in Memberships
        /\ \A t \in Swarms, v \in Users :
             P[t][v] = IF t = s /\ v = u THEN "overlord" ELSE members[t][v]
    BY DEF Memberships, Roles
  <2> HIDE DEF P
  <2>2. J \in Memberships
    BY <1>4, <2>1, JoiningFacts
  <2>3. \A t \in Swarms, v \in Users :
          \/ J[t][v] = P[t][v]
          \/ /\ v = u /\ J[t][v] = "overseer"
             /\ \E i \in Invites : Mine(invite[i], u) /\ invite[i].swarm = t
    BY <1>4, <2>1, JoiningFacts
  <2>4. ASSUME NEW i \in Invites, Mine(invite[i], u)
        PROVE  <<invite[i].swarm, u>> \in invited
    BY <2>4, <1>1 DEF MailInv, InvitedOnRecord, Mine, IsOpen
  <2> HIDE DEF J
  <2>5. J[s][u] # None
    BY <2>1, <2>3, RoleFacts
  <2>6. \A t \in Swarms, v \in Users :
          \/ J[t][v] = members[t][v]
          \/ J[t][v] = "overlord" /\ t = s /\ v = u
          \/ J[t][v] = "overseer" /\ <<t, u>> \in invited /\ v = u
    <3> TAKE t \in Swarms, v \in Users
    <3>1. CASE J[t][v] = P[t][v]
      BY <3>1, <1>7, <2>1
    <3>2. CASE /\ v = u /\ J[t][v] = "overseer"
               /\ \E i \in Invites : Mine(invite[i], u) /\ invite[i].swarm = t
      BY <3>2, <2>4
    <3> QED
      BY <3>1, <3>2, <2>3
  <2> USE DEF J, P
  <2> QED
    BY <2>2, <2>5, <2>6 DEF LogsIn
<1> DEFINE joined == Joining([mmember[w] EXCEPT ![s][u] = "overlord"], invite, u)
<1>9. /\ member' = Joining([member EXCEPT ![s][u] = "overlord"], invite, u)
      /\ mmember' = [mmember EXCEPT ![w] = joined]
      /\ swarm' = [swarm EXCEPT ![s] = IF @ = None THEN u ELSE @]
      /\ mswarm' = [mswarm EXCEPT ![w][s] = swarm'[s]]
      /\ invite' = Accepting(invite, u)
  BY <1>2 DEF SocialUser, CompleteSocialLogin, RecordRelationships
<1>10. /\ member' \in Memberships /\ member'[s][u] # None
       /\ \A t \in Swarms, v \in Users :
            \/ member'[t][v] = member[t][v]
            \/ member'[t][v] # None /\ Granted(t, v, member[t][v])'
  <2>1. /\ member' \in Memberships /\ member'[s][u] # None
        /\ \A t \in Swarms, v \in Users :
             \/ member'[t][v] = member[t][v]
             \/ member'[t][v] = "overlord" /\ t = s /\ v = u
             \/ member'[t][v] = "overseer" /\ <<t, u>> \in invited /\ v = u
    <3>1. LogsIn(member', member, s, u)
      BY <1>4, <1>8, <1>9
    <3> QED
      BY <3>1 DEF LogsIn
  <2> QED
    BY <1>3, <1>7, <1>a, <2>1, RoleFacts DEF Granted, EarnedRole, OverlordFounded
<1>11. /\ mmember' \in [Workers -> Memberships]
       /\ \A x \in Workers, t \in Swarms, v \in Users :
            \/ mmember'[x][t][v] = mmember[x][t][v]
            \/ mmember'[x][t][v] # None /\ Granted(t, v, mmember[x][t][v])'
  <2>1. /\ joined \in Memberships
        /\ \A t \in Swarms, v \in Users :
             \/ joined[t][v] = mmember[w][t][v]
             \/ joined[t][v] = "overlord" /\ t = s /\ v = u
             \/ joined[t][v] = "overseer" /\ <<t, u>> \in invited /\ v = u
    <3>1. LogsIn(joined, mmember[w], s, u)
      BY <1>4, <1>8
    <3> QED
      BY <3>1 DEF LogsIn
  <2>2. mmember' = [mmember EXCEPT ![w] = joined]
    BY <1>9
  <2> HIDE DEF joined
  <2>3. /\ mmember' \in [Workers -> Memberships]
        /\ \A x \in Workers : mmember'[x] = IF x = w THEN joined ELSE mmember[x]
    BY <1>4, <2>1, <2>2
  <2>4. \A x \in Workers, t \in Swarms, v \in Users :
          \/ mmember'[x][t][v] = mmember[x][t][v]
          \/ mmember'[x][t][v] = "overlord" /\ t = s /\ v = u
          \/ mmember'[x][t][v] = "overseer" /\ <<t, u>> \in invited /\ v = u
    <3> TAKE x \in Workers, t \in Swarms, v \in Users
    <3>1. CASE x = w
      BY <3>1, <2>1, <2>3
    <3>2. CASE x # w
      BY <3>2, <2>3
    <3> QED
      BY <3>1, <3>2
  <2>5. ASSUME NEW x \in Workers, NEW t \in Swarms, NEW v \in Users
        PROVE  \/ mmember'[x][t][v] = mmember[x][t][v]
               \/ mmember'[x][t][v] # None /\ Granted(t, v, mmember[x][t][v])'
    <3>1. CASE mmember'[x][t][v] = mmember[x][t][v]
      BY <3>1
    <3>2. CASE mmember'[x][t][v] = "overlord" /\ t = s /\ v = u
      BY <3>2, <1>7, RoleFacts DEF Granted, EarnedRole, OverlordFounded
    <3>3. CASE mmember'[x][t][v] = "overseer" /\ <<t, u>> \in invited /\ v = u
      BY <3>3, <1>3, <1>a, RoleFacts DEF Granted, EarnedRole, OverlordFounded
    <3> QED
      BY <2>4, <3>1, <3>2, <3>3
  <2> QED
    BY <2>3, <2>5
<1> HIDE DEF joined
<1>12. /\ swarm' \in Owners /\ swarm'[s] # None /\ swarm'[s] \in Users
       /\ \A t \in Swarms : swarm'[t] = swarm[t] \/ (t = s /\ swarm'[s] = u)
  BY <1>4, <1>9 DEF Owners
<1>13. /\ mswarm' \in [Workers -> Owners]
       /\ \A x \in Workers, t \in Swarms :
            mswarm'[x][t] = mswarm[x][t] \/ (t = s /\ mswarm'[x][t] = swarm'[s])
  <2>1. swarm'[s] \in Users \cup {None}
    BY <1>12
  <2> QED
    BY <1>4, <1>9, <2>1 DEF Owners
<1>14. GroupsInv'
  <2>1. TypeOfGroups'
    BY <1>7, <1>10, <1>11, <1>12, <1>13 DEF TypeOfGroups
  <2>2. \A t \in Swarms : swarm'[t] = swarm[t] \/ OwnerFounded(t, swarm[t])'
    BY <1>7, <1>12 DEF OwnerFounded
  <2>3. \A t \in Swarms : OwnerFounded(t, swarm[t])'
    BY <1>1, <1>7, <2>2 DEF GroupsInv, OwnerFounded
  <2>4. \A x \in Workers, t \in Swarms :
          mswarm'[x][t] = mswarm[x][t] \/ OwnerFounded(t, mswarm[x][t])'
    BY <1>13, <2>3 DEF OwnerFounded
  <2>5. OwnerIsMember'
    BY <1>1, <1>4, <1>10, <1>12 DEF GroupsInv, OwnerIsMember, Owners
  <2>6. \A x \in Workers, t \in Swarms : OwnerOnRecord(x, t)'
    <3> TAKE x \in Workers, t \in Swarms
    <3>1. CASE mswarm'[x][t] = mswarm[x][t]
      <4>1. OwnerOnRecord(x, t) /\ mswarm[x][t] \in Users \cup {None}
        BY <1>1, <1>4 DEF GroupsInv, Owners
      <4> QED
        BY <3>1, <4>1, <1>10, <1>11 DEF OwnerOnRecord
    <3>2. CASE t = s /\ mswarm'[x][t] = swarm'[s]
      BY <3>2, <2>5, <1>12 DEF OwnerIsMember, OwnerOnRecord
    <3> QED
      BY <3>1, <3>2, <1>13
  <2>7. Admitted \subseteq Admitted' /\ invited \subseteq invited'
    BY <1>a, <1>3
  <2> QED
    BY <1>1, <1>7, <1>10, <1>11, <2>1, <2>2, <2>4, <2>5, <2>6, <2>7, GroupsStep
<1>15. MailInv'
  <2>1. /\ invite' \in Invitations
        /\ \A i \in Invites :
             \/ invite'[i] = invite[i]
             \/ /\ invite[i] # None /\ invite[i].email = u
                /\ invite'[i].swarm = invite[i].swarm /\ invite'[i].email = u
    BY <1>4, <1>9, AcceptingFacts
  <2>2. UNCHANGED <<minvite, invites, invited, day>> /\ Admitted' = Admitted \cup {u}
    BY <1>a, <1>3
  <2>3. ASSUME NEW i \in Invites
        PROVE  EarnedAnswer(invite[i])' /\ InvitedOnRecord(invite[i])'
    <3>1. invite[i] # None => /\ invite[i].accepted => invite[i].email \in Admitted
                              /\ <<invite[i].swarm, invite[i].email>> \in invited
      BY <1>1 DEF MailInv, EarnedAnswer, InvitedOnRecord
    <3>2. CASE invite'[i] = invite[i]
      BY <3>1, <3>2, <2>2 DEF EarnedAnswer, InvitedOnRecord
    <3>3. CASE invite[i] # None /\ invite[i].email = u
               /\ invite'[i].swarm = invite[i].swarm /\ invite'[i].email = u
      BY <3>1, <3>3, <2>2 DEF EarnedAnswer, InvitedOnRecord
    <3> QED
      BY <3>2, <3>3, <2>1
  <2> QED
    BY <1>1, <2>1, <2>2, <2>3 DEF MailInv, TypeOfMail, EarnedAnswer, InvitedOnRecord
<1> QED
  BY <1>5, <1>6, <1>14, <1>15, PartsNext

\* No step breaks it.
LEMMA NextKeeps == IInv /\ [Next]_vars => IInv'
<1> SUFFICES ASSUME IInv, [Next]_vars PROVE IInv'
  OBVIOUS
<1>1. CASE NextDay
  BY <1>1, NextDayKeeps
<1>2. CASE UNCHANGED vars
  <2>1. UNCHANGED <<user, muser, verification, reset, swarm, mswarm, member, mmember,
                    swarms, founded, invite, minvite, invites, invited, stage, job, calls,
                    day, proved, trusted, Admitted, faults>>
    BY <1>2 DEF Admitted, vars, accounts, groups, mail, work
  <2> QED
    BY <2>1 DEF IInv, TypeOK, TypeOfAccounts, TypeOfGroups, TypeOfMail, TypeOfWork,
                AccessIsEarned, OnlyFoundersAreOverlords, OwnerIsMember, Provenance,
                LinksKnown, JobKnown, EarnedAccount, EarnedRole, EarnedAnswer,
                OverlordFounded, InvitedOnRecord, OwnerFounded, OwnerOnRecord, SystemSwarm
<1>3. ASSUME NEW w \in Workers, NEW u \in Users,
             \/ Register(w, u) \/ Login(w, u) \/ SocialLogin(w, u)
             \/ UpdateProfile(w, u) \/ ResendVerification(w, u)
             \/ VerifyEmailCode(w, u) \/ VerifyEmailLink(w, u)
             \/ ForgotPassword(w, u) \/ ResetPassword(w, u)
             \/ CreateSwarm(w, u) \/ RegisterDrone(w, u) \/ AdminDeleteUser(w, u)
      PROVE  IInv'
  BY <1>3, RegisterKeeps, QuietActions, SocialKeeps, VerifyKeeps, ResetKeeps, CreateKeeps,
     EraseKeeps, RegisterDroneKeeps
<1>4. ASSUME NEW w \in Workers, NEW u \in Users, NEW s \in Swarms,
             RenameSwarm(w, u, s) \/ GetSwarmAccess(w, u, s)
      PROVE  IInv'
  BY <1>4, RenameKeeps, QuietActions
<1>5. ASSUME NEW w \in Workers, NEW u \in Users, NEW s \in Swarms, NEW target \in Users,
             \/ InviteSwarmMember(w, u, s, target)
             \/ RemoveSwarmMember(w, u, s, target) \/ UpdateSwarmMember(w, u, s, target)
      PROVE  IInv'
  BY <1>5, InviteKeeps, ChangeKeeps
<1>6. ASSUME NEW w \in Workers, NEW u \in Users, NEW i \in Invites,
             \/ ResendInvitation(w, u, i) \/ RemoveInvitation(w, u, i)
             \/ AcceptInvitation(w, u, i)
      PROVE  IInv'
  BY <1>6, InvitationKeeps, AcceptKeeps
<1>7. ASSUME NEW w \in Workers,
             \/ \E i \in Invites : InvitationStatus(w, i)
             \/ Welcome(w) \/ Greet(w) \/ AutoAccept(w) \/ AdminOverview(w)
             \/ PersistState(w) \/ Recycle(w)
      PROVE  IInv'
  BY <1>7, QuietActions, WelcomeKeeps, GreetKeeps, AutoAcceptKeeps, OverviewKeeps, MirrorKeeps, RecycleKeeps
<1> QED
  BY <1>1, <1>2, <1>3, <1>4, <1>5, <1>6, <1>7 DEF Next

\* The variables always have their types: rows and memories of every worker
\* hold what the code puts there, whatever is merged.
THEOREM TypesHold == Spec => []TypeOK
<1>1. IInv => TypeOK
  BY DEF IInv
<1> QED
  BY <1>1, InitKeeps, NextKeeps, PTL DEF Spec

\* An account is verified and an invitation accepted, in the rows or in any
\* worker's memory, only for somebody who proved the address, or whom a
\* deployment that does so took on trust; and a member of a swarm founded it or
\* was invited to it at such an address.
THEOREM AccessEarned == Spec => []AccessIsEarned
<1>1. IInv => AccessIsEarned
  BY DEF IInv
<1> QED
  BY <1>1, InitKeeps, NextKeeps, PTL DEF Spec

\* No other than who founded a swarm is ever its overlord.
THEOREM FoundersRule == Spec => []OnlyFoundersAreOverlords
<1>1. IInv => OnlyFoundersAreOverlords
  BY DEF IInv
<1> QED
  BY <1>1, InitKeeps, NextKeeps, PTL DEF Spec

\* A swarm in the table has its owner among its members.
THEOREM OwnersBelong == Spec => []OwnerIsMember
<1>1. IInv => OwnerIsMember
  BY DEF IInv
<1> QED
  BY <1>1, InitKeeps, NextKeeps, PTL DEF Spec
=============================================================================
