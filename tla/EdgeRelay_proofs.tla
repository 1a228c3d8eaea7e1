-------------------------- MODULE EdgeRelay_proofs --------------------------
(***************************************************************************)
(* Theorems about EdgeRelay.                                               *)
(***************************************************************************)
EXTENDS EdgeRelay, SequenceTheorems, FiniteSetTheorems, TLAPS

-----------------------------------------------------------------------------
(* The legs of a session.                                                  *)

\* No two legs of a session have the same role: they are the values of a dict.
Distinct(ls) ==
  \A i, j \in 1..Len(ls) : ls[i].role = ls[j].role => i = j

\* What the hub keeps for a session, whatever has happened to it.
GoodLegs(ls) == ls \in Seq(Leg) /\ Len(ls) <= 2 /\ Distinct(ls)

\* The members of a sequence are its elements.
LEMMA ToSetIsElements ==
  ASSUME NEW S, NEW q \in Seq(S), NEW x
  PROVE  x \in ToSet(q) <=> \E i \in 1..Len(q) : q[i] = x
BY DEF ToSet

\* A role is filed if and only if one of the legs has it.
LEMMA HasRoleIsIndexed ==
  ASSUME NEW ls \in Seq(Leg), NEW role
  PROVE  HasRole(ls, role) <=> \E i \in 1..Len(ls) : ls[i].role = role
BY DEF HasRole, ToSet

\* A session has no leg, one or two.
LEMMA GoodLegsLen ==
  ASSUME NEW ls, GoodLegs(ls)
  PROVE  Len(ls) \in 0..2
<1>1. ls \in Seq(Leg)
  BY DEF GoodLegs
<1>2. Len(ls) <= 2
  BY DEF GoodLegs
<1>3. Len(ls) \in Nat
  BY <1>1, LenProperties
<1>4. \A n \in Nat : n <= 2 => n \in 0..2
  OBVIOUS
<1> QED BY <1>2, <1>3, <1>4

\* One leg at most: nothing can clash.
LEMMA ShortIsGood ==
  ASSUME NEW ls \in Seq(Leg), Len(ls) = 0 \/ Len(ls) = 1
  PROVE  GoodLegs(ls)
<1>1. Len(ls) <= 2
  OBVIOUS
<1>2. ASSUME NEW i \in 1..Len(ls), NEW j \in 1..Len(ls)
      PROVE  i = j
  <2>1. CASE Len(ls) = 0
    BY <2>1
  <2>2. CASE Len(ls) = 1
    BY <2>2
  <2> QED BY <2>1, <2>2
<1> QED BY <1>1, <1>2 DEF GoodLegs, Distinct

\* A session is ready exactly when it has two legs.
LEMMA ReadyIsTwo ==
  ASSUME NEW ls, GoodLegs(ls)
  PROVE  /\ IsReady(ls) <=> Len(ls) = 2
         /\ Len(ls) \in 0..2
<1>0. ls \in Seq(Leg) /\ Len(ls) \in 0..2 /\ Distinct(ls)
  BY GoodLegsLen DEF GoodLegs
<1>1. \A i \in 1..Len(ls) : ls[i] \in Leg
  BY <1>0
<1>2. \A i \in 1..Len(ls) : ls[i].role \in {"sender", "receiver"}
  BY <1>1 DEF Leg, Roles
<1>3. ASSUME Len(ls) = 2
      PROVE  IsReady(ls)
  <2>1. ls[1].role # ls[2].role
    BY <1>0, <1>3 DEF Distinct
  <2>2. 1 \in 1..Len(ls) /\ 2 \in 1..Len(ls)
    BY <1>3
  <2>3. /\ \E i \in 1..Len(ls) : ls[i].role = "sender"
        /\ \E i \in 1..Len(ls) : ls[i].role = "receiver"
    BY <1>2, <2>1, <2>2
  <2> QED BY <1>0, <2>3, HasRoleIsIndexed DEF IsReady
<1>4. ASSUME IsReady(ls)
      PROVE  Len(ls) = 2
  <2>1. PICK i \in 1..Len(ls) : ls[i].role = "sender"
    BY <1>0, <1>4, HasRoleIsIndexed DEF IsReady
  <2>2. PICK j \in 1..Len(ls) : ls[j].role = "receiver"
    BY <1>0, <1>4, HasRoleIsIndexed DEF IsReady
  <2>3. i # j
    BY <2>1, <2>2
  <2>4. \A n \in 0..2 : i \in 1..n /\ j \in 1..n => n = 2
    BY <2>3
  <2> QED BY <1>0, <2>4
<1> QED BY <1>0, <1>3, <1>4

\* The legs ls in another role than this one are all among the legs r.
KeepsOthers(r, ls, role) ==
  \A i \in 1..Len(ls) : ls[i].role # role => \E j \in 1..Len(r) : r[j] = ls[i]

\* Filing a leg keeps the legs of a session good, files that leg, keeps the
\* leg in the other role and brings in nothing else.
LEMMA PutLegProps ==
  ASSUME NEW ls, GoodLegs(ls), NEW role \in Roles, NEW c \in Conns,
         NEW r, r = PutLeg(ls, role, c)
  PROVE  /\ GoodLegs(r)
         /\ Len(r) = IF HasRole(ls, role) THEN Len(ls) ELSE Len(ls) + 1
         /\ \E i \in 1..Len(r) : r[i] = [role |-> role, conn |-> c]
         /\ KeepsOthers(r, ls, role)
         /\ \A i \in 1..Len(r) :
              \/ r[i] = [role |-> role, conn |-> c]
              \/ /\ r[i].role # role
                 /\ \E j \in 1..Len(ls) : r[i] = ls[j]
<1> DEFINE new == [role |-> role, conn |-> c]
<1>0. ls \in Seq(Leg) /\ Len(ls) \in 0..2 /\ Distinct(ls)
  BY GoodLegsLen DEF GoodLegs
<1>1. new \in Leg /\ new.role = role
  BY DEF Leg
<1>2. CASE HasRole(ls, role)
  <2>1. r = [i \in 1..Len(ls) |-> IF ls[i].role = role THEN new ELSE ls[i]]
    BY <1>2 DEF PutLeg
  <2>2. PICK k \in 1..Len(ls) : ls[k].role = role
    BY <1>0, <1>2, HasRoleIsIndexed
  <2>3. \A i \in 1..Len(ls) : (IF ls[i].role = role THEN new ELSE ls[i]) \in Leg
    BY <1>0, <1>1
  <2>4. r \in Seq(Leg) /\ Len(r) = Len(ls)
    BY <1>0, <2>1, <2>3, IsASeq
  <2>5. \A i \in 1..Len(r) : r[i].role = ls[i].role
    BY <1>1, <2>1, <2>4
  <2>6. Distinct(r)
    BY <1>0, <2>4, <2>5 DEF Distinct
  <2>7. GoodLegs(r)
    BY <1>0, <2>4, <2>6 DEF GoodLegs
  <2>8. r[k] = new
    BY <2>1, <2>2
  <2> HIDE DEF new
  <2>9. \A i \in 1..Len(ls) : ls[i].role # role => r[i] = ls[i]
    BY <2>1
  <2>10. \A i \in 1..Len(r) : r[i] = new \/ (r[i].role # role /\ r[i] = ls[i])
    BY <2>1, <2>4
  <2> QED BY <1>2, <2>2, <2>4, <2>7, <2>8, <2>9, <2>10 DEF new, KeepsOthers
<1>3. CASE ~HasRole(ls, role)
  <2>1. r = Append(ls, new)
    BY <1>3 DEF PutLeg
  <2>2. \A i \in 1..Len(ls) : ls[i].role # role
    BY <1>0, <1>3, HasRoleIsIndexed
  <2>3. \A i \in 1..Len(ls) : ls[i] \in Leg
    BY <1>0
  <2>4. \A i \in 1..Len(ls) : ls[i].role \in {"sender", "receiver"}
    BY <2>3 DEF Leg, Roles
  <2>5. role \in {"sender", "receiver"}
    BY DEF Roles
  <2>6. Len(ls) # 2
    <3> SUFFICES ASSUME Len(ls) = 2 PROVE FALSE
      OBVIOUS
    <3>1. ls[1].role # ls[2].role
      BY <1>0 DEF Distinct
    <3> QED BY <2>2, <2>4, <2>5, <3>1
  <2>7. /\ r \in Seq(Leg) /\ Len(r) = Len(ls) + 1 /\ r[Len(ls) + 1] = new
        /\ \A i \in 1..Len(ls) : r[i] = ls[i]
    BY <1>0, <1>1, <2>1, AppendProperties
  <2>8. Distinct(r)
    BY <1>0, <1>1, <2>2, <2>7 DEF Distinct
  <2>9. GoodLegs(r)
    BY <1>0, <2>6, <2>7, <2>8 DEF GoodLegs
  <2> HIDE DEF new
  <2>10. \A i \in 1..Len(r) : i = Len(ls) + 1 \/ i \in 1..Len(ls)
    BY <1>0, <2>7
  <2>11. Len(ls) + 1 \in 1..Len(r) /\ 1..Len(ls) \subseteq 1..Len(r)
    BY <1>0, <2>7
  <2>12. \A i \in 1..Len(r) : r[i] = new \/ \E j \in 1..Len(ls) : r[i] = ls[j]
    BY <2>7, <2>10
  <2> QED BY <1>3, <2>2, <2>7, <2>9, <2>11, <2>12 DEF new, KeepsOthers
<1> QED BY <1>2, <1>3

\* The legs ls of other connections than this one are all among the legs r.
KeepsUnlessOf(r, ls, c) ==
  \A j \in 1..Len(ls) : ls[j].conn # c => \E i \in 1..Len(r) : r[i] = ls[j]

\* Dropping a connection keeps the legs of a session good, leaves none of its
\* legs and all the others; a session it leaves as long is unchanged.
LEMMA WithoutLegsProps ==
  ASSUME NEW ls, GoodLegs(ls), NEW c, NEW r, r = WithoutLegsOf(ls, c)
  PROVE  /\ GoodLegs(r)
         /\ Len(r) <= Len(ls)
         /\ Len(r) = Len(ls) => r = ls
         /\ \A i \in 1..Len(r) :
              r[i].conn # c /\ \E j \in 1..Len(ls) : r[i] = ls[j]
         /\ KeepsUnlessOf(r, ls, c)
<1> USE DEF KeepsUnlessOf
<1>0. ls \in Seq(Leg) /\ Len(ls) \in 0..2 /\ Distinct(ls)
  BY GoodLegsLen DEF GoodLegs
<1>1. \A i \in 1..Len(ls) : ls[i] \in Leg
  BY <1>0
<1> DEFINE a == LegUnlessOf(ls, 1, c)
           b == LegUnlessOf(ls, 2, c)
<1>2. r = a \o b
  BY DEF WithoutLegsOf
<1>3. a = (IF 1 <= Len(ls) /\ ls[1].conn # c THEN <<ls[1]>> ELSE << >>)
  BY DEF LegUnlessOf
<1>4. b = (IF 2 <= Len(ls) /\ ls[2].conn # c THEN <<ls[2]>> ELSE << >>)
  BY DEF LegUnlessOf
<1> HIDE DEF a, b
<1>5. a \in Seq(Leg) /\ b \in Seq(Leg)
  BY <1>0, <1>1, <1>3, <1>4
<1>6. /\ r \in Seq(Leg) /\ Len(r) = Len(a) + Len(b)
      /\ \A i \in 1..Len(a) + Len(b) :
           r[i] = IF i <= Len(a) THEN a[i] ELSE b[i - Len(a)]
  BY <1>2, <1>5, ConcatProperties
<1>7. CASE Len(ls) = 0
  <2>1. Len(r) = 0
    BY <1>3, <1>4, <1>6, <1>7
  <2> QED BY <1>0, <1>6, <1>7, <2>1 DEF GoodLegs, Distinct
<1>8. CASE Len(ls) = 1
  <2>1. b = << >>
    BY <1>4, <1>8
  <2>2. CASE ls[1].conn # c
    <3>1. Len(r) = 1 /\ r[1] = ls[1]
      BY <1>3, <1>6, <1>8, <2>1, <2>2
    <3>2. r = ls
      BY <1>0, <1>6, <1>8, <3>1, SeqEqual
    <3>3. \A i \in 1..Len(ls) : ls[i].conn # c
      BY <1>8, <2>2
    <3> QED BY <1>0, <3>2, <3>3
  <2>3. CASE ls[1].conn = c
    <3>1. Len(r) = 0
      BY <1>3, <1>6, <1>8, <2>1, <2>3
    <3> QED BY <1>6, <1>8, <2>3, <3>1 DEF GoodLegs, Distinct
  <2> QED BY <2>2, <2>3
<1>9. CASE Len(ls) = 2
  <2>1. CASE ls[1].conn # c /\ ls[2].conn # c
    <3>1. Len(r) = 2 /\ r[1] = ls[1] /\ r[2] = ls[2]
      BY <1>3, <1>4, <1>6, <1>9, <2>1
    <3>2. r = ls
      BY <1>0, <1>6, <1>9, <3>1, SeqEqual
    <3>3. \A i \in 1..Len(ls) : ls[i].conn # c
      BY <1>9, <2>1
    <3> QED BY <1>0, <3>2, <3>3
  <2>2. CASE ls[1].conn # c /\ ls[2].conn = c
    <3>1. Len(r) = 1 /\ r[1] = ls[1]
      BY <1>3, <1>4, <1>6, <1>9, <2>2
    <3>2. GoodLegs(r)
      BY <1>6, <3>1, ShortIsGood
    <3>3. \A j \in 1..2 : ls[j].conn # c => j = 1
      BY <2>2
    <3> QED BY <1>9, <2>2, <3>1, <3>2, <3>3
  <2>3. CASE ls[1].conn = c /\ ls[2].conn # c
    <3>1. Len(r) = 1 /\ r[1] = ls[2]
      BY <1>3, <1>4, <1>6, <1>9, <2>3
    <3>2. GoodLegs(r)
      BY <1>6, <3>1, ShortIsGood
    <3>3. \A j \in 1..2 : ls[j].conn # c => j = 2
      BY <2>3
    <3> QED BY <1>9, <2>3, <3>1, <3>2, <3>3
  <2>4. CASE ls[1].conn = c /\ ls[2].conn = c
    <3>1. Len(r) = 0
      BY <1>3, <1>4, <1>6, <1>9, <2>4
    <3>2. GoodLegs(r)
      BY <1>6, <3>1, ShortIsGood
    <3>3. \A j \in 1..2 : ls[j].conn = c
      BY <2>4
    <3> QED BY <1>9, <3>1, <3>2, <3>3
  <2> QED BY <2>1, <2>2, <2>3, <2>4
<1> QED BY <1>0, <1>7, <1>8, <1>9
-----------------------------------------------------------------------------
(* Types, and whose turn it is.                                            *)

\* Whoever is queued for the lock of p is about to send to p, and is queued
\* once.
Fits(q) ==
  \A p \in Conns :
    /\ \A i \in 1..Len(q[p]) : /\ todo[q[p][i]] # << >>
                              /\ Head(todo[q[p][i]]).to = p
    /\ \A i, j \in 1..Len(q[p]) : q[p][i] = q[p][j] => i = j

TurnsFit == Fits(lockq)
RolesDistinct == \A s \in Sessions : Distinct(legs[s])

TypeInv == TypeOK /\ RolesDistinct /\ TurnsFit

\* The handler of c is in no queue of q.
Absent(c, q) == \A p \in Conns : \A i \in 1..Len(q[p]) : q[p][i] # c

Queues == [Conns -> Seq(Conns)]
Wires == [Conns -> Seq(Frames)]

\* A frame of either kind is about a session.
LEMMA FrameTypes ==
  /\ \A f \in Frames : f.session \in Sessions
  /\ \A kind \in {"ready", "close"}, s \in Sessions : Control(kind, s) \in Frames
BY DEF Frames, Control

\* A send goes to a connection, and carries a frame.
LEMMA SendTypes ==
  \A t \in Send : t.to \in Conns /\ t.frame \in Frames /\ t.aborts \in BOOLEAN
BY DEF Send

\* Writing a frame leaves the wires well typed.
LEMMA WrittenType ==
  ASSUME NEW w \in Wires, NEW p \in Conns, NEW f \in Frames
  PROVE  /\ Written(w, p, f) \in Wires
         /\ \A r \in Conns \ {p} : Written(w, p, f)[r] = w[r]
         /\ \/ Written(w, p, f)[p] = w[p] /\ (drone[p] = "gone" \/ phase[p] = "closed")
            \/ Written(w, p, f)[p] = Append(w[p], f)
<1>1. w[p] \in Seq(Frames) /\ Append(w[p], f) \in Seq(Frames)
  BY AppendProperties DEF Wires
<1>2. CASE drone[p] = "gone" \/ phase[p] = "closed"
  BY <1>2 DEF Written
<1>3. CASE ~(drone[p] = "gone" \/ phase[p] = "closed")
  <2>1. Written(w, p, f) = [w EXCEPT ![p] = Append(w[p], f)]
    BY <1>3 DEF Written
  <2> QED BY <1>1, <2>1 DEF Wires
<1> QED BY <1>2, <1>3

\* A handler that goes on leaves queues, sends and wires well typed.
LEMMA ContinueTypes ==
  ASSUME todo \in [Conns -> Seq(Send)], NEW c \in Conns, NEW sends \in Seq(Send),
         NEW q \in Queues, NEW w \in Wires, Continue(c, sends, q, w)
  PROVE  /\ todo' \in [Conns -> Seq(Send)]
         /\ todo' = [todo EXCEPT ![c] = sends]
         /\ lockq' \in Queues
         /\ wire' \in Wires
<1>1. todo' = [todo EXCEPT ![c] = sends]
  BY DEF Continue
<1>2. CASE sends = << >>
  BY <1>1, <1>2 DEF Continue
<1>3. CASE sends # << >>
  <2>1. Head(sends) \in Send
    BY <1>3, HeadTailProperties
  <2>2. PICK first \in Send : first = Head(sends)
    BY <2>1
  <2>3. first.to \in Conns /\ first.frame \in Frames
    BY SendTypes
  <2>4. lockq' = [q EXCEPT ![first.to] = Append(q[first.to], c)]
    BY <1>3, <2>2 DEF Continue, Queued
  <2>5. wire' = IF q[first.to] = << >> THEN Written(w, first.to, first.frame) ELSE w
    BY <1>3, <2>2 DEF Continue, WrittenIfFree
  <2>6. Append(q[first.to], c) \in Seq(Conns)
    BY <2>3, AppendProperties DEF Queues
  <2>7. lockq' \in Queues
    BY <2>3, <2>4, <2>6 DEF Queues
  <2>8. Written(w, first.to, first.frame) \in Wires
    BY <2>3, WrittenType
  <2> QED BY <1>1, <2>5, <2>7, <2>8
<1> QED BY <1>2, <1>3

\* A handler that is in no queue and goes on takes its turn in one at most.
LEMMA ContinueFits ==
  ASSUME todo \in [Conns -> Seq(Send)], NEW c \in Conns, NEW sends \in Seq(Send),
         NEW q \in Queues, NEW w, Continue(c, sends, q, w),
         Fits(q), Absent(c, q)
  PROVE  TurnsFit'
<1>1. todo' = [todo EXCEPT ![c] = sends]
  BY DEF Continue
<1>2. \A p \in Conns : q[p] \in Seq(Conns) /\ Len(q[p]) \in Nat
                      /\ \A i \in 1..Len(q[p]) : q[p][i] \in Conns
  BY LenProperties DEF Queues
<1>3. \A p \in Conns : \A i \in 1..Len(q[p]) : todo'[q[p][i]] = todo[q[p][i]]
  BY <1>1, <1>2 DEF Absent
<1>4. ASSUME NEW p \in Conns, NEW i \in 1..Len(q[p])
      PROVE  todo'[q[p][i]] # << >> /\ Head(todo'[q[p][i]]).to = p
  <2>1. todo[q[p][i]] # << >> /\ Head(todo[q[p][i]]).to = p
    BY DEF Fits
  <2> QED BY <1>3, <2>1
<1>6. CASE sends = << >>
  <2>1. lockq' = q
    BY <1>6 DEF Continue
  <2> QED BY <1>4, <2>1 DEF TurnsFit, Fits
<1>5. CASE sends # << >>
  <2>1. Head(sends) \in Send
    BY <1>5, HeadTailProperties
  <2>2. PICK t \in Conns : t = Head(sends).to
    BY <2>1, SendTypes
  <2>3. lockq' = [q EXCEPT ![t] = Append(q[t], c)]
    BY <1>5, <2>2 DEF Continue, Queued
  <2>4. /\ Len(Append(q[t], c)) = Len(q[t]) + 1
        /\ \A i \in 1..Len(q[t]) : Append(q[t], c)[i] = q[t][i]
        /\ Append(q[t], c)[Len(q[t]) + 1] = c
    BY <1>2, <2>2, AppendProperties
  <2>5. todo'[c] = sends
    BY <1>1
  <2>6. SUFFICES ASSUME NEW p \in Conns
                 PROVE  /\ \A i \in 1..Len(lockq'[p]) : /\ todo'[lockq'[p][i]] # << >>
                                                       /\ Head(todo'[lockq'[p][i]]).to = p
                        /\ \A i, j \in 1..Len(lockq'[p]) : lockq'[p][i] = lockq'[p][j] => i = j
    BY DEF TurnsFit, Fits
  <2>7. CASE p # t
    <3>1. lockq'[p] = q[p]
      BY <2>3, <2>7 DEF Queues
    <3>2. \A i, j \in 1..Len(q[p]) : q[p][i] = q[p][j] => i = j
      BY DEF Fits
    <3> QED BY <1>4, <3>1, <3>2
  <2>8. CASE p = t
    <3>1. PICK r : r = lockq'[t]
      OBVIOUS
    <3>2. r = Append(q[t], c)
      BY <2>3, <3>1 DEF Queues
    <3>3. PICK n \in Nat : n = Len(q[t])
      BY <1>2
    <3>4. /\ Len(r) = n + 1 /\ r[n + 1] = c
          /\ \A i \in 1..n : r[i] = q[t][i] /\ r[i] # c
      BY <2>4, <3>2, <3>3 DEF Absent
    <3>5. \A i \in 1..n + 1 : i = n + 1 \/ i \in 1..n
      OBVIOUS
    <3>6. \A i \in 1..n + 1 : todo'[r[i]] # << >> /\ Head(todo'[r[i]]).to = t
      <4>1. SUFFICES ASSUME NEW i \in 1..n + 1
                     PROVE  todo'[r[i]] # << >> /\ Head(todo'[r[i]]).to = t
        OBVIOUS
      <4>2. CASE i = n + 1
        BY <1>5, <2>2, <2>5, <3>4, <4>2
      <4>3. CASE i \in 1..n
        <5>1. r[i] = q[t][i] /\ i \in 1..Len(q[t])
          BY <3>3, <3>4, <4>3
        <5> QED BY <1>4, <5>1
      <4> QED BY <3>5, <4>2, <4>3
    <3>7. \A i, j \in 1..n : q[t][i] = q[t][j] => i = j
      BY <3>3 DEF Fits
    <3>8. \A i, j \in 1..n + 1 : r[i] = r[j] => i = j
      BY <3>4, <3>5, <3>7
    <3> QED BY <2>8, <3>1, <3>4, <3>6, <3>8
  <2> QED BY <2>7, <2>8
<1> QED BY <1>5, <1>6

\* What the invariant says of one session and of one connection.
LEMMA TypeFacts ==
  ASSUME TypeInv
  PROVE  /\ \A s \in Sessions : GoodLegs(legs[s])
         /\ todo \in [Conns -> Seq(Send)]
         /\ lockq \in Queues
         /\ wire \in Wires
         /\ reports \in [Sessions -> Seq(Reported)]
         /\ Fits(lockq)
BY DEF TypeInv, TypeOK, RolesDistinct, TurnsFit, GoodLegs, Queues, Wires

\* A handler with nothing to send is in no queue.
LEMMA IdleIsAbsent ==
  ASSUME Fits(lockq), NEW c, todo[c] = << >>
  PROVE  Absent(c, lockq)
BY DEF Fits, Absent

\* One control frame per leg is a well typed list of sends.
LEMMA ToLegsType ==
  ASSUME NEW ls \in Seq(Leg), NEW kind \in {"ready", "close"}, NEW s \in Sessions
  PROVE  /\ ToLegs(ls, kind, s) \in Seq(Send)
         /\ Len(ToLegs(ls, kind, s)) = Len(ls)
         /\ \A i \in 1..Len(ls) :
              ToLegs(ls, kind, s)[i] =
                [to |-> ls[i].conn, frame |-> Control(kind, s), aborts |-> FALSE]
<1>0. Len(ls) \in Nat /\ \A i \in 1..Len(ls) : ls[i] \in Leg
  BY LenProperties
<1>1. Len(ls) \in Nat /\ \A i \in 1..Len(ls) : ls[i].conn \in Conns
  BY <1>0 DEF Leg
<1>2. \A i \in 1..Len(ls) :
        [to |-> ls[i].conn, frame |-> Control(kind, s), aborts |-> FALSE] \in Send
  BY <1>1, FrameTypes DEF Send
<1>3. PICK n \in Nat : n = Len(ls)
  BY <1>1
<1>4. PICK r : r = ToLegs(ls, kind, s)
  OBVIOUS
<1>5. r = [i \in 1..n |->
             [to |-> ls[i].conn, frame |-> Control(kind, s), aborts |-> FALSE]]
  BY <1>3, <1>4 DEF ToLegs
<1>6. r \in [1..n -> Send]
  BY <1>2, <1>3, <1>5
<1>7. r \in Seq(Send) /\ Len(r) = n
  BY <1>6, SeqDef
<1> QED BY <1>3, <1>4, <1>5, <1>7

\* Reports are of the three kinds.
LEMMA ReportType ==
  ASSUME reports \in [Sessions -> Seq(Reported)], NEW s \in Sessions,
         NEW status \in Reported, Report(s, status)
  PROVE  reports' \in [Sessions -> Seq(Reported)]
<1>1. Append(reports[s], status) \in Seq(Reported)
  BY AppendProperties
<1> QED BY <1>1 DEF Report

\* Dequeuing the holder of a lock leaves a queue that fits, without it.
LEMMA DequeueFits ==
  ASSUME lockq \in Queues, Fits(lockq), NEW p \in Conns, lockq[p] # << >>,
         NEW c, c = Head(lockq[p]),
         NEW q, q[p] = Tail(lockq[p]), \A r \in Conns \ {p} : q[r] = lockq[r]
  PROVE  /\ c \in Conns /\ todo[c] # << >> /\ Head(todo[c]).to = p
         /\ Fits(q) /\ Absent(c, q)
<1> DEFINE l == lockq[p]
<1>1. l \in Seq(Conns) /\ l # << >>
  BY DEF Queues
<1>2. /\ c \in Conns /\ c = l[1] /\ Tail(l) \in Seq(Conns)
      /\ Len(Tail(l)) = Len(l) - 1 /\ 1 \in 1..Len(l)
      /\ \A i \in 1..Len(Tail(l)) : Tail(l)[i] = l[i + 1] /\ i + 1 \in 1..Len(l)
  BY <1>1, HeadTailProperties, LenProperties
<1>3. todo[c] # << >> /\ Head(todo[c]).to = p
  BY <1>2 DEF Fits
<1>4. q[p] = Tail(l) /\ \A r \in Conns \ {p} : q[r] = lockq[r]
  OBVIOUS
<1>5. Fits(q)
  <2>1. ASSUME NEW r \in Conns
        PROVE  /\ \A i \in 1..Len(q[r]) : todo[q[r][i]] # << >> /\ Head(todo[q[r][i]]).to = r
               /\ \A i, j \in 1..Len(q[r]) : q[r][i] = q[r][j] => i = j
    <3>1. CASE r # p
      <4>1. q[r] = lockq[r]
        BY <1>4, <3>1
      <4> QED BY <4>1 DEF Fits
    <3>2. CASE r = p
      <4>1. \A i \in 1..Len(q[p]) : todo[q[p][i]] # << >> /\ Head(todo[q[p][i]]).to = p
        <5>1. ASSUME NEW i \in 1..Len(q[p])
              PROVE  todo[q[p][i]] # << >> /\ Head(todo[q[p][i]]).to = p
          <6>1. q[p][i] = l[i + 1] /\ i + 1 \in 1..Len(l)
            BY <1>2, <1>4
          <6>2. todo[l[i + 1]] # << >> /\ Head(todo[l[i + 1]]).to = p
            BY <6>1 DEF Fits
          <6> QED BY <6>1, <6>2
        <5> QED BY <5>1
      <4>2. \A i, j \in 1..Len(q[p]) : q[p][i] = q[p][j] => i = j
        <5>1. ASSUME NEW i \in 1..Len(q[p]), NEW j \in 1..Len(q[p]), q[p][i] = q[p][j]
              PROVE  i = j
          <6>1. /\ q[p][i] = l[i + 1] /\ i + 1 \in 1..Len(l)
                /\ q[p][j] = l[j + 1] /\ j + 1 \in 1..Len(l)
            BY <1>2, <1>4
          <6>2. i + 1 = j + 1
            BY <5>1, <6>1 DEF Fits
          <6> QED BY <6>2
        <5> QED BY <5>1
      <4> QED BY <3>2, <4>1, <4>2
    <3> QED BY <3>1, <3>2
  <2> QED BY <2>1 DEF Fits
<1>6. Absent(c, q)
  <2>1. ASSUME NEW r \in Conns, NEW i \in 1..Len(q[r]), q[r][i] = c
        PROVE  FALSE
    <3>1. CASE r # p
      <4>1. Head(todo[c]).to = r
        BY <1>5, <2>1 DEF Fits
      <4> QED BY <1>3, <3>1, <4>1
    <3>2. CASE r = p
      <4>1. l[i + 1] = l[1] /\ i + 1 \in 1..Len(l)
        BY <1>2, <1>4, <2>1, <3>2
      <4>2. i + 1 = 1
        BY <1>2, <4>1 DEF Fits
      <4>3. i \in 1..Len(q[r])
        OBVIOUS
      <4> QED BY <4>2, <4>3
    <3> QED BY <3>1, <3>2
  <2> QED BY <2>1 DEF Absent
<1> QED BY <1>2, <1>3, <1>4, <1>5, <1>6

\* The frame of the next waiter for p, if there is one, put on the wire.
Handover(q, p) ==
  IF q[p] = << >> THEN wire ELSE Written(wire, p, Head(todo[Head(q[p])]).frame)

\* The end of a send, in the terms of the lemmas: the holder c of the lock of
\* p is through, the next waiter writes, and c goes on with the rest.
LEMMA SendEndsShape ==
  ASSUME TypeInv, NEW p \in Conns, SendEnds(p)
  PROVE  \E c \in Conns, q \in Queues, rest \in Seq(Send) :
           /\ lockq[p] # << >> /\ c = Head(lockq[p])
           /\ todo[c] # << >> /\ Head(todo[c]).to = p
           /\ todo[c] \in Seq(Send) /\ rest = Tail(todo[c])
           /\ q = [lockq EXCEPT ![p] = Tail(@)]
           /\ q[p] = Tail(lockq[p]) /\ \A r \in Conns \ {p} : q[r] = lockq[r]
           /\ Fits(q) /\ Absent(c, q)
           /\ q[p] # << >> =>
                /\ Head(q[p]) \in Conns /\ Head(q[p]) # c
                /\ todo[Head(q[p])] # << >>
                /\ Head(todo[Head(q[p])]) \in Send
                /\ Head(todo[Head(q[p])]).to = p
           /\ Handover(q, p) \in Wires
           /\ Continue(c, rest, q, Handover(q, p))
           /\ IF FirstAborts(rest)
                THEN Report(Head(rest).frame.session, "aborted")
                ELSE UNCHANGED reports
<1>1. PICK c : c = Head(lockq[p])
  OBVIOUS
<1>2. PICK q : q = [lockq EXCEPT ![p] = Tail(@)]
  OBVIOUS
<1>3. lockq[p] # << >> /\ lockq \in Queues /\ Fits(lockq) /\ wire \in Wires
  BY TypeFacts DEF SendEnds, Ends
<1>4. /\ c \in Conns /\ todo[c] # << >> /\ Head(todo[c]).to = p
      /\ q \in Queues /\ q[p] = Tail(lockq[p])
      /\ \A r \in Conns \ {p} : q[r] = lockq[r]
      /\ Fits(q) /\ Absent(c, q)
  <2>1. Tail(lockq[p]) \in Seq(Conns)
    BY <1>3, HeadTailProperties DEF Queues
  <2>2. /\ q \in Queues /\ q[p] = Tail(lockq[p])
        /\ \A r \in Conns \ {p} : q[r] = lockq[r]
    BY <1>2, <1>3, <2>1 DEF Queues
  <2>3. /\ c \in Conns /\ todo[c] # << >> /\ Head(todo[c]).to = p
        /\ Fits(q) /\ Absent(c, q)
    BY <1>1, <1>3, <2>2, DequeueFits
  <2> QED BY <2>2, <2>3
<1>5. todo[c] \in Seq(Send)
  BY <1>4, TypeFacts
<1>6. Tail(todo[c]) \in Seq(Send)
  BY <1>4, <1>5, HeadTailProperties
<1>7. q[p] # << >> =>
        /\ Head(q[p]) \in Conns /\ Head(q[p]) # c
        /\ todo[Head(q[p])] # << >>
        /\ Head(todo[Head(q[p])]) \in Send
        /\ Head(todo[Head(q[p])]).to = p
  <2> SUFFICES ASSUME q[p] # << >>
               PROVE  /\ Head(q[p]) \in Conns /\ Head(q[p]) # c
                      /\ todo[Head(q[p])] # << >>
                      /\ Head(todo[Head(q[p])]) \in Send
                      /\ Head(todo[Head(q[p])]).to = p
    OBVIOUS
  <2>1. PICK d : d = Head(q[p])
    OBVIOUS
  <2>2. q[p] \in Seq(Conns)
    BY <1>4 DEF Queues
  <2>3. d \in Conns /\ d = q[p][1] /\ 1 \in 1..Len(q[p])
    BY <2>1, <2>2, HeadTailProperties, LenProperties
  <2>4. d # c
    BY <1>4, <2>3 DEF Absent
  <2>5. todo[d] # << >> /\ Head(todo[d]).to = p
    BY <1>4, <2>3 DEF Fits
  <2>6. todo[d] \in Seq(Send)
    BY <2>3, TypeFacts
  <2>7. Head(todo[d]) \in Send
    BY <2>5, <2>6, HeadTailProperties
  <2> QED BY <2>1, <2>3, <2>4, <2>5, <2>7
<1>8. Handover(q, p) \in Wires
  <2>1. CASE q[p] = << >>
    BY <1>3, <2>1 DEF Handover
  <2>2. CASE q[p] # << >>
    <3>1. Head(todo[Head(q[p])]).frame \in Frames
      BY <1>7, <2>2, SendTypes
    <3>2. Written(wire, p, Head(todo[Head(q[p])]).frame) \in Wires
      BY <1>3, <3>1, WrittenType
    <3> QED BY <2>2, <3>2 DEF Handover
  <2> QED BY <2>1, <2>2
<1>9. /\ Continue(c, Tail(todo[c]), q, Handover(q, p))
      /\ IF FirstAborts(Tail(todo[c]))
           THEN Report(Head(Tail(todo[c])).frame.session, "aborted")
           ELSE UNCHANGED reports
  BY <1>1, <1>2 DEF SendEnds, Rest, Handover
<1> QED BY <1>1, <1>2, <1>3, <1>4, <1>5, <1>6, <1>7, <1>8, <1>9

\* The sessions that lose one leg of two when the connection c goes.
Orphaned(c) ==
  {s \in Sessions : /\ WithoutLegsOf(legs[s], c) # << >>
                    /\ WithoutLegsOf(legs[s], c) # legs[s]}

\* An ordering of a finite set is a sequence of all its elements, each once.
LEMMA OrderingProps ==
  ASSUME NEW S, IsFiniteSet(S), NEW order \in SetToSeqs(S)
  PROVE  /\ order \in Seq(S)
         /\ \A i, j \in 1..Len(order) : order[i] = order[j] => i = j
         /\ \A x \in S : \E i \in 1..Len(order) : order[i] = x
<1> DEFINE n == Cardinality(S)
<1>1. n \in Nat
  BY FS_CardinalityType
<1>2. order \in [1..n -> S] /\ \A i, j \in 1..n : i # j => order[i] # order[j]
  BY DEF SetToSeqs
<1>3. order \in Seq(S) /\ Len(order) = n
  BY <1>1, <1>2, SeqDef
<1>4. order \in Injection(1..n, S)
  BY <1>2 DEF Injection, IsInjective
<1>5. IsFiniteSet(1..n) /\ Cardinality(1..n) = n
  BY <1>1, FS_Interval
<1>6. order \in Surjection(1..n, S)
  BY <1>4, <1>5, FS_Injection
<1>7. \A x \in S : \E i \in 1..n : order[i] = x
  BY <1>6 DEF Surjection
<1> HIDE DEF n
<1> QED BY <1>2, <1>3, <1>7

\* The end of a handler, in the terms of the lemmas: the orphaned sessions are
\* told in some order, and the first of them is reported at once.
LEMMA TeardownShape ==
  ASSUME TypeInv, NEW c \in Conns, Teardown(c)
  PROVE  /\ legs' = [s \in Sessions |-> WithoutLegsOf(legs[s], c)]
         /\ \E order \in Seq(Sessions), sends \in Seq(Send) :
              /\ \A i, j \in 1..Len(order) : order[i] = order[j] => i = j
              /\ \A i \in 1..Len(order) : order[i] \in Orphaned(c)
              /\ \A s \in Orphaned(c) : \E i \in 1..Len(order) : order[i] = s
              /\ Len(sends) = Len(order)
              /\ \A i \in 1..Len(order) :
                   sends[i].aborts /\ sends[i].frame = Control("close", order[i])
              /\ Continue(c, sends, lockq, wire)
              /\ IF order = << >> THEN UNCHANGED reports
                                  ELSE Report(Head(order), "aborted")
<1>1. legs' = [s \in Sessions |-> WithoutLegsOf(legs[s], c)]
  BY DEF Teardown
<1>2. {s \in Sessions : legs'[s] # << >> /\ legs'[s] # legs[s]} = Orphaned(c)
  BY <1>1 DEF Orphaned
<1>3. PICK order \in SetToSeqs(Orphaned(c)) :
        /\ Continue(c, [i \in 1..Len(order) |->
                          [to |-> Head(legs'[order[i]]).conn, aborts |-> TRUE,
                           frame |-> Control("close", order[i])]],
                    lockq, wire)
        /\ IF order = << >> THEN UNCHANGED reports ELSE Report(Head(order), "aborted")
  BY <1>2 DEF Teardown
<1>4. Orphaned(c) \subseteq Sessions
  BY DEF Orphaned
<1>5. IsFiniteSet(Orphaned(c))
  BY <1>4, FiniteAssumption, FS_Subset
<1>6. /\ order \in Seq(Orphaned(c))
      /\ \A i, j \in 1..Len(order) : order[i] = order[j] => i = j
      /\ \A s \in Orphaned(c) : \E i \in 1..Len(order) : order[i] = s
  BY <1>5, OrderingProps
<1>7. /\ Len(order) \in Nat /\ order \in Seq(Sessions)
      /\ \A i \in 1..Len(order) : order[i] \in Orphaned(c)
  BY <1>4, <1>6, LenProperties, SeqMonotonic
<1>8. PICK n \in Nat : n = Len(order)
  BY <1>7
<1>9. PICK sends : sends = [i \in 1..n |->
                             [to |-> Head(legs'[order[i]]).conn, aborts |-> TRUE,
                              frame |-> Control("close", order[i])]]
  OBVIOUS
<1>10. \A i \in 1..n : sends[i].aborts /\ sends[i].frame = Control("close", order[i])
  BY <1>9
<1>11. \A i \in 1..n : sends[i] \in Send
  <2>1. SUFFICES ASSUME NEW i \in 1..n PROVE sends[i] \in Send
    OBVIOUS
  <2>2. PICK s \in Sessions : s = order[i] /\ s \in Orphaned(c)
    BY <1>4, <1>7, <1>8
  <2>3. PICK r : r = WithoutLegsOf(legs[s], c)
    OBVIOUS
  <2>4. r # << >> /\ legs'[s] = r
    BY <1>1, <2>2, <2>3 DEF Orphaned
  <2>5. r \in Seq(Leg)
    BY <2>3, TypeFacts, WithoutLegsProps DEF GoodLegs
  <2>6. Head(r) \in Leg
    BY <2>4, <2>5, HeadTailProperties
  <2>7. Head(r).conn \in Conns
    BY <2>6 DEF Leg
  <2>8. Control("close", s) \in Frames
    BY FrameTypes
  <2>9. sends[i] = [to |-> Head(r).conn, aborts |-> TRUE, frame |-> Control("close", s)]
    BY <1>9, <2>2, <2>4
  <2> QED BY <2>7, <2>8, <2>9 DEF Send
<1>12. sends \in [1..n -> Send]
  BY <1>9, <1>11
<1>13. sends \in Seq(Send) /\ Len(sends) = n
  BY <1>12, SeqDef
<1>14. Continue(c, sends, lockq, wire)
  BY <1>3, <1>8, <1>9
<1> QED BY <1>1, <1>3, <1>6, <1>7, <1>8, <1>10, <1>13, <1>14

-----------------------------------------------------------------------------
(* The type invariant.                                                     *)

\* What the steps of the hub do to the legs keeps every session good.
LEMMA LegsType ==
  ASSUME TypeInv
  PROVE  /\ \A s \in Sessions, role \in Roles, c \in Conns :
              legs' = [legs EXCEPT ![s] = PutLeg(legs[s], role, c)] =>
                legs' \in [Sessions -> Seq(Leg)] /\ \A x \in Sessions : GoodLegs(legs'[x])
         /\ \A s \in Sessions :
              legs' = [legs EXCEPT ![s] = << >>] =>
                legs' \in [Sessions -> Seq(Leg)] /\ \A x \in Sessions : GoodLegs(legs'[x])
         /\ \A c \in Conns :
              legs' = [s \in Sessions |-> WithoutLegsOf(legs[s], c)] =>
                legs' \in [Sessions -> Seq(Leg)] /\ \A x \in Sessions : GoodLegs(legs'[x])
<1>0. /\ legs \in [Sessions -> Seq(Leg)]
      /\ \A s \in Sessions : GoodLegs(legs[s])
  BY TypeFacts DEF TypeInv, TypeOK
<1>1. ASSUME NEW s \in Sessions, NEW ls, GoodLegs(ls), legs' = [legs EXCEPT ![s] = ls]
      PROVE  legs' \in [Sessions -> Seq(Leg)] /\ \A x \in Sessions : GoodLegs(legs'[x])
  <2>1. ls \in Seq(Leg)
    BY <1>1 DEF GoodLegs
  <2> QED BY <1>0, <1>1, <2>1
<1>2. << >> \in Seq(Leg) /\ Len(<< >>) = 0
  OBVIOUS
<1>3. GoodLegs(<< >>)
  BY <1>2, ShortIsGood
<1>4. ASSUME NEW s \in Sessions, NEW role \in Roles, NEW c \in Conns,
             legs' = [legs EXCEPT ![s] = PutLeg(legs[s], role, c)]
      PROVE  legs' \in [Sessions -> Seq(Leg)] /\ \A x \in Sessions : GoodLegs(legs'[x])
  <2>1. GoodLegs(PutLeg(legs[s], role, c))
    BY <1>0, PutLegProps
  <2> QED BY <1>1, <1>4, <2>1
<1>5. ASSUME NEW c \in Conns,
             legs' = [s \in Sessions |-> WithoutLegsOf(legs[s], c)]
      PROVE  legs' \in [Sessions -> Seq(Leg)] /\ \A x \in Sessions : GoodLegs(legs'[x])
  <2>1. \A s \in Sessions : GoodLegs(WithoutLegsOf(legs[s], c))
    BY <1>0, WithoutLegsProps
  <2> QED BY <1>5, <2>1 DEF GoodLegs
<1> QED BY <1>1, <1>3, <1>4, <1>5

\* The parts of the type invariant, put together again.
LEMMA TypeParts ==
  ASSUME phase' \in [Conns -> {"serving", "teardown", "closed"}],
         legs' \in [Sessions -> Seq(Leg)],
         \A s \in Sessions : GoodLegs(legs'[s]),
         todo' \in [Conns -> Seq(Send)], lockq' \in Queues, wire' \in Wires,
         inputs' \in 0..MaxInputs,
         drone' \in [Conns -> {"up", "stalled", "gone"}],
         reports' \in [Sessions -> Seq(Reported)],
         TurnsFit'
  PROVE  TypeInv'
BY DEF TypeInv, TypeOK, RolesDistinct, GoodLegs, Queues, Wires

\* A message of a Drone read by the handler of c counts as an input.
LEMMA ReadsProps ==
  ASSUME TypeInv, NEW c \in Conns, Reads(c)
  PROVE  /\ inputs' = inputs + 1 /\ inputs' \in 0..MaxInputs /\ inputs \in Nat
         /\ todo[c] = << >> /\ phase[c] = "serving" /\ drone[c] # "gone"
         /\ Absent(c, lockq)
BY TypeFacts, IdleIsAbsent, BoundsAssumption DEF Reads, TypeInv, TypeOK

\* Every step keeps the types, the roles apart and the turns in order.
LEMMA TypeStep ==
  ASSUME TypeInv, [Next]_vars
  PROVE  TypeInv'
<1>0. /\ phase \in [Conns -> {"serving", "teardown", "closed"}]
      /\ legs \in [Sessions -> Seq(Leg)]
      /\ \A s \in Sessions : GoodLegs(legs[s])
      /\ todo \in [Conns -> Seq(Send)] /\ lockq \in Queues /\ wire \in Wires
      /\ inputs \in 0..MaxInputs
      /\ drone \in [Conns -> {"up", "stalled", "gone"}]
      /\ reports \in [Sessions -> Seq(Reported)]
      /\ TurnsFit /\ Fits(lockq)
  BY TypeFacts DEF TypeInv, TypeOK
<1>1. ASSUME NEW c \in Conns, NEW s \in Sessions, NEW role \in Roles,
             RelayOpen(c, s, role)
      PROVE  TypeInv'
  <2>1. PICK ls : ls = PutLeg(legs[s], role, c)
    OBVIOUS
  <2>2. GoodLegs(ls)
    BY <1>0, <2>1, PutLegProps
  <2>3. /\ Reads(c) /\ UNCHANGED <<phase, drone>>
        /\ legs' = [legs EXCEPT ![s] = ls]
        /\ IF IsReady(ls)
             THEN /\ Report(s, "active")
                  /\ Continue(c, ToLegs(ls, "ready", s), lockq, wire)
             ELSE UNCHANGED <<reports, todo, lockq, wire>>
    BY <1>1, <2>1 DEF RelayOpen
  <2>4. /\ legs' \in [Sessions -> Seq(Leg)]
        /\ \A x \in Sessions : GoodLegs(legs'[x])
    BY <2>1, <2>3, LegsType
  <2>5. inputs' \in 0..MaxInputs /\ Absent(c, lockq)
    BY <2>3, ReadsProps
  <2>6. CASE IsReady(ls)
    <3>1. ToLegs(ls, "ready", s) \in Seq(Send)
      BY <2>2, ToLegsType DEF GoodLegs
    <3>2. /\ todo' \in [Conns -> Seq(Send)] /\ lockq' \in Queues /\ wire' \in Wires
      BY <1>0, <2>3, <2>6, <3>1, ContinueTypes
    <3>3. TurnsFit'
      BY <1>0, <2>3, <2>5, <2>6, <3>1, ContinueFits
    <3>4. reports' \in [Sessions -> Seq(Reported)]
      BY <1>0, <2>3, <2>6, ReportType DEF Reported
    <3> QED BY <1>0, <2>3, <2>4, <2>5, <3>2, <3>3, <3>4, TypeParts
  <2>7. CASE ~IsReady(ls)
    <3>1. UNCHANGED <<reports, todo, lockq, wire>>
      BY <2>3, <2>7
    <3>2. TurnsFit'
      BY <1>0, <3>1 DEF TurnsFit, Fits
    <3> QED BY <1>0, <2>3, <2>4, <2>5, <3>1, <3>2, TypeParts
  <2> QED BY <2>6, <2>7
<1>2. ASSUME NEW c \in Conns, NEW s \in Sessions, RelayClose(c, s)
      PROVE  TypeInv'
  <2>1. PICK ls : ls = WithoutLegsOf(legs[s], c)
    OBVIOUS
  <2>2. GoodLegs(ls)
    BY <1>0, <2>1, WithoutLegsProps
  <2>3. /\ Reads(c) /\ UNCHANGED <<phase, drone>>
        /\ legs' = [legs EXCEPT ![s] = << >>]
        /\ IF legs[s] # << >> THEN Report(s, "completed") ELSE UNCHANGED reports
        /\ Continue(c, ToLegs(ls, "close", s), lockq, wire)
    BY <1>2, <2>1 DEF RelayClose
  <2>4. /\ legs' \in [Sessions -> Seq(Leg)]
        /\ \A x \in Sessions : GoodLegs(legs'[x])
    BY <2>3, LegsType
  <2>5. inputs' \in 0..MaxInputs /\ Absent(c, lockq)
    BY <2>3, ReadsProps
  <2>6. ToLegs(ls, "close", s) \in Seq(Send)
    BY <2>2, ToLegsType DEF GoodLegs
  <2>7. /\ todo' \in [Conns -> Seq(Send)] /\ lockq' \in Queues /\ wire' \in Wires
    BY <1>0, <2>3, <2>6, ContinueTypes
  <2>8. TurnsFit'
    BY <1>0, <2>3, <2>5, <2>6, ContinueFits
  <2>9. reports' \in [Sessions -> Seq(Reported)]
    BY <1>0, <2>3, ReportType DEF Reported
  <2> QED BY <1>0, <2>3, <2>4, <2>5, <2>7, <2>8, <2>9, TypeParts
<1>3. ASSUME NEW c \in Conns, NEW s \in Sessions, Forward(c, s)
      PROVE  TypeInv'
  <2>1. Reads(c) /\ UNCHANGED <<phase, drone, legs, lockq, wire, reports>>
    BY <1>3 DEF Forward
  <2>2. /\ inputs' = inputs + 1 /\ inputs' \in 0..MaxInputs /\ inputs \in Nat
        /\ todo[c] = << >> /\ Absent(c, lockq)
    BY <2>1, ReadsProps
  <2>3. CASE UNCHANGED todo
    <3>1. TurnsFit'
      BY <1>0, <2>1, <2>3 DEF TurnsFit, Fits
    <3> QED BY <1>0, <2>1, <2>2, <2>3, <3>1, TypeParts
  <2>4. ASSUME NEW p \in PeersOf(legs[s], c),
               todo' = [todo EXCEPT ![c] =
                 <<[to |-> p, aborts |-> FALSE,
                    frame |-> [kind |-> "data", session |-> s, from |-> c,
                               n |-> inputs']]>>]
        PROVE  TypeInv'
    <3>1. p \in Conns
      <4>1. legs[s] \in Seq(Leg)
        BY <1>0
      <4>2. PICK l \in ToSet(legs[s]) : p = l.conn
        BY DEF PeersOf
      <4>3. l \in Leg
        BY <4>1, <4>2, ToSetIsElements
      <4> QED BY <4>2, <4>3 DEF Leg
    <3>2. inputs' \in 1..MaxInputs
      BY <2>2
    <3>3. [kind |-> "data", session |-> s, from |-> c, n |-> inputs'] \in Frames
      BY <3>2 DEF Frames
    <3>4. [to |-> p, aborts |-> FALSE,
           frame |-> [kind |-> "data", session |-> s, from |-> c,
                      n |-> inputs']] \in Send
      BY <3>1, <3>3 DEF Send
    <3>5. todo' \in [Conns -> Seq(Send)]
      BY <1>0, <2>4, <3>4
    <3>6. \A r \in Conns : \A i \in 1..Len(lockq[r]) :
            todo'[lockq[r][i]] = todo[lockq[r][i]]
      <4>1. \A r \in Conns : \A i \in 1..Len(lockq[r]) : lockq[r][i] \in Conns
        BY <1>0 DEF Queues
      <4> QED BY <1>0, <2>2, <2>4, <4>1 DEF Absent
    <3>7. TurnsFit'
      <4>0. Fits(lockq) /\ UNCHANGED lockq
        BY <1>0, <2>1
      <4>1. ASSUME NEW r \in Conns, NEW i \in 1..Len(lockq[r])
            PROVE  todo'[lockq[r][i]] # << >> /\ Head(todo'[lockq[r][i]]).to = r
        <5>1. todo[lockq[r][i]] # << >> /\ Head(todo[lockq[r][i]]).to = r
          BY <4>0 DEF Fits
        <5>2. todo'[lockq[r][i]] = todo[lockq[r][i]]
          BY <3>6
        <5> QED BY <5>1, <5>2
      <4>2. \A r \in Conns : \A i, j \in 1..Len(lockq[r]) :
              lockq[r][i] = lockq[r][j] => i = j
        BY <4>0 DEF Fits
      <4> QED BY <4>0, <4>1, <4>2 DEF TurnsFit, Fits
    <3> QED BY <1>0, <2>1, <2>2, <3>5, <3>7, TypeParts
  <2> QED BY <1>3, <2>3, <2>4 DEF Forward
<1>4. ASSUME NEW c \in Conns, LimiterGrants(c)
      PROVE  TypeInv'
  <2>1. /\ Continue(c, todo[c], lockq, wire) /\ ~Waiting(c)
        /\ UNCHANGED <<phase, inputs, drone, legs, reports>>
    BY <1>4 DEF LimiterGrants, connVars
  <2>2. todo[c] \in Seq(Send)
    BY <1>0
  <2>3. Absent(c, lockq)
    <3>1. \A p \in Conns : lockq[p] \in Seq(Conns)
      BY <1>0 DEF Queues
    <3> QED BY <2>1, <3>1, ToSetIsElements DEF Waiting, Absent
  <2>4. /\ todo' \in [Conns -> Seq(Send)] /\ lockq' \in Queues /\ wire' \in Wires
    BY <1>0, <2>1, <2>2, ContinueTypes
  <2>5. TurnsFit'
    BY <1>0, <2>1, <2>2, <2>3, ContinueFits
  <2> QED BY <1>0, <2>1, <2>4, <2>5, TypeParts
<1>5. ASSUME NEW c \in Conns, Teardown(c)
      PROVE  TypeInv'
  <2>1. /\ todo[c] = << >> /\ phase' = [phase EXCEPT ![c] = "teardown"]
        /\ UNCHANGED <<inputs, drone>>
    BY <1>5 DEF Teardown
  <2>2. legs' = [s \in Sessions |-> WithoutLegsOf(legs[s], c)]
    BY <1>5, TeardownShape
  <2>3. PICK order \in Seq(Sessions), sends \in Seq(Send) :
          /\ Continue(c, sends, lockq, wire)
          /\ IF order = << >> THEN UNCHANGED reports
                              ELSE Report(Head(order), "aborted")
    BY <1>5, TeardownShape
  <2>4. /\ legs' \in [Sessions -> Seq(Leg)]
        /\ \A x \in Sessions : GoodLegs(legs'[x])
    BY <2>2, LegsType
  <2>5. /\ todo' \in [Conns -> Seq(Send)] /\ lockq' \in Queues /\ wire' \in Wires
    BY <1>0, <2>3, ContinueTypes
  <2>6. TurnsFit'
    BY <1>0, <2>1, <2>3, IdleIsAbsent, ContinueFits
  <2>7. reports' \in [Sessions -> Seq(Reported)]
    <3>1. order # << >> => Head(order) \in Sessions
      BY HeadTailProperties
    <3> QED BY <1>0, <2>3, <3>1, ReportType DEF Reported
  <2>8. phase' \in [Conns -> {"serving", "teardown", "closed"}]
    BY <1>0, <2>1
  <2> QED BY <1>0, <2>1, <2>4, <2>5, <2>6, <2>7, <2>8, TypeParts
<1>6. ASSUME NEW p \in Conns, SendEnds(p)
      PROVE  TypeInv'
  <2>1. UNCHANGED <<phase, inputs, drone, legs>>
    BY <1>6 DEF SendEnds, connVars
  <2>2. PICK c \in Conns, q \in Queues, rest \in Seq(Send) :
          /\ Fits(q) /\ Absent(c, q) /\ Handover(q, p) \in Wires
          /\ Continue(c, rest, q, Handover(q, p))
          /\ IF FirstAborts(rest)
               THEN Report(Head(rest).frame.session, "aborted")
               ELSE UNCHANGED reports
    BY <1>6, SendEndsShape
  <2>3. /\ todo' \in [Conns -> Seq(Send)] /\ lockq' \in Queues /\ wire' \in Wires
    BY <1>0, <2>2, ContinueTypes
  <2>4. TurnsFit'
    BY <1>0, <2>2, ContinueFits
  <2>5. reports' \in [Sessions -> Seq(Reported)]
    <3>1. ASSUME FirstAborts(rest)
          PROVE  Head(rest).frame.session \in Sessions
      <4>1. Head(rest) \in Send
        BY <3>1, HeadTailProperties DEF FirstAborts
      <4> QED BY <4>1, SendTypes, FrameTypes
    <3> QED BY <1>0, <2>2, <3>1, ReportType DEF Reported
  <2> QED BY <1>0, <2>1, <2>3, <2>4, <2>5, TypeParts
<1>7. ASSUME NEW c \in Conns, Closed(c)
      PROVE  TypeInv'
  <2>1. /\ phase' = [phase EXCEPT ![c] = "closed"]
        /\ UNCHANGED <<inputs, drone, legs, todo, lockq, wire, reports>>
    BY <1>7 DEF Closed, hubVars
  <2>2. TurnsFit'
    BY <1>0, <2>1 DEF TurnsFit, Fits
  <2> QED BY <1>0, <2>1, <2>2, TypeParts
<1>8. ASSUME NEW c \in Conns, NEW health \in Faults, Fault(c, health)
      PROVE  TypeInv'
  <2>1. /\ drone' = [drone EXCEPT ![c] = health]
        /\ UNCHANGED <<phase, inputs, legs, todo, lockq, wire, reports>>
    BY <1>8 DEF Fault, hubVars
  <2>2. TurnsFit'
    BY <1>0, <2>1 DEF TurnsFit, Fits
  <2>3. drone' \in [Conns -> {"up", "stalled", "gone"}]
    BY <1>0, <2>1, FaultsAssumption
  <2> QED BY <1>0, <2>1, <2>2, <2>3, TypeParts
<1>9. CASE UNCHANGED vars
  <2>1. UNCHANGED <<phase, inputs, drone, legs, todo, lockq, wire, reports>>
    BY <1>9 DEF vars, connVars, hubVars
  <2>2. TurnsFit'
    BY <1>0, <2>1 DEF TurnsFit, Fits
  <2> QED BY <1>0, <2>1, <2>2, TypeParts
<1> QED BY <1>1, <1>2, <1>3, <1>4, <1>5, <1>6, <1>7, <1>8, <1>9 DEF Next, Handler

\* At the start there is nothing anywhere.
LEMMA TypeInit == Init => TypeInv
<1> SUFFICES ASSUME Init PROVE TypeInv
  OBVIOUS
<1>1. \A s \in Sessions : legs[s] = << >> /\ Len(legs[s]) = 0
  BY DEF Init
<1>2. \A p \in Conns : lockq[p] = << >> /\ Len(lockq[p]) = 0
  BY DEF Init
<1>3. TurnsFit
  BY <1>2 DEF TurnsFit, Fits
<1>4. RolesDistinct
  BY <1>1 DEF RolesDistinct, Distinct
<1>5. TypeOK
  <2>1. \A s \in Sessions : Len(legs[s]) <= 2
    BY <1>1
  <2> QED BY <2>1, BoundsAssumption DEF Init, TypeOK
<1> QED BY <1>3, <1>4, <1>5 DEF TypeInv

\* The inductive invariant about types, roles and turns.
THEOREM TurnsInvariant == Spec => []TypeInv
<1>1. TypeInv /\ [Next]_vars => TypeInv'
  BY TypeStep
<1> QED
  BY <1>1, TypeInit, PTL DEF Spec

\* Every variable keeps its type, and a session never has a third leg.
THEOREM TypeCorrect == Spec => []TypeOK
<1>1. TypeInv => TypeOK
  BY DEF TypeInv
<1> QED
  BY <1>1, TurnsInvariant, PTL

-----------------------------------------------------------------------------
(* No leg outlives the handler of its connection.                          *)

\* The legs of the sessions ls are those of connections that ph serves.
ServedIn(ls, ph) ==
  \A s \in Sessions : \A i \in 1..Len(ls[s]) : ph[ls[s][i].conn] = "serving"

\* NoStrayLegs, leg by leg.
LEMMA NoStrayIsServed ==
  ASSUME TypeInv
  PROVE  NoStrayLegs <=> ServedIn(legs, phase)
<1>1. \A s \in Sessions : legs[s] \in Seq(Leg)
  BY TypeFacts DEF GoodLegs
<1>2. ASSUME NEW s \in Sessions
      PROVE  (\A leg \in ToSet(legs[s]) : phase[leg.conn] = "serving")
               <=> \A i \in 1..Len(legs[s]) : phase[legs[s][i].conn] = "serving"
  BY <1>1, ToSetIsElements
<1> QED BY <1>2 DEF NoStrayLegs, ServedIn

\* The same in the next state.
LEMMA NoStrayIsServedNext ==
  ASSUME TypeInv'
  PROVE  NoStrayLegs' <=> ServedIn(legs', phase')
<1>1. \A s \in Sessions : legs'[s] \in Seq(Leg)
  BY DEF TypeInv, TypeOK
<1>2. ASSUME NEW s \in Sessions
      PROVE  (\A leg \in ToSet(legs'[s]) : phase'[leg.conn] = "serving")
               <=> \A i \in 1..Len(legs'[s]) : phase'[legs'[s][i].conn] = "serving"
  BY <1>1, ToSetIsElements
<1>3. NoStrayLegs' <=> \A s \in Sessions : \A leg \in ToSet(legs'[s]) :
                         phase'[leg.conn] = "serving"
  BY DEF NoStrayLegs, ToSet
<1> QED BY <1>2, <1>3 DEF ServedIn

\* A step never leaves a leg behind: only a serving handler files one, and
\* drop_connection takes both roles before the handler is past serving.
LEMMA StrayStep ==
  ASSUME TypeInv, TypeInv', NoStrayLegs, [Next]_vars
  PROVE  NoStrayLegs'
<1>0. /\ phase \in [Conns -> {"serving", "teardown", "closed"}]
      /\ legs \in [Sessions -> Seq(Leg)]
      /\ \A s \in Sessions : GoodLegs(legs[s])
      /\ ServedIn(legs, phase)
  BY TypeFacts, NoStrayIsServed DEF TypeInv, TypeOK
<1>S. SUFFICES ServedIn(legs', phase')
  BY NoStrayIsServedNext
<1>1. ASSUME NEW c \in Conns, NEW s \in Sessions, NEW role \in Roles,
             RelayOpen(c, s, role)
      PROVE  ServedIn(legs', phase')
  <2>1. PICK ls : ls = PutLeg(legs[s], role, c)
    OBVIOUS
  <2>2. legs' = [legs EXCEPT ![s] = ls] /\ phase' = phase /\ phase[c] = "serving"
    BY <1>1, <2>1 DEF RelayOpen, Reads
  <2>3. \A i \in 1..Len(ls) :
          \/ ls[i] = [role |-> role, conn |-> c]
          \/ \E j \in 1..Len(legs[s]) : ls[i] = legs[s][j]
    BY <1>0, <2>1, PutLegProps
  <2>4. \A i \in 1..Len(ls) : phase[ls[i].conn] = "serving"
    BY <1>0, <2>2, <2>3 DEF ServedIn
  <2> QED BY <1>0, <2>2, <2>4 DEF ServedIn
<1>2. ASSUME NEW c \in Conns, NEW s \in Sessions, RelayClose(c, s)
      PROVE  ServedIn(legs', phase')
  <2>1. legs' = [legs EXCEPT ![s] = << >>] /\ phase' = phase
    BY <1>2 DEF RelayClose
  <2> QED BY <1>0, <2>1 DEF ServedIn
<1>3. ASSUME NEW c \in Conns, Teardown(c)
      PROVE  ServedIn(legs', phase')
  <2>1. /\ legs' = [s \in Sessions |-> WithoutLegsOf(legs[s], c)]
        /\ phase' = [phase EXCEPT ![c] = "teardown"]
    BY <1>3, TeardownShape DEF Teardown
  <2>2. SUFFICES ASSUME NEW s \in Sessions, NEW i \in 1..Len(legs'[s])
                 PROVE  phase'[legs'[s][i].conn] = "serving"
    BY DEF ServedIn
  <2>3. PICK ls : ls = legs'[s]
    OBVIOUS
  <2>4. ls = WithoutLegsOf(legs[s], c)
    BY <2>1, <2>3
  <2>5. ls[i].conn # c /\ \E j \in 1..Len(legs[s]) : ls[i] = legs[s][j]
    BY <1>0, <2>2, <2>3, <2>4, WithoutLegsProps
  <2>6. phase[ls[i].conn] = "serving"
    BY <1>0, <2>5 DEF ServedIn
  <2>7. ls[i].conn \in Conns
    <3>1. ls[i] \in Leg
      BY <1>0, <2>5
    <3> QED BY <3>1 DEF Leg
  <2> QED BY <1>0, <2>1, <2>3, <2>5, <2>6, <2>7
<1>4. ASSUME NEW c \in Conns, Closed(c)
      PROVE  ServedIn(legs', phase')
  <2>1. /\ legs' = legs /\ phase' = [phase EXCEPT ![c] = "closed"]
        /\ phase[c] = "teardown"
    BY <1>4 DEF Closed, hubVars
  <2> QED BY <1>0, <2>1 DEF ServedIn
<1>5. ASSUME UNCHANGED <<legs, phase>>
      PROVE  ServedIn(legs', phase')
  BY <1>0, <1>5 DEF ServedIn
<1>6. \A c \in Conns :
        /\ \A s \in Sessions : Forward(c, s) => UNCHANGED <<legs, phase>>
        /\ LimiterGrants(c) => UNCHANGED <<legs, phase>>
        /\ SendEnds(c) => UNCHANGED <<legs, phase>>
        /\ \A health \in Faults : Fault(c, health) => UNCHANGED <<legs, phase>>
  BY DEF Forward, LimiterGrants, SendEnds, Fault, connVars, hubVars
<1>7. UNCHANGED vars => UNCHANGED <<legs, phase>>
  BY DEF vars, connVars, hubVars
<1> QED
  BY <1>1, <1>2, <1>3, <1>4, <1>5, <1>6, <1>7 DEF Next, Handler

\* At the start there is no leg.
LEMMA StrayInit == Init => NoStrayLegs
<1> SUFFICES ASSUME Init PROVE NoStrayLegs
  OBVIOUS
<1>1. \A s \in Sessions : Len(legs[s]) = 0
  BY DEF Init
<1>2. ServedIn(legs, phase)
  BY <1>1 DEF ServedIn
<1> QED BY <1>2, TypeInit, NoStrayIsServed

\* No session holds a leg of a connection whose handler has left _serve.
THEOREM LegsAreServed == Spec => []NoStrayLegs
<1>1. TypeInv /\ TypeInv' /\ NoStrayLegs /\ [Next]_vars => NoStrayLegs'
  BY StrayStep
<1> QED
  BY <1>1, StrayInit, TurnsInvariant, PTL DEF Spec

-----------------------------------------------------------------------------
(* DATA in order.                                                          *)

\* A DATA frame still to be sent is the only send of its handler, carries
\* that connection's name, and was counted when it was read.
OneDatum ==
  \A c \in Conns : \A i \in 1..Len(todo[c]) :
    todo[c][i].frame.kind = "data" =>
      /\ Len(todo[c]) = 1
      /\ todo[c][i].frame.from = c
      /\ todo[c][i].frame.n <= inputs

\* The DATA frames on the wires w were counted.
CountedOn(w) ==
  \A p \in Conns : \A i \in 1..Len(w[p]) :
    w[p][i].kind = "data" => w[p][i].n <= inputs

\* The DATA frames of c on the wires w are all older than the n-th message.
BeforeOn(w, c, n) ==
  \A p \in Conns : \A i \in 1..Len(w[p]) :
    w[p][i].kind = "data" /\ w[p][i].from = c => w[p][i].n < n

\* DataInOrder, about the wires w.
OrderedOn(w) ==
  \A p \in Conns : \A i, j \in 1..Len(w[p]) :
    /\ i < j /\ w[p][i].kind = "data" /\ w[p][j].kind = "data"
    /\ w[p][i].session = w[p][j].session /\ w[p][i].from = w[p][j].from
    => w[p][i].n < w[p][j].n

\* c is the holder of a lock: the frame it is sending has been written.
Holds(q, c) == \E p \in Conns : q[p] # << >> /\ Head(q[p]) = c

\* A DATA frame that waits for the limiter or for a lock is newer than all
\* that its Drone has on the wires.
PendingIsNewer(c, w, q) ==
  todo[c] # << >> /\ Head(todo[c]).frame.kind = "data" /\ ~Holds(q, c) =>
    BeforeOn(w, c, Head(todo[c]).frame.n)

DataInv ==
  /\ OneDatum /\ CountedOn(wire) /\ OrderedOn(wire)
  /\ \A c \in Conns : PendingIsNewer(c, wire, lockq)

\* Writing a frame newer than all that its Drone has on the wires keeps the
\* wires in order, and says nothing new about the other Drones.
LEMMA WriteInOrder ==
  ASSUME NEW w \in Wires, NEW p \in Conns, NEW f \in Frames,
         CountedOn(w), OrderedOn(w),
         f.kind = "data" => f.n <= inputs /\ BeforeOn(w, f.from, f.n),
         NEW x, x = Written(w, p, f)
  PROVE  /\ CountedOn(x) /\ OrderedOn(x)
         /\ \A c, n : BeforeOn(w, c, n) /\ (f.kind = "data" => f.from # c)
                       => BeforeOn(x, c, n)
<1>1. /\ \A r \in Conns \ {p} : x[r] = w[r]
      /\ x[p] = w[p] \/ x[p] = Append(w[p], f)
  BY WrittenType
<1>2. CASE x[p] = w[p]
  <2>1. \A r \in Conns : x[r] = w[r]
    BY <1>1, <1>2
  <2> QED BY <2>1 DEF CountedOn, OrderedOn, BeforeOn
<1>3. CASE x[p] = Append(w[p], f)
  <2>1. PICK k \in Nat : k = Len(w[p])
    BY LenProperties DEF Wires
  <2>2. PICK l : l = x[p]
    OBVIOUS
  <2>3. /\ Len(l) = k + 1 /\ l[k + 1] = f
        /\ \A i \in 1..k : l[i] = w[p][i]
    BY <1>3, <2>1, <2>2, AppendProperties DEF Wires
  <2>4. \A i \in 1..k + 1 : i = k + 1 \/ i \in 1..k
    OBVIOUS
  <2>5. \A i \in 1..k : l[i].kind = "data" => l[i].n <= inputs
    BY <2>1, <2>3 DEF CountedOn
  <2>6. \A i \in 1..k + 1 : l[i].kind = "data" => l[i].n <= inputs
    BY <2>3, <2>4, <2>5
  <2>7. CountedOn(x)
    BY <1>1, <2>2, <2>3, <2>6 DEF CountedOn
  <2>8. \A i, j \in 1..k :
          /\ i < j /\ l[i].kind = "data" /\ l[j].kind = "data"
          /\ l[i].session = l[j].session /\ l[i].from = l[j].from
          => l[i].n < l[j].n
    BY <2>1, <2>3 DEF OrderedOn
  <2>9. \A i \in 1..k :
          f.kind = "data" /\ l[i].kind = "data" /\ l[i].from = f.from => l[i].n < f.n
    BY <2>1, <2>3 DEF BeforeOn
  <2>10. \A i, j \in 1..k + 1 : i < j => i \in 1..k
    BY <2>4
  <2>11. \A i, j \in 1..k + 1 :
          /\ i < j /\ l[i].kind = "data" /\ l[j].kind = "data"
          /\ l[i].session = l[j].session /\ l[i].from = l[j].from
          => l[i].n < l[j].n
    BY <2>3, <2>4, <2>8, <2>9, <2>10
  <2>12. OrderedOn(x)
    <3>1. ASSUME NEW r \in Conns, NEW i \in 1..Len(x[r]), NEW j \in 1..Len(x[r]),
                 i < j, x[r][i].kind = "data", x[r][j].kind = "data",
                 x[r][i].session = x[r][j].session, x[r][i].from = x[r][j].from
          PROVE  x[r][i].n < x[r][j].n
      <4>1. CASE r = p
        BY <2>2, <2>3, <2>11, <3>1, <4>1
      <4>2. CASE r # p
        <5>1. x[r] = w[r]
          BY <1>1, <4>2
        <5> QED BY <3>1, <5>1 DEF OrderedOn
      <4> QED BY <4>1, <4>2
    <3> QED BY <3>1 DEF OrderedOn
  <2>13. ASSUME NEW c, NEW n, BeforeOn(w, c, n), f.kind = "data" => f.from # c
         PROVE  BeforeOn(x, c, n)
    <3>1. \A i \in 1..k : l[i].kind = "data" /\ l[i].from = c => l[i].n < n
      BY <2>1, <2>3, <2>13 DEF BeforeOn
    <3>2. \A i \in 1..k + 1 : l[i].kind = "data" /\ l[i].from = c => l[i].n < n
      BY <2>3, <2>4, <2>13, <3>1
    <3> QED BY <1>1, <2>2, <2>3, <2>13, <3>2 DEF BeforeOn
  <2> QED BY <2>7, <2>12, <2>13
<1> QED BY <1>1, <1>2, <1>3

\* A handler that goes on keeps the data in order, when the wires it goes on
\* with are, and when a DATA frame among its sends is alone and the newest.
LEMMA ContinueInOrder ==
  ASSUME TypeInv, TypeInv', NEW c \in Conns, NEW sends \in Seq(Send),
         NEW q \in Queues, NEW w \in Wires, Continue(c, sends, q, w), Absent(c, q),
         inputs' \in Nat, inputs <= inputs',
         OneDatum, CountedOn(w), OrderedOn(w),
         \A d \in Conns \ {c} : PendingIsNewer(d, w, q),
         \A i \in 1..Len(sends) : sends[i].frame.kind = "data" =>
           /\ Len(sends) = 1 /\ sends[i].frame.from = c
           /\ sends[i].frame.n <= inputs /\ BeforeOn(w, c, sends[i].frame.n)
  PROVE  DataInv'
<1>1. /\ todo \in [Conns -> Seq(Send)] /\ todo' = [todo EXCEPT ![c] = sends]
      /\ inputs \in Nat
  BY TypeFacts, BoundsAssumption DEF Continue, TypeInv, TypeOK
<1>2. todo'[c] = sends /\ \A d \in Conns \ {c} : todo'[d] = todo[d]
  BY <1>1
<1>3. \A d \in Conns : \A i \in 1..Len(todo[d]) :
        todo[d][i] \in Send /\ todo[d][i].frame \in Frames
  BY <1>1, SendTypes
<1>4. \A i \in 1..Len(sends) : sends[i] \in Send /\ sends[i].frame \in Frames
  BY SendTypes
<1>5. \A f \in Frames : f.kind = "data" => f.n \in Nat
  BY DEF Frames
<1>6. OneDatum'
  <2>1. ASSUME NEW d \in Conns, NEW i \in 1..Len(todo'[d]),
               todo'[d][i].frame.kind = "data"
        PROVE  /\ Len(todo'[d]) = 1
               /\ todo'[d][i].frame.from = d
               /\ todo'[d][i].frame.n <= inputs'
    <3>1. CASE d = c
      <4>1. i \in 1..Len(sends) /\ sends[i].frame.kind = "data"
        BY <1>2, <2>1, <3>1
      <4>2. /\ Len(sends) = 1 /\ sends[i].frame.from = c
            /\ sends[i].frame.n <= inputs /\ sends[i].frame.n \in Nat
        BY <1>4, <1>5, <4>1
      <4> QED BY <1>1, <1>2, <3>1, <4>2
    <3>2. CASE d # c
      <4>1. todo'[d] = todo[d] /\ i \in 1..Len(todo[d])
        BY <1>2, <2>1, <3>2
      <4>2. /\ Len(todo[d]) = 1 /\ todo[d][i].frame.from = d
            /\ todo[d][i].frame.n <= inputs /\ todo[d][i].frame.n \in Nat
        BY <1>3, <1>5, <2>1, <4>1 DEF OneDatum
      <4> QED BY <1>1, <4>1, <4>2
    <3> QED BY <3>1, <3>2
  <2> QED BY <2>1 DEF OneDatum
<1>7. \A x \in Wires : CountedOn(x) =>
        \A p \in Conns : \A i \in 1..Len(x[p]) :
          x[p][i].kind = "data" => x[p][i].n <= inputs'
  <2>1. SUFFICES ASSUME NEW x \in Wires, CountedOn(x), NEW p \in Conns,
                        NEW i \in 1..Len(x[p]), x[p][i].kind = "data"
                 PROVE  x[p][i].n <= inputs'
    OBVIOUS
  <2>2. x[p][i] \in Frames
    BY DEF Wires
  <2>3. x[p][i].n <= inputs /\ x[p][i].n \in Nat
    BY <1>5, <2>1, <2>2 DEF CountedOn
  <2>4. PICK m \in Nat : m = x[p][i].n
    BY <2>3
  <2>5. m <= inputs /\ inputs <= inputs' /\ inputs \in Nat /\ inputs' \in Nat
    BY <1>1, <2>3, <2>4
  <2>6. m <= inputs'
    BY <2>5
  <2> QED BY <2>4, <2>6
<1>8. CASE sends = << >>
  <2>1. lockq' = q /\ wire' = w
    BY <1>8 DEF Continue
  <2>2. ASSUME NEW d \in Conns
        PROVE  todo'[d] # << >> /\ Head(todo'[d]).frame.kind = "data" /\ ~Holds(lockq', d)
                 => BeforeOn(wire', d, Head(todo'[d]).frame.n)
    <3>1. CASE d = c
      BY <1>2, <1>8, <3>1
    <3>2. CASE d # c
      BY <1>2, <2>1, <3>2 DEF PendingIsNewer
    <3> QED BY <3>1, <3>2
  <2>3. OrderedOn(wire') /\ \A p \in Conns : \A i \in 1..Len(wire'[p]) :
          wire'[p][i].kind = "data" => wire'[p][i].n <= inputs'
    BY <1>7, <2>1
  <2> QED BY <1>6, <2>2, <2>3
        DEF DataInv, CountedOn, OrderedOn, PendingIsNewer, Holds, BeforeOn
<1>9. CASE sends # << >>
  <2>1. Head(sends) \in Send /\ Head(sends) = sends[1] /\ 1 \in 1..Len(sends)
    BY <1>9, HeadTailProperties, LenProperties
  <2>2. PICK t \in Conns : t = Head(sends).to
    BY <2>1, SendTypes
  <2>3. PICK f \in Frames : f = Head(sends).frame
    BY <2>1, SendTypes
  <2>4. lockq' = [q EXCEPT ![t] = Append(q[t], c)]
    BY <1>9, <2>2 DEF Continue, Queued
  <2>5. wire' = IF q[t] = << >> THEN Written(w, t, f) ELSE w
    BY <1>9, <2>2, <2>3 DEF Continue, WrittenIfFree
  <2>6. f.kind = "data" => f.from = c /\ f.n <= inputs /\ BeforeOn(w, c, f.n)
    BY <2>1, <2>3
  <2>7. /\ CountedOn(wire') /\ OrderedOn(wire') /\ wire' \in Wires
        /\ \A d \in Conns \ {c} : \A n : BeforeOn(w, d, n) => BeforeOn(wire', d, n)
    <3>1. CASE q[t] = << >>
      <4>1. wire' = Written(w, t, f)
        BY <2>5, <3>1
      <4>2. \A d \in Conns \ {c} : f.kind = "data" => f.from # d
        BY <2>6
      <4> QED BY <2>6, <4>1, <4>2, WriteInOrder, WrittenType
    <3>2. CASE q[t] # << >>
      BY <2>5, <3>2
    <3> QED BY <3>1, <3>2
  <2>8. \A d \in Conns : ~Holds(lockq', d) => ~Holds(q, d)
    <3>1. SUFFICES ASSUME NEW d \in Conns, NEW p \in Conns, q[p] # << >>, Head(q[p]) = d
                   PROVE  lockq'[p] # << >> /\ Head(lockq'[p]) = d
      BY DEF Holds
    <3>2. CASE p = t
      <4>1. q[t] \in Seq(Conns)
        BY DEF Queues
      <4>2. Append(q[t], c) # << >> /\ Head(Append(q[t], c)) = Head(q[t])
        BY <3>1, <3>2, <4>1, HeadTailAppend, AppendProperties
      <4>3. lockq'[t] = Append(q[t], c)
        BY <2>4 DEF Queues
      <4> QED BY <3>1, <3>2, <4>2, <4>3
    <3>3. CASE p # t
      BY <2>4, <3>1, <3>3 DEF Queues
    <3> QED BY <3>2, <3>3
  <2>9. ~Holds(lockq', c) => q[t] # << >>
    <3>1. SUFFICES ASSUME q[t] = << >> PROVE lockq'[t] # << >> /\ Head(lockq'[t]) = c
      BY DEF Holds
    <3>2. q[t] \in Seq(Conns) /\ lockq'[t] = Append(q[t], c)
      BY <2>4 DEF Queues
    <3> QED BY <3>1, <3>2, HeadTailAppend, AppendProperties
  <2>10. ASSUME NEW d \in Conns
         PROVE  todo'[d] # << >> /\ Head(todo'[d]).frame.kind = "data" /\ ~Holds(lockq', d)
                 => BeforeOn(wire', d, Head(todo'[d]).frame.n)
    <3>1. CASE d = c
      <4>1. SUFFICES ASSUME Head(sends).frame.kind = "data", ~Holds(lockq', c)
                     PROVE  BeforeOn(wire', c, f.n)
        BY <1>2, <2>3, <3>1
      <4>2. wire' = w
        BY <2>5, <2>9, <4>1
      <4> QED BY <2>3, <2>6, <4>1, <4>2
    <3>2. CASE d # c
      <4>1. SUFFICES ASSUME todo[d] # << >>, Head(todo[d]).frame.kind = "data",
                            ~Holds(lockq', d)
                     PROVE  BeforeOn(wire', d, Head(todo[d]).frame.n)
        BY <1>2, <3>2
      <4>2. BeforeOn(w, d, Head(todo[d]).frame.n)
        BY <2>8, <3>2, <4>1 DEF PendingIsNewer
      <4> QED BY <2>7, <3>2, <4>2
    <3> QED BY <3>1, <3>2
  <2>11. \A p \in Conns : \A i \in 1..Len(wire'[p]) :
           wire'[p][i].kind = "data" => wire'[p][i].n <= inputs'
    BY <1>7, <2>7
  <2> QED BY <1>6, <2>7, <2>10, <2>11
        DEF DataInv, CountedOn, OrderedOn, PendingIsNewer, Holds, BeforeOn
<1> QED BY <1>8, <1>9

\* Counting another message disturbs nothing that was counted.
LEMMA CountingIsFine ==
  ASSUME TypeInv, DataInv, inputs' \in Nat, inputs <= inputs', wire' = wire
  PROVE  /\ \A p \in Conns : \A i \in 1..Len(wire'[p]) :
              wire'[p][i].kind = "data" => wire'[p][i].n <= inputs'
         /\ \A c \in Conns : \A i \in 1..Len(todo[c]) :
              todo[c][i].frame.kind = "data" =>
                /\ Len(todo[c]) = 1 /\ todo[c][i].frame.from = c
                /\ todo[c][i].frame.n <= inputs'
<1>0. /\ inputs \in Nat /\ wire \in Wires /\ todo \in [Conns -> Seq(Send)]
      /\ OneDatum /\ CountedOn(wire)
  BY TypeFacts, BoundsAssumption DEF TypeInv, TypeOK, DataInv
<1>1. \A f \in Frames : f.kind = "data" => f.n \in Nat
  BY DEF Frames
<1>2. \A m \in Nat : m <= inputs => m <= inputs'
  BY <1>0
<1>3. ASSUME NEW p \in Conns, NEW i \in 1..Len(wire[p]), wire[p][i].kind = "data"
      PROVE  wire[p][i].n <= inputs'
  <2>1. wire[p][i] \in Frames
    BY <1>0 DEF Wires
  <2>2. wire[p][i].n <= inputs
    BY <1>0, <1>3 DEF CountedOn
  <2> QED BY <1>1, <1>2, <1>3, <2>1, <2>2
<1>4. ASSUME NEW c \in Conns, NEW i \in 1..Len(todo[c]), todo[c][i].frame.kind = "data"
      PROVE  /\ Len(todo[c]) = 1 /\ todo[c][i].frame.from = c
             /\ todo[c][i].frame.n <= inputs'
  <2>1. todo[c][i].frame \in Frames
    BY <1>0, SendTypes
  <2>2. /\ Len(todo[c]) = 1 /\ todo[c][i].frame.from = c
        /\ todo[c][i].frame.n <= inputs
    BY <1>0, <1>4 DEF OneDatum
  <2> QED BY <1>1, <1>2, <1>4, <2>1, <2>2
<1> QED BY <1>3, <1>4

\* A step that only counts messages keeps the data in order.
LEMMA CountInOrder ==
  ASSUME TypeInv, DataInv, inputs' \in Nat, inputs <= inputs',
         UNCHANGED <<todo, lockq, wire>>
  PROVE  DataInv'
<1>1. /\ \A p \in Conns : \A i \in 1..Len(wire'[p]) :
           wire'[p][i].kind = "data" => wire'[p][i].n <= inputs'
      /\ \A c \in Conns : \A i \in 1..Len(todo'[c]) :
           todo'[c][i].frame.kind = "data" =>
             /\ Len(todo'[c]) = 1 /\ todo'[c][i].frame.from = c
             /\ todo'[c][i].frame.n <= inputs'
  BY CountingIsFine
<1>2. OneDatum' /\ CountedOn(wire)'
  BY <1>1 DEF OneDatum, CountedOn
<1>3. OrderedOn(wire)' /\ \A c \in Conns : PendingIsNewer(c, wire, lockq)'
  BY DEF DataInv, OrderedOn, PendingIsNewer, Holds, BeforeOn
<1> QED BY <1>2, <1>3 DEF DataInv

\* A DATA frame just read is the newest of its Drone.
LEMMA ForwardInOrder ==
  ASSUME TypeInv, TypeInv', DataInv, NEW c \in Conns, NEW s \in Sessions, Forward(c, s)
  PROVE  DataInv'
<1>1. /\ inputs' = inputs + 1 /\ inputs \in Nat /\ todo[c] = << >>
      /\ UNCHANGED <<lockq, wire>>
  BY ReadsProps DEF Forward
<1>2. inputs' \in Nat /\ inputs <= inputs'
  BY <1>1
<1>3. CASE UNCHANGED todo
  BY <1>1, <1>2, <1>3, CountInOrder
<1>4. ASSUME NEW p,
             todo' = [todo EXCEPT ![c] =
               <<[to |-> p, aborts |-> FALSE,
                  frame |-> [kind |-> "data", session |-> s, from |-> c,
                             n |-> inputs']]>>]
      PROVE  DataInv'
  <2>1. PICK f : f = [kind |-> "data", session |-> s, from |-> c, n |-> inputs']
    OBVIOUS
  <2>2. PICK m : m = [to |-> p, aborts |-> FALSE, frame |-> f]
    OBVIOUS
  <2>3. /\ todo'[c] = <<m>> /\ m.frame = f /\ f.from = c /\ f.n = inputs'
        /\ \A d \in Conns \ {c} : todo'[d] = todo[d]
    BY <1>4, <2>1, <2>2, TypeFacts
  <2>4. /\ \A r \in Conns : \A i \in 1..Len(wire'[r]) :
             wire'[r][i].kind = "data" => wire'[r][i].n <= inputs'
        /\ \A d \in Conns : \A i \in 1..Len(todo[d]) :
             todo[d][i].frame.kind = "data" =>
               /\ Len(todo[d]) = 1 /\ todo[d][i].frame.from = d
               /\ todo[d][i].frame.n <= inputs'
    BY <1>1, <1>2, CountingIsFine
  <2>5. OneDatum'
    <3>1. ASSUME NEW d \in Conns, NEW i \in 1..Len(todo'[d]),
                 todo'[d][i].frame.kind = "data"
          PROVE  /\ Len(todo'[d]) = 1 /\ todo'[d][i].frame.from = d
                 /\ todo'[d][i].frame.n <= inputs'
      <4>1. CASE d = c
        <5>1. i = 1 /\ Len(todo'[c]) = 1 /\ todo'[c][1] = m
          BY <2>3, <3>1, <4>1
        <5>2. m.frame.from = c /\ m.frame.n = inputs' /\ inputs' <= inputs'
          BY <1>2, <2>3
        <5> QED BY <4>1, <5>1, <5>2
      <4>2. CASE d # c
        BY <2>3, <2>4, <3>1, <4>2
      <4> QED BY <4>1, <4>2
    <3> QED BY <3>1 DEF OneDatum
  <2>6. BeforeOn(wire, c, inputs')
    <3>1. ASSUME NEW r \in Conns, NEW i \in 1..Len(wire[r]), wire[r][i].kind = "data"
          PROVE  wire[r][i].n < inputs'
      <4>1. wire[r][i] \in Frames
        BY TypeFacts DEF Wires
      <4>2. wire[r][i].n \in Nat
        BY <3>1, <4>1 DEF Frames
      <4>3. wire[r][i].n <= inputs
        BY <3>1 DEF DataInv, CountedOn
      <4>4. PICK k \in Nat : k = wire[r][i].n
        BY <4>2
      <4> QED BY <1>1, <4>3, <4>4
    <3> QED BY <3>1 DEF BeforeOn
  <2>7. ASSUME NEW d \in Conns
        PROVE  todo'[d] # << >> /\ Head(todo'[d]).frame.kind = "data" /\ ~Holds(lockq, d)
                 => BeforeOn(wire, d, Head(todo'[d]).frame.n)
    <3>1. CASE d = c
      <4>1. Head(todo'[c]) = m
        BY <2>3
      <4> QED BY <2>3, <2>6, <3>1, <4>1
    <3>2. CASE d # c
      BY <2>3, <3>2 DEF DataInv, PendingIsNewer
    <3> QED BY <3>1, <3>2
  <2>8. CountedOn(wire)'
    BY <2>4 DEF CountedOn
  <2>9. OrderedOn(wire)'
    BY <1>1 DEF DataInv, OrderedOn
  <2>10. \A d \in Conns : PendingIsNewer(d, wire, lockq)'
    BY <1>1, <2>7 DEF PendingIsNewer, Holds, BeforeOn
  <2> QED BY <2>5, <2>8, <2>9, <2>10 DEF DataInv
<1> QED BY <1>3, <1>4 DEF Forward

\* The control frames of ToLegs are no DATA.
LEMMA ControlIsNoData ==
  \A kind \in {"ready", "close"} : \A s : Control(kind, s).kind # "data"
BY DEF Control

\* When a send ends, the next waiter writes a frame newer than what its Drone
\* has on the wires, and the handler that is through has no DATA left.
LEMMA SendEndsInOrder ==
  ASSUME TypeInv, TypeInv', DataInv, NEW p \in Conns, SendEnds(p)
  PROVE  DataInv'
<1>1. PICK c \in Conns, q \in Queues, rest \in Seq(Send) :
           /\ lockq[p] # << >> /\ c = Head(lockq[p])
           /\ todo[c] # << >> /\ Head(todo[c]).to = p
           /\ todo[c] \in Seq(Send) /\ rest = Tail(todo[c])
           /\ q[p] = Tail(lockq[p]) /\ \A r \in Conns \ {p} : q[r] = lockq[r]
           /\ Fits(q) /\ Absent(c, q)
           /\ q[p] # << >> =>
                /\ Head(q[p]) \in Conns /\ Head(q[p]) # c
                /\ todo[Head(q[p])] # << >>
                /\ Head(todo[Head(q[p])]) \in Send
                /\ Head(todo[Head(q[p])]).to = p
           /\ Handover(q, p) \in Wires
           /\ Continue(c, rest, q, Handover(q, p))
  BY SendEndsShape
<1>2. PICK w \in Wires : w = Handover(q, p)
  BY <1>1
<1>3. inputs' = inputs /\ inputs \in Nat
  BY BoundsAssumption DEF SendEnds, connVars, TypeInv, TypeOK
<1>4. /\ OneDatum /\ CountedOn(wire) /\ OrderedOn(wire) /\ wire \in Wires
      /\ lockq \in Queues /\ todo \in [Conns -> Seq(Send)] /\ Fits(lockq)
      /\ \A d \in Conns : PendingIsNewer(d, wire, lockq)
  BY TypeFacts DEF DataInv
<1>5. \A i \in 1..Len(rest) : rest[i].frame.kind # "data"
  <2>1. ASSUME NEW i \in 1..Len(rest), rest[i].frame.kind = "data"
        PROVE  FALSE
    <3>1. rest[i] = todo[c][i + 1] /\ i + 1 \in 1..Len(todo[c])
      BY <1>1, HeadTailProperties, LenProperties
    <3>2. Len(todo[c]) = 1
      BY <1>4, <2>1, <3>1 DEF OneDatum
    <3> QED BY <3>1, <3>2
  <2> QED BY <2>1
<1>6. \A d \in Conns \ {c} : Holds(lockq, d) => Holds(q, d)
  <2>1. SUFFICES ASSUME NEW d \in Conns \ {c}, NEW r \in Conns,
                        lockq[r] # << >>, Head(lockq[r]) = d
                 PROVE  q[r] # << >> /\ Head(q[r]) = d
    BY DEF Holds
  <2>2. r # p
    BY <1>1, <2>1
  <2> QED BY <1>1, <2>1, <2>2
<1>7. /\ Continue(c, rest, q, w) /\ Absent(c, q) /\ OneDatum
      /\ inputs' \in Nat /\ inputs <= inputs'
  BY <1>1, <1>2, <1>3, <1>4
<1>8. CASE q[p] = << >>
  <2>1. w = wire
    BY <1>2, <1>8 DEF Handover
  <2>2. \A d \in Conns \ {c} : PendingIsNewer(d, w, q)
    BY <1>4, <1>6, <2>1 DEF PendingIsNewer
  <2>3. CountedOn(w) /\ OrderedOn(w)
    BY <1>4, <2>1
  <2> QED BY <1>7, <1>5, <2>2, <2>3, ContinueInOrder
<1>9. CASE q[p] # << >>
  <2>1. PICK d \in Conns : d = Head(q[p])
    BY <1>1, <1>9
  <2>2. d # c /\ todo[d] # << >> /\ Head(todo[d]) \in Send /\ Head(todo[d]).to = p
    BY <1>1, <1>9, <2>1
  <2>3. PICK f \in Frames : f = Head(todo[d]).frame
    BY <2>2, SendTypes
  <2>4. w = Written(wire, p, f)
    BY <1>2, <1>9, <2>1, <2>3 DEF Handover
  <2>5. ~Holds(lockq, d)
    <3>1. SUFFICES ASSUME NEW r \in Conns, lockq[r] # << >>, Head(lockq[r]) = d
                   PROVE  FALSE
      BY DEF Holds
    <3>2. lockq[r] \in Seq(Conns)
      BY <1>4 DEF Queues
    <3>3. lockq[r][1] = d /\ 1 \in 1..Len(lockq[r])
      BY <3>1, <3>2, HeadTailProperties, LenProperties
    <3>4. Head(todo[d]).to = r
      BY <1>4, <3>3 DEF Fits
    <3> QED BY <1>1, <2>2, <3>1, <3>4
  <2>6. f.kind = "data" => f.from = d /\ f.n <= inputs /\ BeforeOn(wire, d, f.n)
    <3>1. Head(todo[d]) = todo[d][1] /\ 1 \in 1..Len(todo[d])
      BY <1>4, <2>2, HeadTailProperties, LenProperties
    <3>2. f.kind = "data" => f.from = d /\ f.n <= inputs
      BY <1>4, <2>3, <3>1 DEF OneDatum
    <3>3. f.kind = "data" => BeforeOn(wire, d, f.n)
      BY <1>4, <2>2, <2>3, <2>5 DEF PendingIsNewer
    <3> QED BY <3>2, <3>3
  <2>7. /\ CountedOn(w) /\ OrderedOn(w)
        /\ \A e, n : BeforeOn(wire, e, n) /\ (f.kind = "data" => f.from # e)
                      => BeforeOn(w, e, n)
    BY <1>4, <2>4, <2>6, WriteInOrder
  <2>8. ASSUME NEW e \in Conns \ {c}
        PROVE  PendingIsNewer(e, w, q)
    <3>1. CASE e = d
      <4>1. Holds(q, d)
        BY <1>9, <2>1 DEF Holds
      <4> QED BY <3>1, <4>1 DEF PendingIsNewer
    <3>2. CASE e # d
      <4>1. PendingIsNewer(e, wire, q)
        BY <1>4, <1>6 DEF PendingIsNewer
      <4>2. f.kind = "data" => f.from # e
        BY <2>6, <3>2
      <4> QED BY <2>7, <4>1, <4>2 DEF PendingIsNewer
    <3> QED BY <3>1, <3>2
  <2> QED BY <1>7, <1>5, <2>7, <2>8, ContinueInOrder
<1> QED BY <1>8, <1>9

\* Every step keeps the data in order.
LEMMA DataStep ==
  ASSUME TypeInv, TypeInv', DataInv, [Next]_vars
  PROVE  DataInv'
<1>0. /\ OneDatum /\ CountedOn(wire) /\ OrderedOn(wire) /\ wire \in Wires
      /\ lockq \in Queues /\ todo \in [Conns -> Seq(Send)]
      /\ \A d \in Conns : PendingIsNewer(d, wire, lockq)
      /\ \A s \in Sessions : GoodLegs(legs[s])
      /\ inputs \in Nat
  BY TypeFacts, BoundsAssumption DEF DataInv, TypeInv, TypeOK
<1>1. ASSUME NEW c \in Conns, NEW s \in Sessions, NEW ls \in Seq(Leg),
             NEW kind \in {"ready", "close"},
             Reads(c), Continue(c, ToLegs(ls, kind, s), lockq, wire)
      PROVE  DataInv'
  <2>1. inputs' \in Nat /\ inputs <= inputs' /\ Absent(c, lockq)
    BY <1>1, ReadsProps
  <2>2. PICK sends \in Seq(Send) : sends = ToLegs(ls, kind, s)
    BY ToLegsType
  <2>3. \A i \in 1..Len(sends) : sends[i].frame.kind # "data"
    <3>1. Len(sends) = Len(ls)
      BY <2>2, ToLegsType
    <3>2. \A i \in 1..Len(ls) :
            sends[i] = [to |-> ls[i].conn, frame |-> Control(kind, s), aborts |-> FALSE]
      BY <2>2, ToLegsType
    <3>3. PICK f : f = Control(kind, s)
      OBVIOUS
    <3>4. ASSUME NEW i \in 1..Len(ls)
          PROVE  sends[i].frame = f
      <4>1. sends[i] = [to |-> ls[i].conn, frame |-> f, aborts |-> FALSE]
        BY <3>2, <3>3
      <4> QED BY <4>1
    <3> QED BY <3>1, <3>3, <3>4, ControlIsNoData
  <2> QED BY <1>0, <1>1, <2>1, <2>2, <2>3, ContinueInOrder
<1>2. ASSUME NEW c \in Conns, NEW s \in Sessions, NEW role \in Roles,
             RelayOpen(c, s, role)
      PROVE  DataInv'
  <2>1. PICK ls : ls = PutLeg(legs[s], role, c)
    OBVIOUS
  <2>2. ls \in Seq(Leg)
    BY <1>0, <2>1, PutLegProps DEF GoodLegs
  <2>3. CASE IsReady(ls)
    <3>1. Reads(c) /\ Continue(c, ToLegs(ls, "ready", s), lockq, wire)
      BY <1>2, <2>1, <2>3 DEF RelayOpen
    <3> QED BY <1>1, <2>2, <3>1
  <2>4. CASE ~IsReady(ls)
    <3>1. Reads(c) /\ UNCHANGED <<todo, lockq, wire>>
      BY <1>2, <2>1, <2>4 DEF RelayOpen
    <3>2. inputs' \in Nat /\ inputs <= inputs'
      BY <3>1, ReadsProps
    <3> QED BY <3>1, <3>2, CountInOrder
  <2> QED BY <2>3, <2>4
<1>3. ASSUME NEW c \in Conns, NEW s \in Sessions, RelayClose(c, s)
      PROVE  DataInv'
  <2>1. WithoutLegsOf(legs[s], c) \in Seq(Leg)
    BY <1>0, WithoutLegsProps DEF GoodLegs
  <2>2. /\ Reads(c)
        /\ Continue(c, ToLegs(WithoutLegsOf(legs[s], c), "close", s), lockq, wire)
    BY <1>3 DEF RelayClose
  <2> QED BY <1>1, <2>1, <2>2
<1>4. ASSUME NEW c \in Conns, LimiterGrants(c)
      PROVE  DataInv'
  <2>1. /\ Continue(c, todo[c], lockq, wire) /\ ~Waiting(c) /\ inputs' = inputs
        /\ todo[c] # << >>
    BY <1>4 DEF LimiterGrants, connVars
  <2>2. \A p \in Conns : lockq[p] \in Seq(Conns)
    BY <1>0 DEF Queues
  <2>3. Absent(c, lockq)
    BY <2>1, <2>2, ToSetIsElements DEF Waiting, Absent
  <2>4. ~Holds(lockq, c)
    <3>1. SUFFICES ASSUME NEW p \in Conns, lockq[p] # << >>, Head(lockq[p]) = c
                   PROVE  FALSE
      BY DEF Holds
    <3>2. lockq[p][1] = c /\ 1 \in 1..Len(lockq[p])
      BY <2>2, <3>1, HeadTailProperties, LenProperties
    <3> QED BY <2>3, <3>2 DEF Absent
  <2>5. PICK sends \in Seq(Send) : sends = todo[c]
    BY <1>0
  <2>6. ASSUME NEW i \in 1..Len(sends), sends[i].frame.kind = "data"
        PROVE  /\ Len(sends) = 1 /\ sends[i].frame.from = c
               /\ sends[i].frame.n <= inputs /\ BeforeOn(wire, c, sends[i].frame.n)
    <3>1. /\ Len(sends) = 1 /\ sends[i].frame.from = c
          /\ sends[i].frame.n <= inputs
      BY <1>0, <2>5, <2>6 DEF OneDatum
    <3>2. i = 1 /\ Head(todo[c]) = sends[1]
      BY <2>1, <2>5, <3>1
    <3>3. BeforeOn(wire, c, sends[i].frame.n)
      BY <1>0, <2>1, <2>4, <2>6, <3>2 DEF PendingIsNewer
    <3> QED BY <3>1, <3>3
  <2>7. Continue(c, sends, lockq, wire) /\ inputs' \in Nat /\ inputs <= inputs'
    BY <1>0, <2>1, <2>5
  <2> QED BY <1>0, <2>3, <2>6, <2>7, ContinueInOrder
<1>5. ASSUME NEW c \in Conns, Teardown(c)
      PROVE  DataInv'
  <2>1. PICK order \in Seq(Sessions), sends \in Seq(Send) :
          /\ Len(sends) = Len(order)
          /\ \A i \in 1..Len(order) : sends[i].frame = Control("close", order[i])
          /\ Continue(c, sends, lockq, wire)
    BY <1>5, TeardownShape
  <2>2. todo[c] = << >> /\ inputs' = inputs
    BY <1>5 DEF Teardown
  <2>3. Absent(c, lockq)
    BY <2>2, TypeFacts, IdleIsAbsent
  <2>4. \A i \in 1..Len(sends) : sends[i].frame.kind # "data"
    BY <2>1, ControlIsNoData
  <2>5. inputs' \in Nat /\ inputs <= inputs'
    BY <1>0, <2>2
  <2> QED BY <1>0, <2>1, <2>3, <2>4, <2>5, ContinueInOrder
<1>6. ASSUME UNCHANGED <<inputs, todo, lockq, wire>>
      PROVE  DataInv'
  <2>1. inputs' \in Nat /\ inputs <= inputs'
    BY <1>0, <1>6
  <2> QED BY <1>6, <2>1, CountInOrder
<1>7. \A c \in Conns :
        /\ Closed(c) => UNCHANGED <<inputs, todo, lockq, wire>>
        /\ \A health \in Faults : Fault(c, health) => UNCHANGED <<inputs, todo, lockq, wire>>
  BY DEF Closed, Fault, hubVars
<1>8. UNCHANGED vars => UNCHANGED <<inputs, todo, lockq, wire>>
  BY DEF vars, connVars, hubVars
<1> QED
  BY <1>2, <1>3, <1>4, <1>5, <1>6, <1>7, <1>8, ForwardInOrder, SendEndsInOrder
     DEF Next, Handler

\* At the start nothing is on its way.
LEMMA DataInit == Init => DataInv
<1> SUFFICES ASSUME Init PROVE DataInv
  OBVIOUS
<1>1. \A c \in Conns : Len(todo[c]) = 0 /\ todo[c] = << >> /\ Len(wire[c]) = 0
  BY DEF Init
<1> QED BY <1>1 DEF DataInv, OneDatum, CountedOn, OrderedOn, PendingIsNewer

\* The inductive invariant about DATA frames.
THEOREM DataInvariant == Spec => []DataInv
<1>1. TypeInv /\ TypeInv' /\ DataInv /\ [Next]_vars => DataInv'
  BY DataStep
<1> QED
  BY <1>1, DataInit, TurnsInvariant, PTL DEF Spec

\* DATA of one Drone for one session reaches a wire in the order it was sent.
THEOREM DataStaysInOrder == Spec => []DataInOrder
<1>1. DataInv => DataInOrder
  BY DEF DataInv, OrderedOn, DataInOrder
<1> QED
  BY <1>1, DataInvariant, PTL

-----------------------------------------------------------------------------
(* Nobody waits for RELAY_READY.                                           *)

\* What is written to p is lost from now on.
Deaf(p) == drone[p] = "gone" \/ phase[p] = "closed"

OnWire(w, p, f) == \E i \in 1..Len(w[p]) : w[p][i] = f

\* All that is on the wires w is on the wires x.
Extends(w, x) == \A p \in Conns : \A f : OnWire(w, p, f) => OnWire(x, p, f)

\* The frame that the holder of a lock is sending has been written.
HoldersWrote(q, w) ==
  \A p \in Conns : q[p] # << >> =>
    Deaf(p) \/ OnWire(w, p, Head(todo[Head(q[p])]).frame)

\* RELAY_READY of s is among the sends still to be made to p.
Coming(p, s) ==
  \E c \in Conns : \E k \in 1..Len(todo[c]) :
    todo[c][k].to = p /\ todo[c][k].frame = Control("ready", s)

\* p knows, or will know, or is gone.
ToldReady(p, s) ==
  drone[p] = "gone" \/ OnWire(wire, p, Control("ready", s)) \/ Coming(p, s)

PairsTold ==
  \A s \in Sessions : Len(legs[s]) = 2 =>
    \A i \in 1..2, p \in Conns : p = legs[s][i].conn => ToldReady(p, s)

ReadyInv == HoldersWrote(lockq, wire) /\ PairsTold

\* Writing adds the frame, unless the target is deaf, and removes nothing.
LEMMA WriteExtends ==
  ASSUME NEW w \in Wires, NEW p \in Conns, NEW f \in Frames,
         NEW x, x = Written(w, p, f)
  PROVE  Extends(w, x) /\ (Deaf(p) \/ OnWire(x, p, f))
<1>1. /\ \A r \in Conns \ {p} : x[r] = w[r]
      /\ \/ x[p] = w[p] /\ Deaf(p)
         \/ x[p] = Append(w[p], f)
  BY WrittenType DEF Deaf
<1>2. CASE x[p] = w[p] /\ Deaf(p)
  <2>1. \A r \in Conns : x[r] = w[r]
    BY <1>1, <1>2
  <2> QED BY <1>2, <2>1 DEF Extends, OnWire
<1>3. CASE x[p] = Append(w[p], f)
  <2>1. PICK k \in Nat : k = Len(w[p])
    BY LenProperties DEF Wires
  <2>2. PICK l : l = x[p]
    OBVIOUS
  <2>3. /\ Len(l) = k + 1 /\ l[k + 1] = f /\ k + 1 \in 1..k + 1
        /\ \A i \in 1..k : l[i] = w[p][i] /\ i \in 1..k + 1
    BY <1>3, <2>1, <2>2, AppendProperties DEF Wires
  <2>4. OnWire(x, p, f)
    BY <2>2, <2>3 DEF OnWire
  <2>5. ASSUME NEW r \in Conns, NEW g, OnWire(w, r, g)
        PROVE  OnWire(x, r, g)
    <3>1. CASE r = p
      BY <2>1, <2>2, <2>3, <2>5, <3>1 DEF OnWire
    <3>2. CASE r # p
      BY <1>1, <2>5, <3>2 DEF OnWire
    <3> QED BY <3>1, <3>2
  <2> QED BY <2>4, <2>5 DEF Extends
<1> QED BY <1>1, <1>2, <1>3

\* A handler that goes on writes before it holds.
LEMMA ContinueWrites ==
  ASSUME todo \in [Conns -> Seq(Send)], NEW c \in Conns, NEW sends \in Seq(Send),
         NEW q \in Queues, NEW w \in Wires, Continue(c, sends, q, w), Absent(c, q),
         HoldersWrote(q, w), \A p \in Conns : Deaf(p) => Deaf(p)'
  PROVE  HoldersWrote(lockq, wire)' /\ Extends(w, wire')
<1>1. todo'[c] = sends /\ \A d \in Conns \ {c} : todo'[d] = todo[d]
  BY DEF Continue
<1>2. \A p \in Conns : q[p] \in Seq(Conns)
  BY DEF Queues
<1>3. ASSUME NEW p \in Conns, q[p] # << >>
      PROVE  Head(q[p]) \in Conns \ {c}
  <2>1. Head(q[p]) = q[p][1] /\ Head(q[p]) \in Conns /\ 1 \in 1..Len(q[p])
    BY <1>2, <1>3, HeadTailProperties, LenProperties
  <2> QED BY <2>1 DEF Absent
<1>4. ASSUME NEW p \in Conns, q[p] # << >>
      PROVE  Deaf(p)' \/ OnWire(w, p, Head(todo'[Head(q[p])]).frame)
  BY <1>1, <1>3, <1>4 DEF HoldersWrote
<1>5. CASE sends = << >>
  <2>1. lockq' = q /\ wire' = w
    BY <1>5 DEF Continue
  <2> QED BY <1>4, <2>1 DEF HoldersWrote, OnWire, Extends
<1>6. CASE sends # << >>
  <2>1. Head(sends) \in Send
    BY <1>6, HeadTailProperties
  <2>2. PICK t \in Conns : t = Head(sends).to
    BY <2>1, SendTypes
  <2>3. PICK f \in Frames : f = Head(sends).frame
    BY <2>1, SendTypes
  <2>4. lockq' = [q EXCEPT ![t] = Append(q[t], c)]
    BY <1>6, <2>2 DEF Continue, Queued
  <2>5. wire' = IF q[t] = << >> THEN Written(w, t, f) ELSE w
    BY <1>6, <2>2, <2>3 DEF Continue, WrittenIfFree
  <2>6. Extends(w, wire') /\ (q[t] = << >> => Deaf(t) \/ OnWire(wire', t, f))
    BY <2>5, WriteExtends DEF Extends
  <2>7. lockq'[t] = Append(q[t], c) /\ \A r \in Conns \ {t} : lockq'[r] = q[r]
    BY <2>4 DEF Queues
  <2>8. Head(lockq'[t]) = IF q[t] = << >> THEN c ELSE Head(q[t])
    BY <1>2, <2>7, HeadTailAppend
  <2>9. ASSUME NEW p \in Conns, lockq'[p] # << >>
        PROVE  Deaf(p)' \/ OnWire(wire', p, Head(todo'[Head(lockq'[p])]).frame)
    <3>1. CASE p = t /\ q[t] = << >>
      <4>1. Head(todo'[Head(lockq'[p])]).frame = f
        BY <1>1, <2>3, <2>8, <3>1
      <4> QED BY <2>6, <3>1, <4>1
    <3>2. CASE ~(p = t /\ q[t] = << >>)
      <4>1. q[p] # << >> /\ Head(lockq'[p]) = Head(q[p])
        BY <2>7, <2>8, <2>9, <3>2
      <4>2. Deaf(p)' \/ OnWire(w, p, Head(todo'[Head(q[p])]).frame)
        BY <1>4, <4>1
      <4> QED BY <2>6, <4>1, <4>2 DEF Extends
    <3> QED BY <3>1, <3>2
  <2> QED BY <2>6, <2>9 DEF HoldersWrote, OnWire
<1> QED BY <1>5, <1>6

\* Whoever was told stays told, as long as no send to be made is forgotten.
LEMMA ToldStays ==
  ASSUME NEW p \in Conns, NEW s \in Sessions, ToldReady(p, s),
         Extends(wire, wire'),
         drone[p] = "gone" => drone'[p] = "gone",
         Coming(p, s) => \/ Coming(p, s)' \/ drone'[p] = "gone"
                         \/ OnWire(wire', p, Control("ready", s))
  PROVE  ToldReady(p, s)'
<1>1. ToldReady(p, s)' <=>
        drone'[p] = "gone" \/ OnWire(wire', p, Control("ready", s)) \/ Coming(p, s)'
  BY DEF ToldReady, OnWire
<1> QED BY <1>1 DEF ToldReady, Extends

\* An idle handler that gets something to send forgets nothing.
LEMMA ComingStays ==
  ASSUME todo \in [Conns -> Seq(Send)], NEW c \in Conns, NEW sends,
         todo[c] = << >> \/ todo[c] = sends, todo' = [todo EXCEPT ![c] = sends],
         NEW p, NEW s, Coming(p, s)
  PROVE  Coming(p, s)'
<1>1. PICK d \in Conns : \E k \in 1..Len(todo[d]) :
        todo[d][k].to = p /\ todo[d][k].frame = Control("ready", s)
  BY DEF Coming
<1>2. todo'[d] = todo[d]
  <2>1. CASE d = c
    BY <1>1, <2>1
  <2>2. CASE d # c
    BY <2>2
  <2> QED BY <2>1, <2>2
<1> QED BY <1>1, <1>2 DEF Coming

\* What a step must do to keep ReadyInv.
LEMMA ReadyKept ==
  ASSUME ReadyInv, HoldersWrote(lockq, wire)', Extends(wire, wire'),
         \A p \in Conns : drone[p] = "gone" => drone'[p] = "gone",
         \A p \in Conns, s \in Sessions :
           Coming(p, s) => \/ Coming(p, s)' \/ drone'[p] = "gone"
                           \/ OnWire(wire', p, Control("ready", s)),
         \A s \in Sessions : Len(legs'[s]) = 2 =>
           \/ legs'[s] = legs[s]
           \/ \A i \in 1..2, p \in Conns : p = legs'[s][i].conn => Coming(p, s)'
  PROVE  ReadyInv'
<1>1. ASSUME NEW s \in Sessions, Len(legs'[s]) = 2, NEW i \in 1..2,
             NEW p \in Conns, p = legs'[s][i].conn
      PROVE  ToldReady(p, s)'
  <2>1. CASE legs'[s] = legs[s]
    <3>1. ToldReady(p, s)
      BY <1>1, <2>1 DEF ReadyInv, PairsTold
    <3> QED BY <3>1, ToldStays
  <2>2. CASE Coming(p, s)'
    BY <2>2 DEF ToldReady
  <2> QED BY <1>1, <2>1, <2>2
<1>2. PairsTold'
  BY <1>1 DEF PairsTold
<1> QED BY <1>2 DEF ReadyInv

\* Nothing is written, nothing forgotten.
LEMMA ExtendsItself == Extends(wire, wire)
BY DEF Extends

\* Sends to the two legs of a pair.
LEMMA PairIsComing ==
  ASSUME NEW c \in Conns, NEW s \in Sessions, NEW ls \in Seq(Leg), Len(ls) = 2,
         todo \in [Conns -> Seq(Send)],
         todo' = [todo EXCEPT ![c] = ToLegs(ls, "ready", s)],
         NEW i \in 1..2, NEW p, p = ls[i].conn
  PROVE  Coming(p, s)'
<1>1. PICK l : l = ToLegs(ls, "ready", s)
  OBVIOUS
<1>2. PICK f : f = Control("ready", s)
  OBVIOUS
<1>3. Len(l) = 2 /\ l[i] = [to |-> ls[i].conn, frame |-> f, aborts |-> FALSE]
  BY <1>1, <1>2, ToLegsType
<1>4. l[i].to = p /\ l[i].frame = f
  BY <1>3
<1>5. todo'[c] = l
  BY <1>1
<1>6. i \in 1..Len(todo'[c]) /\ todo'[c][i].to = p /\ todo'[c][i].frame = f
  BY <1>3, <1>4, <1>5
<1> QED BY <1>2, <1>6 DEF Coming

\* When a send ends, its frame is on the wire: RELAY_READY reaches whoever is
\* still there to be told.
LEMMA SendEndsTold ==
  ASSUME TypeInv, NoStrayLegs, ReadyInv, NEW p \in Conns, SendEnds(p)
  PROVE  ReadyInv'
<1>1. PICK c \in Conns, q \in Queues, rest \in Seq(Send) :
           /\ lockq[p] # << >> /\ c = Head(lockq[p])
           /\ todo[c] # << >> /\ Head(todo[c]).to = p
           /\ todo[c] \in Seq(Send) /\ rest = Tail(todo[c])
           /\ q[p] = Tail(lockq[p]) /\ \A r \in Conns \ {p} : q[r] = lockq[r]
           /\ Fits(q) /\ Absent(c, q)
           /\ q[p] # << >> =>
                /\ Head(q[p]) \in Conns /\ Head(q[p]) # c
                /\ todo[Head(q[p])] # << >>
                /\ Head(todo[Head(q[p])]) \in Send
                /\ Head(todo[Head(q[p])]).to = p
           /\ Handover(q, p) \in Wires
           /\ Continue(c, rest, q, Handover(q, p))
  BY SendEndsShape
<1>2. PICK w \in Wires : w = Handover(q, p)
  BY <1>1
<1>3. UNCHANGED <<drone, phase, legs>>
  BY DEF SendEnds, connVars
<1>4. /\ HoldersWrote(lockq, wire) /\ wire \in Wires
      /\ todo \in [Conns -> Seq(Send)] /\ lockq \in Queues
  BY TypeFacts DEF ReadyInv
<1>5. /\ Extends(wire, w)
      /\ q[p] # << >> => Deaf(p) \/ OnWire(w, p, Head(todo[Head(q[p])]).frame)
  <2>1. CASE q[p] = << >>
    BY <1>2, <2>1, ExtendsItself DEF Handover
  <2>2. CASE q[p] # << >>
    <3>1. PICK f \in Frames : f = Head(todo[Head(q[p])]).frame
      BY <1>1, <2>2, SendTypes
    <3>2. w = Written(wire, p, f)
      BY <1>2, <2>2, <3>1 DEF Handover
    <3> QED BY <1>4, <3>1, <3>2, WriteExtends
  <2> QED BY <2>1, <2>2
<1>6. HoldersWrote(q, w)
  <2>1. ASSUME NEW r \in Conns, q[r] # << >>
        PROVE  Deaf(r) \/ OnWire(w, r, Head(todo[Head(q[r])]).frame)
    <3>1. CASE r = p
      BY <1>5, <2>1, <3>1
    <3>2. CASE r # p
      <4>1. q[r] = lockq[r]
        BY <1>1, <3>2
      <4>2. Deaf(r) \/ OnWire(wire, r, Head(todo[Head(q[r])]).frame)
        BY <1>4, <2>1, <4>1 DEF HoldersWrote
      <4> QED BY <1>5, <4>2 DEF Extends
    <3> QED BY <3>1, <3>2
  <2> QED BY <2>1 DEF HoldersWrote
<1>7. \A r \in Conns : Deaf(r) => Deaf(r)'
  BY <1>3 DEF Deaf
<1>8. Continue(c, rest, q, w) /\ Absent(c, q)
  BY <1>1, <1>2
<1>9. HoldersWrote(lockq, wire)' /\ Extends(w, wire')
  BY <1>4, <1>6, <1>7, <1>8, ContinueWrites
<1>10. Extends(wire, wire')
  BY <1>5, <1>9 DEF Extends
<1>11. todo' = [todo EXCEPT ![c] = rest]
  BY <1>8 DEF Continue
<1>12. ASSUME NEW r \in Conns, NEW s \in Sessions, Len(legs[s]) = 2,
              NEW i \in 1..2, r = legs[s][i].conn, Coming(r, s)
       PROVE  \/ Coming(r, s)' \/ drone'[r] = "gone"
              \/ OnWire(wire', r, Control("ready", s))
  <2>1. PICK f : f = Control("ready", s)
    OBVIOUS
  <2>0. PICK d \in Conns : \E k \in 1..Len(todo[d]) :
          todo[d][k].to = r /\ todo[d][k].frame = f
    BY <1>12, <2>1 DEF Coming
  <2>2. PICK k \in 1..Len(todo[d]) : todo[d][k].to = r /\ todo[d][k].frame = f
    BY <2>0
  <2>3. CASE d # c
    <3>1. todo'[d] = todo[d]
      BY <1>4, <1>11, <2>3
    <3> QED BY <2>1, <2>2, <3>1 DEF Coming
  <2>4. CASE d = c /\ k # 1
    <3>1. todo'[c] = rest
      BY <1>4, <1>11
    <3>2. /\ Len(rest) = Len(todo[c]) - 1
          /\ \A j \in 1..Len(rest) : rest[j] = todo[c][j + 1]
      BY <1>1, HeadTailProperties
    <3>3. Len(todo[c]) \in Nat
      BY <1>1, LenProperties
    <3>4. PICK j \in 1..Len(rest) : j + 1 = k
      <4>1. k - 1 \in 1..Len(rest)
        BY <2>4, <3>2, <3>3
      <4> QED BY <4>1, <3>3
    <3>5. todo'[c][j].to = r /\ todo'[c][j].frame = f /\ j \in 1..Len(todo'[c])
      BY <2>2, <2>4, <3>1, <3>2, <3>4
    <3> QED BY <2>1, <3>5 DEF Coming
  <2>5. CASE d = c /\ k = 1
    <3>1. Head(todo[c]) = todo[c][1]
      BY <1>1
    <3>2. r = p /\ Head(todo[c]).frame = f
      BY <1>1, <2>2, <2>5, <3>1
    <3>3. Deaf(p) \/ OnWire(wire, p, f)
      BY <1>1, <1>4, <3>2 DEF HoldersWrote
    <3>4. phase[r] = "serving"
      BY <1>12, NoStrayIsServed DEF ServedIn
    <3>5. drone[p] = "gone" \/ OnWire(wire', p, f)
      BY <1>10, <3>2, <3>3, <3>4 DEF Deaf, Extends
    <3> QED BY <1>3, <2>1, <3>2, <3>5
  <2> QED BY <2>3, <2>4, <2>5
<1>13. ASSUME NEW s \in Sessions, Len(legs'[s]) = 2, NEW i \in 1..2,
              NEW r \in Conns, r = legs'[s][i].conn
       PROVE  ToldReady(r, s)'
  <2>1. ToldReady(r, s) /\ Len(legs[s]) = 2 /\ r = legs[s][i].conn
    BY <1>3, <1>13 DEF ReadyInv, PairsTold
  <2>2. Coming(r, s) => \/ Coming(r, s)' \/ drone'[r] = "gone"
                        \/ OnWire(wire', r, Control("ready", s))
    BY <1>12, <2>1
  <2>3. drone[r] = "gone" => drone'[r] = "gone"
    BY <1>3
  <2> QED BY <1>10, <2>1, <2>2, <2>3, ToldStays
<1>14. PairsTold'
  BY <1>13 DEF PairsTold
<1> QED BY <1>9, <1>14 DEF ReadyInv

\* Every step tells the pairs it makes, and forgets nobody.
LEMMA ReadyStep ==
  ASSUME TypeInv, TypeInv', NoStrayLegs, ReadyInv, [Next]_vars
  PROVE  ReadyInv'
<1>0. /\ HoldersWrote(lockq, wire) /\ wire \in Wires
      /\ lockq \in Queues /\ todo \in [Conns -> Seq(Send)]
      /\ legs \in [Sessions -> Seq(Leg)]
      /\ \A s \in Sessions : GoodLegs(legs[s])
      /\ phase \in [Conns -> {"serving", "teardown", "closed"}]
      /\ drone \in [Conns -> {"up", "stalled", "gone"}]
  BY TypeFacts DEF ReadyInv, TypeInv, TypeOK
\* A handler with nothing to send, or with the limiter behind it, goes on.
<1>1. ASSUME NEW c \in Conns, NEW sends \in Seq(Send),
             Continue(c, sends, lockq, wire), Absent(c, lockq),
             todo[c] = << >> \/ todo[c] = sends, drone' = drone,
             phase' = phase \/ (phase[c] = "serving" /\ phase' = [phase EXCEPT ![c] = "teardown"]),
             \A s \in Sessions : Len(legs'[s]) = 2 =>
               \/ legs'[s] = legs[s]
               \/ \A i \in 1..2, p \in Conns : p = legs'[s][i].conn => Coming(p, s)'
      PROVE  ReadyInv'
  <2>1. \A p \in Conns : Deaf(p) => Deaf(p)'
    BY <1>0, <1>1 DEF Deaf
  <2>2. HoldersWrote(lockq, wire)' /\ Extends(wire, wire')
    BY <1>0, <1>1, <2>1, ContinueWrites
  <2>3. todo' = [todo EXCEPT ![c] = sends]
    BY <1>1 DEF Continue
  <2>4. \A p \in Conns, s \in Sessions : Coming(p, s) => Coming(p, s)'
    <3>1. ASSUME NEW p \in Conns, NEW s \in Sessions, Coming(p, s)
          PROVE  Coming(p, s)'
      BY <1>0, <1>1, <2>3, <3>1, ComingStays
    <3> QED BY <3>1
  <2>5. \A p \in Conns : drone[p] = "gone" => drone'[p] = "gone"
    BY <1>1
  <2> QED BY <1>1, <2>2, <2>4, <2>5, ReadyKept
\* Nothing is sent or queued.
<1>2. ASSUME UNCHANGED <<todo, lockq, wire>>,
             \A p \in Conns : drone[p] = "gone" => drone'[p] = "gone",
             \A p \in Conns : phase[p] = "closed" => phase'[p] = "closed",
             \A s \in Sessions : Len(legs'[s]) = 2 => legs'[s] = legs[s]
      PROVE  ReadyInv'
  <2>1. HoldersWrote(lockq, wire)'
    BY <1>0, <1>2 DEF HoldersWrote, Deaf, OnWire
  <2>2. Extends(wire, wire')
    BY <1>2, ExtendsItself
  <2>3. \A p \in Conns, s \in Sessions : Coming(p, s) => Coming(p, s)'
    BY <1>2 DEF Coming
  <2> QED BY <1>2, <2>1, <2>2, <2>3, ReadyKept
<1>3. ASSUME NEW c \in Conns, NEW s \in Sessions, NEW role \in Roles,
             RelayOpen(c, s, role)
      PROVE  ReadyInv'
  <2>1. PICK ls : ls = PutLeg(legs[s], role, c)
    OBVIOUS
  <2>2. GoodLegs(ls) /\ ls \in Seq(Leg)
    BY <1>0, <2>1, PutLegProps DEF GoodLegs
  <2>3. /\ Reads(c) /\ UNCHANGED <<phase, drone>>
        /\ legs' = [legs EXCEPT ![s] = ls]
    BY <1>3, <2>1 DEF RelayOpen
  <2>4. legs'[s] = ls /\ \A x \in Sessions \ {s} : legs'[x] = legs[x]
    BY <1>0, <2>3
  <2>5. CASE IsReady(ls)
    <3>1. Continue(c, ToLegs(ls, "ready", s), lockq, wire)
      BY <1>3, <2>1, <2>5 DEF RelayOpen
    <3>2. Absent(c, lockq) /\ todo[c] = << >>
      BY <2>3, ReadsProps
    <3>3. todo' = [todo EXCEPT ![c] = ToLegs(ls, "ready", s)]
      BY <3>1 DEF Continue
    <3>4. Len(ls) = 2
      BY <2>2, <2>5, ReadyIsTwo
    <3>5. \A i \in 1..2, p \in Conns : p = legs'[s][i].conn => Coming(p, s)'
      <4>1. ASSUME NEW i \in 1..2, NEW p \in Conns, p = legs'[s][i].conn
            PROVE  Coming(p, s)'
        <5>1. p = ls[i].conn
          BY <2>4, <4>1
        <5> QED BY <1>0, <2>2, <3>3, <3>4, <5>1, PairIsComing
      <4> QED BY <4>1
    <3>6. \A x \in Sessions : Len(legs'[x]) = 2 =>
            \/ legs'[x] = legs[x]
            \/ \A i \in 1..2, p \in Conns : p = legs'[x][i].conn => Coming(p, x)'
      BY <2>4, <3>5
    <3>7. ToLegs(ls, "ready", s) \in Seq(Send)
      BY <2>2, ToLegsType
    <3> QED BY <1>1, <2>3, <3>1, <3>2, <3>6, <3>7
  <2>6. CASE ~IsReady(ls)
    <3>1. UNCHANGED <<todo, lockq, wire>>
      BY <1>3, <2>1, <2>6 DEF RelayOpen
    <3>2. Len(ls) # 2
      BY <2>2, <2>6, ReadyIsTwo
    <3>3. \A x \in Sessions : Len(legs'[x]) = 2 => legs'[x] = legs[x]
      BY <2>4, <3>2
    <3> QED BY <1>2, <2>3, <3>1, <3>3
  <2> QED BY <2>5, <2>6
<1>4. ASSUME NEW c \in Conns, NEW s \in Sessions, RelayClose(c, s)
      PROVE  ReadyInv'
  <2>1. PICK ls : ls = WithoutLegsOf(legs[s], c)
    OBVIOUS
  <2>2. ls \in Seq(Leg)
    BY <1>0, <2>1, WithoutLegsProps DEF GoodLegs
  <2>3. /\ Reads(c) /\ UNCHANGED <<phase, drone>>
        /\ legs' = [legs EXCEPT ![s] = << >>]
        /\ Continue(c, ToLegs(ls, "close", s), lockq, wire)
    BY <1>4, <2>1 DEF RelayClose
  <2>4. Len(legs'[s]) = 0 /\ \A x \in Sessions \ {s} : legs'[x] = legs[x]
    BY <1>0, <2>3
  <2>5. \A x \in Sessions : Len(legs'[x]) = 2 => legs'[x] = legs[x]
    <3>1. ASSUME NEW x \in Sessions, Len(legs'[x]) = 2
          PROVE  legs'[x] = legs[x]
      <4>1. PICK n : n = Len(legs'[x])
        OBVIOUS
      <4>2. n = 2
        BY <3>1, <4>1
      <4>3. x = s => n = 0
        BY <2>4, <4>1
      <4>4. x # s
        BY <4>2, <4>3
      <4> QED BY <2>4, <4>4
    <3> QED BY <3>1
  <2>6. Absent(c, lockq) /\ todo[c] = << >>
    BY <2>3, ReadsProps
  <2>7. ToLegs(ls, "close", s) \in Seq(Send)
    BY <2>2, ToLegsType
  <2> QED BY <1>1, <2>3, <2>5, <2>6, <2>7
<1>5. ASSUME NEW c \in Conns, NEW s \in Sessions, Forward(c, s)
      PROVE  ReadyInv'
  <2>1. UNCHANGED <<phase, drone, legs, lockq, wire>> /\ todo[c] = << >> /\ Absent(c, lockq)
    BY <1>5, ReadsProps DEF Forward
  <2>2. CASE UNCHANGED todo
    BY <1>2, <2>1, <2>2
  <2>3. ASSUME NEW sends, todo' = [todo EXCEPT ![c] = sends]
        PROVE  ReadyInv'
    <3>1. \A d \in Conns \ {c} : todo'[d] = todo[d]
      BY <2>3
    <3>2. ASSUME NEW p \in Conns, lockq'[p] # << >>
          PROVE  Deaf(p)' \/ OnWire(wire', p, Head(todo'[Head(lockq'[p])]).frame)
      <4>1. Head(lockq[p]) = lockq[p][1] /\ Head(lockq[p]) \in Conns /\ 1 \in 1..Len(lockq[p])
        BY <1>0, <2>1, <3>2, HeadTailProperties, LenProperties DEF Queues
      <4>2. Head(lockq[p]) # c
        BY <2>1, <4>1 DEF Absent
      <4>3. todo'[Head(lockq[p])] = todo[Head(lockq[p])]
        BY <3>1, <4>1, <4>2
      <4> QED BY <1>0, <2>1, <3>2, <4>3 DEF HoldersWrote, Deaf
    <3>3. HoldersWrote(lockq, wire)'
      BY <3>2 DEF HoldersWrote, OnWire
    <3>4. \A p \in Conns, x \in Sessions : Coming(p, x) => Coming(p, x)'
      BY <1>0, <2>1, <2>3, ComingStays
    <3> QED BY <2>1, <3>3, <3>4, ExtendsItself, ReadyKept
  <2> QED BY <1>5, <2>2, <2>3 DEF Forward
<1>6. ASSUME NEW c \in Conns, LimiterGrants(c)
      PROVE  ReadyInv'
  <2>1. /\ Continue(c, todo[c], lockq, wire) /\ ~Waiting(c)
        /\ UNCHANGED <<phase, drone, legs>>
    BY <1>6 DEF LimiterGrants, connVars
  <2>2. \A p \in Conns : lockq[p] \in Seq(Conns)
    BY <1>0 DEF Queues
  <2>3. Absent(c, lockq)
    BY <2>1, <2>2, ToSetIsElements DEF Waiting, Absent
  <2>4. todo[c] \in Seq(Send)
    BY <1>0
  <2> QED BY <1>1, <2>1, <2>3, <2>4
<1>7. ASSUME NEW c \in Conns, Teardown(c)
      PROVE  ReadyInv'
  <2>1. PICK order \in Seq(Sessions), sends \in Seq(Send) :
          Continue(c, sends, lockq, wire)
    BY <1>7, TeardownShape
  <2>2. /\ phase[c] = "serving" /\ todo[c] = << >>
        /\ phase' = [phase EXCEPT ![c] = "teardown"] /\ drone' = drone
    BY <1>7 DEF Teardown
  <2>3. Absent(c, lockq)
    BY <2>2, TypeFacts, IdleIsAbsent
  <2>4. legs' = [s \in Sessions |-> WithoutLegsOf(legs[s], c)]
    BY <1>7, TeardownShape
  <2>5. \A x \in Sessions : Len(legs'[x]) = 2 => legs'[x] = legs[x]
    <3>1. SUFFICES ASSUME NEW x \in Sessions, Len(legs'[x]) = 2
                   PROVE  legs'[x] = legs[x]
      OBVIOUS
    <3>2. PICK r : r = legs'[x]
      OBVIOUS
    <3>3. r = WithoutLegsOf(legs[x], c)
      BY <2>4, <3>2
    <3>4. Len(r) <= Len(legs[x]) /\ (Len(r) = Len(legs[x]) => r = legs[x])
      BY <1>0, <3>3, WithoutLegsProps
    <3>5. Len(legs[x]) \in 0..2
      BY <1>0, GoodLegsLen
    <3>6. Len(r) = 2
      BY <3>1, <3>2
    <3>7. \A m \in 0..2 : 2 <= m => m = 2
      OBVIOUS
    <3> QED BY <3>2, <3>4, <3>5, <3>6, <3>7
  <2> QED BY <1>1, <2>1, <2>2, <2>3, <2>5
<1>8. ASSUME NEW c \in Conns, Closed(c)
      PROVE  ReadyInv'
  <2>1. /\ UNCHANGED <<todo, lockq, wire, drone, legs>>
        /\ phase' = [phase EXCEPT ![c] = "closed"]
    BY <1>8 DEF Closed, hubVars
  <2>2. \A p \in Conns : phase[p] = "closed" => phase'[p] = "closed"
    BY <1>0, <2>1
  <2> QED BY <1>2, <2>1, <2>2
<1>9. ASSUME NEW c \in Conns, NEW health \in Faults, Fault(c, health)
      PROVE  ReadyInv'
  <2>1. /\ UNCHANGED <<todo, lockq, wire, phase, legs>> /\ drone[c] = "up"
        /\ drone' = [drone EXCEPT ![c] = health]
    BY <1>9 DEF Fault, hubVars
  <2>2. \A p \in Conns : drone[p] = "gone" => drone'[p] = "gone"
    BY <1>0, <2>1
  <2> QED BY <1>2, <2>1, <2>2
<1>10. CASE UNCHANGED vars
  <2>1. UNCHANGED <<todo, lockq, wire, phase, drone, legs>>
    BY <1>10 DEF vars, connVars, hubVars
  <2> QED BY <1>2, <2>1
<1> QED
  BY <1>3, <1>4, <1>5, <1>6, <1>7, <1>8, <1>9, <1>10, SendEndsTold DEF Next, Handler

\* At the start there is no pair and no lock is taken.
LEMMA ReadyInit == Init => ReadyInv
<1> SUFFICES ASSUME Init PROVE ReadyInv
  OBVIOUS
<1>1. /\ \A s \in Sessions : Len(legs[s]) = 0
      /\ \A p \in Conns : lockq[p] = << >>
  BY DEF Init
<1> QED BY <1>1 DEF ReadyInv, HoldersWrote, PairsTold

\* The inductive invariant about RELAY_READY.
THEOREM ReadyInvariant == Spec => []ReadyInv
<1>1. TypeInv /\ TypeInv' /\ NoStrayLegs /\ ReadyInv /\ [Next]_vars => ReadyInv'
  BY ReadyStep
<1> QED
  BY <1>1, ReadyInit, TurnsInvariant, LegsAreServed, PTL DEF Spec

\* When no handler has a send left to make, both Drones of every pair on the
\* hub have been told RELAY_READY, or are gone.
THEOREM PairsAreTold == Spec => []NobodyWaitsForReady
<1>1. ASSUME TypeInv, ReadyInv
      PROVE  NobodyWaitsForReady
  <2>1. SUFFICES ASSUME \A c \in Conns : todo[c] = << >>,
                        NEW s \in Sessions, IsReady(legs[s]),
                        NEW leg \in ToSet(legs[s])
                 PROVE  \/ drone[leg.conn] = "gone"
                        \/ \E f \in ToSet(wire[leg.conn]) :
                             f.kind = "ready" /\ f.session = s
    BY DEF NobodyWaitsForReady
  <2>2. GoodLegs(legs[s]) /\ wire \in Wires
    BY <1>1, TypeFacts
  <2>3. legs[s] \in Seq(Leg) /\ Len(legs[s]) = 2
    BY <2>1, <2>2, ReadyIsTwo DEF GoodLegs
  <2>4. PICK i \in 1..2 : legs[s][i] = leg
    BY <2>1, <2>3, ToSetIsElements
  <2>5. leg \in Leg
    BY <2>3, <2>4
  <2>6. PICK p \in Conns : p = leg.conn
    BY <2>5 DEF Leg
  <2>7. ToldReady(p, s)
    BY <1>1, <2>3, <2>4, <2>6 DEF ReadyInv, PairsTold
  <2>8. ~Coming(p, s)
    BY <2>1 DEF Coming
  <2>9. CASE OnWire(wire, p, Control("ready", s))
    <3>1. wire[p] \in Seq(Frames)
      BY <2>2 DEF Wires
    <3>2. Control("ready", s) \in ToSet(wire[p])
      BY <2>9, <3>1, ToSetIsElements DEF OnWire
    <3>3. Control("ready", s).kind = "ready" /\ Control("ready", s).session = s
      BY DEF Control
    <3> QED BY <2>6, <3>2, <3>3
  <2> QED BY <2>6, <2>7, <2>8, <2>9 DEF ToldReady
<1>2. TypeInv /\ ReadyInv => NobodyWaitsForReady
  BY <1>1
<1> QED
  BY <1>2, TurnsInvariant, ReadyInvariant, PTL

-----------------------------------------------------------------------------
(* A relay is reported aborted at most once per time it was reported active. *)

\* How many of the first k reports are x.
UpTo(r, k, x) == Cardinality({i \in 1..k : r[i] = x})

\* AbortsArePaired, of the reports r of one session.
Paired(r) == \A k \in 1..Len(r) : UpTo(r, k, "aborted") <= UpTo(r, k, "active")

\* A report "active" is matched by a report "aborted", by one still owed, or
\* by the pair that is on the hub: n reports are owed, ls are the legs.
Balance(r, n, ls) ==
  Count(r, "aborted") + n + (IF Len(ls) = 2 THEN 1 ELSE 0) <= Count(r, "active")

Balanced ==
  \A s \in Sessions : \A r, owing, ls :
    r = reports[s] /\ owing = Owing(s) /\ ls = legs[s] =>
      Balance(r, Cardinality(owing), ls) /\ Paired(r)

\* The sends t name the session s after the first of them.
Names(t, s) == \E i \in 2..Len(t) : t[i].aborts /\ t[i].frame.session = s

\* No two sends of t report the same session.
NamesOnce(t) ==
  \A i, j \in 1..Len(t) :
    t[i].aborts /\ t[j].aborts /\ t[i].frame.session = t[j].frame.session => i = j

NamedOnce == \A c \in Conns : \A t : t = todo[c] => NamesOnce(t)

\* The reports q are the reports r and one more.
Logged(q, r, x) == q = Append(r, x)

\* Counting is finite.
LEMMA UpToType ==
  ASSUME NEW r, NEW k \in Nat, NEW x
  PROVE  UpTo(r, k, x) \in Nat /\ IsFiniteSet({i \in 1..k : r[i] = x})
<1>1. IsFiniteSet(1..k) /\ {i \in 1..k : r[i] = x} \in SUBSET (1..k)
  BY FS_Interval
<1>2. IsFiniteSet({i \in 1..k : r[i] = x})
  BY <1>1, FS_Subset
<1> QED BY <1>2, FS_CardinalityType DEF UpTo

\* Counting all of a sequence.
LEMMA CountIsUpTo ==
  ASSUME NEW r \in Seq(Reported), NEW x
  PROVE  Count(r, x) = UpTo(r, Len(r), x) /\ Count(r, x) \in Nat
<1>1. Len(r) \in Nat
  BY LenProperties
<1> QED BY <1>1, UpToType, ZenonT(30) DEF Count, UpTo

\* One more report adds one to the count of its kind and leaves the others,
\* and the counts of what came before, as they are.
LEMMA CountAppend ==
  ASSUME NEW r \in Seq(Reported), NEW y \in Reported, NEW q, Logged(q, r, y),
         NEW x \in Reported
  PROVE  /\ q \in Seq(Reported) /\ Len(q) = Len(r) + 1
         /\ Count(q, x) = IF x = y THEN Count(r, x) + 1 ELSE Count(r, x)
         /\ \A k \in 1..Len(r) : UpTo(q, k, x) = UpTo(r, k, x)
<1>1. PICK n \in Nat : n = Len(r)
  BY LenProperties
<1>2. /\ q \in Seq(Reported) /\ Len(q) = n + 1
      /\ q[n + 1] = y /\ \A i \in 1..n : q[i] = r[i]
  BY <1>1, AppendProperties DEF Logged
<1>3. ASSUME NEW k \in 1..n
      PROVE  UpTo(q, k, x) = UpTo(r, k, x)
  <2>1. \A i \in 1..k : q[i] = r[i]
    BY <1>2, <1>3
  <2>2. {i \in 1..k : q[i] = x} = {i \in 1..k : r[i] = x}
    BY <2>1
  <2> QED BY <2>2 DEF UpTo
<1>4. PICK S : S = {i \in 1..n : r[i] = x}
  OBVIOUS
<1>5. IsFiniteSet(S) /\ Cardinality(S) = Count(r, x)
  <2>1. IsFiniteSet({i \in 1..n : r[i] = x})
    BY UpToType
  <2> QED BY <1>1, <1>4, <2>1 DEF Count
<1>6. n + 1 \notin S
  BY <1>4
<1>7. CASE x = y
  <2>1. {i \in 1..n + 1 : q[i] = x} = S \cup {n + 1}
    BY <1>2, <1>4, <1>7
  <2>2. Cardinality(S \cup {n + 1}) = Cardinality(S) + 1
    BY <1>5, <1>6, FS_AddElement
  <2>3. Count(q, x) = Cardinality(S \cup {n + 1})
    BY <1>2, <2>1 DEF Count
  <2> QED BY <1>1, <1>2, <1>3, <1>5, <1>7, <2>2, <2>3
<1>8. CASE x # y
  <2>1. {i \in 1..n + 1 : q[i] = x} = S
    BY <1>2, <1>4, <1>8
  <2>2. Count(q, x) = Cardinality(S)
    BY <1>2, <2>1 DEF Count
  <2> QED BY <1>1, <1>2, <1>3, <1>5, <1>8, <2>2
<1> QED BY <1>7, <1>8

\* The same, kind by kind.
LEMMA CountsAppend ==
  ASSUME NEW r \in Seq(Reported), NEW y \in Reported, NEW q, Logged(q, r, y)
  PROVE  /\ q \in Seq(Reported) /\ Len(q) = Len(r) + 1
         /\ \A x \in Reported :
              /\ Count(q, x) = IF x = y THEN Count(r, x) + 1 ELSE Count(r, x)
              /\ \A k \in 1..Len(r) : UpTo(q, k, x) = UpTo(r, k, x)
<1>1. ASSUME NEW x \in Reported
      PROVE  /\ q \in Seq(Reported) /\ Len(q) = Len(r) + 1
             /\ Count(q, x) = IF x = y THEN Count(r, x) + 1 ELSE Count(r, x)
             /\ \A k \in 1..Len(r) : UpTo(q, k, x) = UpTo(r, k, x)
  BY CountAppend
<1>2. q \in Seq(Reported) /\ Len(q) = Len(r) + 1
  BY AppendProperties DEF Logged
<1> QED BY <1>1, <1>2

\* A report keeps the reports paired when it leaves the total paired.
LEMMA PairedAppend ==
  ASSUME NEW r \in Seq(Reported), Paired(r), NEW y \in Reported,
         NEW q, Logged(q, r, y), Count(q, "aborted") <= Count(q, "active")
  PROVE  Paired(q)
<1>1. PICK n \in Nat : n = Len(r)
  BY LenProperties
<1>2. /\ q \in Seq(Reported) /\ Len(q) = n + 1
      /\ \A k \in 1..n : UpTo(q, k, "aborted") = UpTo(r, k, "aborted")
      /\ \A k \in 1..n : UpTo(q, k, "active") = UpTo(r, k, "active")
  <2>1. "aborted" \in Reported /\ "active" \in Reported
    BY DEF Reported
  <2>2. /\ q \in Seq(Reported) /\ Len(q) = Len(r) + 1
        /\ \A x \in Reported : \A k \in 1..Len(r) : UpTo(q, k, x) = UpTo(r, k, x)
    BY CountsAppend
  <2> QED BY <1>1, <2>1, <2>2
<1>3. ASSUME NEW k \in 1..n + 1
      PROVE  UpTo(q, k, "aborted") <= UpTo(q, k, "active")
  <2>1. CASE k \in 1..n
    BY <1>1, <1>2, <2>1 DEF Paired
  <2>2. CASE k = n + 1
    BY <1>2, <2>2, CountIsUpTo
  <2>3. k \in 1..n \/ k = n + 1
    BY <1>3
  <2> QED BY <2>1, <2>2, <2>3
<1> QED BY <1>2, <1>3 DEF Paired

\* Paired says what AbortsArePaired does.
LEMMA PairedIsPaired ==
  ASSUME reports \in [Sessions -> Seq(Reported)], \A s \in Sessions : Paired(reports[s])
  PROVE  AbortsArePaired
<1>1. ASSUME NEW s \in Sessions, NEW k \in 1..Len(reports[s]), NEW x
      PROVE  Count(SubSeq(reports[s], 1, k), x) = UpTo(reports[s], k, x)
  <2>1. PICK r \in Seq(Reported) : r = reports[s]
    OBVIOUS
  <2>2. Len(r) \in Nat /\ \A i \in 1..Len(r) : r[i] \in Reported
    BY LenProperties, ElementOfSeq
  <2>3. k \in Nat /\ 1 <= k /\ k <= Len(r)
    BY <1>1, <2>1, <2>2
  <2>4. PICK t : t = SubSeq(r, 1, k)
    OBVIOUS
  <2>5. \A i \in 1..k : r[i] \in Reported
    BY <2>2, <2>3
  <2>6. /\ Len(t) = (IF 1 <= k THEN k - 1 + 1 ELSE 0)
        /\ \A i \in 1..k - 1 + 1 : t[i] = r[1 + i - 1]
    BY <2>3, <2>4, <2>5, SubSeqProperties
  <2>7. Len(t) = k /\ \A i \in 1..k : t[i] = r[i]
    BY <2>3, <2>6
  <2>8. {i \in 1..Len(t) : t[i] = x} = {i \in 1..k : r[i] = x}
    BY <2>7
  <2> QED BY <2>1, <2>4, <2>8 DEF Count, UpTo
<1> QED BY <1>1 DEF Paired, AbortsArePaired

\* What a step may do to the balance of one session.  Nothing is reported:
LEMMA NothingReported ==
  ASSUME NEW r \in Seq(Reported), NEW n \in Nat, NEW ls, NEW m \in Nat, NEW x,
         Balance(r, n, ls), Paired(r),
         \/ m = n /\ (Len(x) = 2 => Len(ls) = 2)
         \/ m = n + 1 /\ Len(ls) = 2 /\ Len(x) # 2
  PROVE  Balance(r, m, x) /\ Paired(r)
<1>1. Count(r, "aborted") \in Nat /\ Count(r, "active") \in Nat
  BY CountIsUpTo
<1> QED BY <1>1 DEF Balance

\* a pair, or one leg of it, is new;
LEMMA ActiveReported ==
  ASSUME NEW r \in Seq(Reported), NEW n \in Nat, NEW ls, NEW x, NEW q,
         Balance(r, n, ls), Paired(r), Logged(q, r, "active")
  PROVE  Balance(q, n, x) /\ Paired(q)
<1>1. Count(r, "aborted") \in Nat /\ Count(r, "active") \in Nat
  BY CountIsUpTo
<1>2. "active" \in Reported /\ "aborted" \in Reported /\ "aborted" # "active"
  BY DEF Reported
<1>3. Count(q, "aborted") = Count(r, "aborted") /\ Count(q, "active") = Count(r, "active") + 1
  <2>1. \A z \in Reported :
          Count(q, z) = IF z = "active" THEN Count(r, z) + 1 ELSE Count(r, z)
    BY <1>2, CountsAppend
  <2> QED BY <1>1, <1>2, <2>1
<1>4. Balance(q, n, x) /\ Count(q, "aborted") <= Count(q, "active")
  BY <1>1, <1>3 DEF Balance
<1> QED BY <1>2, <1>4, PairedAppend

\* the session is closed;
LEMMA CompletedReported ==
  ASSUME NEW r \in Seq(Reported), NEW n \in Nat, NEW ls, NEW x, NEW q,
         Balance(r, n, ls), Paired(r), Len(x) # 2, Logged(q, r, "completed")
  PROVE  Balance(q, n, x) /\ Paired(q)
<1>1. Count(r, "aborted") \in Nat /\ Count(r, "active") \in Nat
  BY CountIsUpTo
<1>2. /\ "completed" \in Reported /\ "active" \in Reported /\ "aborted" \in Reported
      /\ "aborted" # "completed" /\ "active" # "completed"
  BY DEF Reported
<1>3. Count(q, "aborted") = Count(r, "aborted") /\ Count(q, "active") = Count(r, "active")
  <2>1. \A z \in Reported :
          Count(q, z) = IF z = "completed" THEN Count(r, z) + 1 ELSE Count(r, z)
    BY <1>2, CountsAppend
  <2> QED BY <1>1, <1>2, <2>1
<1>4. Balance(q, n, x) /\ Count(q, "aborted") <= Count(q, "active")
  BY <1>1, <1>3 DEF Balance
<1> QED BY <1>2, <1>4, PairedAppend

\* a pair has lost a leg, or a report that was owed is made.
LEMMA AbortedReported ==
  ASSUME NEW r \in Seq(Reported), NEW n \in Nat, NEW ls, NEW m \in Nat, NEW x, NEW q,
         Balance(r, n, ls), Paired(r), Logged(q, r, "aborted"),
         \/ m = n /\ Len(ls) = 2 /\ Len(x) # 2
         \/ m + 1 = n /\ x = ls
  PROVE  Balance(q, m, x) /\ Paired(q)
<1>1. Count(r, "aborted") \in Nat /\ Count(r, "active") \in Nat
  BY CountIsUpTo
<1>2. "aborted" \in Reported /\ "active" \in Reported /\ "active" # "aborted"
  BY DEF Reported
<1>3. Count(q, "aborted") = Count(r, "aborted") + 1 /\ Count(q, "active") = Count(r, "active")
  <2>1. \A z \in Reported :
          Count(q, z) = IF z = "aborted" THEN Count(r, z) + 1 ELSE Count(r, z)
    BY <1>2, CountsAppend
  <2> QED BY <1>1, <1>2, <2>1
<1>4. Balance(q, m, x)
  <2>1. CASE m = n /\ Len(ls) = 2 /\ Len(x) # 2
    BY <1>1, <1>3, <2>1 DEF Balance
  <2>2. CASE m + 1 = n /\ x = ls
    BY <1>1, <1>3, <2>2 DEF Balance
  <2> QED BY <2>1, <2>2
<1>5. Count(q, "aborted") <= Count(q, "active")
  <2>1. CASE Len(x) = 2
    BY <1>1, <1>3, <1>4, <2>1 DEF Balance
  <2>2. CASE Len(x) # 2
    BY <1>1, <1>3, <1>4, <2>2 DEF Balance
  <2> QED BY <2>1, <2>2
<1> QED BY <1>2, <1>4, <1>5, PairedAppend

\* What the reports, the owed reports and the legs of one session may do in a
\* step: from r to q, from n to m, from ls to x.
Moves(r, q, n, m, ls, x) ==
  \/ /\ q = r
     /\ \/ m = n /\ (Len(x) = 2 => Len(ls) = 2)
        \/ m = n + 1 /\ Len(ls) = 2 /\ Len(x) # 2
  \/ Logged(q, r, "active") /\ m = n
  \/ Logged(q, r, "completed") /\ m = n /\ Len(x) # 2
  \/ /\ Logged(q, r, "aborted")
     /\ \/ m = n /\ Len(ls) = 2 /\ Len(x) # 2
        \/ m + 1 = n /\ x = ls

\* None of these moves upsets the balance.
LEMMA MovesKeepBalance ==
  ASSUME NEW r \in Seq(Reported), NEW q, NEW n \in Nat, NEW m \in Nat, NEW ls, NEW x,
         Balance(r, n, ls), Paired(r), Moves(r, q, n, m, ls, x)
  PROVE  Balance(q, m, x) /\ Paired(q)
<1>1. CASE q = r /\ (\/ m = n /\ (Len(x) = 2 => Len(ls) = 2)
                     \/ m = n + 1 /\ Len(ls) = 2 /\ Len(x) # 2)
  BY <1>1, NothingReported
<1>2. CASE Logged(q, r, "active") /\ m = n
  BY <1>2, ActiveReported
<1>3. CASE Logged(q, r, "completed") /\ m = n /\ Len(x) # 2
  BY <1>3, CompletedReported
<1>4. CASE Logged(q, r, "aborted") /\ (\/ m = n /\ Len(ls) = 2 /\ Len(x) # 2
                                       \/ m + 1 = n /\ x = ls)
  BY <1>4, AbortedReported
<1> QED BY <1>1, <1>2, <1>3, <1>4 DEF Moves

\* The finally clauses that owe a report are finitely many.
LEMMA OwingIsFinite ==
  ASSUME NEW s \in Sessions
  PROVE  /\ Owing(s) \subseteq Conns /\ IsFiniteSet(Owing(s))
         /\ Cardinality(Owing(s)) \in Nat
         /\ Owing(s)' \subseteq Conns /\ IsFiniteSet(Owing(s)')
         /\ Cardinality(Owing(s)') \in Nat
<1>1. Owing(s) \subseteq Conns /\ Owing(s)' \subseteq Conns
  BY DEF Owing
<1>2. IsFiniteSet(Owing(s)) /\ IsFiniteSet(Owing(s)')
  BY <1>1, FiniteAssumption, FS_Subset
<1> QED BY <1>1, <1>2, FS_CardinalityType

\* A handler that turns to the sends t owes the reports that t names.
LEMMA OwedChange ==
  ASSUME todo \in [Conns -> Seq(Send)], NEW c \in Conns, NEW t,
         todo' = [todo EXCEPT ![c] = t], NEW s \in Sessions,
         NEW n, n = Cardinality(Owing(s)), NEW m, m = Cardinality(Owing(s)')
  PROVE  /\ n \in Nat /\ m \in Nat
         /\ (Names(todo[c], s) <=> Names(t, s)) => m = n /\ Owing(s)' = Owing(s)
         /\ ~Names(todo[c], s) /\ Names(t, s) => m = n + 1
         /\ Names(todo[c], s) /\ ~Names(t, s) => m + 1 = n
<1>1. /\ IsFiniteSet(Owing(s)) /\ n \in Nat /\ m \in Nat
      /\ Owing(s) \subseteq Conns /\ Owing(s)' \subseteq Conns
  BY OwingIsFinite
<1>2. todo'[c] = t /\ \A d \in Conns \ {c} : todo'[d] = todo[d]
  OBVIOUS
<1>3. PICK o : o = Owing(s)
  OBVIOUS
<1>4. \A d \in Conns : d \in o <=> Names(todo[d], s)
  BY <1>3 DEF Owing, Names
<1>5. \A d \in Conns : d \in Owing(s)' <=> Names(todo'[d], s)
  BY DEF Owing, Names
<1>6. Owing(s)' = IF Names(t, s) THEN o \cup {c} ELSE o \ {c}
  <2>1. ASSUME NEW d \in Conns
        PROVE  d \in Owing(s)' <=> IF d = c THEN Names(t, s) ELSE d \in o
    BY <1>2, <1>4, <1>5
  <2> QED BY <1>1, <1>3, <2>1
<1>7. /\ Cardinality(o \cup {c}) = IF c \in o THEN n ELSE n + 1
      /\ Cardinality(o \ {c}) = IF c \in o THEN n - 1 ELSE n
  BY <1>1, <1>3, FS_AddElement, FS_RemoveElement
<1>8. c \in o <=> Names(todo[c], s)
  BY <1>4
<1>9. CASE Names(t, s)
  <2>1. c \in o => Owing(s)' = o
    BY <1>6, <1>9
  <2>2. m = IF c \in o THEN n ELSE n + 1
    BY <1>6, <1>7, <1>9
  <2> QED BY <1>1, <1>3, <1>8, <1>9, <2>1, <2>2
<1>10. CASE ~Names(t, s)
  <2>1. c \notin o => Owing(s)' = o
    BY <1>6, <1>10
  <2>2. m = IF c \in o THEN n - 1 ELSE n
    BY <1>6, <1>7, <1>10
  <2> QED BY <1>1, <1>3, <1>8, <1>10, <2>1, <2>2
<1> QED BY <1>9, <1>10

\* With nothing to send nothing is owed, nor with sends that do not abort.
LEMMA NamesNothing ==
  ASSUME NEW t, t = << >> \/ \A i \in 1..Len(t) : ~t[i].aborts, Len(t) \in Nat
  PROVE  NamesOnce(t) /\ \A s : ~Names(t, s)
<1>1. CASE t = << >>
  <2>1. Len(t) = 0
    BY <1>1
  <2> QED BY <2>1 DEF Names, NamesOnce
<1>2. CASE \A i \in 1..Len(t) : ~t[i].aborts
  <2>1. \A i \in 2..Len(t) : i \in 1..Len(t)
    OBVIOUS
  <2> QED BY <1>2, <2>1 DEF Names, NamesOnce
<1> QED BY <1>1, <1>2

\* One send less names the same sessions, but for the one that comes next.
LEMMA NamesOfTail ==
  ASSUME NEW t \in Seq(Send), t # << >>, NamesOnce(t),
         NEW rest \in Seq(Send), Len(rest) = Len(t) - 1,
         \A i \in 1..Len(rest) : rest[i] = t[i + 1]
  PROVE  /\ NamesOnce(rest)
         /\ FirstAborts(rest) =>
              /\ Names(t, Head(rest).frame.session)
              /\ ~Names(rest, Head(rest).frame.session)
              /\ \A s : s # Head(rest).frame.session => (Names(t, s) <=> Names(rest, s))
         /\ ~FirstAborts(rest) => \A s : Names(t, s) <=> Names(rest, s)
<1>1. /\ rest \in Seq(Send) /\ Len(rest) = Len(t) - 1
      /\ \A i \in 1..Len(rest) : rest[i] = t[i + 1]
  OBVIOUS
<1>2. PICK n \in Nat : n = Len(rest)
  BY <1>1, LenProperties
<1>3. Len(t) = n + 1 /\ \A i \in 1..n : rest[i] = t[i + 1] /\ i + 1 \in 1..n + 1
  <2>1. Len(t) \in Nat
    BY LenProperties
  <2> QED BY <1>1, <1>2, <2>1
<1>4. NamesOnce(rest)
  <2>1. SUFFICES ASSUME NEW i \in 1..n, NEW j \in 1..n,
                        rest[i].aborts, rest[j].aborts,
                        rest[i].frame.session = rest[j].frame.session
                 PROVE  i = j
    BY <1>2 DEF NamesOnce
  <2>2. i + 1 = j + 1
    BY <1>3, <2>1 DEF NamesOnce
  <2> QED BY <2>2
<1>5. rest # << >> => n # 0 /\ Head(rest) = rest[1]
  BY <1>1, <1>2, EmptySeq
<1>6. ASSUME NEW s
      PROVE  /\ Names(rest, s) => Names(t, s)
             /\ Names(t, s) => Names(rest, s) \/ (n # 0 /\ rest[1].aborts /\ rest[1].frame.session = s)
             /\ n # 0 /\ rest[1].aborts /\ rest[1].frame.session = s =>
                  Names(t, s) /\ ~Names(rest, s)
  <2>1. ASSUME Names(rest, s)
        PROVE  Names(t, s)
    <3>1. PICK i \in 2..n : rest[i].aborts /\ rest[i].frame.session = s
      BY <1>2, <2>1 DEF Names
    <3>2. i + 1 \in 2..n + 1 /\ rest[i] = t[i + 1]
      BY <1>3
    <3> QED BY <1>3, <3>1, <3>2 DEF Names
  <2>2. ASSUME Names(t, s)
        PROVE  Names(rest, s) \/ (n # 0 /\ rest[1].aborts /\ rest[1].frame.session = s)
    <3>1. PICK i \in 2..n + 1 : t[i].aborts /\ t[i].frame.session = s
      BY <1>3, <2>2 DEF Names
    <3>2. PICK j \in 1..n : j + 1 = i
      <4>1. i - 1 \in 1..n /\ i - 1 + 1 = i
        OBVIOUS
      <4> QED BY <4>1
    <3>3. rest[j].aborts /\ rest[j].frame.session = s
      BY <1>3, <3>1, <3>2
    <3>4. j = 1 \/ j \in 2..n
      OBVIOUS
    <3> QED BY <1>2, <3>3, <3>4 DEF Names
  <2>3. ASSUME n # 0, rest[1].aborts, rest[1].frame.session = s
        PROVE  Names(t, s) /\ ~Names(rest, s)
    <3>1. 1 \in 1..n /\ rest[1] = t[2] /\ 2 \in 2..n + 1
      BY <1>3, <2>3
    <3>2. Names(t, s)
      BY <1>3, <2>3, <3>1 DEF Names
    <3>3. ASSUME NEW i \in 2..n, rest[i].aborts, rest[i].frame.session = s
          PROVE  FALSE
      <4>1. i = 1
        BY <1>2, <1>4, <2>3, <3>1, <3>3 DEF NamesOnce
      <4> QED BY <4>1
    <3> QED BY <1>2, <3>2, <3>3 DEF Names
  <2> QED BY <2>1, <2>2, <2>3
<1>7. CASE FirstAborts(rest)
  <2>1. n # 0 /\ rest[1].aborts /\ Head(rest) = rest[1]
    BY <1>5, <1>7 DEF FirstAborts
  <2> QED BY <1>4, <1>6, <1>7, <2>1
<1>8. CASE ~FirstAborts(rest)
  <2>1. n # 0 => ~rest[1].aborts
    BY <1>1, <1>2, <1>5, <1>8, EmptySeq DEF FirstAborts
  <2> QED BY <1>4, <1>6, <1>8, <2>1
<1> QED BY <1>7, <1>8

\* A report is logged for its session only.
LEMMA ReportLogs ==
  ASSUME reports \in [Sessions -> Seq(Reported)], NEW s \in Sessions, NEW status,
         Report(s, status)
  PROVE  /\ Logged(reports'[s], reports[s], status)
         /\ \A x \in Sessions \ {s} : reports'[x] = reports[x]
BY DEF Report, Logged

OwedInv == NamedOnce /\ Balanced

\* The step moves the session s in one of these ways.
MovesAt(s) ==
  \A n, m : n = Cardinality(Owing(s)) /\ m = Cardinality(Owing(s)') =>
    Moves(reports[s], reports'[s], n, m, legs[s], legs'[s])

\* What a step must do to keep OwedInv.
LEMMA OwedKept ==
  ASSUME TypeInv, OwedInv, NamedOnce', \A s \in Sessions : MovesAt(s)
  PROVE  OwedInv'
<1>1. ASSUME NEW s \in Sessions, NEW q, NEW o, NEW x,
             q = reports'[s], o = Owing(s)', x = legs'[s]
      PROVE  Balance(q, Cardinality(o), x) /\ Paired(q)
  <2>1. PICK r \in Seq(Reported) : r = reports[s]
    BY TypeFacts
  <2>2. PICK n \in Nat : n = Cardinality(Owing(s))
    BY OwingIsFinite
  <2>3. PICK m \in Nat : m = Cardinality(Owing(s)')
    BY OwingIsFinite
  <2>4. Moves(reports[s], reports'[s], n, m, legs[s], legs'[s])
    BY <2>2, <2>3 DEF MovesAt
  <2>5. PICK ls : ls = legs[s]
    OBVIOUS
  <2>6. Moves(r, q, n, m, ls, x)
    BY <1>1, <2>1, <2>4, <2>5
  <2>7. Balance(r, n, ls) /\ Paired(r)
    BY <2>1, <2>2, <2>5 DEF OwedInv, Balanced
  <2>8. Balance(q, m, x) /\ Paired(q)
    BY <2>6, <2>7, MovesKeepBalance
  <2> QED BY <1>1, <2>3, <2>8
<1>2. Balanced'
  BY <1>1 DEF Balanced
<1> QED BY <1>2 DEF OwedInv

\* Sends that name no session twice keep NamedOnce.
LEMMA NamedOnceKept ==
  ASSUME todo \in [Conns -> Seq(Send)], NamedOnce, NEW c \in Conns, NEW t,
         todo' = [todo EXCEPT ![c] = t], NamesOnce(t)
  PROVE  NamedOnce'
<1>1. \A d \in Conns : \A u : u = todo'[d] => NamesOnce(u)
  <2>1. todo'[c] = t /\ \A d \in Conns \ {c} : todo'[d] = todo[d]
    OBVIOUS
  <2> QED BY <2>1 DEF NamedOnce
<1> QED BY <1>1 DEF NamedOnce

\* A handler that keeps its sends, or turns from none to some that do not
\* abort, owes what it owed.
LEMMA QuietSends ==
  ASSUME todo \in [Conns -> Seq(Send)], NamedOnce, NEW c \in Conns,
         NEW t \in Seq(Send), todo' = [todo EXCEPT ![c] = t],
         \/ todo[c] = t
         \/ todo[c] = << >> /\ \A i \in 1..Len(t) : ~t[i].aborts
  PROVE  /\ NamedOnce'
         /\ \A s \in Sessions : Owing(s)' = Owing(s)
<1>1. NamesOnce(t) /\ \A s : Names(todo[c], s) <=> Names(t, s)
  <2>1. CASE todo[c] = t
    BY <2>1 DEF NamedOnce
  <2>2. CASE todo[c] = << >> /\ \A i \in 1..Len(t) : ~t[i].aborts
    <3>1. Len(t) \in Nat /\ Len(todo[c]) \in Nat
      BY LenProperties
    <3>2. NamesOnce(t) /\ \A s : ~Names(t, s)
      BY <2>2, <3>1, NamesNothing
    <3>3. \A s : ~Names(todo[c], s)
      BY <2>2, <3>1, NamesNothing
    <3> QED BY <3>2, <3>3
  <2> QED BY <2>1, <2>2
<1>2. NamedOnce'
  BY <1>1, NamedOnceKept
<1>3. ASSUME NEW s \in Sessions
      PROVE  Owing(s)' = Owing(s)
  BY <1>1, OwedChange
<1> QED BY <1>2, <1>3

\* A session that keeps its reports and its debts, and does not become a pair.
LEMMA StaysPut ==
  ASSUME NEW s \in Sessions, Owing(s)' = Owing(s), reports'[s] = reports[s],
         Len(legs'[s]) = 2 => Len(legs[s]) = 2
  PROVE  MovesAt(s)
BY DEF MovesAt, Moves

\* A session is orphaned when one of the two legs of its pair goes.
LEMMA OrphanedLosesPair ==
  ASSUME TypeInv, NEW c \in Conns, NEW s \in Sessions,
         legs' = [x \in Sessions |-> WithoutLegsOf(legs[x], c)]
  PROVE  /\ s \in Orphaned(c) => Len(legs[s]) = 2 /\ Len(legs'[s]) # 2
         /\ Len(legs'[s]) = 2 => legs'[s] = legs[s]
<1>1. PICK r : r = WithoutLegsOf(legs[s], c)
  OBVIOUS
<1>2. PICK ls : ls = legs[s]
  OBVIOUS
<1>3. legs'[s] = r
  BY <1>1
<1>4. GoodLegs(ls)
  BY <1>2, TypeFacts
<1>5. /\ GoodLegs(r) /\ Len(r) <= Len(ls)
      /\ (Len(r) = Len(ls) => r = ls)
  BY <1>1, <1>2, <1>4, WithoutLegsProps
<1>6. Len(ls) \in 0..2 /\ Len(r) \in 0..2 /\ r \in Seq(Leg)
  BY <1>4, <1>5, GoodLegsLen DEF GoodLegs
<1>7. r # << >> => Len(r) # 0
  BY <1>6, EmptySeq
<1>8. s \in Orphaned(c) => r # << >> /\ r # ls
  BY <1>1, <1>2 DEF Orphaned
<1>9. \A k, n \in 0..2 : k <= n /\ k # 0 /\ k # n => n = 2 /\ k # 2
  OBVIOUS
<1>10. \A k, n \in 0..2 : k <= n /\ k = 2 => k = n
  OBVIOUS
<1>11. Len(r) = 2 => r = ls
  BY <1>5, <1>6, <1>10
<1>12. s \in Orphaned(c) => Len(ls) = 2 /\ Len(r) # 2
  BY <1>5, <1>6, <1>7, <1>8, <1>9
<1> QED BY <1>2, <1>3, <1>11, <1>12

\* What RELAY_OPEN does to the sends, the debts and the legs.
LEMMA OpenOwes ==
  ASSUME TypeInv, NamedOnce, NEW c \in Conns, NEW s \in Sessions, NEW role \in Roles,
         RelayOpen(c, s, role)
  PROVE  NamedOnce' /\ \A x \in Sessions : Owing(x)' = Owing(x)
<1>0. todo \in [Conns -> Seq(Send)]
  BY TypeFacts
<1>1. PICK ls : ls = PutLeg(legs[s], role, c)
  OBVIOUS
<1>2. GoodLegs(legs[s])
  BY TypeFacts
<1>3. ls \in Seq(Leg)
  BY <1>1, <1>2, PutLegProps DEF GoodLegs
<1>4. todo[c] = << >>
  BY DEF RelayOpen, Reads
<1>5. CASE IsReady(ls)
  <2>1. Continue(c, ToLegs(ls, "ready", s), lockq, wire)
    BY <1>1, <1>5 DEF RelayOpen
  <2>2. PICK t : t = ToLegs(ls, "ready", s)
    OBVIOUS
  <2>3. /\ t \in Seq(Send) /\ Len(t) = Len(ls)
        /\ \A i \in 1..Len(ls) :
             t[i] = [to |-> ls[i].conn, frame |-> Control("ready", s), aborts |-> FALSE]
    BY <1>3, <2>2, ToLegsType
  <2>4. ASSUME NEW i \in 1..Len(t)
        PROVE  ~t[i].aborts
    <3>1. PICK f : f = Control("ready", s)
      OBVIOUS
    <3>2. t[i] = [to |-> ls[i].conn, frame |-> f, aborts |-> FALSE]
      BY <2>3, <3>1
    <3> QED BY <3>2
  <2>5. todo' = [todo EXCEPT ![c] = t]
    BY <2>1, <2>2 DEF Continue
  <2> QED BY <1>0, <1>4, <2>3, <2>4, <2>5, QuietSends
<1>6. CASE ~IsReady(ls)
  <2>1. todo' = todo
    BY <1>1, <1>6 DEF RelayOpen
  <2> QED BY <2>1 DEF NamedOnce, Owing
<1> QED BY <1>5, <1>6

\* What RELAY_CLOSE does to the sends and the debts.
LEMMA CloseOwes ==
  ASSUME TypeInv, NamedOnce, NEW c \in Conns, NEW s \in Sessions, RelayClose(c, s)
  PROVE  NamedOnce' /\ \A x \in Sessions : Owing(x)' = Owing(x)
<1>0. todo \in [Conns -> Seq(Send)]
  BY TypeFacts
<1>1. PICK ls : ls = WithoutLegsOf(legs[s], c)
  OBVIOUS
<1>2. GoodLegs(legs[s])
  BY TypeFacts
<1>3. ls \in Seq(Leg)
  BY <1>1, <1>2, WithoutLegsProps DEF GoodLegs
<1>4. todo[c] = << >>
  BY DEF RelayClose, Reads
<1>5. Continue(c, ToLegs(ls, "close", s), lockq, wire)
  BY <1>1 DEF RelayClose
<1>6. PICK t : t = ToLegs(ls, "close", s)
  OBVIOUS
<1>7. /\ t \in Seq(Send) /\ Len(t) = Len(ls)
      /\ \A i \in 1..Len(ls) :
           t[i] = [to |-> ls[i].conn, frame |-> Control("close", s), aborts |-> FALSE]
  BY <1>3, <1>6, ToLegsType
<1>8. ASSUME NEW i \in 1..Len(t)
      PROVE  ~t[i].aborts
  <2>1. PICK f : f = Control("close", s)
    OBVIOUS
  <2>2. t[i] = [to |-> ls[i].conn, frame |-> f, aborts |-> FALSE]
    BY <1>7, <2>1
  <2> QED BY <2>2
<1>9. todo' = [todo EXCEPT ![c] = t]
  BY <1>5, <1>6 DEF Continue
<1> QED BY <1>0, <1>4, <1>7, <1>8, <1>9, QuietSends

\* What forwarding a DATA frame does to the sends and the debts.
LEMMA ForwardOwes ==
  ASSUME TypeInv, TypeInv', NamedOnce, NEW c \in Conns, NEW s \in Sessions, Forward(c, s)
  PROVE  NamedOnce' /\ \A x \in Sessions : Owing(x)' = Owing(x)
<1>0. todo \in [Conns -> Seq(Send)] /\ todo' \in [Conns -> Seq(Send)]
  BY DEF TypeInv, TypeOK
<1>1. todo[c] = << >>
  BY DEF Forward, Reads
<1>2. CASE todo' = todo
  BY <1>2 DEF NamedOnce, Owing
<1>3. ASSUME NEW p, NEW f,
             todo' = [todo EXCEPT ![c] = <<[to |-> p, aborts |-> FALSE, frame |-> f]>>]
      PROVE  NamedOnce' /\ \A x \in Sessions : Owing(x)' = Owing(x)
  <2>1. PICK t : t = <<[to |-> p, aborts |-> FALSE, frame |-> f]>>
    OBVIOUS
  <2>2. Len(t) = 1 /\ ~t[1].aborts
    BY <2>1
  <2>3. \A i \in 1..Len(t) : ~t[i].aborts
    BY <2>2
  <2>4. todo' = [todo EXCEPT ![c] = t]
    BY <1>3, <2>1
  <2>5. t \in Seq(Send)
    BY <1>0, <2>4
  <2> QED BY <1>0, <1>1, <2>3, <2>4, <2>5, QuietSends
<1> QED BY <1>2, <1>3 DEF Forward

\* The finally clause owes a report about every orphaned session but the
\* first, which it reports at once.
LEMMA TeardownOwes ==
  ASSUME TypeInv, NamedOnce, NEW c \in Conns, Teardown(c)
  PROVE  /\ NamedOnce'
         /\ \/ /\ Orphaned(c) = {} /\ UNCHANGED reports
               /\ \A s \in Sessions : Owing(s)' = Owing(s)
            \/ \E first \in Orphaned(c) :
                 /\ Report(first, "aborted")
                 /\ \A s \in Sessions : \A n, m :
                      n = Cardinality(Owing(s)) /\ m = Cardinality(Owing(s)') =>
                        m = IF s \in Orphaned(c) \ {first} THEN n + 1 ELSE n
<1>0. todo \in [Conns -> Seq(Send)] /\ reports \in [Sessions -> Seq(Reported)]
  BY TypeFacts
<1>1. PICK order \in Seq(Sessions), sends \in Seq(Send) :
        /\ \A i, j \in 1..Len(order) : order[i] = order[j] => i = j
        /\ \A i \in 1..Len(order) : order[i] \in Orphaned(c)
        /\ \A s \in Orphaned(c) : \E i \in 1..Len(order) : order[i] = s
        /\ Len(sends) = Len(order)
        /\ \A i \in 1..Len(order) :
             sends[i].aborts /\ sends[i].frame = Control("close", order[i])
        /\ Continue(c, sends, lockq, wire)
        /\ IF order = << >> THEN UNCHANGED reports ELSE Report(Head(order), "aborted")
  BY TeardownShape, SMTT(30)
<1>2. PICK k \in Nat : k = Len(order)
  BY LenProperties
<1>3. todo[c] = << >> /\ todo' = [todo EXCEPT ![c] = sends]
  BY <1>1 DEF Teardown, Continue
<1>4. ASSUME NEW i \in 1..k
      PROVE  sends[i].aborts /\ sends[i].frame.session = order[i]
  <2>1. sends[i].aborts /\ sends[i].frame = Control("close", order[i])
    BY <1>1, <1>2
  <2>2. Control("close", order[i]).session = order[i]
    BY DEF Control
  <2> QED BY <2>1, <2>2
<1>5. NamesOnce(sends)
  BY <1>1, <1>2, <1>4 DEF NamesOnce
<1>6. NamedOnce'
  BY <1>0, <1>3, <1>5, NamedOnceKept
<1>7. \A s : ~Names(todo[c], s)
  <2>1. Len(todo[c]) \in Nat
    BY <1>0, LenProperties
  <2> QED BY <1>3, <2>1, NamesNothing
<1>8. \A s : Names(sends, s) <=> \E i \in 2..k : order[i] = s
  <2>1. \A i \in 2..k : i \in 1..k
    OBVIOUS
  <2>2. \A i \in 2..k : sends[i].aborts /\ sends[i].frame.session = order[i]
    BY <1>4, <2>1
  <2>3. Len(sends) = k
    BY <1>1, <1>2
  <2> QED BY <2>2, <2>3 DEF Names
<1>9. ASSUME NEW s \in Sessions, NEW n, NEW m,
             n = Cardinality(Owing(s)), m = Cardinality(Owing(s)')
      PROVE  /\ ~Names(sends, s) => m = n /\ Owing(s)' = Owing(s)
             /\ Names(sends, s) => m = n + 1
  BY <1>0, <1>3, <1>7, <1>9, OwedChange
<1>10. CASE order = << >>
  <2>1. k = 0
    BY <1>2, <1>10
  <2>2. Orphaned(c) = {}
    BY <1>1, <1>2, <2>1
  <2>3. \A s \in Sessions : ~Names(sends, s)
    BY <1>8, <2>1
  <2> QED BY <1>1, <1>6, <1>9, <1>10, <2>2, <2>3
<1>11. CASE order # << >>
  <2>1. k # 0 /\ Head(order) = order[1] /\ 1 \in 1..k
    BY <1>2, <1>11, EmptySeq
  <2>2. PICK first \in Orphaned(c) : first = order[1]
    BY <1>1, <1>2, <2>1
  <2>3. Report(first, "aborted")
    BY <1>1, <1>11, <2>1, <2>2
  <2>4. ASSUME NEW s \in Sessions
        PROVE  Names(sends, s) <=> s \in Orphaned(c) \ {first}
    <3>1. ASSUME NEW i \in 2..k, order[i] = s
          PROVE  s \in Orphaned(c) \ {first}
      <4>1. i \in 1..k /\ i # 1
        OBVIOUS
      <4>2. order[i] # order[1]
        BY <1>1, <1>2, <2>1, <4>1
      <4>3. order[i] \in Orphaned(c)
        BY <1>1, <1>2, <4>1
      <4> QED BY <2>2, <3>1, <4>2, <4>3
    <3>2. ASSUME s \in Orphaned(c) \ {first}
          PROVE  \E i \in 2..k : order[i] = s
      <4>1. PICK i \in 1..k : order[i] = s
        BY <1>1, <1>2, <3>2
      <4>2. i # 1
        BY <2>2, <3>2, <4>1
      <4>3. i \in 2..k
        BY <4>1, <4>2
      <4> QED BY <4>1, <4>3
    <3> QED BY <1>8, <3>1, <3>2
  <2> QED BY <1>6, <1>9, <2>3, <2>4
<1> QED BY <1>10, <1>11

\* When a send ends, the handler reports the abort its next send is about.
LEMMA SendEndsOwes ==
  ASSUME TypeInv, NamedOnce, NEW p \in Conns, SendEnds(p)
  PROVE  /\ NamedOnce'
         /\ \/ UNCHANGED reports /\ \A x \in Sessions : Owing(x)' = Owing(x)
            \/ \E s \in Sessions :
                 /\ Report(s, "aborted")
                 /\ Cardinality(Owing(s)') + 1 = Cardinality(Owing(s))
                 /\ \A x \in Sessions \ {s} : Owing(x)' = Owing(x)
<1>1. PICK c \in Conns, q \in Queues, rest \in Seq(Send) :
        /\ todo[c] # << >> /\ rest = Tail(todo[c])
        /\ Continue(c, rest, q, Handover(q, p))
        /\ IF FirstAborts(rest)
             THEN Report(Head(rest).frame.session, "aborted")
             ELSE UNCHANGED reports
  BY SendEndsShape
<1>2. todo \in [Conns -> Seq(Send)]
  BY TypeFacts
<1>3. todo' = [todo EXCEPT ![c] = rest]
  BY <1>1 DEF Continue
<1>4. PICK t \in Seq(Send) : t = todo[c]
  BY <1>2
<1>5. /\ Len(rest) = Len(t) - 1
      /\ \A i \in 1..Len(rest) : rest[i] = t[i + 1]
  BY <1>1, <1>4, HeadTailProperties
<1>6. t # << >> /\ NamesOnce(t)
  BY <1>1, <1>4 DEF NamedOnce
<1>7. /\ NamesOnce(rest)
      /\ FirstAborts(rest) =>
           /\ Names(t, Head(rest).frame.session)
           /\ ~Names(rest, Head(rest).frame.session)
           /\ \A s : s # Head(rest).frame.session => (Names(t, s) <=> Names(rest, s))
      /\ ~FirstAborts(rest) => \A s : Names(t, s) <=> Names(rest, s)
  BY <1>5, <1>6, NamesOfTail
<1>8. NamedOnce'
  BY <1>2, <1>3, <1>7, NamedOnceKept
<1>9. ASSUME NEW s \in Sessions
      PROVE  /\ (Names(t, s) <=> Names(rest, s)) => Owing(s)' = Owing(s)
             /\ Names(t, s) /\ ~Names(rest, s) =>
                  Cardinality(Owing(s)') + 1 = Cardinality(Owing(s))
  BY <1>2, <1>3, <1>4, OwedChange
<1>10. CASE FirstAborts(rest)
  <2>1. rest # << >>
    BY <1>10 DEF FirstAborts
  <2>2. Head(rest) \in Send
    BY <2>1, HeadTailProperties
  <2>3. PICK s \in Sessions : s = Head(rest).frame.session
    BY <2>2, SendTypes, FrameTypes
  <2> QED BY <1>1, <1>7, <1>8, <1>9, <1>10, <2>3
<1>11. CASE ~FirstAborts(rest)
  BY <1>1, <1>7, <1>8, <1>9, <1>11
<1> QED BY <1>10, <1>11

\* Every step moves every session in one of the ways of Moves.
LEMMA OwedStep ==
  ASSUME TypeInv, TypeInv', OwedInv, [Next]_vars
  PROVE  OwedInv'
<1>0. /\ NamedOnce /\ todo \in [Conns -> Seq(Send)]
      /\ reports \in [Sessions -> Seq(Reported)]
      /\ legs \in [Sessions -> Seq(Leg)]
      /\ \A s \in Sessions : GoodLegs(legs[s])
  BY TypeFacts DEF OwedInv, TypeInv, TypeOK
<1>1. ASSUME UNCHANGED <<legs, reports>>, NamedOnce',
             \A s \in Sessions : Owing(s)' = Owing(s)
      PROVE  OwedInv'
  <2>1. \A s \in Sessions : MovesAt(s)
    BY <1>1, StaysPut
  <2> QED BY <1>1, <2>1, OwedKept
<1>2. ASSUME NEW c \in Conns, NEW s \in Sessions, NEW role \in Roles,
             RelayOpen(c, s, role)
      PROVE  OwedInv'
  <2>1. NamedOnce' /\ \A x \in Sessions : Owing(x)' = Owing(x)
    BY <1>0, <1>2, OpenOwes
  <2>2. PICK ls : ls = PutLeg(legs[s], role, c)
    OBVIOUS
  <2>3. legs' = [legs EXCEPT ![s] = ls]
    BY <1>2, <2>2 DEF RelayOpen
  <2>4. legs'[s] = ls /\ \A x \in Sessions \ {s} : legs'[x] = legs[x]
    BY <1>0, <2>3
  <2>5. CASE IsReady(ls)
    <3>1. Report(s, "active")
      BY <1>2, <2>2, <2>5 DEF RelayOpen
    <3>2. /\ Logged(reports'[s], reports[s], "active")
          /\ \A x \in Sessions \ {s} : reports'[x] = reports[x]
      BY <1>0, <3>1, ReportLogs
    <3>3. MovesAt(s)
      BY <2>1, <3>2 DEF MovesAt, Moves
    <3>4. \A x \in Sessions \ {s} : MovesAt(x)
      BY <2>1, <2>4, <3>2, StaysPut
    <3> QED BY <2>1, <3>3, <3>4, OwedKept
  <2>6. CASE ~IsReady(ls)
    <3>1. reports' = reports
      BY <1>2, <2>2, <2>6 DEF RelayOpen
    <3>2. Len(ls) # 2
      BY <1>0, <2>2, <2>6, PutLegProps, ReadyIsTwo
    <3>3. \A x \in Sessions : Len(legs'[x]) = 2 => Len(legs[x]) = 2
      BY <2>4, <3>2
    <3>4. \A x \in Sessions : MovesAt(x)
      BY <2>1, <3>1, <3>3, StaysPut
    <3> QED BY <2>1, <3>4, OwedKept
  <2> QED BY <2>5, <2>6
<1>3. ASSUME NEW c \in Conns, NEW s \in Sessions, RelayClose(c, s)
      PROVE  OwedInv'
  <2>1. NamedOnce' /\ \A x \in Sessions : Owing(x)' = Owing(x)
    BY <1>0, <1>3, CloseOwes
  <2>2. legs' = [legs EXCEPT ![s] = << >>]
    BY <1>3 DEF RelayClose
  <2>3. Len(legs'[s]) # 2 /\ \A x \in Sessions \ {s} : legs'[x] = legs[x]
    BY <1>0, <2>2
  <2>4. CASE legs[s] # << >>
    <3>1. Report(s, "completed")
      BY <1>3, <2>4 DEF RelayClose
    <3>2. /\ Logged(reports'[s], reports[s], "completed")
          /\ \A x \in Sessions \ {s} : reports'[x] = reports[x]
      BY <1>0, <3>1, ReportLogs
    <3>3. MovesAt(s)
      BY <2>1, <2>3, <3>2 DEF MovesAt, Moves
    <3>4. \A x \in Sessions \ {s} : MovesAt(x)
      BY <2>1, <2>3, <3>2, StaysPut
    <3> QED BY <2>1, <3>3, <3>4, OwedKept
  <2>5. CASE legs[s] = << >>
    <3>1. reports' = reports
      BY <1>3, <2>5 DEF RelayClose
    <3>2. \A x \in Sessions : Len(legs'[x]) = 2 => Len(legs[x]) = 2
      BY <2>3
    <3>3. \A x \in Sessions : MovesAt(x)
      BY <2>1, <3>1, <3>2, StaysPut
    <3> QED BY <2>1, <3>3, OwedKept
  <2> QED BY <2>4, <2>5
<1>4. ASSUME NEW c \in Conns, NEW s \in Sessions, Forward(c, s)
      PROVE  OwedInv'
  <2>1. NamedOnce' /\ \A x \in Sessions : Owing(x)' = Owing(x)
    BY <1>0, <1>4, ForwardOwes
  <2>2. UNCHANGED <<legs, reports>>
    BY <1>4 DEF Forward
  <2> QED BY <1>1, <2>1, <2>2
<1>5. ASSUME NEW c \in Conns, LimiterGrants(c)
      PROVE  OwedInv'
  <2>1. todo' = [todo EXCEPT ![c] = todo[c]] /\ UNCHANGED <<legs, reports>>
    BY <1>5 DEF LimiterGrants, Continue
  <2>2. todo[c] \in Seq(Send)
    BY <1>0
  <2>3. NamedOnce' /\ \A x \in Sessions : Owing(x)' = Owing(x)
    BY <1>0, <2>1, <2>2, QuietSends
  <2> QED BY <1>1, <2>1, <2>3
<1>6. ASSUME NEW c \in Conns, Teardown(c)
      PROVE  OwedInv'
  <2>1. legs' = [x \in Sessions |-> WithoutLegsOf(legs[x], c)]
    BY <1>6, TeardownShape
  <2>2. \A s \in Sessions :
          /\ s \in Orphaned(c) => Len(legs[s]) = 2 /\ Len(legs'[s]) # 2
          /\ Len(legs'[s]) = 2 => legs'[s] = legs[s]
    BY <2>1, OrphanedLosesPair
  <2>3. NamedOnce' /\ Orphaned(c) \subseteq Sessions
    BY <1>0, <1>6, TeardownOwes DEF Orphaned
  <2>4. CASE UNCHANGED reports /\ \A s \in Sessions : Owing(s)' = Owing(s)
    <3>1. ASSUME NEW s \in Sessions
          PROVE  MovesAt(s)
      <4>1. Len(legs'[s]) = 2 => Len(legs[s]) = 2
        BY <2>2
      <4> QED BY <2>4, <4>1, StaysPut
    <3> QED BY <2>3, <3>1, OwedKept
  <2>5. ASSUME NEW first \in Orphaned(c), Report(first, "aborted"),
               \A s \in Sessions : \A n, m :
                 n = Cardinality(Owing(s)) /\ m = Cardinality(Owing(s)') =>
                   m = IF s \in Orphaned(c) \ {first} THEN n + 1 ELSE n
        PROVE  OwedInv'
    <3>1. /\ Logged(reports'[first], reports[first], "aborted")
          /\ \A x \in Sessions \ {first} : reports'[x] = reports[x]
      BY <1>0, <2>3, <2>5, ReportLogs
    <3>2. ASSUME NEW s \in Sessions, NEW n, NEW m,
                 n = Cardinality(Owing(s)), m = Cardinality(Owing(s)')
          PROVE  Moves(reports[s], reports'[s], n, m, legs[s], legs'[s])
      <4>1. m = IF s \in Orphaned(c) \ {first} THEN n + 1 ELSE n
        BY <2>5, <3>2
      <4>2. Len(legs'[s]) = 2 => Len(legs[s]) = 2
        BY <2>2
      <4>3. s \in Orphaned(c) => Len(legs[s]) = 2 /\ Len(legs'[s]) # 2
        BY <2>2
      <4>4. CASE s = first
        <5>1. m = n
          BY <4>1, <4>4
        <5> QED BY <3>1, <4>3, <4>4, <5>1 DEF Moves
      <4>5. CASE s # first
        BY <3>1, <4>1, <4>2, <4>3, <4>5 DEF Moves
      <4> QED BY <4>4, <4>5
    <3>3. \A s \in Sessions : MovesAt(s)
      BY <3>2 DEF MovesAt
    <3> QED BY <2>3, <3>3, OwedKept
  <2> QED BY <1>0, <1>6, <2>4, <2>5, TeardownOwes
<1>7. ASSUME NEW p \in Conns, SendEnds(p)
      PROVE  OwedInv'
  <2>1. NamedOnce' /\ UNCHANGED legs
    BY <1>0, <1>7, SendEndsOwes DEF SendEnds
  <2>2. CASE UNCHANGED reports /\ \A x \in Sessions : Owing(x)' = Owing(x)
    BY <1>1, <2>1, <2>2
  <2>3. ASSUME NEW s \in Sessions, Report(s, "aborted"),
               Cardinality(Owing(s)') + 1 = Cardinality(Owing(s)),
               \A x \in Sessions \ {s} : Owing(x)' = Owing(x)
        PROVE  OwedInv'
    <3>1. /\ Logged(reports'[s], reports[s], "aborted")
          /\ \A x \in Sessions \ {s} : reports'[x] = reports[x]
      BY <1>0, <2>3, ReportLogs
    <3>2. MovesAt(s)
      BY <2>1, <2>3, <3>1 DEF MovesAt, Moves
    <3>3. \A x \in Sessions \ {s} : MovesAt(x)
      BY <2>1, <2>3, <3>1, StaysPut
    <3> QED BY <2>1, <3>2, <3>3, OwedKept
  <2> QED BY <1>0, <1>7, <2>2, <2>3, SendEndsOwes
<1>8. ASSUME UNCHANGED <<legs, todo, reports>>
      PROVE  OwedInv'
  <2>1. NamedOnce' /\ \A s \in Sessions : Owing(s)' = Owing(s)
    BY <1>0, <1>8 DEF NamedOnce, Owing
  <2> QED BY <1>1, <1>8, <2>1
<1>9. \A c \in Conns :
        /\ Closed(c) => UNCHANGED <<legs, todo, reports>>
        /\ \A health \in Faults : Fault(c, health) => UNCHANGED <<legs, todo, reports>>
  BY DEF Closed, Fault, hubVars
<1>10. UNCHANGED vars => UNCHANGED <<legs, todo, reports>>
  BY DEF vars, hubVars
<1> QED
  BY <1>2, <1>3, <1>4, <1>5, <1>6, <1>7, <1>8, <1>9, <1>10 DEF Next, Handler

\* At the start nothing was reported and nothing is owed.
LEMMA OwedInit == Init => OwedInv
<1> SUFFICES ASSUME Init PROVE OwedInv
  OBVIOUS
<1>1. ASSUME NEW c \in Conns
      PROVE  todo[c] = << >> /\ Len(todo[c]) = 0
  BY DEF Init
<1>2. NamedOnce
  BY <1>1 DEF NamedOnce, NamesOnce
<1>3. ASSUME NEW s \in Sessions, NEW r, NEW owing, NEW ls,
             r = reports[s], owing = Owing(s), ls = legs[s]
      PROVE  Balance(r, Cardinality(owing), ls) /\ Paired(r)
  <2>1. r = << >> /\ ls = << >> /\ Len(r) = 0 /\ Len(ls) = 0
    BY <1>3 DEF Init
  <2>2. owing = {}
    BY <1>1, <1>3 DEF Owing
  <2>3. Cardinality(owing) = 0
    BY <2>2, FS_EmptySet
  <2>4. \A x : Count(r, x) = 0
    <3>1. \A x : {i \in 1..Len(r) : r[i] = x} = {}
      BY <2>1
    <3> QED BY <3>1, FS_EmptySet DEF Count
  <2> QED BY <2>1, <2>3, <2>4 DEF Balance, Paired
<1> QED BY <1>2, <1>3 DEF OwedInv, Balanced

\* The inductive invariant about reports.
THEOREM OwedInvariant == Spec => []OwedInv
<1>1. TypeInv /\ TypeInv' /\ OwedInv /\ [Next]_vars => OwedInv'
  BY OwedStep
<1> QED
  BY <1>1, OwedInit, TurnsInvariant, PTL DEF Spec

\* At no time has a relay been reported aborted more often than active: every
\* abort is about a pair of its own, however many legs are lost and replaced.
THEOREM AbortsStayPaired == Spec => []AbortsArePaired
<1>1. ASSUME TypeInv, OwedInv
      PROVE  AbortsArePaired
  <2>1. reports \in [Sessions -> Seq(Reported)]
    BY <1>1, TypeFacts
  <2>2. \A s \in Sessions : Paired(reports[s])
    BY <1>1 DEF OwedInv, Balanced
  <2> QED BY <2>1, <2>2, PairedIsPaired
<1>2. TypeInv /\ OwedInv => AbortsArePaired
  BY <1>1
<1> QED
  BY <1>2, TurnsInvariant, OwedInvariant, PTL

-----------------------------------------------------------------------------
(* Refinement: the hub and its reports implement RelayLifecycle.           *)

\* The party of one session.
PartyOf(ls) ==
  [role \in {leg.role : leg \in ToSet(ls)} |->
     (CHOOSE leg \in ToSet(ls) : leg.role = role).conn]

\* The party f after c has taken the role, and after c has left.
Joined(f, role, c) == [r \in DOMAIN f \cup {role} |-> IF r = role THEN c ELSE f[r]]
RolesOf(f, c) == {role \in DOMAIN f : f[role] = c}
Left(f, c) == [role \in DOMAIN f \ RolesOf(f, c) |-> f[role]]

\* The party, session by session, now and in the next state.
LEMMA PartyBySession ==
  /\ Party = [s \in Sessions |-> PartyOf(legs[s])]
  /\ Party' = [s \in Sessions |-> PartyOf(legs'[s])]
BY DEF Party, PartyOf, ToSet

\* The reports still owed, session by session.
LEMMA OwedBySession ==
  /\ OwedReports = [s \in Sessions |-> Cardinality(Owing(s))]
  /\ OwedReports' = [s \in Sessions |-> Cardinality(Owing(s)')]
BY DEF OwedReports

\* A session without legs has no party.
LEMMA NoParty == PartyOf(<< >>) = << >>
BY DEF PartyOf, ToSet

\* No two legs of a session have the same role, so its party is its legs.
LEMMA PartyShape ==
  ASSUME NEW ls, GoodLegs(ls), NEW f, f = PartyOf(ls)
  PROVE  /\ \A role : role \in DOMAIN f <=> \E i \in 1..Len(ls) : ls[i].role = role
         /\ \A i \in 1..Len(ls) : f[ls[i].role] = ls[i].conn
         /\ f = [role \in DOMAIN f |-> f[role]]
<1>1. ls \in Seq(Leg) /\ Distinct(ls)
  BY DEF GoodLegs
<1>2. PICK S : S = ToSet(ls)
  OBVIOUS
<1>3. \A x : x \in S <=> \E i \in 1..Len(ls) : ls[i] = x
  BY <1>1, <1>2, ToSetIsElements
<1>4. f = [role \in {leg.role : leg \in S} |->
             (CHOOSE leg \in S : leg.role = role).conn]
  BY <1>2 DEF PartyOf
<1>5. DOMAIN f = {leg.role : leg \in S}
  BY <1>4
<1>6. ASSUME NEW role
      PROVE  role \in DOMAIN f <=> \E i \in 1..Len(ls) : ls[i].role = role
  BY <1>3, <1>5
<1>7. ASSUME NEW i \in 1..Len(ls)
      PROVE  f[ls[i].role] = ls[i].conn
  <2>1. ls[i] \in S /\ ls[i].role \in DOMAIN f
    BY <1>3, <1>6
  <2>2. ASSUME NEW leg \in S, leg.role = ls[i].role
        PROVE  leg = ls[i]
    <3>1. PICK j \in 1..Len(ls) : ls[j] = leg
      BY <1>3
    <3>2. j = i
      BY <1>1, <2>2, <3>1 DEF Distinct
    <3> QED BY <3>1, <3>2
  <2>3. (CHOOSE leg \in S : leg.role = ls[i].role) = ls[i]
    BY <2>1, <2>2, ZenonT(30)
  <2> QED BY <1>4, <1>5, <2>1, <2>3
<1>8. f = [role \in DOMAIN f |-> f[role]]
  BY <1>4
<1> QED BY <1>6, <1>7, <1>8

\* A session is ready when both roles have a party.
LEMMA ReadyParty ==
  ASSUME NEW ls, GoodLegs(ls)
  PROVE  IsReady(ls) <=> DOMAIN PartyOf(ls) = Roles
<1>1. PICK f : f = PartyOf(ls)
  OBVIOUS
<1>2. \A role : role \in DOMAIN f <=> \E i \in 1..Len(ls) : ls[i].role = role
  BY <1>1, PartyShape
<1>3. ls \in Seq(Leg)
  BY DEF GoodLegs
<1>4. \A role : HasRole(ls, role) <=> role \in DOMAIN f
  BY <1>2, <1>3, HasRoleIsIndexed
<1>5. \A i \in 1..Len(ls) : ls[i].role \in Roles
  <2>1. \A i \in 1..Len(ls) : ls[i] \in Leg
    BY <1>3
  <2> QED BY <2>1 DEF Leg
<1>6. DOMAIN f \subseteq Roles
  BY <1>2, <1>5
<1>7. DOMAIN f = Roles <=> "sender" \in DOMAIN f /\ "receiver" \in DOMAIN f
  BY <1>6 DEF Roles
<1> QED BY <1>1, <1>4, <1>7 DEF IsReady

\* Filing a leg gives the role to its connection.
LEMMA PutLegParty ==
  ASSUME NEW ls, GoodLegs(ls), NEW role \in Roles, NEW c \in Conns,
         NEW f, f = PartyOf(ls), NEW g, g = PartyOf(PutLeg(ls, role, c))
  PROVE  g = Joined(f, role, c)
<1>1. PICK r : r = PutLeg(ls, role, c)
  OBVIOUS
<1>2. PICK new : new = [role |-> role, conn |-> c]
  OBVIOUS
<1>3. new.role = role /\ new.conn = c
  BY <1>2
<1>4. /\ GoodLegs(r)
      /\ \E i \in 1..Len(r) : r[i] = new
      /\ KeepsOthers(r, ls, role)
      /\ \A i \in 1..Len(r) :
           \/ r[i] = new
           \/ /\ r[i].role # role
              /\ \E j \in 1..Len(ls) : r[i] = ls[j]
  <2>1. GoodLegs(r)
    BY <1>1, PutLegProps
  <2>2. \E i \in 1..Len(r) : r[i] = [role |-> role, conn |-> c]
    BY <1>1, PutLegProps
  <2>3. KeepsOthers(r, ls, role)
    BY <1>1, PutLegProps
  <2>4. \A i \in 1..Len(r) :
          \/ r[i] = [role |-> role, conn |-> c]
          \/ /\ r[i].role # role
             /\ \E j \in 1..Len(ls) : r[i] = ls[j]
    BY <1>1, PutLegProps
  <2> QED BY <1>2, <2>1, <2>2, <2>3, <2>4
<1>5. /\ \A x : x \in DOMAIN f <=> \E i \in 1..Len(ls) : ls[i].role = x
      /\ \A i \in 1..Len(ls) : f[ls[i].role] = ls[i].conn
  BY PartyShape
<1>6. /\ \A x : x \in DOMAIN g <=> \E i \in 1..Len(r) : r[i].role = x
      /\ \A i \in 1..Len(r) : g[r[i].role] = r[i].conn
      /\ g = [x \in DOMAIN g |-> g[x]]
  BY <1>1, <1>4, PartyShape
<1>7. ASSUME NEW x
      PROVE  x \in DOMAIN g <=> x \in DOMAIN f \cup {role}
  <2>1. ASSUME x \in DOMAIN g
        PROVE  x \in DOMAIN f \cup {role}
    BY <1>3, <1>4, <1>5, <1>6, <2>1
  <2>2. CASE x = role
    BY <1>3, <1>4, <1>6, <2>2
  <2>3. CASE x \in DOMAIN f /\ x # role
    BY <1>4, <1>5, <1>6, <2>3 DEF KeepsOthers
  <2> QED BY <2>1, <2>2, <2>3
<1>8. ASSUME NEW x \in DOMAIN g
      PROVE  g[x] = IF x = role THEN c ELSE f[x]
  <2>1. PICK i \in 1..Len(r) : r[i].role = x
    BY <1>6
  <2>2. g[x] = r[i].conn
    BY <1>6, <2>1
  <2>3. CASE r[i] = new
    BY <1>3, <2>1, <2>2, <2>3
  <2>4. CASE r[i].role # role /\ \E j \in 1..Len(ls) : r[i] = ls[j]
    BY <1>5, <2>1, <2>2, <2>4
  <2> QED BY <1>4, <2>3, <2>4
<1>9. DOMAIN g = DOMAIN f \cup {role}
  BY <1>7
<1> QED BY <1>6, <1>8, <1>9 DEF Joined

\* Dropping a connection takes it out of the party, and nobody else.
LEMMA DropParty ==
  ASSUME NEW ls, GoodLegs(ls), NEW c, NEW r, r = WithoutLegsOf(ls, c),
         NEW f, f = PartyOf(ls), NEW g, g = PartyOf(r)
  PROVE  /\ g = Left(f, c)
         /\ r # << >> <=> DOMAIN g # {}
         /\ r # ls <=> RolesOf(f, c) # {}
<1>0. PICK gone : gone = {role \in DOMAIN f : f[role] = c}
  OBVIOUS
<1>1. /\ GoodLegs(r) /\ Len(r) <= Len(ls)
      /\ (Len(r) = Len(ls) => r = ls)
      /\ \A i \in 1..Len(r) : r[i].conn # c /\ \E j \in 1..Len(ls) : r[i] = ls[j]
      /\ KeepsUnlessOf(r, ls, c)
  BY WithoutLegsProps
<1>2. /\ \A x : x \in DOMAIN f <=> \E i \in 1..Len(ls) : ls[i].role = x
      /\ \A i \in 1..Len(ls) : f[ls[i].role] = ls[i].conn
  BY PartyShape
<1>3. /\ \A x : x \in DOMAIN g <=> \E i \in 1..Len(r) : r[i].role = x
      /\ \A i \in 1..Len(r) : g[r[i].role] = r[i].conn
      /\ g = [x \in DOMAIN g |-> g[x]]
  BY <1>1, PartyShape
<1>4. ASSUME NEW x \in DOMAIN g
      PROVE  x \in DOMAIN f \ gone /\ g[x] = f[x]
  <2>1. PICK i \in 1..Len(r) : r[i].role = x
    BY <1>3
  <2>2. PICK j \in 1..Len(ls) : r[i] = ls[j]
    BY <1>1
  <2>3. x \in DOMAIN f /\ f[x] = r[i].conn /\ g[x] = r[i].conn /\ r[i].conn # c
    BY <1>1, <1>2, <1>3, <2>1, <2>2
  <2> QED BY <1>0, <2>3
<1>5. ASSUME NEW x \in DOMAIN f \ gone
      PROVE  x \in DOMAIN g
  <2>1. PICK j \in 1..Len(ls) : ls[j].role = x
    BY <1>2
  <2>2. ls[j].conn # c
    BY <1>0, <1>2, <2>1
  <2>3. PICK i \in 1..Len(r) : r[i] = ls[j]
    BY <1>1, <2>2 DEF KeepsUnlessOf
  <2> QED BY <1>3, <2>1, <2>3
<1>6. DOMAIN g = DOMAIN f \ gone
  BY <1>4, <1>5
<1>7. g = [role \in DOMAIN f \ gone |-> f[role]]
  BY <1>3, <1>4, <1>6
<1>8. r \in Seq(Leg) /\ Len(r) \in 0..2 /\ Len(ls) \in 0..2 /\ Distinct(ls)
  BY <1>1, GoodLegsLen DEF GoodLegs
<1>9. r # << >> <=> DOMAIN g # {}
  <2>1. r # << >> <=> Len(r) # 0
    BY <1>8, EmptySeq
  <2>2. Len(r) # 0 => 1 \in 1..Len(r)
    BY <1>8
  <2>3. Len(r) # 0 => r[1].role \in DOMAIN g
    BY <1>3, <2>2
  <2>4. Len(r) = 0 => DOMAIN g = {}
    <3>1. ASSUME Len(r) = 0, NEW x \in DOMAIN g
          PROVE  FALSE
      <4>1. PICK i \in 1..Len(r) : r[i].role = x
        BY <1>3
      <4> QED BY <3>1, <4>1
    <3> QED BY <3>1
  <2> QED BY <2>1, <2>3, <2>4
<1>10. ASSUME gone # {}
       PROVE  r # ls
  <2>1. PICK j \in 1..Len(ls) : ls[j].conn = c
    BY <1>0, <1>2, <1>10
  <2> QED BY <1>1, <2>1
<1>11. ASSUME gone = {}
       PROVE  r = ls
  <2>1. \A j \in 1..Len(ls) : ls[j].conn # c
    BY <1>0, <1>2, <1>11
  <2>2. \A j \in 1..Len(ls) : \E i \in 1..Len(r) : r[i] = ls[j]
    BY <1>1, <2>1 DEF KeepsUnlessOf
  <2>3. CASE Len(ls) = 0
    BY <1>1, <1>8, <2>3
  <2>4. CASE Len(ls) = 1
    <3>1. Len(r) # 0
      BY <2>2, <2>4
    <3> QED BY <1>1, <1>8, <2>4, <3>1
  <2>5. CASE Len(ls) = 2
    <3>1. PICK i \in 1..Len(r) : r[i] = ls[1]
      BY <2>2, <2>5
    <3>2. PICK j \in 1..Len(r) : r[j] = ls[2]
      BY <2>2, <2>5
    <3>3. i # j
      BY <1>8, <2>5, <3>1, <3>2 DEF Distinct
    <3>4. Len(r) = 2
      <4>1. \A k \in 0..2 : \A a, b \in 1..k : a # b => k = 2
        OBVIOUS
      <4> QED BY <1>8, <3>3, <4>1
    <3> QED BY <1>1, <2>5, <3>4
  <2> QED BY <1>8, <2>3, <2>4, <2>5
<1>12. RolesOf(f, c) = gone /\ Left(f, c) = g
  BY <1>0, <1>7 DEF RolesOf, Left
<1> QED BY <1>9, <1>10, <1>11, <1>12

\* A step that moves no leg, report or debt is no step of the lifecycle.
LEMMA LifecycleStutters ==
  ASSUME UNCHANGED <<legs, reports>>, \A s \in Sessions : Owing(s)' = Owing(s)
  PROVE  UNCHANGED RL!lifecycleVars
<1>1. Party' = Party
  BY PartyBySession
<1>2. OwedReports' = OwedReports
  BY OwedBySession
<1> QED BY <1>1, <1>2 DEF RL!lifecycleVars

\* When the debts stay, so does what the lifecycle knows of them.
LEMMA OwedStays ==
  ASSUME \A s \in Sessions : Owing(s)' = Owing(s)
  PROVE  OwedReports' = OwedReports
BY OwedBySession

\* The party changes where the legs do.
LEMMA PartyAt ==
  ASSUME NEW s \in Sessions, \A x \in Sessions \ {s} : legs'[x] = legs[x],
         NEW g, g = PartyOf(legs'[s])
  PROVE  /\ Party' = [Party EXCEPT ![s] = g]
         /\ Party'[s] = g
         /\ Party[s] = PartyOf(legs[s])
<1>1. \A x \in Sessions : Party'[x] = IF x = s THEN g ELSE Party[x]
  BY PartyBySession
<1>2. Party' = [x \in Sessions |-> IF x = s THEN g ELSE Party[x]]
  BY <1>1, PartyBySession
<1>3. Party = [x \in Sessions |-> Party[x]] /\ Party[s] = PartyOf(legs[s])
  BY PartyBySession
<1> QED BY <1>1, <1>2, <1>3

\* RELAY_OPEN opens a leg.
LEMMA OpenOpens ==
  ASSUME TypeInv, NamedOnce, NEW c \in Conns, NEW s \in Sessions, NEW role \in Roles,
         RelayOpen(c, s, role)
  PROVE  RL!LegOpens(s, role, c)
<1>1. PICK ls : ls = PutLeg(legs[s], role, c)
  OBVIOUS
<1>2. /\ legs \in [Sessions -> Seq(Leg)] /\ GoodLegs(legs[s])
      /\ reports \in [Sessions -> Seq(Reported)]
  BY TypeFacts DEF TypeInv, TypeOK
<1>3. GoodLegs(ls)
  BY <1>1, <1>2, PutLegProps
<1>4. legs' = [legs EXCEPT ![s] = ls]
  BY <1>1 DEF RelayOpen
<1>5. legs'[s] = ls /\ \A x \in Sessions \ {s} : legs'[x] = legs[x]
  BY <1>2, <1>4
<1>6. PICK g : g = PartyOf(ls)
  OBVIOUS
<1>7. PICK f : f = PartyOf(legs[s])
  OBVIOUS
<1>8. Party' = [Party EXCEPT ![s] = g] /\ Party'[s] = g /\ Party[s] = f
  <2>1. g = PartyOf(legs'[s])
    BY <1>5, <1>6
  <2> QED BY <1>5, <1>7, <2>1, PartyAt
<1>9. g = Joined(f, role, c)
  BY <1>1, <1>2, <1>6, <1>7, PutLegParty
<1>10. g = RL!With(s, role, c)
  BY <1>8, <1>9 DEF RL!With, Joined
<1>11. IsReady(ls) <=> DOMAIN g = Roles
  BY <1>3, <1>6, ReadyParty
<1>12. IF DOMAIN Party'[s] = Roles THEN RL!Log(s, "active") ELSE UNCHANGED reports
  <2>1. CASE IsReady(ls)
    BY <1>1, <1>8, <1>11, <2>1 DEF RelayOpen, Report, RL!Log
  <2>2. CASE ~IsReady(ls)
    BY <1>1, <1>8, <1>11, <2>2 DEF RelayOpen
  <2> QED BY <2>1, <2>2
<1>13. UNCHANGED OwedReports
  BY OpenOwes, OwedStays
<1> QED BY <1>8, <1>10, <1>12, <1>13 DEF RL!LegOpens

\* RELAY_CLOSE closes a session that has a leg, and does nothing to another.
LEMMA CloseCloses ==
  ASSUME TypeInv, NamedOnce, NEW c \in Conns, NEW s \in Sessions, RelayClose(c, s)
  PROVE  RL!SessionCloses(s) \/ UNCHANGED RL!lifecycleVars
<1>1. legs \in [Sessions -> Seq(Leg)] /\ GoodLegs(legs[s])
  BY TypeFacts DEF TypeInv, TypeOK
<1>2. \A x \in Sessions : Owing(x)' = Owing(x)
  BY CloseOwes
<1>3. legs' = [legs EXCEPT ![s] = << >>]
  BY DEF RelayClose
<1>4. legs'[s] = << >> /\ \A x \in Sessions \ {s} : legs'[x] = legs[x]
  BY <1>1, <1>3
<1>5. CASE legs[s] = << >>
  <2>1. legs' = legs
    BY <1>1, <1>3, <1>5
  <2>2. UNCHANGED reports
    BY <1>5 DEF RelayClose
  <2> QED BY <1>2, <2>1, <2>2, LifecycleStutters
<1>6. CASE legs[s] # << >>
  <2>1. Report(s, "completed")
    BY <1>6 DEF RelayClose
  <2>2. PICK g : g = PartyOf(legs'[s])
    OBVIOUS
  <2>3. g = << >>
    BY <1>4, <2>2, NoParty
  <2>4. Party' = [Party EXCEPT ![s] = g] /\ Party[s] = PartyOf(legs[s])
    BY <1>4, <2>2, PartyAt
  <2>5. PICK ls : ls = legs[s]
    OBVIOUS
  <2>6. PICK f : f = PartyOf(ls)
    OBVIOUS
  <2>7. ls \in Seq(Leg) /\ ls # << >>
    BY <1>1, <1>6, <2>5 DEF GoodLegs
  <2>8. 1 \in 1..Len(ls)
    BY <2>7, EmptySeq, LenProperties
  <2>9. ls[1].role \in DOMAIN f
    BY <1>1, <2>5, <2>6, <2>8, PartyShape
  <2>10. DOMAIN Party[s] # {}
    BY <2>4, <2>5, <2>6, <2>9
  <2>11. UNCHANGED OwedReports
    BY <1>2, OwedStays
  <2>12. RL!Log(s, "completed")
    BY <2>1 DEF Report, RL!Log
  <2> QED BY <2>3, <2>4, <2>10, <2>11, <2>12 DEF RL!SessionCloses
<1> QED BY <1>5, <1>6

\* The end of a handler: the connection leaves, with all its legs at once.
LEMMA TeardownLeaves ==
  ASSUME TypeInv, NamedOnce, NEW c \in Conns, Teardown(c)
  PROVE  RL!ConnectionLeaves(c)
<1>0. \A s \in Sessions : GoodLegs(legs[s])
  BY TypeFacts
<1>1. legs' = [s \in Sessions |-> WithoutLegsOf(legs[s], c)]
  BY TeardownShape
<1>2. ASSUME NEW s \in Sessions
      PROVE  /\ PartyOf(legs'[s]) = RL!Without(s, c)
             /\ s \in Orphaned(c) <=>
                  RL!LegsOf(s, c) # {} /\ DOMAIN RL!Without(s, c) # {}
  <2>1. PICK ls : ls = legs[s]
    OBVIOUS
  <2>2. PICK r : r = WithoutLegsOf(ls, c)
    OBVIOUS
  <2>3. PICK f : f = PartyOf(ls)
    OBVIOUS
  <2>4. PICK g : g = PartyOf(r)
    OBVIOUS
  <2>5. GoodLegs(ls)
    BY <1>0, <2>1
  <2>6. /\ g = Left(f, c)
        /\ r # << >> <=> DOMAIN g # {}
        /\ r # ls <=> RolesOf(f, c) # {}
    BY <2>2, <2>3, <2>4, <2>5, DropParty
  <2>7. Party[s] = f
    BY <2>1, <2>3, PartyBySession
  <2>8. RL!LegsOf(s, c) = RolesOf(f, c)
    BY <2>7 DEF RL!LegsOf, RolesOf
  <2>9. RL!Without(s, c) = g
    BY <2>6, <2>7, <2>8 DEF RL!Without, Left
  <2>10. s \in Orphaned(c) <=> r # << >> /\ r # ls
    BY <2>1, <2>2 DEF Orphaned
  <2>11. PartyOf(legs'[s]) = g
    BY <1>1, <2>1, <2>2, <2>4
  <2> QED BY <2>6, <2>8, <2>9, <2>10, <2>11
<1>3. Party' = [s \in Sessions |-> RL!Without(s, c)]
  BY <1>2, PartyBySession
<1>4. {s \in Sessions : RL!LegsOf(s, c) # {} /\ DOMAIN RL!Without(s, c) # {}} = Orphaned(c)
  BY <1>2 DEF Orphaned
<1>5. CASE Orphaned(c) = {} /\ UNCHANGED reports /\ \A s \in Sessions : Owing(s)' = Owing(s)
  <2>1. UNCHANGED OwedReports
    BY <1>5, OwedStays
  <2> QED BY <1>3, <1>4, <1>5, <2>1 DEF RL!ConnectionLeaves
<1>6. ASSUME NEW first \in Orphaned(c), Report(first, "aborted"),
             \A s \in Sessions : \A n, m :
               n = Cardinality(Owing(s)) /\ m = Cardinality(Owing(s)') =>
                 m = IF s \in Orphaned(c) \ {first} THEN n + 1 ELSE n
      PROVE  RL!ConnectionLeaves(c)
  <2>1. OwedReports' = [s \in Sessions |->
          IF s \in Orphaned(c) \ {first} THEN OwedReports[s] + 1 ELSE OwedReports[s]]
    BY <1>6, OwedBySession
  <2>2. RL!Log(first, "aborted")
    BY <1>6 DEF Report, RL!Log
  <2>3. Orphaned(c) # {}
    OBVIOUS
  <2> QED BY <1>3, <1>4, <2>1, <2>2, <2>3 DEF RL!ConnectionLeaves
<1> QED BY <1>5, <1>6, TeardownOwes

\* The end of a send makes the report that is owed, if there is one.
LEMMA SendEndsReports ==
  ASSUME TypeInv, NamedOnce, NEW p \in Conns, SendEnds(p)
  PROVE  (\E s \in Sessions : RL!AbortReported(s)) \/ UNCHANGED RL!lifecycleVars
<1>1. UNCHANGED legs
  BY DEF SendEnds
<1>2. UNCHANGED Party
  BY <1>1, PartyBySession
<1>3. CASE UNCHANGED reports /\ \A x \in Sessions : Owing(x)' = Owing(x)
  BY <1>1, <1>3, LifecycleStutters
<1>4. ASSUME NEW s \in Sessions, Report(s, "aborted"),
             Cardinality(Owing(s)') + 1 = Cardinality(Owing(s)),
             \A x \in Sessions \ {s} : Owing(x)' = Owing(x)
      PROVE  RL!AbortReported(s)
  <2>1. PICK n \in Nat : n = Cardinality(Owing(s))
    BY OwingIsFinite
  <2>2. PICK m \in Nat : m = Cardinality(Owing(s)')
    BY OwingIsFinite
  <2>3. m + 1 = n
    BY <1>4, <2>1, <2>2
  <2>4. OwedReports[s] = n /\ OwedReports'[s] = m
    BY <2>1, <2>2, OwedBySession
  <2>5. n > 0 /\ m = n - 1
    BY <2>3
  <2>6. \A x \in Sessions : OwedReports'[x] = IF x = s THEN n - 1 ELSE OwedReports[x]
    BY <1>4, <2>4, <2>5, OwedBySession
  <2>7. OwedReports' = [OwedReports EXCEPT ![s] = OwedReports[s] - 1]
    BY <2>4, <2>6, OwedBySession
  <2>8. RL!Log(s, "aborted")
    BY <1>4 DEF Report, RL!Log
  <2> QED BY <1>2, <2>4, <2>5, <2>7, <2>8 DEF RL!AbortReported
<1> QED BY <1>3, <1>4, SendEndsOwes

\* Every step of the relay is a step of the lifecycle, or none.
LEMMA LifecycleStep ==
  ASSUME TypeInv, TypeInv', NamedOnce, [Next]_vars
  PROVE  RL!LifecycleNext \/ UNCHANGED RL!lifecycleVars
<1>0. todo \in [Conns -> Seq(Send)]
  BY TypeFacts
<1>1. ASSUME NEW c \in Conns, NEW s \in Sessions, NEW role \in Roles,
             RelayOpen(c, s, role)
      PROVE  RL!LifecycleNext
  BY <1>1, OpenOpens DEF RL!LifecycleNext
<1>2. ASSUME NEW c \in Conns, NEW s \in Sessions, RelayClose(c, s)
      PROVE  RL!LifecycleNext \/ UNCHANGED RL!lifecycleVars
  BY <1>2, CloseCloses DEF RL!LifecycleNext
<1>3. ASSUME NEW c \in Conns, NEW s \in Sessions, Forward(c, s)
      PROVE  UNCHANGED RL!lifecycleVars
  <2>1. UNCHANGED <<legs, reports>>
    BY <1>3 DEF Forward
  <2> QED BY <1>3, <2>1, ForwardOwes, LifecycleStutters
<1>4. ASSUME NEW c \in Conns, LimiterGrants(c)
      PROVE  UNCHANGED RL!lifecycleVars
  <2>1. todo' = [todo EXCEPT ![c] = todo[c]] /\ UNCHANGED <<legs, reports>>
    BY <1>4 DEF LimiterGrants, Continue
  <2>2. todo[c] \in Seq(Send)
    BY <1>0
  <2>3. \A x \in Sessions : Owing(x)' = Owing(x)
    BY <1>0, <2>1, <2>2, QuietSends
  <2> QED BY <2>1, <2>3, LifecycleStutters
<1>5. ASSUME NEW c \in Conns, Teardown(c)
      PROVE  RL!LifecycleNext
  BY <1>5, TeardownLeaves DEF RL!LifecycleNext
<1>6. ASSUME NEW p \in Conns, SendEnds(p)
      PROVE  RL!LifecycleNext \/ UNCHANGED RL!lifecycleVars
  BY <1>6, SendEndsReports DEF RL!LifecycleNext
<1>7. ASSUME UNCHANGED <<legs, todo, reports>>
      PROVE  UNCHANGED RL!lifecycleVars
  <2>1. \A s \in Sessions : Owing(s)' = Owing(s)
    BY <1>7 DEF Owing
  <2> QED BY <1>7, <2>1, LifecycleStutters
<1>8. \A c \in Conns :
        /\ Closed(c) => UNCHANGED <<legs, todo, reports>>
        /\ \A health \in Faults : Fault(c, health) => UNCHANGED <<legs, todo, reports>>
  BY DEF Closed, Fault, hubVars
<1>9. UNCHANGED vars => UNCHANGED <<legs, todo, reports>>
  BY DEF vars, hubVars
<1> QED
  BY <1>1, <1>2, <1>3, <1>4, <1>5, <1>6, <1>7, <1>8, <1>9 DEF Next, Handler

\* At the start there is no leg and no report.
LEMMA LifecycleStart == Init => RL!LifecycleInit
<1> SUFFICES ASSUME Init PROVE RL!LifecycleInit
  OBVIOUS
<1>1. \A s \in Sessions : legs[s] = << >>
  BY DEF Init
<1>2. Party = [s \in Sessions |-> << >>]
  BY <1>1, NoParty, PartyBySession
<1>3. ASSUME NEW s \in Sessions
      PROVE  Cardinality(Owing(s)) = 0
  <2>1. \A c \in Conns : Len(todo[c]) = 0
    BY DEF Init
  <2>2. Owing(s) = {}
    BY <2>1 DEF Owing
  <2> QED BY <2>2, FS_EmptySet
<1>4. OwedReports = [s \in Sessions |-> 0]
  BY <1>3, OwedBySession
<1>5. reports = [s \in Sessions |-> << >>]
  BY DEF Init
<1> QED BY <1>2, <1>4, <1>5 DEF RL!LifecycleInit

\* The hub, its handlers and their reports implement the lifecycle: whatever
\* the locks and the waits do to the frames, a leg opens, a session closes and
\* a connection leaves at once, and every pair it breaks is reported once.
THEOREM RelayImplementsLifecycle == Spec => ImplementsLifecycle
<1>1. TypeInv /\ TypeInv' /\ OwedInv /\ [Next]_vars
        => [RL!LifecycleNext]_(RL!lifecycleVars)
  BY LifecycleStep DEF OwedInv
<1> QED
  BY <1>1, LifecycleStart, TurnsInvariant, OwedInvariant, PTL
     DEF Spec, ImplementsLifecycle, RL!Lifecycle

=============================================================================
