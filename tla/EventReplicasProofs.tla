------------------------- MODULE EventReplicasProofs -------------------------
(***************************************************************************)
(* Proofs, for any number of devices, people and expenses, any clocks and  *)
(* every bound, that merging the copies of an event brings back neither a  *)
(* deleted expense nor a removed member and never leaves the event with    *)
(* administrators the server would refuse, and that the copies agree: who  *)
(* shows the record's closing shows its ledger, and who has nothing left   *)
(* to deliver shows the record after the next read.                        *)
(***************************************************************************)
EXTENDS EventReplicas, TLAPS, WellFoundedInduction

\* The record always has the stamps it was created with, or later ones: what
\* mergeEventMembership does with missing stamps concerns no merge with it.
Stamped == /\ canon.adminAt >= 1
           /\ \A p \in Participant : canon.memberAt[p] >= 1

IInv == TypeOK /\ Stamped

USE DEF Device
-----------------------------------------------------------------------------
(* The merge. *)

\* Every participant is decided by one of the two copies.
LEMMA SourceIsACopy ==
  ASSUME NEW remote \in Copy, NEW local \in Copy, NEW p \in Participant
  PROVE  MembershipSource(remote, local, p) \in {remote, local}
<1> remote.memberAt[p] \in Nat /\ local.memberAt[p] \in Nat
  BY DEF Copy
<1> QED
  BY DEF MembershipSource, MostPresent, TieSource

\* A roster that is not empty has a first member.
LEMMA FirstExists ==
  ASSUME NEW S \in SUBSET Participant, S # {}
  PROVE  First(S) # {} /\ First(S) \subseteq S
<1> USE RankAssumption
<1> DEFINE T == {Rank[p] : p \in S}
<1>1. T \subseteq Nat /\ T # {}
  OBVIOUS
<1>2. PICK n \in T : \A m \in T : ~ (<<m, n>> \in OpToRel(<, Nat))
  BY <1>1, NatLessThanWellFounded, WFMin
<1>3. \A m \in T : ~ (m < n)
  BY <1>1, <1>2 DEF OpToRel
<1>4. PICK p \in S : Rank[p] = n
  BY <1>2
<1>5. \A q \in S : Rank[p] <= Rank[q]
  BY <1>1, <1>3, <1>4
<1> QED
  BY <1>4, <1>5 DEF First

\* Merging copies gives a copy.
LEMMA MergeType ==
  ASSUME NEW remote \in Copy, NEW local \in Copy
  PROVE  Merge(remote, local) \in Copy
<1> DEFINE m == Merge(remote, local)
           source == [p \in Participant |-> MembershipSource(remote, local, p)]
<1>1. \A p \in Participant : source[p] \in Copy
  BY SourceIsACopy
<1>2. MergedExpenses(remote, local) \in [Expense -> Version]
  <2> SUFFICES ASSUME NEW e \in Expense
               PROVE  MergedExpenses(remote, local)[e] \in Version
    BY DEF MergedExpenses
  <2>1. remote.expenses[e] \in Version /\ local.expenses[e] \in Version
    BY DEF Copy
  <2> QED
    BY <2>1 DEF MergedExpenses, NewerExpense, Version, NoVersion
<1>3. LifecycleSource(remote, local) \in Copy
  BY DEF LifecycleSource
<1>4. m.closed \in BOOLEAN /\ m.statusAt \in Nat
  BY <1>3 DEF Merge, Copy
<1>5. m.standing \in [Participant -> Standing]
  BY <1>1 DEF Merge, Copy
<1>6. m.memberAt \in [Participant -> Nat]
  BY DEF Merge, Copy, Later
<1>7. m.admins \subseteq Participant
  BY DEF Merge, Copy, ChosenAdmins, First
<1>8. m.adminAt \in Nat
  BY DEF Merge, Copy
<1>9. m.deleted \subseteq Expense /\ m.receipts \subseteq Receipt
  BY DEF Merge, Copy
<1>10. m.expenses = MergedExpenses(remote, local)
  BY DEF Merge
<1>11. m = [expenses |-> m.expenses, deleted |-> m.deleted, closed |-> m.closed,
            statusAt |-> m.statusAt, standing |-> m.standing, memberAt |-> m.memberAt,
            admins |-> m.admins, adminAt |-> m.adminAt, receipts |-> m.receipts]
  BY DEF Merge
<1> HIDE DEF m
<1>12. m \in Copy
  BY <1>2, <1>4, <1>5, <1>6, <1>7, <1>8, <1>9, <1>10, <1>11 DEF Copy
<1> QED
  BY <1>12 DEF m

\* What either copy has deleted, the merged one has deleted and does not list.
LEMMA MergeDeletes ==
  ASSUME NEW remote \in Copy, NEW local \in Copy
  PROVE  /\ WellFormed(Merge(remote, local))
         /\ Merge(remote, local).deleted = remote.deleted \cup local.deleted
<1>1. remote.deleted \cup local.deleted \subseteq Expense
  BY DEF Copy
<1> QED
  BY <1>1 DEF WellFormed, Merge, MergedExpenses

\* With a stamp on either side, a member comes back only by a later one.
LEMMA MergeRestores ==
  ASSUME NEW remote \in Copy, NEW local \in Copy, NEW p \in Participant,
         remote.memberAt[p] >= 1,
         p \notin Active(remote), p \in Active(Merge(remote, local))
  PROVE  Merge(remote, local).memberAt[p] > remote.memberAt[p]
<1> DEFINE source == MembershipSource(remote, local, p)
<1>1. remote.memberAt[p] \in Nat /\ local.memberAt[p] \in Nat
      /\ remote.standing[p] \in Standing /\ local.standing[p] \in Standing
  BY DEF Copy
<1>2. Merge(remote, local).memberAt[p] = Later(remote.memberAt[p], local.memberAt[p])
  BY DEF Merge
<1>3. source.standing[p] = "active" /\ remote.standing[p] # "active"
  BY DEF Merge, Active
<1>4. source # remote
  BY <1>3
<1>5. CASE remote.memberAt[p] < local.memberAt[p]
  BY <1>1, <1>2, <1>5 DEF Later
<1>6. CASE remote.memberAt[p] > local.memberAt[p]
  BY <1>1, <1>4, <1>6 DEF MembershipSource
<1>7. CASE remote.memberAt[p] = local.memberAt[p]
  <2>1. source = TieSource(remote, local, p)
    BY <1>1, <1>7 DEF MembershipSource
  <2>2. local.standing[p] = "active"
    BY <1>3, <1>4, SourceIsACopy
  <2>3. Removal(remote.standing[p]) >= Removal(local.standing[p])
    BY <1>1, <1>3, <2>2 DEF Removal, Standing
  <2> QED
    BY <1>3, <1>4, <2>1, <2>2, <2>3 DEF TieSource
<1> QED
  BY <1>1, <1>5, <1>6, <1>7

\* Stamps never go back.
LEMMA MergeStamps ==
  ASSUME NEW remote \in Copy, NEW local \in Copy
  PROVE  /\ Merge(remote, local).adminAt >= remote.adminAt
         /\ \A p \in Participant : Merge(remote, local).memberAt[p] >= remote.memberAt[p]
<1>1. remote.adminAt \in Nat /\ local.adminAt \in Nat
      /\ remote.memberAt \in [Participant -> Nat] /\ local.memberAt \in [Participant -> Nat]
  BY DEF Copy
<1>2. Merge(remote, local).adminAt >= remote.adminAt
  BY <1>1 DEF Merge
<1>3. \A p \in Participant : Merge(remote, local).memberAt[p] >= remote.memberAt[p]
  BY <1>1 DEF Merge, Later
<1> QED
  BY <1>2, <1>3

\* The fallbacks of mergeEventSettings end in an administrator, if anyone is
\* still active.
LEMMA MergeAdmins ==
  ASSUME NEW remote \in Copy, NEW local \in Copy, remote.adminAt >= 1
  PROVE  AdminsAccepted(Merge(remote, local))
<1> DEFINE m == Merge(remote, local)
           source == [p \in Participant |-> MembershipSource(remote, local, p)]
           kept == {p \in Participant : m.standing[p] # "absent" /\ p \in source[p].admins}
           selected == (IF remote.adminAt > local.adminAt THEN remote ELSE local).admins
<1>1. m.admins = ChosenAdmins(selected, kept, remote.admins \cup local.admins, Active(m))
  <2>1. ~(remote.adminAt = 0 /\ local.adminAt = 0)
    BY DEF Copy
  <2> QED
    BY <2>1 DEF Merge, Active
<1>2. Active(m) \in SUBSET Participant
  BY DEF Active
<1>3. Active(m) # {} => First(Active(m)) # {} /\ First(Active(m)) \subseteq Active(m)
  BY <1>2, FirstExists
<1>4. Active(m) = {} => First(Active(m)) = {}
  BY DEF First
<1> HIDE DEF m, kept, selected
<1>5. AdminsAccepted(m)
  BY <1>1, <1>3, <1>4 DEF ChosenAdmins, AdminsAccepted
<1> QED
  BY <1>5 DEF m
-----------------------------------------------------------------------------
(* What the person does.  Every change is a save of a well-formed copy. *)

Editable(d) == attached[d] /\ copy[d] \in Copy /\ WellFormed(copy[d])

LEMMA ChangeKeeps ==
  ASSUME IInv, NEW d \in Device, NEW c \in Copy, WellFormed(c), attached[d], Change(d, c)
  PROVE  IInv'
<1> USE ReplicasAssumption DEF IInv, TypeOK
<1>1. c # Nothing /\ copy[d] \in Copy /\ outbox[d] \in Copy \cup {Nothing}
  OBVIOUS
<1>2. copy' \in [Device -> Copy] /\ outbox' \in [Device -> Copy \cup {Nothing}]
  BY DEF Change
<1>3. undo' \in [Device -> [copy : Copy, outbox : Copy \cup {Nothing}] \cup {Nothing}]
  BY <1>1 DEF Change
<1>4. canon' \in Copy /\ WellFormed(canon)' /\ Stamped'
  BY DEF Change, WellFormed, Stamped
<1>5. attached' \in [Device -> BOOLEAN] /\ leftover' \subseteq Device
      /\ now' \in 1..MaxTime /\ changes' \in 0..MaxChanges
  BY DEF Change
<1>6. ASSUME NEW x \in Device
      PROVE  /\ WellFormed(copy'[x])
             /\ Pending(x)' => attached'[x] /\ WellFormed(outbox'[x])
             /\ undo'[x] # Nothing =>
                  /\ Pending(x)' /\ WellFormed(undo'[x].copy)
                  /\ undo'[x].outbox # Nothing => WellFormed(undo'[x].outbox)
  <2>1. CASE x = d
    <3>1. copy'[x] = c /\ outbox'[x] = c /\ undo'[x] = [copy |-> copy[d], outbox |-> outbox[d]]
      BY <2>1 DEF Change
    <3>2. WellFormed(copy[d]) /\ (outbox[d] # Nothing => WellFormed(outbox[d]))
      BY DEF Pending
    <3> QED
      BY <1>1, <2>1, <3>1, <3>2 DEF Pending, Change
  <2>2. CASE x # d
    <3>1. copy'[x] = copy[x] /\ outbox'[x] = outbox[x] /\ undo'[x] = undo[x] /\ attached'[x] = attached[x]
      BY <2>2 DEF Change
    <3> QED
      BY <3>1 DEF Pending
  <2> QED
    BY <2>1, <2>2
<1>7. TypeOK'
  BY <1>2, <1>3, <1>4, <1>5, <1>6 DEF WellFormed
<1> QED
  BY <1>4, <1>7

LEMMA StampsAreNumbers ==
  ASSUME IInv, NEW d \in Device
  PROVE  Clock(d) \in Nat /\ Editable(d) = attached[d]
<1>1. now \in Nat /\ Skew[d] \in Nat
  BY ReplicasAssumption DEF IInv, TypeOK
<1> QED
  BY <1>1 DEF Clock, Editable, IInv, TypeOK

LEMMA SaveExpenseKeeps ==
  ASSUME IInv, NEW d \in Device, NEW e \in Expense, SaveExpense(d, e)
  PROVE  IInv'
<1> DEFINE v == [at |-> Later(Clock(d), copy[d].expenses[e].at + 1), by |-> d]
           c == [copy[d] EXCEPT !.expenses[e] = v]
<1>1. copy[d] \in Copy /\ WellFormed(copy[d]) /\ attached[d] /\ Clock(d) \in Nat
  BY StampsAreNumbers DEF IInv, TypeOK, SaveExpense, CanEdit
<1>2. copy[d].expenses[e].at \in Nat
  BY <1>1 DEF Copy, Version
<1>3. v \in Version
  BY <1>1, <1>2 DEF Version, Later
<1>4. c \in Copy
  BY <1>1, <1>3 DEF Copy
<1>5. WellFormed(c)
  <2>1. \A x \in copy[d].deleted : x \in Expense /\ x # e /\ c.expenses[x] = copy[d].expenses[x]
    BY <1>1 DEF SaveExpense, Copy
  <2>2. c.deleted = copy[d].deleted
    BY <1>1 DEF Copy
  <2> QED
    BY <1>1, <2>1, <2>2 DEF WellFormed
<1>6. Change(d, c)
  BY DEF SaveExpense
<1> QED
  BY <1>1, <1>4, <1>5, <1>6, ChangeKeeps

LEMMA RemoveExpenseKeeps ==
  ASSUME IInv, NEW d \in Device, NEW e \in Expense, RemoveExpense(d, e)
  PROVE  IInv'
<1> DEFINE c == [copy[d] EXCEPT !.expenses[e] = NoVersion, !.deleted = @ \cup {e}]
<1>1. copy[d] \in Copy /\ WellFormed(copy[d]) /\ attached[d]
  BY DEF IInv, TypeOK, RemoveExpense, CanEdit
<1>2. c \in Copy
  BY <1>1 DEF Copy, Version, NoVersion
<1>3. WellFormed(c)
  <2>1. c.deleted = copy[d].deleted \cup {e} /\ c.expenses = [copy[d].expenses EXCEPT ![e] = NoVersion]
    BY <1>1 DEF Copy
  <2>2. copy[d].expenses \in [Expense -> Version] /\ copy[d].deleted \subseteq Expense
    BY <1>1 DEF Copy
  <2> QED
    BY <1>1, <2>1, <2>2 DEF WellFormed
<1>4. Change(d, c)
  BY DEF RemoveExpense
<1> QED
  BY <1>1, <1>2, <1>3, <1>4, ChangeKeeps

LEMMA LifecycleKeeps ==
  ASSUME IInv, NEW d \in Device, CloseEvent(d) \/ ReopenEvent(d)
  PROVE  IInv'
<1>1. copy[d] \in Copy /\ WellFormed(copy[d]) /\ attached[d] /\ Clock(d) \in Nat
  BY StampsAreNumbers DEF IInv, TypeOK, CloseEvent, ReopenEvent, CanManage
<1>2. CASE CloseEvent(d)
  <2> DEFINE c == [copy[d] EXCEPT !.closed = TRUE, !.statusAt = Clock(d),
                                  !.receipts = @ \cup {[by |-> d, at |-> Clock(d)]}]
  <2>1. [by |-> d, at |-> Clock(d)] \in Receipt
    BY <1>1 DEF Receipt
  <2>2. c \in Copy
    BY <1>1, <2>1 DEF Copy
  <2>3. c.deleted = copy[d].deleted /\ c.expenses = copy[d].expenses
    BY <1>1 DEF Copy
  <2>4. WellFormed(c)
    BY <1>1, <2>3 DEF WellFormed
  <2>5. Change(d, c)
    BY <1>2 DEF CloseEvent
  <2> QED
    BY <1>1, <2>2, <2>4, <2>5, ChangeKeeps
<1>3. CASE ReopenEvent(d)
  <2> DEFINE c == [copy[d] EXCEPT !.closed = FALSE, !.statusAt = Clock(d)]
  <2>1. c \in Copy /\ WellFormed(c)
    BY <1>1 DEF Copy, WellFormed
  <2> QED
    BY <1>1, <1>3, <2>1, ChangeKeeps DEF ReopenEvent
<1> QED
  BY <1>2, <1>3

LEMMA DeactivatedType ==
  ASSUME NEW c \in Copy, WellFormed(c), NEW p \in Participant, NEW t \in Nat,
         NEW n \in Deactivated(c, p, t)
  PROVE  n \in Copy /\ WellFormed(n)
<1> DEFINE active == Active(c) \ {p}
           admins == IF c.admins \cap active # {} THEN c.admins \cap active
                     ELSE IF Creator \in active THEN {Creator} ELSE First(active)
<1>1. PICK former \in Standing :
        n = [c EXCEPT !.standing = [c.standing EXCEPT ![p] = former], !.memberAt[p] = t,
                      !.admins = admins, !.adminAt = IF admins = c.admins THEN @ ELSE t]
  BY DEF Deactivated, Standing
<1>2. admins \subseteq Participant
  BY DEF Active, First, Copy
<1> HIDE DEF admins
<1>3. n \in Copy
  BY <1>1, <1>2 DEF Copy
<1>4. n.deleted = c.deleted /\ n.expenses = c.expenses
  BY <1>1 DEF Copy
<1> QED
  BY <1>3, <1>4 DEF WellFormed

LEMMA RosterKeeps ==
  ASSUME IInv, NEW d \in Device,
         \/ LeaveEvent(d)
         \/ \E p \in Participant :
              RemoveParticipant(d, p) \/ RestoreParticipant(d, p) \/ SetAdmin(d, p)
  PROVE  IInv'
<1> USE ReplicasAssumption
<1>1. copy[d] \in Copy /\ WellFormed(copy[d]) /\ attached[d] /\ Clock(d) \in Nat
  BY StampsAreNumbers
     DEF IInv, TypeOK, LeaveEvent, RemoveParticipant, RestoreParticipant, SetAdmin, CanManage
<1>2. CASE LeaveEvent(d)
  <2>1. PICK c \in Deactivated(copy[d], Me(d), Clock(d)) : Change(d, c)
    BY <1>2 DEF LeaveEvent
  <2>2. Me(d) \in Participant
    BY DEF Me
  <2> QED
    BY <1>1, <2>1, <2>2, DeactivatedType, ChangeKeeps
<1>3. CASE \E p \in Participant : RemoveParticipant(d, p)
  <2>1. PICK p \in Participant : RemoveParticipant(d, p)
    BY <1>3
  <2>2. PICK c \in Deactivated(copy[d], p, Clock(d)) : Change(d, c)
    BY <2>1 DEF RemoveParticipant
  <2> QED
    BY <1>1, <2>2, DeactivatedType, ChangeKeeps
<1>4. CASE \E p \in Participant : RestoreParticipant(d, p)
  <2>1. PICK p \in Participant : RestoreParticipant(d, p)
    BY <1>4
  <2> DEFINE c == [copy[d] EXCEPT !.standing[p] = "active", !.memberAt[p] = Clock(d)]
  <2>2. c \in Copy /\ WellFormed(c)
    BY <1>1 DEF Copy, WellFormed, Standing
  <2> QED
    BY <1>1, <2>1, <2>2, ChangeKeeps DEF RestoreParticipant
<1>5. CASE \E p \in Participant : SetAdmin(d, p)
  <2>1. PICK p \in Participant : SetAdmin(d, p)
    BY <1>5
  <2> DEFINE effective == copy[d].admins \cap Active(copy[d])
             admins == IF p \in effective THEN effective \ {p} ELSE effective \cup {p}
             c == [copy[d] EXCEPT !.admins = admins, !.adminAt = Clock(d)]
  <2>2. admins \subseteq Participant
    BY DEF Active
  <2>3. c \in Copy /\ WellFormed(c)
    BY <1>1, <2>2 DEF Copy, WellFormed
  <2>4. Change(d, c)
    BY <2>1 DEF SetAdmin
  <2> QED
    BY <1>1, <2>3, <2>4, ChangeKeeps
<1> QED
  BY <1>2, <1>3, <1>4, <1>5
-----------------------------------------------------------------------------
(* Writes, reads and lost access. *)

\* What a device reads is a well-formed copy.
LEMMA ReadType ==
  ASSUME NEW d \in Device, NEW c \in Copy, NEW shared \in Copy
  PROVE  Read(d, c, shared) \in Copy /\ WellFormed(Read(d, c, shared))
<1> DEFINE merged == Merge(c, shared)
           n == [merged EXCEPT !.standing[Me(d)] = "active", !.memberAt[Me(d)] = shared.memberAt[Me(d)]]
<1>1. merged \in Copy /\ WellFormed(merged)
  BY MergeType, MergeDeletes
<1>2. Me(d) \in Participant
  BY ReplicasAssumption DEF Me
<1> HIDE DEF merged
<1>3. n \in Copy
  BY <1>1, <1>2 DEF Copy, Standing
<1>4. n.deleted = merged.deleted /\ n.expenses = merged.expenses
  BY <1>1 DEF Copy
<1>5. WellFormed(n)
  BY <1>1, <1>4 DEF WellFormed
<1>6. Read(d, c, shared) \in {merged, n}
  BY DEF Read, merged
<1> QED
  BY <1>1, <1>3, <1>5, <1>6

\* An accepted write keeps what was deleted and only moves the stamps on.
LEMMA CandidateOK ==
  ASSUME IInv, NEW d \in Device, Pending(d)
  PROVE  /\ outbox[d] \in Copy
         /\ Candidate(d) \in Copy /\ WellFormed(Candidate(d))
         /\ canon.deleted \subseteq Candidate(d).deleted
         /\ Candidate(d).adminAt >= 1
         /\ \A p \in Participant : Candidate(d).memberAt[p] >= 1
<1>1. canon \in Copy /\ outbox[d] \in Copy /\ Stamped
  BY DEF IInv, TypeOK, Pending
<1>2. Candidate(d) \in Copy /\ WellFormed(Candidate(d)) /\ canon.deleted \subseteq Candidate(d).deleted
  BY <1>1, MergeType, MergeDeletes DEF Candidate
<1>3. /\ Candidate(d).adminAt >= canon.adminAt
      /\ \A p \in Participant : Candidate(d).memberAt[p] >= canon.memberAt[p]
  BY <1>1, MergeStamps DEF Candidate
<1>4. canon.adminAt \in Nat /\ Candidate(d).adminAt \in Nat
      /\ canon.memberAt \in [Participant -> Nat] /\ Candidate(d).memberAt \in [Participant -> Nat]
  BY <1>1, <1>2 DEF Copy
<1> QED
  BY <1>1, <1>2, <1>3, <1>4 DEF Stamped

LEMMA SyncKeeps ==
  ASSUME IInv, NEW d \in Device, Sync(d)
  PROVE  IInv'
<1> USE ReplicasAssumption DEF IInv, TypeOK
<1>1. CASE Deliver(d)
  <2> DEFINE n == Read(d, outbox[d], Candidate(d))
  <2>1. outbox[d] \in Copy /\ Candidate(d) \in Copy /\ WellFormed(Candidate(d))
    BY <1>1, CandidateOK DEF Deliver
  <2>2. n \in Copy /\ WellFormed(n)
    BY <2>1, ReadType
  <2> HIDE DEF n
  <2>3. /\ canon' = Candidate(d) /\ copy' = [copy EXCEPT ![d] = n]
        /\ outbox' = [outbox EXCEPT ![d] = Nothing] /\ undo' = [undo EXCEPT ![d] = Nothing]
        /\ leftover' = leftover \ {d} /\ UNCHANGED <<attached, now, changes>>
    BY <1>1 DEF Deliver, Settle, n
  <2>4. Stamped'
    BY <1>1, <2>3, CandidateOK DEF Stamped, Deliver
  <2>5. TypeOK'
    BY <2>1, <2>2, <2>3 DEF WellFormed, Pending
  <2> QED
    BY <2>4, <2>5
<1>2. CASE Refuse(d)
  <2>1. undo[d] \in [copy : Copy, outbox : Copy \cup {Nothing}] /\ Pending(d) /\ attached[d]
    BY <1>2 DEF Refuse
  <2>2. /\ copy' = [copy EXCEPT ![d] = undo[d].copy]
        /\ outbox' = [outbox EXCEPT ![d] = undo[d].outbox]
        /\ undo' = [undo EXCEPT ![d] = Nothing]
        /\ UNCHANGED <<canon, attached, leftover, now, changes>>
    BY <1>2 DEF Refuse
  <2>3. WellFormed(undo[d].copy) /\ (undo[d].outbox # Nothing => WellFormed(undo[d].outbox))
    BY <1>2 DEF Refuse
  <2>4. undo[d].copy \in Copy /\ undo[d].outbox \in Copy \cup {Nothing}
    BY <2>1
  <2>5. TypeOK'
    BY <2>1, <2>2, <2>3, <2>4 DEF WellFormed, Pending
  <2>6. Stamped'
    BY <2>2 DEF Stamped
  <2> QED
    BY <2>5, <2>6
<1>3. CASE Queue(d)
  <2>1. TypeOK'
    BY <1>3 DEF Queue, WellFormed, Pending
  <2> QED
    BY <1>3, <2>1 DEF Queue, Stamped
<1>4. CASE Refresh(d)
  <2> DEFINE own == IF Pending(d) THEN outbox[d] ELSE copy[d]
             n == Read(d, own, canon)
  <2>1. own \in Copy
    BY DEF Pending
  <2>2. n \in Copy /\ WellFormed(n)
    BY <2>1, ReadType
  <2> HIDE DEF n
  <2>3. /\ copy' = [copy EXCEPT ![d] = n] /\ attached' = [attached EXCEPT ![d] = TRUE]
        /\ UNCHANGED <<canon, outbox, undo, leftover, now, changes>>
    BY <1>4 DEF Refresh, n
  <2>4. TypeOK'
    BY <2>2, <2>3 DEF WellFormed, Pending
  <2> QED
    BY <2>3, <2>4 DEF Stamped
<1>5. CASE LoseAccess(d)
  <2> DEFINE c == IF Pending(d) THEN outbox[d] ELSE copy[d]
             n == IF c.standing[Me(d)] = "absent" THEN c
                  ELSE [c EXCEPT !.standing[Me(d)] = "inactive", !.memberAt[Me(d)] = Clock(d)]
  <2>1. c \in Copy /\ WellFormed(c)
    BY DEF Pending
  <2>2. Clock(d) \in Nat /\ Me(d) \in Participant
    BY StampsAreNumbers DEF Me
  <2> HIDE DEF c
  <2>3. n \in Copy
    BY <2>1, <2>2 DEF Copy, Standing
  <2>4. n.deleted = c.deleted /\ n.expenses = c.expenses
    BY <2>1 DEF Copy
  <2>5. WellFormed(n)
    BY <2>1, <2>4 DEF WellFormed
  <2> HIDE DEF n
  <2>6. /\ copy' = [copy EXCEPT ![d] = n]
        /\ outbox' = [outbox EXCEPT ![d] = Nothing] /\ undo' = [undo EXCEPT ![d] = Nothing]
        /\ attached' = [attached EXCEPT ![d] = FALSE] /\ leftover' \subseteq Device
        /\ UNCHANGED <<canon, now, changes>>
    BY <1>5 DEF LoseAccess, Settle, n, c
  <2>7. TypeOK'
    BY <2>3, <2>5, <2>6 DEF WellFormed, Pending
  <2> QED
    BY <2>6, <2>7 DEF Stamped
<1> QED
  BY <1>1, <1>2, <1>3, <1>4, <1>5 DEF Sync
-----------------------------------------------------------------------------
(* The invariant and what follows from it. *)

LEMMA InitOK == Init => IInv
<1> SUFFICES ASSUME Init PROVE IInv
  OBVIOUS
<1> USE ReplicasAssumption
<1>1. Created \in Copy /\ WellFormed(Created)
  BY DEF Created, Copy, WellFormed, Version, NoVersion, Standing
<1>2. TypeOK
  BY <1>1 DEF Init, TypeOK, Pending
<1>3. Created.adminAt = 1 /\ Created.memberAt = [p \in Participant |-> 1]
  BY DEF Created
<1>4. Stamped
  BY <1>3 DEF Init, Stamped
<1> QED
  BY <1>2, <1>4 DEF IInv

LEMMA NextKeeps == IInv /\ [Next]_vars => IInv'
<1> SUFFICES ASSUME IInv, [Next]_vars PROVE IInv'
  OBVIOUS
<1>1. ASSUME NEW d \in Device, Act(d) PROVE IInv'
  BY <1>1, SaveExpenseKeeps, RemoveExpenseKeeps, LifecycleKeeps, RosterKeeps DEF Act
<1>2. ASSUME NEW d \in Device, Sync(d) PROVE IInv'
  BY <1>2, SyncKeeps
<1>3. CASE Tick
  BY <1>3, ReplicasAssumption
     DEF Tick, deviceVars, IInv, TypeOK, Stamped, WellFormed, Pending
<1>4. CASE UNCHANGED vars
  BY <1>4 DEF vars, deviceVars, IInv, TypeOK, Stamped, WellFormed, Pending
<1> QED
  BY <1>1, <1>2, <1>3, <1>4 DEF Next

\* The copies are well formed and the record is stamped, always.
THEOREM Invariance == Spec => []IInv
<1> QED
  BY InitOK, NextKeeps, PTL DEF Spec

\* Whatever people do on their devices, and in whatever order their copies
\* meet, every copy shown, pending or kept for undoing has the shape the
\* code relies on, and lists no expense that it records as deleted.
THEOREM TypeCorrect == Spec => []TypeOK
<1>1. IInv => TypeOK
  BY DEF IInv
<1> QED
  BY <1>1, Invariance, PTL

\* The server never has a reason to refuse a merged payload for its list of
\* administrators (mergeEventSettings against guard_shared_snapshot_update).
THEOREM AdministratorsRemain == Spec => []MergesKeepAnAdmin
<1>1. IInv => MergesKeepAnAdmin
  <2> SUFFICES ASSUME IInv, NEW d \in Device, Pending(d)
               PROVE  AdminsAccepted(Candidate(d))
    BY DEF MergesKeepAnAdmin
  <2>1. canon \in Copy /\ outbox[d] \in Copy /\ canon.adminAt >= 1
    BY CandidateOK DEF IInv, TypeOK, Stamped
  <2> QED
    BY <2>1, MergeAdmins DEF Candidate
<1> QED
  BY <1>1, Invariance, PTL

\* Only a delivery changes the record.
LEMMA RecordChanges ==
  ASSUME [Next]_vars, canon' # canon
  PROVE  \E d \in Device : Deliver(d) /\ canon' = Candidate(d)
<1>1. ASSUME NEW d \in Device, Act(d) PROVE UNCHANGED canon
  BY <1>1 DEF Act, SaveExpense, RemoveExpense, CloseEvent, ReopenEvent, LeaveEvent,
              RemoveParticipant, RestoreParticipant, SetAdmin, Change
<1>2. ASSUME NEW d \in Device, Sync(d)
      PROVE  (Deliver(d) /\ canon' = Candidate(d)) \/ UNCHANGED canon
  BY <1>2 DEF Sync, Deliver, Refuse, Queue, Refresh, LoseAccess
<1>3. Tick \/ UNCHANGED vars => UNCHANGED canon
  BY DEF Tick, vars
<1> QED
  BY <1>1, <1>2, <1>3 DEF Next

\* A deleted expense stays deleted in the record and is not listed again,
\* whichever old copies are written and merged (mergeEvent).
THEOREM DeletionsStand == Spec => DeletionStands
<1> DEFINE Stands == \A e \in canon.deleted :
                        e \in canon'.deleted /\ canon'.expenses[e] = NoVersion
<1>1. IInv /\ [Next]_vars => Stands
  <2> SUFFICES ASSUME IInv, [Next]_vars PROVE Stands
    OBVIOUS
  <2>1. CASE canon' = canon
    BY <2>1 DEF IInv, TypeOK, WellFormed
  <2>2. CASE canon' # canon
    <3>1. PICK d \in Device : Deliver(d) /\ canon' = Candidate(d)
      BY <2>2, RecordChanges
    <3>2. canon.deleted \subseteq canon'.deleted /\ WellFormed(Candidate(d))
      BY <3>1, CandidateOK DEF Deliver
    <3> QED
      BY <3>1, <3>2 DEF WellFormed
  <2> QED
    BY <2>1, <2>2
<1> QED
  BY <1>1, Invariance, PTL DEF Spec, DeletionStands

\* Whoever is taken out of the event is back in the record only by a later
\* decision (mergeEventMembership and its ties).
THEOREM RemovalsStand == Spec => RemovalStands
<1> DEFINE Stands == \A p \in Participant :
                        p \notin Active(canon) /\ p \in Active(canon')
                          => canon'.memberAt[p] > canon.memberAt[p]
<1>1. IInv /\ [Next]_vars => Stands
  <2> SUFFICES ASSUME IInv, [Next]_vars, NEW p \in Participant,
                      p \notin Active(canon), p \in Active(canon')
               PROVE  canon'.memberAt[p] > canon.memberAt[p]
    BY Zenon DEF Stands
  <2>1. canon' # canon
    BY DEF Active
  <2>2. PICK d \in Device : Deliver(d) /\ canon' = Candidate(d)
    BY <2>1, RecordChanges
  <2>3. canon \in Copy /\ outbox[d] \in Copy /\ canon.memberAt[p] >= 1
    BY <2>2, CandidateOK DEF IInv, TypeOK, Stamped, Deliver
  <2>4. p \in Active(Merge(canon, outbox[d]))
    BY <2>2 DEF Active, Candidate
  <2> QED
    BY <2>2, <2>3, <2>4, MergeRestores DEF Candidate
<1> QED
  BY <1>1, Invariance, PTL DEF Spec, RemovalStands
-----------------------------------------------------------------------------
(* When one copy follows another: nothing in it is newer, part by part.    *)

StatusBehind(c, k) ==
  \/ c.statusAt < k.statusAt
  \/ c.statusAt = k.statusAt /\ (c.closed => k.closed)

MemberBehind(c, k, p) ==
  \/ c.memberAt[p] < k.memberAt[p]
  \/ /\ c.memberAt[p] = k.memberAt[p]
     /\ Removal(c.standing[p]) <= Removal(k.standing[p])

Behind(c, k) ==
  /\ c.deleted \subseteq k.deleted /\ c.receipts \subseteq k.receipts
  /\ \A e \in Expense \ k.deleted : c.expenses[e].at <= k.expenses[e].at
  /\ StatusBehind(c, k) /\ c.adminAt <= k.adminAt

\* What two copies agree on, but for the administrators and one membership.
SameParts(c, k) ==
  /\ c.expenses = k.expenses /\ c.deleted = k.deleted /\ c.receipts = k.receipts
  /\ c.closed = k.closed /\ c.statusAt = k.statusAt /\ c.adminAt = k.adminAt

SameMember(c, k, p) == c.standing[p] = k.standing[p] /\ c.memberAt[p] = k.memberAt[p]

LEMMA CopyFields ==
  ASSUME NEW c \in Copy
  PROVE  /\ c.expenses \in [Expense -> Version] /\ c.deleted \subseteq Expense
         /\ \A e \in Expense : c.expenses[e].at \in Nat
         /\ c.closed \in BOOLEAN /\ c.statusAt \in Nat
         /\ c.standing \in [Participant -> Standing] /\ c.memberAt \in [Participant -> Nat]
         /\ c.admins \subseteq Participant /\ c.adminAt \in Nat
         /\ \A p \in Participant : c.standing[p] \in Standing /\ c.memberAt[p] \in Nat
         /\ c = [expenses |-> c.expenses, deleted |-> c.deleted, closed |-> c.closed,
                 statusAt |-> c.statusAt, standing |-> c.standing, memberAt |-> c.memberAt,
                 admins |-> c.admins, adminAt |-> c.adminAt, receipts |-> c.receipts]
<1>1. c.expenses \in [Expense -> Version] /\ \A e \in Expense : c.expenses[e].at \in Nat
  BY DEF Copy, Version
<1> QED
  BY <1>1 DEF Copy

LEMMA RemovalIsRank ==
  ASSUME NEW s \in Standing, NEW t \in Standing
  PROVE  Removal(s) \in Nat /\ (Removal(s) = Removal(t) => s = t)
<1> QED
  BY DEF Removal, Standing

LEMMA BehindItself ==
  ASSUME NEW c \in Copy, NEW k \in Copy, SameParts(c, k)
  PROVE  Behind(c, k)
<1> QED
  BY CopyFields DEF Behind, StatusBehind, SameParts

LEMMA MemberBehindItself ==
  ASSUME NEW c \in Copy, NEW k \in Copy, NEW p \in Participant, SameMember(c, k, p)
  PROVE  MemberBehind(c, k, p)
<1> QED
  BY CopyFields, RemovalIsRank DEF MemberBehind, SameMember

LEMMA BehindFurther ==
  ASSUME NEW c \in Copy, NEW k \in Copy, NEW n \in Copy, Behind(c, k), Behind(k, n)
  PROVE  Behind(c, n)
<1>1. StatusBehind(c, n) /\ c.adminAt <= n.adminAt
  BY CopyFields DEF Behind, StatusBehind
<1>2. ASSUME NEW e \in Expense \ n.deleted PROVE c.expenses[e].at <= n.expenses[e].at
  <2>1. e \in Expense \ k.deleted
    BY <1>2 DEF Behind
  <2>2. c.expenses[e].at \in Nat /\ k.expenses[e].at \in Nat /\ n.expenses[e].at \in Nat
    BY CopyFields
  <2> QED
    BY <1>2, <2>1, <2>2 DEF Behind
<1> QED
  BY <1>1, <1>2 DEF Behind

LEMMA MemberBehindFurther ==
  ASSUME NEW c \in Copy, NEW k \in Copy, NEW n \in Copy, NEW p \in Participant,
         MemberBehind(c, k, p), MemberBehind(k, n, p)
  PROVE  MemberBehind(c, n, p)
<1>1. /\ Removal(c.standing[p]) \in Nat /\ Removal(k.standing[p]) \in Nat
      /\ Removal(n.standing[p]) \in Nat
  BY CopyFields, RemovalIsRank
<1> QED
  BY <1>1, CopyFields DEF MemberBehind

\* Both copies that are merged are behind the outcome.
LEMMA MergeIsAhead ==
  ASSUME NEW remote \in Copy, NEW local \in Copy
  PROVE  Behind(remote, Merge(remote, local)) /\ Behind(local, Merge(remote, local))
<1>1. PICK m \in Copy : m = Merge(remote, local)
  BY MergeType
<1>2. /\ m.deleted = remote.deleted \cup local.deleted
      /\ m.receipts = remote.receipts \cup local.receipts
  BY <1>1 DEF Merge
<1>3. m.adminAt = (IF remote.adminAt > local.adminAt THEN remote ELSE local).adminAt
  BY <1>1 DEF Merge
<1>4. /\ m.closed = LifecycleSource(remote, local).closed
      /\ m.statusAt = LifecycleSource(remote, local).statusAt
  BY <1>1 DEF Merge
<1>5. StatusBehind(remote, m) /\ StatusBehind(local, m)
  BY <1>4, CopyFields DEF StatusBehind, LifecycleSource
<1>6. remote.adminAt <= m.adminAt /\ local.adminAt <= m.adminAt
  BY <1>3, CopyFields
<1>7. ASSUME NEW e \in Expense \ m.deleted
      PROVE  remote.expenses[e].at <= m.expenses[e].at /\ local.expenses[e].at <= m.expenses[e].at
  <2>1. m.expenses[e] = NewerExpense(remote.expenses[e], local.expenses[e])
    BY <1>1, <1>2, <1>7 DEF Merge, MergedExpenses
  <2>2. remote.expenses[e].at \in Nat /\ local.expenses[e].at \in Nat
    BY CopyFields
  <2> QED
    BY <2>1, <2>2 DEF NewerExpense
<1> QED
  BY <1>1, <1>2, <1>5, <1>6, <1>7 DEF Behind

LEMMA MergeIsAheadForMembers ==
  ASSUME NEW remote \in Copy, NEW local \in Copy, NEW p \in Participant, remote.memberAt[p] >= 1
  PROVE  /\ MemberBehind(remote, Merge(remote, local), p)
         /\ MemberBehind(local, Merge(remote, local), p)
<1> DEFINE source == MembershipSource(remote, local, p)
<1>1. PICK m \in Copy : m = Merge(remote, local)
  BY MergeType
<1>2. /\ m.standing[p] = source.standing[p]
      /\ m.memberAt[p] = Later(remote.memberAt[p], local.memberAt[p])
  BY <1>1 DEF Merge
<1>3. /\ remote.memberAt[p] \in Nat /\ local.memberAt[p] \in Nat
      /\ remote.standing[p] \in Standing /\ local.standing[p] \in Standing
  BY CopyFields
<1>4. Removal(remote.standing[p]) \in Nat /\ Removal(local.standing[p]) \in Nat
  BY <1>3, RemovalIsRank
<1>5. CASE remote.memberAt[p] < local.memberAt[p]
  <2>1. source = local
    BY <1>3, <1>5 DEF MembershipSource
  <2> QED
    BY <1>1, <1>2, <1>3, <1>4, <1>5, <2>1 DEF MemberBehind, Later
<1>6. CASE remote.memberAt[p] > local.memberAt[p]
  <2>1. source = remote
    BY <1>3, <1>6 DEF MembershipSource
  <2> QED
    BY <1>1, <1>2, <1>3, <1>4, <1>6, <2>1 DEF MemberBehind, Later
<1>7. CASE remote.memberAt[p] = local.memberAt[p]
  <2>1. source = TieSource(remote, local, p)
    BY <1>3, <1>7 DEF MembershipSource
  <2>2. /\ Removal(remote.standing[p]) <= Removal(source.standing[p])
        /\ Removal(local.standing[p]) <= Removal(source.standing[p])
    BY <1>4, <2>1 DEF TieSource
  <2> QED
    BY <1>1, <1>2, <1>3, <1>7, <2>2 DEF MemberBehind, Later
<1> QED
  BY <1>3, <1>5, <1>6, <1>7

\* Merging a copy with one it is behind gives the parts of the latter.
LEMMA MergeCatchesUp ==
  ASSUME NEW c \in Copy, NEW k \in Copy, WellFormed(k), Behind(c, k)
  PROVE  SameParts(Merge(c, k), k)
<1>1. PICK m \in Copy : m = Merge(c, k)
  BY MergeType
<1>2. m.deleted = k.deleted /\ m.receipts = k.receipts
  BY <1>1 DEF Merge, Behind
<1>3. m.adminAt = k.adminAt
  <2>1. m.adminAt = (IF c.adminAt > k.adminAt THEN c ELSE k).adminAt
    BY <1>1 DEF Merge
  <2> QED
    BY <2>1, CopyFields DEF Behind
<1>4. m.closed = k.closed /\ m.statusAt = k.statusAt
  <2>1. /\ m.closed = LifecycleSource(c, k).closed
        /\ m.statusAt = LifecycleSource(c, k).statusAt
    BY <1>1 DEF Merge
  <2> QED
    BY <2>1, CopyFields DEF Behind, StatusBehind, LifecycleSource
<1>5. m.expenses = k.expenses
  <2>1. m.expenses = [e \in Expense |-> IF e \in c.deleted \cup k.deleted THEN NoVersion
                                        ELSE NewerExpense(c.expenses[e], k.expenses[e])]
    BY <1>1 DEF Merge, MergedExpenses
  <2>2. ASSUME NEW e \in Expense PROVE m.expenses[e] = k.expenses[e]
    <3>1. CASE e \in k.deleted
      BY <2>1, <3>1 DEF WellFormed
    <3>2. CASE e \notin k.deleted
      <4>1. m.expenses[e] = NewerExpense(c.expenses[e], k.expenses[e])
        BY <2>1, <3>2 DEF Behind
      <4>2. c.expenses[e].at <= k.expenses[e].at /\ c.expenses[e].at \in Nat /\ k.expenses[e].at \in Nat
        BY <3>2, CopyFields DEF Behind
      <4> QED
        BY <4>1, <4>2 DEF NewerExpense
    <3> QED
      BY <3>1, <3>2
  <2>3. k.expenses \in [Expense -> Version] /\ m.expenses \in [Expense -> Version]
    BY CopyFields
  <2> QED
    BY <2>2, <2>3
<1> QED
  BY <1>1, <1>2, <1>3, <1>4, <1>5 DEF SameParts

LEMMA MergeCatchesUpMembers ==
  ASSUME NEW c \in Copy, NEW k \in Copy, NEW p \in Participant, k.memberAt[p] >= 1,
         MemberBehind(c, k, p)
  PROVE  SameMember(Merge(c, k), k, p)
<1> DEFINE source == MembershipSource(c, k, p)
<1>1. PICK m \in Copy : m = Merge(c, k)
  BY MergeType
<1>2. /\ m.standing[p] = source.standing[p]
      /\ m.memberAt[p] = Later(c.memberAt[p], k.memberAt[p])
  BY <1>1 DEF Merge
<1>3. /\ c.memberAt[p] \in Nat /\ k.memberAt[p] \in Nat
      /\ c.standing[p] \in Standing /\ k.standing[p] \in Standing
  BY CopyFields
<1>4. /\ Removal(c.standing[p]) \in Nat /\ Removal(k.standing[p]) \in Nat
      /\ Removal(c.standing[p]) = Removal(k.standing[p]) => c.standing[p] = k.standing[p]
  BY <1>3, RemovalIsRank
<1>5. CASE c.memberAt[p] < k.memberAt[p]
  <2>1. source = k
    BY <1>3, <1>5 DEF MembershipSource
  <2> QED
    BY <1>1, <1>2, <1>3, <1>5, <2>1 DEF SameMember, Later
<1>6. CASE c.memberAt[p] = k.memberAt[p] /\ Removal(c.standing[p]) <= Removal(k.standing[p])
  <2>1. source = TieSource(c, k, p)
    BY <1>3, <1>6 DEF MembershipSource
  <2>2. source.standing[p] = k.standing[p]
    BY <1>4, <1>6, <2>1 DEF TieSource
  <2> QED
    BY <1>1, <1>2, <1>3, <1>6, <2>2 DEF SameMember, Later
<1> QED
  BY <1>5, <1>6 DEF MemberBehind

\* ... and its administrators, if the server would accept them.
LEMMA MergeCatchesUpAdmins ==
  ASSUME NEW c \in Copy, NEW k \in Copy, c.adminAt <= k.adminAt, k.adminAt >= 1,
         AdminsAccepted(k), Active(k) # {}, Active(Merge(c, k)) = Active(k)
  PROVE  Merge(c, k).admins = k.admins
<1> DEFINE m == Merge(c, k)
           source == [p \in Participant |-> MembershipSource(c, k, p)]
           kept == {p \in Participant : m.standing[p] # "absent" /\ p \in source[p].admins}
           selected == (IF c.adminAt > k.adminAt THEN c ELSE k).admins
<1>1. c.adminAt \in Nat /\ k.adminAt \in Nat
  BY CopyFields
<1>2. m.admins = ChosenAdmins(selected, kept, c.admins \cup k.admins, Active(m))
  BY <1>1 DEF Merge, Active
<1>3. selected = k.admins
  BY <1>1
<1>4. selected # {} /\ selected \subseteq Active(m)
  BY <1>3 DEF AdminsAccepted
<1> HIDE DEF m, kept, selected
<1>5. m.admins = k.admins
  BY <1>2, <1>3, <1>4 DEF ChosenAdmins
<1> QED
  BY <1>5 DEF m
-----------------------------------------------------------------------------
(* Copies follow the record: a device with nothing to deliver shows nothing *)
(* the record does not have, and the ledger of a closing they share.  A     *)
(* device without access has marked its own membership, and only a read can *)
(* tell it better.  What a refused save goes back to follows as well.       *)

SameLedger(c, k) ==
  c.closed /\ k.closed /\ c.statusAt = k.statusAt => c.expenses = k.expenses

Follows(c, k, others) ==
  /\ Behind(c, k) /\ SameLedger(c, k)
  /\ \A p \in others : MemberBehind(c, k, p)

\* Whose membership the device has from the record.
Known(d) == {p \in Participant : attached[d] \/ p # Me(d)}

DeviceFollows(d) ==
  d \notin leftover =>
    /\ ~Pending(d) => Follows(copy[d], canon, Known(d))
    /\ undo[d] # Nothing =>
         (undo[d].outbox = Nothing => Follows(undo[d].copy, canon, Known(d)))

CopiesFollow == AdminsAccepted(canon) /\ \A d \in Device : DeviceFollows(d)

LEMMA FollowsItself ==
  ASSUME NEW c \in Copy, NEW k \in Copy, SameParts(c, k), NEW S \in SUBSET Participant,
         \A p \in S : SameMember(c, k, p)
  PROVE  Follows(c, k, S)
<1> QED
  BY BehindItself, MemberBehindItself DEF Follows, SameLedger, SameParts

\* An accepted write leaves the ledger of a closed event alone, so whoever
\* followed the record before it still does.
LEMMA FollowsFurther ==
  ASSUME NEW c \in Copy, NEW k \in Copy, NEW n \in Copy, NEW S \in SUBSET Participant,
         Follows(c, k, S), Behind(k, n), \A p \in S : MemberBehind(k, n, p), LedgerAccepted(k, n)
  PROVE  Follows(c, n, S)
<1>1. Behind(c, n)
  BY BehindFurther DEF Follows
<1>2. \A p \in S : MemberBehind(c, n, p)
  BY MemberBehindFurther DEF Follows
<1>3. SameLedger(c, n)
  <2> SUFFICES ASSUME c.closed, n.closed, c.statusAt = n.statusAt
               PROVE  c.expenses = n.expenses
    BY DEF SameLedger
  <2>1. StatusBehind(c, k) /\ StatusBehind(k, n)
    BY DEF Follows, Behind
  <2>2. c.statusAt = k.statusAt /\ k.closed
    BY <2>1, CopyFields DEF StatusBehind
  <2>3. c.expenses = k.expenses /\ n.expenses = k.expenses
    BY <2>2 DEF Follows, SameLedger, LedgerAccepted
  <2> QED
    BY <2>3
<1> QED
  BY <1>1, <1>2, <1>3 DEF Follows

\* Reading the row into a copy that is behind it gives the row's parts and
\* members, the reader's own included if the row has the reader.
LEMMA ReadCatchesUp ==
  ASSUME NEW d \in Device, NEW c \in Copy, NEW k \in Copy, WellFormed(k), Behind(c, k),
         \A p \in Participant : k.memberAt[p] >= 1,
         \A p \in Participant : MemberBehind(c, k, p) \/ (p = Me(d) /\ p \in Active(k))
  PROVE  /\ SameParts(Read(d, c, k), k)
         /\ \A p \in Participant : SameMember(Read(d, c, k), k, p)
         /\ Read(d, c, k).admins = Merge(c, k).admins
<1>1. PICK m \in Copy : m = Merge(c, k)
  BY MergeType
<1>2. Me(d) \in Participant
  BY ReplicasAssumption DEF Me
<1>3. SameParts(m, k)
  BY <1>1, MergeCatchesUp
<1>4. \A p \in Participant : MemberBehind(c, k, p) => SameMember(m, k, p)
  BY <1>1, MergeCatchesUpMembers
<1>5. CASE Me(d) \notin Active(k)
  <2>1. Read(d, c, k) = m
    BY <1>1, <1>5 DEF Read
  <2> QED
    BY <1>1, <1>3, <1>4, <1>5, <2>1
<1>6. CASE Me(d) \in Active(k)
  <2>1. PICK n : n = Read(d, c, k)
    OBVIOUS
  <2>2. n = [m EXCEPT !.standing[Me(d)] = "active", !.memberAt[Me(d)] = k.memberAt[Me(d)]]
    BY <1>1, <1>6, <2>1 DEF Read
  <2>3. SameParts(n, k) /\ n.admins = m.admins
    BY <1>3, <2>2 DEF SameParts, Copy
  <2>4. /\ n.standing = [m.standing EXCEPT ![Me(d)] = "active"]
        /\ n.memberAt = [m.memberAt EXCEPT ![Me(d)] = k.memberAt[Me(d)]]
    BY <2>2 DEF Copy
  <2>5. m.standing \in [Participant -> Standing] /\ m.memberAt \in [Participant -> Nat]
    BY CopyFields
  <2>6. ASSUME NEW p \in Participant PROVE SameMember(n, k, p)
    <3>1. CASE p = Me(d)
      BY <1>6, <2>4, <2>5, <3>1 DEF SameMember, Active
    <3>2. CASE p # Me(d)
      BY <1>4, <2>4, <2>5, <3>2 DEF SameMember
    <3> QED
      BY <3>1, <3>2
  <2> QED
    BY <1>1, <2>1, <2>3, <2>6
<1> QED
  BY <1>5, <1>6
-----------------------------------------------------------------------------
(* Every step keeps the copies following. *)

\* A step in which nothing of a device changes, nor of the record.
LEMMA SameDeviceFollows ==
  ASSUME NEW d \in Device, DeviceFollows(d), canon' = canon, copy'[d] = copy[d],
         outbox'[d] = outbox[d], undo'[d] = undo[d] \/ undo'[d] = Nothing,
         attached'[d] = attached[d], (d \in leftover') = (d \in leftover)
  PROVE  DeviceFollows(d)'
<1> QED
  BY DEF DeviceFollows, Known, Pending

LEMMA ChangeFollows ==
  ASSUME IInv, CopiesFollow, NEW d \in Device, NEW c \in Copy, Change(d, c)
  PROVE  CopiesFollow'
<1> USE ReplicasAssumption DEF IInv, TypeOK
<1>1. /\ copy' = [copy EXCEPT ![d] = c] /\ outbox' = [outbox EXCEPT ![d] = c]
      /\ undo' = [undo EXCEPT ![d] = [copy |-> copy[d], outbox |-> outbox[d]]]
      /\ UNCHANGED <<canon, attached, leftover>>
  BY DEF Change
<1>2. ASSUME NEW x \in Device PROVE DeviceFollows(x)'
  <2>1. CASE x = d
    <3>1. outbox'[x] # Nothing
      BY <1>1, <2>1
    <3>2. undo'[x].copy = copy[x] /\ undo'[x].outbox = outbox[x]
      BY <1>1, <2>1
    <3>3. Known(x)' = Known(x) /\ canon' = canon /\ leftover' = leftover /\ DeviceFollows(x)
      BY <1>1 DEF Known, CopiesFollow
    <3> QED
      BY <3>1, <3>2, <3>3 DEF DeviceFollows, Pending
  <2>2. CASE x # d
    BY <1>1, <2>2, SameDeviceFollows DEF CopiesFollow
  <2> QED
    BY <2>1, <2>2
<1> QED
  BY <1>1, <1>2 DEF CopiesFollow, AdminsAccepted, Active

LEMMA DeliverFollows ==
  ASSUME IInv, CopiesFollow, NEW d \in Device, Deliver(d)
  PROVE  CopiesFollow'
<1> USE ReplicasAssumption DEF IInv, TypeOK
<1>1. PICK k \in Copy : k = Candidate(d)
  BY CandidateOK DEF Deliver
<1>2. /\ outbox[d] \in Copy /\ canon \in Copy /\ WellFormed(k)
      /\ \A p \in Participant : k.memberAt[p] >= 1
  BY <1>1, CandidateOK DEF Deliver
<1>3. Behind(canon, k) /\ Behind(outbox[d], k)
  BY <1>1, <1>2, MergeIsAhead DEF Candidate
<1>4. \A p \in Participant : MemberBehind(canon, k, p) /\ MemberBehind(outbox[d], k, p)
  BY <1>1, <1>2, MergeIsAheadForMembers DEF Candidate, Stamped
<1>5. PICK n \in Copy : n = Read(d, outbox[d], k)
  BY <1>2, ReadType
<1>6. SameParts(n, k) /\ \A p \in Participant : SameMember(n, k, p)
  BY <1>2, <1>3, <1>4, <1>5, ReadCatchesUp
<1>7. /\ canon' = k /\ copy' = [copy EXCEPT ![d] = n]
      /\ outbox' = [outbox EXCEPT ![d] = Nothing] /\ undo' = [undo EXCEPT ![d] = Nothing]
      /\ leftover' = leftover \ {d} /\ attached' = attached
      /\ LedgerAccepted(canon, k) /\ AdminsAccepted(k)
  BY <1>1, <1>5 DEF Deliver, Settle, Accepted
<1>8. \A x \in Device : Known(x)' = Known(x) /\ Known(x) \in SUBSET Participant
  BY <1>7 DEF Known
<1>9. ASSUME NEW x \in Device PROVE DeviceFollows(x)'
  <2>1. CASE x = d
    <3>1. copy'[x] = n /\ undo'[x] = Nothing
      BY <1>7, <2>1
    <3>2. Follows(n, k, Known(x))
      BY <1>6, <1>8, FollowsItself
    <3> QED
      BY <1>7, <1>8, <3>1, <3>2 DEF DeviceFollows
  <2>2. CASE x # d
    <3>1. /\ copy'[x] = copy[x] /\ outbox'[x] = outbox[x] /\ undo'[x] = undo[x]
          /\ (x \in leftover') = (x \in leftover)
      BY <1>7, <2>2
    <3>2. \A c \in Copy : Follows(c, canon, Known(x)) => Follows(c, k, Known(x))
      BY <1>2, <1>3, <1>4, <1>7, <1>8, FollowsFurther
    <3>3. copy[x] \in Copy /\ (undo[x] # Nothing => undo[x].copy \in Copy)
      OBVIOUS
    <3> QED
      BY <1>7, <1>8, <3>1, <3>2, <3>3 DEF CopiesFollow, DeviceFollows, Pending
  <2> QED
    BY <2>1, <2>2
<1>10. AdminsAccepted(canon')
  BY <1>7
<1> QED
  BY <1>9, <1>10 DEF CopiesFollow, AdminsAccepted, Active

LEMMA RefuseFollows ==
  ASSUME IInv, CopiesFollow, NEW d \in Device, Refuse(d)
  PROVE  CopiesFollow'
<1> USE ReplicasAssumption DEF IInv, TypeOK
<1>1. /\ copy' = [copy EXCEPT ![d] = undo[d].copy]
      /\ outbox' = [outbox EXCEPT ![d] = undo[d].outbox]
      /\ undo' = [undo EXCEPT ![d] = Nothing] /\ undo[d] # Nothing
      /\ UNCHANGED <<canon, attached, leftover>>
  BY DEF Refuse
<1>2. ASSUME NEW x \in Device PROVE DeviceFollows(x)'
  <2>1. CASE x = d
    <3>1. copy'[x] = undo[x].copy /\ outbox'[x] = undo[x].outbox /\ undo'[x] = Nothing
      BY <1>1, <2>1
    <3>2. Known(x)' = Known(x) /\ canon' = canon /\ leftover' = leftover /\ DeviceFollows(x)
      BY <1>1 DEF Known, CopiesFollow
    <3> QED
      BY <1>1, <2>1, <3>1, <3>2 DEF DeviceFollows, Pending
  <2>2. CASE x # d
    BY <1>1, <2>2, SameDeviceFollows DEF CopiesFollow
  <2> QED
    BY <2>1, <2>2
<1> QED
  BY <1>1, <1>2 DEF CopiesFollow, AdminsAccepted, Active

LEMMA RefreshFollows ==
  ASSUME IInv, CopiesFollow, NEW d \in Device, Refresh(d)
  PROVE  CopiesFollow'
<1> USE ReplicasAssumption DEF IInv, TypeOK
<1>1. /\ Me(d) \in Active(canon) /\ undo[d] = Nothing
      /\ attached' = [attached EXCEPT ![d] = TRUE] /\ UNCHANGED <<canon, outbox, undo, leftover>>
      /\ copy' = [copy EXCEPT ![d] = Read(d, IF Pending(d) THEN outbox[d] ELSE copy[d], canon)]
  BY DEF Refresh
<1>2. ASSUME NEW x \in Device PROVE DeviceFollows(x)'
  <2>1. CASE x = d /\ ~Pending(x) /\ x \notin leftover
    <3>1. Follows(copy[x], canon, Known(x))
      BY <2>1 DEF CopiesFollow, DeviceFollows
    <3>2. PICK n \in Copy : n = Read(x, copy[x], canon)
      BY ReadType
    <3>3. SameParts(n, canon) /\ \A p \in Participant : SameMember(n, canon, p)
      BY <1>1, <2>1, <3>1, <3>2, ReadCatchesUp DEF Follows, Known, Stamped
    <3>4. copy'[x] = n /\ undo'[x] = Nothing /\ canon' = canon
      BY <1>1, <2>1, <3>2
    <3>5. Known(x)' \in SUBSET Participant
      BY DEF Known
    <3>6. Follows(n, canon, Known(x)')
      BY <3>3, <3>5, FollowsItself
    <3> QED
      BY <3>4, <3>6 DEF DeviceFollows
  <2>2. CASE x = d /\ (Pending(x) \/ x \in leftover)
    BY <1>1, <2>2 DEF DeviceFollows, Pending
  <2>3. CASE x # d
    BY <1>1, <2>3, SameDeviceFollows DEF CopiesFollow
  <2> QED
    BY <2>1, <2>2, <2>3
<1> QED
  BY <1>1, <1>2 DEF CopiesFollow, AdminsAccepted, Active

LEMMA LoseAccessFollows ==
  ASSUME IInv, CopiesFollow, NEW d \in Device, LoseAccess(d)
  PROVE  CopiesFollow'
<1> USE ReplicasAssumption DEF IInv, TypeOK
<1> DEFINE c == IF Pending(d) THEN outbox[d] ELSE copy[d]
<1>1. PICK n : n = IF c.standing[Me(d)] = "absent" THEN c
                   ELSE [c EXCEPT !.standing[Me(d)] = "inactive", !.memberAt[Me(d)] = Clock(d)]
  OBVIOUS
<1>2. /\ copy' = [copy EXCEPT ![d] = n] /\ outbox' = [outbox EXCEPT ![d] = Nothing]
      /\ undo' = [undo EXCEPT ![d] = Nothing] /\ attached' = [attached EXCEPT ![d] = FALSE]
      /\ leftover' = (IF Pending(d) THEN leftover \cup {d} ELSE leftover) /\ canon' = canon
  BY <1>1 DEF LoseAccess, Settle
<1>3. ASSUME NEW x \in Device PROVE DeviceFollows(x)'
  <2>1. CASE x = d /\ ~Pending(x) /\ x \notin leftover
    <3>1. Follows(copy[x], canon, Known(x)) /\ c = copy[x] /\ c \in Copy
      BY <2>1 DEF CopiesFollow, DeviceFollows
    <3>2. SameParts(n, c)
      BY <1>1, <3>1 DEF SameParts, Copy
    <3>3. \A p \in Participant \ {Me(x)} : SameMember(n, c, p)
      BY <1>1, <2>1, <3>1 DEF SameMember, Copy
    <3>4. Known(x)' = Participant \ {Me(x)} /\ Participant \ {Me(x)} \subseteq Known(x)
      BY <1>2, <2>1 DEF Known, Me
    <3>5. Behind(n, canon) /\ SameLedger(n, canon)
      BY <3>1, <3>2 DEF Follows, Behind, SameLedger, SameParts, StatusBehind
    <3>6. \A p \in Participant \ {Me(x)} : MemberBehind(n, canon, p)
      BY <3>1, <3>3, <3>4 DEF Follows, MemberBehind, SameMember
    <3> QED
      BY <1>2, <2>1, <3>4, <3>5, <3>6 DEF DeviceFollows, Follows
  <2>2. CASE x = d /\ (Pending(x) \/ x \in leftover)
    BY <1>2, <2>2 DEF DeviceFollows
  <2>3. CASE x # d
    <3>1. /\ copy'[x] = copy[x] /\ outbox'[x] = outbox[x] /\ undo'[x] = undo[x]
          /\ attached'[x] = attached[x] /\ (x \in leftover') = (x \in leftover)
      BY <1>2, <2>3
    <3> QED
      BY <1>2, <3>1, SameDeviceFollows DEF CopiesFollow
  <2> QED
    BY <2>1, <2>2, <2>3
<1> QED
  BY <1>2, <1>3 DEF CopiesFollow, AdminsAccepted, Active

LEMMA InitFollows == Init => CopiesFollow
<1> SUFFICES ASSUME Init PROVE CopiesFollow
  OBVIOUS
<1>1. Created \in Copy
  BY InitOK DEF Init, IInv, TypeOK
<1>2. SameParts(Created, Created) /\ \A p \in Participant : SameMember(Created, Created, p)
  BY DEF SameParts, SameMember
<1>3. ASSUME NEW d \in Device PROVE DeviceFollows(d)
  <2>1. Known(d) \in SUBSET Participant
    BY DEF Known
  <2>2. Follows(Created, Created, Known(d))
    BY <1>1, <1>2, <2>1, FollowsItself
  <2> QED
    BY <2>2 DEF Init, DeviceFollows
<1>4. AdminsAccepted(Created)
  BY ReplicasAssumption DEF Created, AdminsAccepted, Active
<1> QED
  BY <1>3, <1>4 DEF CopiesFollow, Init

LEMMA NextFollows == IInv /\ CopiesFollow /\ [Next]_vars => CopiesFollow'
<1> SUFFICES ASSUME IInv, CopiesFollow, [Next]_vars PROVE CopiesFollow'
  OBVIOUS
<1>1. ASSUME NEW d \in Device, Act(d) PROVE \E c : Change(d, c)
  BY <1>1 DEF Act, SaveExpense, RemoveExpense, CloseEvent, ReopenEvent, LeaveEvent,
              RemoveParticipant, RestoreParticipant, SetAdmin
<1>2. ASSUME NEW d \in Device, Act(d) PROVE CopiesFollow'
  <2>1. PICK c : Change(d, c)
    BY <1>1, <1>2
  <2>2. copy'[d] = c /\ copy' \in [Device -> Copy]
    BY <2>1, NextKeeps DEF Change, IInv, TypeOK
  <2> QED
    BY <2>1, <2>2, ChangeFollows
<1>3. ASSUME NEW d \in Device, Sync(d) PROVE CopiesFollow'
  <2>1. CASE Queue(d)
    BY <2>1, SameDeviceFollows DEF Queue, CopiesFollow, IInv, TypeOK, AdminsAccepted, Active
  <2> QED
    BY <1>3, <2>1, DeliverFollows, RefuseFollows, RefreshFollows, LoseAccessFollows DEF Sync
<1>4. CASE Tick \/ UNCHANGED vars
  <2>1. UNCHANGED <<canon, deviceVars>>
    BY <1>4 DEF Tick, vars
  <2> QED
    BY <2>1, SameDeviceFollows DEF deviceVars, CopiesFollow, AdminsAccepted, Active
<1> QED
  BY <1>2, <1>3, <1>4 DEF Next

LEMMA CopiesAlwaysFollow == Spec => [](IInv /\ CopiesFollow)
<1> QED
  BY InitOK, NextKeeps, InitFollows, NextFollows, PTL DEF Spec

\* Everybody whose changes are delivered and who shows the closing the record
\* holds shows its expenses: merging, refusals, undone saves and lost access
\* never leave a phone settling other debts (mergeEventLifecycle against
\* prevent_locked_event_expense_updates).
THEOREM SameClosingSameLedgerHolds == Spec => []SameClosingSameLedger
<1>1. IInv /\ CopiesFollow => SameClosingSameLedger
  BY DEF CopiesFollow, DeviceFollows, Follows, SameLedger, SameClosingSameLedger
<1> QED
  BY <1>1, CopiesAlwaysFollow, PTL

\* A phone with nothing left to deliver shows exactly the record after its
\* next read, though mergeSharedStates is not symmetric.
THEOREM QuietCopiesConvergeHolds == Spec => []QuietCopiesConverge
<1>1. IInv /\ CopiesFollow => QuietCopiesConverge
  <2> SUFFICES ASSUME IInv, CopiesFollow, NEW d \in Device, attached[d], ~Pending(d),
                      d \notin leftover, Me(d) \in Active(canon)
               PROVE  Read(d, copy[d], canon) = canon
    BY DEF QuietCopiesConverge
  <2>1. /\ canon \in Copy /\ copy[d] \in Copy /\ WellFormed(canon) /\ canon.adminAt >= 1
        /\ \A p \in Participant : canon.memberAt[p] >= 1
    BY DEF IInv, TypeOK, Stamped
  <2>2. Follows(copy[d], canon, Known(d)) /\ AdminsAccepted(canon)
    BY DEF CopiesFollow, DeviceFollows
  <2>3. /\ Behind(copy[d], canon)
        /\ \A p \in Participant : MemberBehind(copy[d], canon, p)
    BY <2>2 DEF Follows, Known
  <2>4. PICK n \in Copy : n = Read(d, copy[d], canon)
    BY <2>1, ReadType
  <2>5. /\ SameParts(n, canon) /\ \A p \in Participant : SameMember(n, canon, p)
        /\ n.admins = Merge(copy[d], canon).admins
    BY <2>1, <2>3, <2>4, ReadCatchesUp
  <2>6. Active(Merge(copy[d], canon)) = Active(canon)
    BY <2>1, <2>3, MergeCatchesUpMembers DEF Active, SameMember
  <2>7. n.admins = canon.admins
    BY <2>1, <2>2, <2>3, <2>5, <2>6, MergeCatchesUpAdmins DEF Behind
  <2>8. n.standing = canon.standing /\ n.memberAt = canon.memberAt
    <3>1. /\ n.standing \in [Participant -> Standing] /\ n.memberAt \in [Participant -> Nat]
          /\ canon.standing \in [Participant -> Standing] /\ canon.memberAt \in [Participant -> Nat]
      BY <2>1, CopyFields
    <3> QED
      BY <2>5, <3>1 DEF SameMember
  <2>9. n = canon
    BY <2>1, <2>5, <2>7, <2>8, CopyFields DEF SameParts
  <2> QED
    BY <2>4, <2>9
<1> QED
  BY <1>1, CopiesAlwaysFollow, PTL
=============================================================================
