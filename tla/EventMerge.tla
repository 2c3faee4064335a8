------------------------------ MODULE EventMerge ------------------------------
(***************************************************************************)
(* mergeSharedStates for one event (domain/sharedStateMerge.mjs): how two  *)
(* copies of an event become one.  A copy carries its expenses, the        *)
(* deleted expense ids, whether it is closed, everyone's standing, the     *)
(* administrators and the receipts of its closings; each part has its own  *)
(* time stamp, taken from the clock of the device that changed it, and 0   *)
(* is a missing stamp (-infinity in the code).                             *)
(*                                                                         *)
(* Merge(remote, local) is not symmetric: most ties go to local.  A write  *)
(* merges the row as remote with the device's copy as local; a read merges *)
(* the device's copy as remote with the row as local.                      *)
(***************************************************************************)
EXTENDS Naturals, FiniteSets

CONSTANTS
  Participant,     \* the people of the event
  Rank,            \* their order in the roster
  Expense,         \* expense identifiers
  Writer           \* who can be the author of an expense's content

ASSUME RankAssumption ==
  /\ Rank \in [Participant -> Nat]
  /\ \A p, q \in Participant : Rank[p] = Rank[q] => p = q

\* An expense's content is told apart by its author and updatedAt.
NoVersion == [at |-> 0, by |-> "nobody"]
Version == [at : Nat, by : Writer \cup {"nobody"}]

Standing == {"absent", "inactive", "active"}

\* An activity entry of kind "event-closed".
Receipt == [by : Writer, at : Nat]

Copy == [expenses : [Expense -> Version],       \* NoVersion: not listed
         deleted  : SUBSET Expense,             \* deletedExpenses
         closed   : BOOLEAN, statusAt : Nat,    \* locked, statusUpdatedAt
         standing : [Participant -> Standing],
         memberAt : [Participant -> Nat],       \* membershipUpdatedAtByParticipant
         admins   : SUBSET Participant, adminAt : Nat,
         receipts : SUBSET Receipt]

Active(c) == {p \in Participant : c.standing[p] = "active"}

\* The first of a roster.
First(S) == {p \in S : \A q \in S : Rank[p] <= Rank[q]}
-----------------------------------------------------------------------------
\* chooseNewerExpense, mergeEntities: the newer content, the only one if the
\* other copy does not list the expense.
NewerExpense(r, l) == IF r.at > l.at THEN r ELSE l

\* Mutant: the tombstones are united but not applied.
KeepDeletedExpenses(remote, local) ==
  [e \in Expense |-> NewerExpense(remote.expenses[e], local.expenses[e])]

\* mergeEvent: an expense either copy has deleted is listed by neither.
MergedExpenses(remote, local) ==
  [e \in Expense |-> IF e \in remote.deleted \cup local.deleted THEN NoVersion
                     ELSE NewerExpense(remote.expenses[e], local.expenses[e])]

\* mergeEventLifecycle: the newer status; the closed one on a tie.
LifecycleSource(remote, local) ==
  IF remote.statusAt = local.statusAt
  THEN IF remote.closed THEN remote ELSE local
  ELSE IF remote.statusAt > local.statusAt THEN remote ELSE local
-----------------------------------------------------------------------------
Removal(standing) == CASE standing = "absent" -> 3 [] standing = "inactive" -> 2
                       [] standing = "active" -> 1

\* chooseUntimestampedMembershipSource: with no stamp at all, absence may be
\* an older copy that never saw the member.
MostPresent(remote, local, p) ==
  IF remote.standing[p] # local.standing[p]
  THEN IF Removal(remote.standing[p]) < Removal(local.standing[p]) THEN remote ELSE local
  ELSE IF p \in local.admins \ remote.admins THEN local ELSE remote

\* Mutant: a tie brings the member back.
TieRestores(remote, local, p) == MostPresent(remote, local, p)

\* chooseMembershipTieSource: equal stamps are a true conflict, and the
\* removal (or the demotion) wins.
TieSource(remote, local, p) ==
  IF remote.standing[p] # local.standing[p]
  THEN IF Removal(remote.standing[p]) >= Removal(local.standing[p]) THEN remote ELSE local
  ELSE IF p \in remote.admins \ local.admins THEN local ELSE remote

\* mergeEventMembership decides every participant on its own stamp.
MembershipSource(remote, local, p) ==
  CASE remote.memberAt[p] = 0 /\ local.memberAt[p] = 0 -> MostPresent(remote, local, p)
    [] remote.memberAt[p] = local.memberAt[p] /\ local.memberAt[p] # 0 -> TieSource(remote, local, p)
    [] remote.memberAt[p] > local.memberAt[p] -> remote
    [] remote.memberAt[p] < local.memberAt[p] -> local
-----------------------------------------------------------------------------
\* Mutant: the newest list of administrators, whoever is still active.
NewestAdmins(selected, membership, either, active) == selected

\* mergeEventSettings: the newest list of administrators if all of them are
\* still active; otherwise the administrators the membership merge kept, then
\* any of either copy, then the first active participant.
ChosenAdmins(selected, membership, either, active) ==
  IF selected # {} /\ selected \subseteq active THEN selected
  ELSE IF membership \cap active # {} THEN membership \cap active
  ELSE IF either \cap active # {} THEN either \cap active
  ELSE First(active)

Later(m, n) == IF m > n THEN m ELSE n

Merge(remote, local) ==
  LET lifecycle == LifecycleSource(remote, local)
      source == [p \in Participant |-> MembershipSource(remote, local, p)]
      standing == [p \in Participant |-> source[p].standing[p]]
      active == {p \in Participant : standing[p] = "active"}
      kept == {p \in Participant : standing[p] # "absent" /\ p \in source[p].admins}
      adminSource == IF remote.adminAt > local.adminAt THEN remote ELSE local
  IN [expenses |-> MergedExpenses(remote, local),
      deleted  |-> remote.deleted \cup local.deleted,
      closed   |-> lifecycle.closed, statusAt |-> lifecycle.statusAt,
      standing |-> standing,
      memberAt |-> [p \in Participant |-> Later(remote.memberAt[p], local.memberAt[p])],
      admins   |-> IF remote.adminAt = 0 /\ local.adminAt = 0 THEN kept
                   ELSE ChosenAdmins(adminSource.admins, kept,
                                     remote.admins \cup local.admins, active),
      adminAt  |-> adminSource.adminAt,
      receipts |-> remote.receipts \cup local.receipts]
=============================================================================
