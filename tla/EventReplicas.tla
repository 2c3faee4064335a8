---------------------------- MODULE EventReplicas ----------------------------
(***************************************************************************)
(* The copies of one shared event on several phones and the canonical row  *)
(* they meet in: what the actions of domain/appActions.mjs and app.mjs do  *)
(* to a copy, what a write sends (the row merged with the outbox), which   *)
(* of those writes the guards of supabase/schema.sql let through, and what *)
(* a read brings back.  SharedEventSave shows how one write gets through   *)
(* concurrent ones; here a write and a read are single steps.              *)
(*                                                                         *)
(* A device has the state it shows, copy, and the payload it still has to  *)
(* deliver, outbox.  The save that follows an action runs in the           *)
(* foreground and is undone if the server refuses it; once the connection  *)
(* failed, the retry worker owns the outbox and never undoes anything.     *)
(***************************************************************************)
EXTENDS EventMerge

CONSTANTS
  PersonOf,        \* the participant signed in on each device
  Maker,           \* the device on which each expense is first entered
  Creator,         \* the participant who created the event
  FirstAdmin,      \* its administrators to begin with
  Skew,            \* how far each device's clock is ahead
  Tolerance,       \* how far ahead the server accepts a stamp (5 minutes)
  Nothing,         \* an empty outbox, nothing to undo
  MaxTime,         \* bound: the clock
  MaxChanges       \* bound: changes made on the devices

Device == Writer

ASSUME ReplicasAssumption ==
  /\ PersonOf \in [Device -> Participant]
  /\ Maker \in [Expense -> Device]
  /\ Creator \in Participant
  /\ FirstAdmin \subseteq Participant /\ FirstAdmin # {}
  /\ Skew \in [Device -> Nat] /\ Tolerance \in Nat
  /\ MaxTime \in Nat \ {0} /\ MaxChanges \in Nat
  /\ Nothing \notin Copy \cup [copy : Copy, outbox : Copy \cup {Nothing}]

VARIABLES
  canon,           \* the event in the shared row
  copy,            \* the event as each device shows it
  outbox,          \* the payload each device still has to deliver
  undo,            \* what a refused foreground save goes back to
  attached,        \* whether the device holds the event's credentials
  leftover,        \* devices that lost their access with changes not sent
  now,             \* the true time
  changes          \* bound

deviceVars == <<copy, outbox, undo, attached, leftover>>
vars == <<canon, deviceVars, now, changes>>

Me(d) == PersonOf[d]
Clock(d) == now + Skew[d]
Pending(d) == outbox[d] # Nothing
-----------------------------------------------------------------------------
Created == [expenses |-> [e \in Expense |-> NoVersion], deleted |-> {},
            closed |-> FALSE, statusAt |-> 0,
            standing |-> [p \in Participant |-> "active"],
            memberAt |-> [p \in Participant |-> 1],
            admins |-> FirstAdmin, adminAt |-> 1, receipts |-> {}]

Init ==
  /\ canon = Created
  /\ copy = [d \in Device |-> Created]
  /\ outbox = [d \in Device |-> Nothing]
  /\ undo = [d \in Device |-> Nothing]
  /\ attached = [d \in Device |-> TRUE]
  /\ leftover = {}
  /\ now = 1 /\ changes = 0
-----------------------------------------------------------------------------
(* The person using device d changes the event shown to c.  saveSharedState *)
(* writes the whole new state to the outbox before it shows it.             *)

CanEdit(d) == attached[d] /\ Me(d) \in Active(copy[d]) /\ ~copy[d].closed
CanManage(d) == attached[d] /\ Me(d) \in Active(copy[d]) \cap copy[d].admins

Change(d, c) ==
  /\ changes < MaxChanges /\ changes' = changes + 1
  /\ copy' = [copy EXCEPT ![d] = c]
  /\ outbox' = [outbox EXCEPT ![d] = c]
  /\ undo' = [undo EXCEPT ![d] = [copy |-> copy[d], outbox |-> outbox[d]]]
  /\ UNCHANGED <<canon, attached, leftover, now>>

\* A new or edited expense; its stamp is later than the one it replaces.
SaveExpense(d, e) ==
  /\ CanEdit(d)
  /\ e \notin copy[d].deleted
  /\ copy[d].expenses[e] = NoVersion => Maker[e] = d
  /\ Change(d, [copy[d] EXCEPT !.expenses[e] =
                  [at |-> Later(Clock(d), copy[d].expenses[e].at + 1), by |-> d]])

RemoveExpense(d, e) ==
  /\ CanEdit(d)
  /\ copy[d].expenses[e] # NoVersion
  /\ Change(d, [copy[d] EXCEPT !.expenses[e] = NoVersion, !.deleted = @ \cup {e}])

\* closeCurrentEventNow: the status and a receipt with the same stamp.
CloseEvent(d) ==
  /\ CanManage(d) /\ ~copy[d].closed
  /\ Change(d, [copy[d] EXCEPT !.closed = TRUE, !.statusAt = Clock(d),
                               !.receipts = @ \cup {[by |-> d, at |-> Clock(d)]}])

ReopenEvent(d) ==
  /\ CanManage(d) /\ copy[d].closed
  /\ Change(d, [copy[d] EXCEPT !.closed = FALSE, !.statusAt = Clock(d)])

\* deactivateEventParticipant: p stays listed as inactive or, without a money
\* history, disappears; the event does not lose its last administrator.
Deactivated(c, p, t) ==
  {LET standing == [c.standing EXCEPT ![p] = former]
       active == Active(c) \ {p}
       admins == IF c.admins \cap active # {} THEN c.admins \cap active
                 ELSE IF Creator \in active THEN {Creator} ELSE First(active)
   IN [c EXCEPT !.standing = standing, !.memberAt[p] = t, !.admins = admins,
                !.adminAt = IF admins = c.admins THEN @ ELSE t]
   : former \in IF p = Creator THEN {"inactive"} ELSE {"inactive", "absent"}}

\* leaveEvent, for which canLeaveEvent wants another administrator.
LeaveEvent(d) ==
  /\ attached[d] /\ Me(d) \in Active(copy[d])
  /\ Me(d) \in copy[d].admins => copy[d].admins # {Me(d)}
  /\ \E c \in Deactivated(copy[d], Me(d), Clock(d)) : Change(d, c)

RemoveParticipant(d, p) ==
  /\ CanManage(d)
  /\ p \in Active(copy[d]) \ {Me(d)}
  /\ \E c \in Deactivated(copy[d], p, Clock(d)) : Change(d, c)

RestoreParticipant(d, p) ==
  /\ CanManage(d)
  /\ copy[d].standing[p] = "inactive"
  /\ Change(d, [copy[d] EXCEPT !.standing[p] = "active", !.memberAt[p] = Clock(d)])

\* setEventParticipantAdmin: an active participant gains or loses the role,
\* and someone keeps it.
SetAdmin(d, p) ==
  /\ CanManage(d)
  /\ p \in Active(copy[d])
  /\ LET effective == copy[d].admins \cap Active(copy[d])
         admins == IF p \in effective THEN effective \ {p} ELSE effective \cup {p}
     IN admins # {} /\ Change(d, [copy[d] EXCEPT !.admins = admins, !.adminAt = Clock(d)])
-----------------------------------------------------------------------------
(* The server's guards on replacing the row's event old by new, written by *)
(* participant p.                                                          *)

StampsAccepted(old, new) ==
  LET ok(before, after) == after # before => after <= now + Tolerance
  IN /\ ok(old.statusAt, new.statusAt) /\ ok(old.adminAt, new.adminAt)
     /\ \A p \in Participant : ok(old.memberAt[p], new.memberAt[p])

\* Mutant: a closed event's expenses can be changed.
LedgerStaysOpen(old, new) == TRUE

\* prevent_locked_event_expense_updates
LedgerAccepted(old, new) ==
  old.closed => new.expenses = old.expenses /\ new.deleted = old.deleted

\* guard_closed_shared_event_integrity: a closing's receipt comes with an
\* administrator's write that closes the event.
ReceiptsAccepted(p, old, new) ==
  LET added == new.receipts \ old.receipts IN
  added # {} => /\ Cardinality(added) = 1 /\ ~old.closed /\ new.closed
                /\ p \in old.admins
                /\ \A r \in added : PersonOf[r.by] = p /\ r.at = new.statusAt

\* guard_shared_snapshot_update: what anyone and what a member may write.
AdminsAccepted(new) == /\ new.admins \subseteq Active(new)
                       /\ Active(new) # {} => new.admins # {}

Leaving(p, old, new) == /\ p \in Active(old) /\ Active(new) = Active(old) \ {p}
                        /\ new.admins # {}
                        /\ new.admins \in {old.admins, old.admins \ {p}}

MemberAccepted(p, old, new) ==
  \/ /\ Leaving(p, old, new)
     /\ new = [old EXCEPT !.standing = new.standing, !.memberAt = new.memberAt,
                          !.admins = new.admins, !.adminAt = new.adminAt]
  \/ new = [old EXCEPT !.expenses = new.expenses, !.deleted = new.deleted,
                       !.receipts = new.receipts]

Accepted(p, old, new) ==
  /\ StampsAccepted(old, new) /\ LedgerAccepted(old, new)
  /\ ReceiptsAccepted(p, old, new) /\ AdminsAccepted(new)
  /\ p \notin old.admins => MemberAccepted(p, old, new)
-----------------------------------------------------------------------------
(* Writes, reads and lost access. *)

\* Mutant: a read leaves the reader's own membership as the merge made it.
PlainRead(d, c, shared) == Merge(c, shared)

\* mergeSharedEventIntoState and restoreAuthenticatedEventMembership: what
\* the row says of the reader's own membership is final.
Read(d, c, shared) ==
  LET merged == Merge(c, shared) IN
  IF Me(d) \notin Active(shared) THEN merged
  ELSE [merged EXCEPT !.standing[Me(d)] = "active", !.memberAt[Me(d)] = shared.memberAt[Me(d)]]

Candidate(d) == Merge(canon, outbox[d])

Settle(d, c) ==
  /\ copy' = [copy EXCEPT ![d] = c]
  /\ outbox' = [outbox EXCEPT ![d] = Nothing]
  /\ undo' = [undo EXCEPT ![d] = Nothing]

\* The save of the outbox is accepted.
Deliver(d) ==
  /\ Pending(d) /\ attached[d] /\ Me(d) \in Active(canon)
  /\ Accepted(Me(d), canon, Candidate(d))
  /\ canon' = Candidate(d)
  /\ Settle(d, Read(d, outbox[d], Candidate(d)))
  /\ leftover' = leftover \ {d}
  /\ UNCHANGED <<attached, now, changes>>

\* A refused foreground save takes its change back, and what was pending
\* before it is pending again.
Refuse(d) ==
  /\ Pending(d) /\ attached[d] /\ Me(d) \in Active(canon)
  /\ undo[d] # Nothing
  /\ ~Accepted(Me(d), canon, Candidate(d))
  /\ copy' = [copy EXCEPT ![d] = undo[d].copy]
  /\ outbox' = [outbox EXCEPT ![d] = undo[d].outbox]
  /\ undo' = [undo EXCEPT ![d] = Nothing]
  /\ UNCHANGED <<canon, attached, leftover, now, changes>>

\* The connection fails: the change is queued and stays.
Queue(d) ==
  /\ undo[d] # Nothing
  /\ undo' = [undo EXCEPT ![d] = Nothing]
  /\ UNCHANGED <<canon, copy, outbox, attached, leftover, now, changes>>

\* loadSharedStateOnce: with nothing pending the copy is brought up to date;
\* while the outbox waits for its retry, what is shown is the outbox and the
\* row merged, and the outbox itself is left alone.
Refresh(d) ==
  /\ Me(d) \in Active(canon)
  /\ undo[d] = Nothing
  /\ copy' = [copy EXCEPT ![d] = Read(d, IF Pending(d) THEN outbox[d] ELSE copy[d], canon)]
  /\ attached' = [attached EXCEPT ![d] = TRUE]
  /\ UNCHANGED <<canon, outbox, undo, leftover, now, changes>>

\* revokeSharedEventAccess, met by a save or a read: the device keeps its
\* copy and drops the credentials and what was pending.
LoseAccess(d) ==
  /\ attached[d] /\ Me(d) \notin Active(canon)
  /\ LET c == IF Pending(d) THEN outbox[d] ELSE copy[d] IN
     Settle(d, IF c.standing[Me(d)] = "absent" THEN c
               ELSE [c EXCEPT !.standing[Me(d)] = "inactive", !.memberAt[Me(d)] = Clock(d)])
  /\ attached' = [attached EXCEPT ![d] = FALSE]
  /\ leftover' = IF Pending(d) THEN leftover \cup {d} ELSE leftover
  /\ UNCHANGED <<canon, now, changes>>

Tick == now < MaxTime /\ now' = now + 1 /\ UNCHANGED <<canon, deviceVars, changes>>
-----------------------------------------------------------------------------
Act(d) == \/ \E e \in Expense : SaveExpense(d, e) \/ RemoveExpense(d, e)
          \/ CloseEvent(d) \/ ReopenEvent(d) \/ LeaveEvent(d)
          \/ \E p \in Participant :
               RemoveParticipant(d, p) \/ RestoreParticipant(d, p) \/ SetAdmin(d, p)

Sync(d) == Deliver(d) \/ Refuse(d) \/ Queue(d) \/ Refresh(d) \/ LoseAccess(d)

Next == \/ \E d \in Device : Act(d)
        \/ \E d \in Device : Sync(d)
        \/ Tick

Spec == Init /\ [][Next]_vars

\* Every load and every retry tries the outbox again, until an answer.
FairSpec == Spec /\ \A d \in Device : WF_vars(Deliver(d) \/ Refuse(d) \/ LoseAccess(d))
-----------------------------------------------------------------------------
(* Properties. *)

\* A copy never lists an expense it records as deleted.
WellFormed(c) == \A e \in c.deleted : c.expenses[e] = NoVersion

\* The types, of copies that list no deleted expense, whether shown, pending
\* or kept for undoing; only a device with the event's credentials has
\* something pending, and only a pending change can be undone.
TypeOK ==
  /\ canon \in Copy /\ WellFormed(canon)
  /\ copy \in [Device -> Copy] /\ outbox \in [Device -> Copy \cup {Nothing}]
  /\ undo \in [Device -> [copy : Copy, outbox : Copy \cup {Nothing}] \cup {Nothing}]
  /\ attached \in [Device -> BOOLEAN] /\ leftover \subseteq Device
  /\ \A d \in Device :
       /\ WellFormed(copy[d])
       /\ Pending(d) => attached[d] /\ WellFormed(outbox[d])
       /\ undo[d] # Nothing =>
            /\ Pending(d) /\ WellFormed(undo[d].copy)
            /\ undo[d].outbox # Nothing => WellFormed(undo[d].outbox)
  /\ now \in 1..MaxTime /\ changes \in 0..MaxChanges

\* Whatever the administrators of different devices do to each other's roles
\* and memberships at the same time, merging never produces an event whose
\* administrators the server would refuse (mergeEventSettings' fallbacks).
MergesKeepAnAdmin ==
  \A d \in Device : Pending(d) => AdminsAccepted(Candidate(d))

\* A member who was taken out of the event is in it again only by a decision
\* with a later stamp: no older copy brings anyone back.
RemovalStands ==
  [][\A p \in Participant :
       p \notin Active(canon) /\ p \in Active(canon') => canon'.memberAt[p] > canon.memberAt[p]]_vars

\* An expense deleted in the record never comes back, from whatever copy.
DeletionStands ==
  [][\A e \in canon.deleted : e \in canon'.deleted /\ canon'.expenses[e] = NoVersion]_vars

\* Two devices that show the same closing of the event show the same
\* expenses, so everybody settles the same debts.
SameClosingSameLedger ==
  \A d \in Device :
    /\ attached[d] /\ ~Pending(d) /\ d \notin leftover
    /\ copy[d].closed /\ canon.closed /\ copy[d].statusAt = canon.statusAt
    => copy[d].expenses = canon.expenses

\* A device with nothing left to deliver shows exactly the record after its
\* next read: merging is not symmetric, yet the copies agree.
QuietCopiesConverge ==
  \A d \in Device :
    attached[d] /\ ~Pending(d) /\ d \notin leftover /\ Me(d) \in Active(canon)
      => Read(d, copy[d], canon) = canon

\* docs/production-resilience.md:45 says that edits made while the server is
\* out of reach are delivered when it returns (or withdrawn, for an edit the
\* server refuses): the outbox does not stay full for ever.
QueuedChangesAreDelivered ==
  \A d \in Device : Pending(d) ~> ~Pending(d)
=============================================================================
