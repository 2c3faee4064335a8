-------------------------- MODULE SettlementReplicas --------------------------
(***************************************************************************)
(* An event's repayment plan on several phones and in the shared row: the  *)
(* changes that recompute it (app.mjs, domain/appActions.mjs), the plans   *)
(* remembered for each repayment method (domain/settlementPlanMemory.mjs), *)
(* the merge of two copies (domain/sharedStateMerge.mjs) and what a write  *)
(* and a read make of it (data/sharedEventStore.mjs), and the guards on    *)
(* payments of supabase/schema.sql.                                        *)
(*                                                                         *)
(* Every change waits in the device's outbox until the server accepts it.  *)
(* (SharedEventSave and EventReplicas show how a save travels and what a   *)
(* refused one undoes; people, closing and edited expenses are theirs too.)*)
(***************************************************************************)
EXTENDS Settlement

CONSTANTS
  Device,
  PersonOf,        \* the participant signed in on each device
  Admin,           \* the event's administrators
  Maker,           \* the device each expense is entered on
  FirstExpenses,   \* its expenses and rounding at first
  FirstRounded,
  ListOrder,       \* the order of the people in the row at first
  OtherOrder,      \* and in another event each device shows
  Window,          \* how old a payment the server accepts (15 minutes)
  Nothing,         \* an empty outbox, no remembered plan
  MaxTime,         \* bound: the clock
  MaxChanges       \* bound: changes made on the devices

ASSUME ReplicasAssumption ==
  /\ PersonOf \in [Device -> Participant] /\ Admin \subseteq Participant
  /\ Maker \in [Expense -> Device]
  /\ FirstRounded \in BOOLEAN
  /\ FirstExpenses \in Seq(Expense) /\ IsInjective(FirstExpenses)
  /\ ListOrder \in Order /\ OtherOrder \in [Device -> Order]
  /\ Window \in Nat /\ MaxTime \in Nat \ {0} /\ MaxChanges \in Nat

VARIABLES
  canon,           \* the event in the shared row
  copy,            \* the event as each device shows it
  outbox,          \* the payload each device still has to deliver
  now,             \* the time
  changes          \* bound

vars == <<canon, copy, outbox, now, changes>>

Me(d) == PersonOf[d]
IsAdmin(d) == Me(d) \in Admin
Unsent(d) == outbox[d] # Nothing
Later(m, n) == IF m > n THEN m ELSE n
-----------------------------------------------------------------------------
(* An event's plan under its settings. *)

Plan(c, order, direct, previous) ==
  Reconcile(order, c.expenses, c.rounded, direct, Paid(c.rows), previous)

\* reconcileEventTransfers
Reconciled(c) == [c EXCEPT !.rows = Plan(c, c.order, c.direct, Pending(c.rows))]

(* Remembered plans. *)

Mode(direct) == IF direct THEN "direct" ELSE "smart"
Routes(rows) == {<<t.from, t.to, t.amount>> : t \in ToSet(rows)}

\* Any order that does not depend on the device.
IdOrder == CHOOSE r \in Order : TRUE

LedgerRoutes == [ledger \in SUBSET Expense |->
  Routes(DirectPlan(IdOrder, LedgerBalances[ledger], DirectRoutes(SetToSeq(ledger)), 1))]

\* settlementPlanInputKey: everything a plan depends on.
InputKey(c, direct) ==
  <<c.rounded, Balances(c.expenses),
    {<<t.id, t.from, t.to, t.amount>> : t \in ToSet(Paid(c.rows))},
    IF direct THEN LedgerRoutes[ToSet(c.expenses)] ELSE {}>>

\* validatedPlan: the pending rows are what reconciling makes of them.
IsPlan(c, order, direct, rows) == Pending(Plan(c, order, direct, rows)) = rows

Applies(c, direct, entry) ==
  /\ entry # Nothing /\ entry.key = InputKey(c, direct)
  /\ IsPlan(c, entry.order, direct, entry.rows)

\* rememberCurrentPlan: the plan shown, unless its method has one already or
\* it is the other method's.
Compatible(direct, rows, new) ==
  IF direct THEN Routes(rows) = Routes(new) ELSE Len(rows) <= Len(new) + 1

Remember(c, direct, order, rows) ==
  [c EXCEPT !.plans[Mode(direct)] = [key |-> InputKey(c, direct), order |-> order, rows |-> rows]]

WithCurrentPlan(c) ==
  IF /\ ~Applies(c, c.direct, c.plans[Mode(c.direct)])
     /\ IsPlan(c, c.order, c.direct, Pending(c.rows))
     /\ Compatible(c.direct, Pending(c.rows), Pending(Plan(c, c.order, c.direct, <<>>)))
  THEN Remember(c, c.direct, c.order, Pending(c.rows)) ELSE c

\* selectRememberedSettlementPlan: the plan remembered for the chosen method if
\* it still applies, otherwise a new one, which is remembered.
Adopted(c, direct, order, rows) ==
  Remember([c EXCEPT !.rows = rows, !.direct = direct], direct, order, Pending(rows))

Chosen(c, direct, entry) ==
  IF Applies(c, direct, entry)
  THEN Adopted(c, direct, entry.order, Plan(c, entry.order, direct, entry.rows))
  ELSE Adopted(c, direct, c.order, Plan(c, c.order, direct, <<>>))

SelectedIn(c, direct) == Chosen(c, direct, c.plans[Mode(direct)])

Selected(c, direct) == SelectedIn(WithCurrentPlan(c), direct)

\* restoreRememberedSettlementPlan, or else a plan kept as close as possible.
Replanned(c, entry) == [c EXCEPT !.rows = Plan(c, entry.order, c.direct, entry.rows)]

Restored(c) ==
  LET entry == c.plans[Mode(c.direct)] IN
  IF Applies(c, c.direct, entry) THEN Replanned(c, entry) ELSE Reconciled(c)
-----------------------------------------------------------------------------
(* The merge of two copies; ties go to local. *)

MergedList(remote, local) ==
  local \o Among(remote, {i \in DOMAIN remote : ~Contains(local, remote[i])})

\* mergeTransfer: the newer status, and on a tie the payment.
MergedRow(r, l) ==
  IF r.at > l.at \/ (r.at = l.at /\ r.paid) THEN [l EXCEPT !.paid = r.paid, !.at = r.at] ELSE l

\* Mutant: the newer choice of method brings all its rows and no other.
RowsOfTheMethod(remote, local) ==
  IF remote.directAt > local.directAt THEN remote.rows ELSE local.rows

\* mergeRepaymentPlanTransfers: when the methods differ, the pending rows of
\* the newer choice only.
MergedRows(remote, local) ==
  LET other(l) == SelectInSeq(remote.rows, LAMBDA r : r.id = l.id)
      both == [i \in DOMAIN local.rows |->
                 LET l == local.rows[i] IN
                 IF other(l) = 0 THEN l ELSE MergedRow(remote.rows[other(l)], l)]
      rows == both \o Among(remote.rows, {i \in DOMAIN remote.rows : remote.rows[i].id \notin Ids(local.rows)})
      source == IF remote.directAt > local.directAt THEN remote ELSE local
      kept == Ids(source.rows) \cup Ids(Paid(remote.rows)) \cup Ids(Paid(local.rows))
  IN IF remote.directAt = local.directAt /\ remote.direct = local.direct THEN rows
     ELSE Among(rows, {i \in DOMAIN rows : rows[i].id \in kept})

\* mergeTransferStatusUpdate: the newest update of each transfer, and on a tie
\* the reversal.
MergedUpdates(remote, local) ==
  {u \in remote.updates \cup local.updates :
     \A v \in remote.updates \cup local.updates :
       v.id = u.id => \/ v.at < u.at
                      \/ v.at = u.at /\ (u.paid => v.paid)}

\* applyTransferStatusUpdates
Applied(rows, updates) ==
  [i \in DOMAIN rows |->
     LET news == {u \in updates : u.id = rows[i].id /\ u.at >= rows[i].at} IN
     IF news = {} THEN rows[i]
     ELSE LET u == CHOOSE u \in news : TRUE IN [rows[i] EXCEPT !.paid = u.paid, !.at = u.at]]

\* Mutant: the last copy owns it.
PlansOfTheLast(first, second, merged) ==
  [mode \in {"smart", "direct"} |-> IF second.plans[mode] = Nothing THEN first.plans[mode]
                                    ELSE second.plans[mode]]

\* mergeSettlementPlanMemory: the first copy owns the plan of a financial key.
Owner(one, two, key) ==
  IF one = Nothing \/ (two # Nothing /\ one.key # key /\ two.key = key) THEN two ELSE one

MergedPlans(first, second, merged) ==
  [mode \in {"smart", "direct"} |->
     IF first.plans[mode] = second.plans[mode] THEN first.plans[mode]
     ELSE Owner(first.plans[mode], second.plans[mode], InputKey(merged, mode = "direct"))]

Remembering(first, second, c) == [c EXCEPT !.plans = MergedPlans(first, second, c)]

\* mergeEvent
United(remote, local) ==
  LET newer(at) == IF remote[at] > local[at] THEN remote ELSE local
      expenses == MergedList(remote.expenses, local.expenses)
      deleted == remote.deleted \cup local.deleted
      status == IF remote.statusAt = local.statusAt /\ remote.closed THEN remote ELSE newer("statusAt")
  IN [local EXCEPT
        !.expenses = Among(expenses, {i \in DOMAIN expenses : expenses[i] \notin deleted}),
        !.deleted = deleted,
        !.rows = MergedRows(remote, local),
        !.updates = MergedUpdates(remote, local),
        !.log = remote.log \cup local.log,
        !.closed = status.closed, !.statusAt = status.statusAt,
        !.rounded = newer("roundedAt").rounded, !.roundedAt = newer("roundedAt").roundedAt,
        !.direct = newer("directAt").direct, !.directAt = newer("directAt").directAt]

WithStatuses(c) == [c EXCEPT !.rows = Applied(c.rows, c.updates)]

\* reconcileMergedEventTransfers
Merge(remote, local) == Restored(WithStatuses(Remembering(remote, local, United(remote, local))))

\* Mutant: the row's remembered plans and no more.
OwnPlan(merged, shared) == Restored(Remembering(shared, merged, merged))

\* preserveCanonicalSettlementPlan: the row owns the remembered plans; and if
\* the merged copy differs from the row in nothing the plan depends on, the
\* row's plan too.
SameInputs(c, shared) ==
  /\ ToSet(c.expenses) = ToSet(shared.expenses)
  /\ c.rounded = shared.rounded
  /\ c.direct = shared.direct /\ c.directAt = shared.directAt
  /\ c.updates = shared.updates
  /\ ToSet(Paid(c.rows)) = ToSet(Paid(shared.rows))

PreservedIn(c, shared) ==
  LET entry == c.plans[Mode(c.direct)] IN
  IF Applies(c, c.direct, entry) THEN Replanned(c, entry)
  ELSE IF c.rows # shared.rows /\ SameInputs(c, shared)
  THEN [c EXCEPT !.rows = Reconciled(shared).rows]
  ELSE c

Preserved(merged, shared) == PreservedIn(Remembering(shared, merged, merged), shared)

\* mergeSharedEventWriteState, mergeSharedEventIntoState.  What comes second
\* gives the people's order; a member leaves the remembered plans alone.
AsWritten(d, c) == IF IsAdmin(d) THEN c ELSE [c EXCEPT !.plans = canon.plans]

Candidate(d, payload) == AsWritten(d, Preserved(Merge(canon, payload), canon))

Read(c, shared) == Preserved(Merge(c, shared), shared)
-----------------------------------------------------------------------------
\* updateTransferStatus, and the entry recordEventActivity adds.
Marked(c, ids, paid, at) ==
  [c EXCEPT !.rows = [i \in DOMAIN @ |-> IF @[i].id \in ids
                                         THEN [@[i] EXCEPT !.paid = paid, !.at = at] ELSE @[i]],
            !.updates = {u \in @ : u.id \notin ids} \cup [id : ids, paid : {paid}, at : {at}]]

Logged(c, id, paid, at) == [c EXCEPT !.log = @ \cup {[id |-> id, paid |-> paid, at |-> at]}]

\* The event so far: its first expenses, and perhaps a payment.
Created(closed) ==
  Reconciled([expenses |-> FirstExpenses, deleted |-> {}, rows |-> <<>>, updates |-> {}, log |-> {},
              closed |-> closed, statusAt |-> 1, rounded |-> FirstRounded, roundedAt |-> 1,
              direct |-> FALSE, directAt |-> 1,
              plans |-> [mode \in {"smart", "direct"} |-> Nothing], order |-> ListOrder])

FirstPaid(c) == IF c.rows = <<>> THEN c ELSE Logged(Marked(c, {Head(c.rows).id}, TRUE, 1), Head(c.rows).id, TRUE, 1)

Init ==
  /\ \E closed \in BOOLEAN : canon \in {Created(closed), FirstPaid(Created(closed))}
  /\ copy = [d \in Device |-> canon]
  /\ outbox = [d \in Device |-> Nothing]
  /\ now = 1 /\ changes = 0
-----------------------------------------------------------------------------
(* What the person using device d does to the event. *)

Change(d, c) ==
  /\ changes < MaxChanges /\ changes' = changes + 1
  /\ copy' = [copy EXCEPT ![d] = c]
  /\ outbox' = [outbox EXCEPT ![d] = c]
  /\ UNCHANGED <<canon, now>>

\* saveExpense, a new one
AddExpense(d, e) ==
  /\ ~copy[d].closed /\ Maker[e] = d
  /\ ~Contains(copy[d].expenses, e) /\ e \notin copy[d].deleted
  /\ Change(d, Reconciled([copy[d] EXCEPT !.expenses = <<e>> \o @]))

\* deleteExpense
RemoveExpense(d, e) ==
  /\ ~copy[d].closed /\ Contains(copy[d].expenses, e)
  /\ Change(d, Reconciled([copy[d] EXCEPT !.expenses = Among(@, {i \in DOMAIN @ : @[i] # e}),
                                          !.deleted = @ \cup {e}]))

CanUpdate(p, t) == p \in {t.from, t.to} \cup Admin

MarkPaid(d, i) ==
  LET t == copy[d].rows[i] IN
  /\ ~t.paid /\ CanUpdate(Me(d), t)
  /\ Change(d, Logged(Marked(copy[d], {t.id}, TRUE, now), t.id, TRUE, now))

\* markTransfersPending plans again around the reversed payment.
Undone(c, id) == Logged(Reconciled(Marked(c, {id}, FALSE, now)), id, FALSE, now)

MarkPending(d, i) ==
  LET t == copy[d].rows[i] IN
  /\ t.paid /\ CanUpdate(Me(d), t)
  /\ Change(d, Undone(copy[d], t.id))

\* reopenCurrentEvent, keeping the payments or reversing all of them.
Reopen(d, reset) ==
  /\ IsAdmin(d) /\ copy[d].closed
  /\ LET c == [copy[d] EXCEPT !.closed = FALSE, !.statusAt = now] IN
     Change(d, IF reset THEN Marked(c, Ids(Paid(c.rows)), FALSE, now) ELSE c)

\* setEventRoundSettlementTransfers, setEventDirectSettlementTransfers; a
\* setting's stamp is later than the one it replaces.
SetRounding(d) ==
  /\ IsAdmin(d)
  /\ LET c == [copy[d] EXCEPT !.rounded = ~@, !.roundedAt = Later(now, @ + 1)] IN
     Change(d, IF c.rows = <<>> THEN c ELSE Reconciled(c))

SetDirect(d, direct) ==
  /\ IsAdmin(d)
  /\ Change(d, [Selected(copy[d], direct) EXCEPT !.directAt = Later(now, @ + 1)])

\* prepareSettlement: opening the plan plans again.
OpenSettlement(d) ==
  /\ Reconciled(copy[d]) # copy[d]
  /\ Change(d, Reconciled(copy[d]))

\* mergeSharedEventIntoState for another event puts its people first.
ReadAnotherEvent(d) ==
  /\ copy[d].order # OtherOrder[d]
  /\ copy' = [copy EXCEPT ![d].order = OtherOrder[d]]
  /\ UNCHANGED <<canon, outbox, now, changes>>
-----------------------------------------------------------------------------
(* The guards on replacing the event old by new, written by participant p. *)

\* has_valid_shared_event_transfer_totals: the pending transfers settle the
\* balances, rounded before the payments are taken off, and in smart mode
\* only debtors pay and only creditors are paid.
TotalsAccepted(new) ==
  LET all == Balances(new.expenses)
      left == After(IF new.rounded THEN RoundBalances(new.order, all) ELSE all, Paid(new.rows))
  IN new.rows # <<>> =>
       /\ Settles(left, Pending(new.rows))
       /\ ~new.direct => \A t \in ToSet(Pending(new.rows)) : left[t.from] < 0 /\ left[t.to] > 0

Same(rows, id) == {t \in ToSet(rows) : t.id = id}

\* has_authorized_transfer_status_changes: a new update is recent, agrees with
\* its transfer and is by someone who may make it; the one that may concern a
\* transfer the row does not have is a reversal.  Every changed transfer has
\* its update, and no transfer is new and paid.
StatusesAccepted(p, old, new) ==
  /\ \A u \in new.updates \ old.updates :
       \E t \in Same(new.rows, u.id) :
         /\ t.paid = u.paid /\ now - u.at <= Window
         /\ \/ \E was \in Same(old.rows, u.id) : CanUpdate(p, was)
            \/ Same(old.rows, u.id) = {} /\ ~u.paid /\ CanUpdate(p, t)
  /\ \A t \in ToSet(new.rows) :
       IF Same(old.rows, t.id) = {} THEN ~t.paid
       ELSE \A was \in Same(old.rows, t.id) :
              <<was.paid, was.at>> # <<t.paid, t.at>> =>
                /\ CanUpdate(p, was)
                /\ \E u \in new.updates : u.id = t.id /\ u.paid = t.paid /\ (t.paid => u.at = t.at)

\* has_preserved_paid_transfer_history
HistoryKept(old, new) ==
  /\ \A t \in ToSet(old.rows) : t.paid => t \in ToSet(new.rows)
  /\ \A u \in old.updates : u.paid => u \in new.updates

\* is_safe_transfer_status_only_update: nothing but some transfers' status has
\* changed, and the history has one entry for each.
OnlyStatuses(old, new) ==
  LET changed == {t \in ToSet(new.rows) : t \notin ToSet(old.rows)}
      added == new.log \ old.log
  IN /\ new = [old EXCEPT !.rows = new.rows, !.updates = new.updates, !.log = new.log]
     /\ Len(new.rows) = Len(old.rows) /\ Ids(new.rows) = Ids(old.rows)
     /\ changed # {} /\ Cardinality(added) = Cardinality(changed)
     /\ \A a \in added : /\ \E t \in changed : t.id = a.id
                         /\ a \in new.updates

\* guard_shared_event_financial_integrity, guard_shared_event_history_and_limits
\* and prevent_locked_event_expense_updates
Accepted(p, old, new) ==
  /\ TotalsAccepted(new) /\ StatusesAccepted(p, old, new)
  /\ OnlyStatuses(old, new) \/ HistoryKept(old, new)
  /\ old.closed => new.expenses = old.expenses /\ new.deleted = old.deleted
-----------------------------------------------------------------------------
Saved(d, new) ==
  /\ Accepted(Me(d), canon, new)
  /\ canon' = new
  /\ copy' = [copy EXCEPT ![d] = Read(outbox[d], new)]

Deliver(d) ==
  /\ Unsent(d) /\ Saved(d, Candidate(d, outbox[d]))
  /\ outbox' = [outbox EXCEPT ![d] = Nothing]
  /\ UNCHANGED <<now, changes>>

\* While the outbox waits, what is shown is the outbox and the row merged.
Refresh(d) ==
  /\ copy' = [copy EXCEPT ![d] = Read(IF Unsent(d) THEN outbox[d] ELSE copy[d], canon)]
  /\ UNCHANGED <<canon, outbox, now, changes>>

Tick == now < MaxTime /\ now' = now + 1 /\ UNCHANGED <<canon, copy, outbox, changes>>

Act(d) == \/ \E e \in Expense : AddExpense(d, e) \/ RemoveExpense(d, e)
          \/ \E i \in DOMAIN copy[d].rows : MarkPaid(d, i) \/ MarkPending(d, i)
          \/ \E choice \in BOOLEAN : Reopen(d, choice) \/ SetDirect(d, choice)
          \/ SetRounding(d) \/ OpenSettlement(d) \/ ReadAnotherEvent(d)

Next == \/ \E d \in Device : Act(d)
        \/ \E d \in Device : Deliver(d) \/ Refresh(d)
        \/ Tick

Spec == Init /\ [][Next]_vars
-----------------------------------------------------------------------------
Copies == {canon} \cup {copy[d] : d \in Device}

\* Every list of transfers is one the app can show and the merge can match by
\* id: amounts are positive, nobody pays themselves, no two rows share an id.
TypeOK ==
  \A c \in Copies :
    /\ ToSet(c.expenses) \subseteq Expense \ c.deleted
    /\ \A t \in ToSet(c.rows) : /\ {t.from, t.to} \subseteq Participant /\ t.from # t.to
                               /\ t.amount \in Nat \ {0} /\ t.paid \in BOOLEAN /\ t.at \in 0..MaxTime
    /\ Cardinality(Ids(c.rows)) = Len(c.rows)

\* Whatever was paid, reversed, added, removed, rounded or merged, the
\* transfers of every copy settle its expenses: to the last unit when amounts
\* are exact, and to less than a whole unit for each person when rounded.
PlansSettleTheLedger ==
  \A c \in Copies :
    LET left == After(Balances(c.expenses), c.rows) IN
    \A p \in Participant : left[p] \in IF c.rounded \/ c.rows = <<>> THEN 1 - Unit .. Unit - 1 ELSE {0}

\* A device with nothing to send shows, after a read, the transfers of the row,
\* whatever it showed before and in whatever order it lists the people.
QuietCopiesShowTheRow ==
  \A d \in Device : ~Unsent(d) => Read(copy[d], canon).rows = canon.rows

\* A payment the row or a device shows stays one until a reversal at least as
\* recent: no older copy, other plan or other method makes it owed again.
StillPaid(t, c) ==
  \/ \E s \in ToSet(c.rows) : s.id = t.id /\ s.paid
  \/ \E u \in c.updates : u.id = t.id /\ ~u.paid /\ u.at >= t.at

RowKeepsPayments == \A t \in ToSet(canon.rows) : t.paid => StillPaid(t, canon')

PaymentsStand ==
  [][/\ RowKeepsPayments
     /\ \A d \in Device : \A t \in ToSet(copy[d].rows) : t.paid => StillPaid(t, copy'[d])]_vars

\* The plan first remembered for a method and a state of the accounts stays the
\* one both administrators go back to, whatever each device would plan itself
\* ("The authenticated canonical copy owns the first plan for a financial key").
FirstPlanStands ==
  [][\A direct \in BOOLEAN :
       LET entry == canon.plans[Mode(direct)] IN
       Applies(canon, direct, entry) /\ InputKey(canon', direct) = entry.key =>
         canon'.plans[Mode(direct)].rows = entry.rows]_vars

\* A write that changes neither the accounts nor payments nor the choice of
\* method leaves who pays whom as it is, however old the writer's copy.
UnrelatedWritesKeepThePlan ==
  [][/\ InputKey(canon', canon.direct) = InputKey(canon, canon.direct)
     /\ ToSet(canon'.expenses) = ToSet(canon.expenses)
     /\ canon'.direct = canon.direct /\ canon'.directAt = canon.directAt
     /\ canon'.updates = canon.updates
     => Routes(canon'.rows) = Routes(canon.rows)]_vars
=============================================================================
