# Formal models of סוגרים חשבון (Sogrim Heshbon)

Sogrim Heshbon is an app in which friends share the expenses of an event and find
out who owes what to whom.  Every phone or browser tab keeps a complete copy of
the account's events in `localStorage`, goes on working offline, and writes to
Supabase, where each shared event is one row guarded by triggers and functions.
Nothing coordinates the devices except that row, so what can go wrong is what
several devices, requests, reads and crashes do to each other.  That is what the
modules here are about.

## 1. The system

| part | source | state | operations | status |
| --- | --- | --- | --- | --- |
| shared event save protocol | `src/data/sharedEventStore.mjs`, `cloudStore.mjs`, `cloudConflictRetry.mjs` | the candidate, the version it was read with, the request under way | save, delete, create, conflict retry, probe of the membership, refresh | modelled |
| shared event row (SQL) | `supabase/schema.sql` | `app_snapshots` (state, `updated_at`), `shared_snapshot_members`, tombstone recipients | create, update, sync of the members, the guards | partly |
| event merge | `src/domain/sharedStateMerge.mjs`, `eventActivityLog.mjs` | none | `mergeSharedStates` | partly |
| event actions | `src/domain/appActions.mjs`, `permissions.mjs`, handlers in `src/app.mjs` | the copy of the event | expenses, close, reopen, leave, remove, restore, promote | partly |
| pending-sync outbox | `src/data/localStore.mjs`, `*Rollback.mjs` | disk: snapshot, outbox; memory: generation, write queue, read under way, retry timer | save, flush, retry, online, read, recovery in a read, rollback, crash | partly |
| settlement | `src/domain/settlement.mjs`, `settlementPlanMemory.mjs`, `money.mjs`, transfers in `sharedStateMerge.mjs`, `sharedEventStore.mjs`, `app.mjs` and SQL | the event's transfers, their statuses, remembered plans | balances, rounding, plans; pay, reverse, choose a method; merge; guards | partly |
| event invites | `src/server/eventInvites.mjs`, `src/data/eventInvites.mjs`, SQL | `event_invite_tokens` | ensure, rotate, redeem, revoke | partly |
| pending joins, account links | `src/data/pendingEventJoins.mjs`, `pendingAccountLinks.mjs` | lists on disk | remember, attempt, confirm, forget | joins; links not modelled |
| activity notifications | `src/server/eventActivityNotifications.mjs`, `src/data/pendingEventNotifications.mjs`, SQL | list on disk; reservations, inbox | remember, announce, reserve, push, complete, release | partly |
| account session and switch | `src/publicAccountAuthLayer.mjs`, `src/data/accountAuth.mjs`, `localStore.mjs` | the stored session, the workspace in use; per page its own session | start, restore, check, sign in and out, storage events | partly |
| payment reminders | `src/server/paymentReminders.mjs`, SQL | reservations with a lease, cooldowns | reserve, push, complete | not modelled |
| read cache | `src/data/versionedReadCache.mjs` | rows whose version was just confirmed | look up, forget | not modelled |
| account deletion, friendships, referrals, billing, inbox, push devices, broadcasts | `src/server/*`, `src/data/*` | rows | single transactions | not modelled |
| API server, metrics, user interface, service worker, native shells, pure helpers | `server.mjs`, `src/app.mjs`, `src/public*Layer.mjs`, `sw.js`, `android`, `ios` | - | I/O and rendering | not modelled |

`PROJECT.json` lists the components one by one with what is left out of each, and
every hazard of the code at its line with the property that would catch it.

How the modelled parts interact:

* A handler of `app.mjs` computes a new state with `appActions.mjs` and calls
  `saveSharedState` (localStore), which writes the **outbox**, then the
  **snapshot**, waits for the runtime configuration, and queues a cloud write.
* The cloud write calls `syncSharedEvents` (sharedEventStore), which saves each
  event to deliver with `saveSharedEventState`: read the row, **merge**
  (sharedStateMerge), and write on condition that the row's version is the one
  read; a conflict reads and merges again.
* The row's triggers (schema.sql) **accept or refuse** the new state, given the old
  one and the account that writes.
* A failed write leaves the outbox to a retry **timer**, the `online` event, or the
  next read.  A refused one is **rolled back** - if it is the save in the
  foreground.
* The merge and the row's final write **plan the transfers again** (settlement), so
  that the plan depends on what both sides know, not on who wrote last.
* **Invitations** are the one way into the row's members that does not go through a
  save; a removal (a save) revokes them.  A **pending join** waits on the phone
  until a read shows the event.
* A delivered expense is **announced**: the phone's list of announcements waits for
  the outbox, and the server's request reserves, stores and pushes.
* Every one of these asks for the **account**: saves, deliveries and reads go on only
  while the browser's stored session and workspace are those they began with.
* A **read** (every second while the page is visible) fetches the row, merges it
  with what is local, shows and stores the result; while the outbox waits, the
  outbox is merged into what is shown.

What is hard: any two devices interleave between a read and a write; requests
outlive the client's patience and land later; answers and reads come back after
newer saves; the page dies between two writes to disk; merging is not symmetric
and goes by unsynchronised clocks; what the client believes legal is not always
what the server accepts; a notification may have been sent by a request that is
believed to have failed; and all pages of a browser share one session that any of
them may change.

## 2. Modules

| module | models | shown by |
| --- | --- | --- |
| `SharedEventRecord` | the abstract promise: the record gains edits until it is deleted; an edit is acknowledged only when it is in it | refined by SharedEventSave |
| `SharedEventSave` | the save protocol and the row, each `await` a step | TLC, TLAPS |
| `SharedEventSaveProofs` | theorems about it | TLAPS |
| `EventMerge` | `mergeSharedStates` for one event, as operators on records | used by EventReplicas |
| `EventReplicas` | actions on copies, guards of the row, writes and reads as single steps | TLC, TLAPS |
| `EventReplicasProofs` | theorems about it | TLAPS |
| `PendingSyncOutbox` | localStore's outbox, queue, timer, reads and crashes | TLC, TLAPS |
| `PendingSyncOutboxProofs` | theorems about it | TLAPS |
| `Settlement` | who owes whom: balances, rounding, plans, as functions and folds | TLAPS; used by SettlementReplicas |
| `SettlementProofs` | theorems about it | TLAPS |
| `SettlementReplicas` | transfers and payments on several devices: remembered plans, merge, guards | TLC, TLAPS |
| `SettlementReplicasProofs` | theorems about it | TLAPS |
| `EventInvites` | links to an event, step by step against changes of the event; pending joins | TLC, TLAPS |
| `EventInvitesProofs` | theorems about it | TLAPS |
| `ActivityNotifications` | the announcement of an expense from the phone's list to the push | TLC, TLAPS |
| `ActivityNotificationsProofs` | theorems about it | TLAPS |
| `AccountSession` | the pages of a browser and their account; what saves and deliveries ask of it | TLC, TLAPS |
| `AccountSessionProofs` | theorems about it | TLAPS |
| `MC*` | the small instances | TLC |

The models cut the system at different places, each one abstracting what another
shows:

* **SharedEventSave** keeps every network step of one event's save.  Content is the
  set of edits it has absorbed, so a merge is a union - justified by EventMerge,
  where a merge absorbs both sides, and blind to which of two conflicting edits
  wins, which is the subject of EventReplicas.
* **EventReplicas** keeps the fields, stamps and guards, and makes a write and a
  read atomic - justified by SharedEventSave, which shows that an accepted write
  is made from exactly the row it replaces (`BaselineMatchesVersion`).
* **PendingSyncOutbox** keeps localStorage, queues, timers and the account's own
  row; a shared row's save is one step with all its outcomes (saved, refused,
  out of reach, written with the answer lost).
* **SettlementReplicas** keeps amounts, routes and payments, which EventReplicas
  leaves out, over the same atomic writes and reads.
* **EventInvites** keeps the requests that EventReplicas and SharedEventSave have as
  one step (`AdmitMember`); what a removal does to the row is one step here.
* **ActivityNotifications** starts where the outbox ends: the delivery of the
  expense is one step (`Publish`), the request to the API server is many.
* **AccountSession** keeps the account, which the others hold fixed; of a save and a
  delivery only what they check of the account is left.

### SharedEventSave: state and actions

`row` is the row of `app_snapshots` with `updated_at` as a counter, `active` the
members that `shared_snapshot_members` lists as active, `tombstoneReader` those a
tombstone remains readable for.  Per device: `view` and `local` (what its state
says of the event), `pending` (what is still to deliver), `job` (the variables of
the running `saveSharedEventState`: `working`, `candidate`, `version`, conflicts so
far), `wire` and `reply` (the request it awaits), and `stray`, the requests whose
client gave up.  `acknowledged` and `created` remember what was reported saved.

`FirstRead`, `FindAccessible`, `ProbeMembership`, `SendCreate`, `CreateAnswered`,
`VerifyCreated`, `Write`, `WriteAnswered` and `Reread` are the code between two
awaits of `saveSharedEventState`, `saveCloudState` and
`saveCloudStateWithConflictRetry`; `Execute` and `ExecuteStray` are the server's
transaction (`create_` and `update_shared_event_snapshot` with
`sync_shared_snapshot_members`), now or late; `GiveUp` is a timeout or failed
request; `RemoveMember` and `AdmitMember` what an administrator's write or an
invitation does to the members; `Refresh` a foreground read.

### EventMerge and EventReplicas: state and actions

A copy is a record: each expense's version (author and `updatedAt`), the deleted
expense ids, `closed` with its stamp, everyone's standing with a stamp per person,
the administrators with theirs, and the closing receipts of the activity log.
`Merge(remote, local)` follows `mergeEvent`, `mergeEventLifecycle`,
`mergeEventMembership` and `mergeEventSettings` tie by tie.

A device has `copy` (what it shows), `outbox`, and `undo` while its save runs in
the foreground.  The actions are the handlers, guarded by `permissions.mjs`; every
one ends in `Change`, the save.  `Accepted` is the conjunction of the row's guards.
`Deliver`, `Refuse`, `Queue` (the connection fails), `Refresh` and `LoseAccess` are
the outcomes of a save and a read.  The stamp of a change is the device's clock,
`now + Skew[d]`; the server refuses stamps more than `Tolerance` ahead.

### PendingSyncOutbox: state and actions

`snapshot` and `outbox` are the two keys on disk, shared by the pages of a browser;
a page has what it shows (`view`), `sharedStateSaveGeneration` (`gen`), the saves
and the read that wait for the runtime configuration (`starting`), the
`cloudWriteQueue` (`queue`), the read under way (`loading`) and the retry `timer`.
`Save` is the synchronous beginning of `saveSharedState`; `CrashWhileSaving` the
death of the page between its two writes; `Send` a whole cloud write with any
combination of outcomes for its events; `SaveSucceeded`, `SaveFailed`,
`FlushAnswered`, `RecoverDelivered`, `RecoverFinished` and `RecoverFailed` are the
continuations of its three callers; `ChooseRead`, `LoadRead`, `LoadFinished` and
`LoadFailed` the path of a read that leaves the outbox alone.  `made` remembers the
edits that were ever begun: a change a person makes again is another edit.

### Settlement and SettlementReplicas: state and actions

A ledger is a list of expenses with constant contents; a transfer is a record with
the code's id (route and amount, numbered when taken).  Order matters: the code
walks people in the order of the device's list, which breaks ties in rounding and in
the greedy match, and walks routes in insertion order, so both are kept (`Order`,
`Put`).  `Reconcile` is `reconcileSettlementTransfers`: what was paid stays, the
pending plan stays if it still settles everything, else a new one is made that
avoids paying back along a paid route and departs little from the old one.
`SmartPlan` is the greedy plan or, among four to twelve people who owe or are owed, the
plans of as many groups as possible that settle among themselves (`Groups`, the
partition the code's search meets first), when that takes fewer transfers.
`MaximumFlow` is what Dinic's algorithm comes to: as much as possible along the first of
the shortest paths, again and again.

`canon` is the row, `copy[d]` what device d shows, `outbox[d]` what waits.  The
actions are the handlers (`AddExpense`, `RemoveExpense`, `MarkPaid`, `MarkPending`,
`Reopen`, `SetRounding`, `SetDirect`, `OpenSettlement`), `ReadAnotherEvent` (which
changes the device's list order), `Deliver` and `Refresh`.  `Merge` and `Preserved`
are the two merges with remembered plans; `Accepted` the guards on totals, statuses
and paid history.

### EventInvites: state and actions

`invites` are the rows of `event_invite_tokens`, each with the number of open rows that
were revoked after it (`newer`), which is what pruning old rows goes by; `event` the members as the row and the table have them, `request[p]` what the server
is doing for p, `receipt[p]` the phone's pending join.  Handing out is `AskFor...`,
`ReadLinks`, `WriteLink` or `RefuseLink`; redeeming is `OpenLink`, `CheckLink`,
`RevokeLink`, `Redeem` or `RefuseToAdmit`, `FinishJoin`; between any two of them the
event may change (`RemovePerson`, `Leave`, `RestorePerson`, `Promote`,
`SetAdminsOnly`, `CloseOrReopen`), and a removal revokes every link in its own
transaction.  `cancelled` remembers the links that were cancelled and not written
again.  `Fail` stops a request anywhere; `RetryJoin` and `RetryFails` are
`retryPendingEventJoins`.

### ActivityNotifications: state and actions

The phone: `Remember` lists the announcement after the durable save, `Publish` is the
delivery, `Announce` sends the request, `GiveUp` and `Hear` end the wait, `Reopen` is
a restart.  Meanwhile people, the sender among them, leave or are removed and come back
(`RemoveMember`, `Join`), the expense is deleted, and the sender's own account loses the
event and gets it again (`LoseEvent`, `RegainEvent`).  The server: `Check` asks whether
the sender may announce and reads whom to tell; then, one recipient after the other,
`Verify` (both are still members), `Look` and `Insert` (the reservation), `ReadStatus` of
a duplicate, `MakeLink` or `NoLink`, `Store` (the inbox), `LoadDevices`, `GetToken`,
`Push`, `Settle`, and for what failed `Fail` and `Release`; `Crash` and `DeadlinePasses`
may come anywhere, and `Unauthorized` ends a request whose session cannot be renewed.
Any call may be executed without its answer.  `steady` is a history: who has been in the
event all along, the sender with an account that has it and a session that works.

### AccountSession: state and actions

`stored` and `space` are the two keys of the browser's storage that make
`accountStorageScope`; `copies`, `outbox` and `cloud` are whose data and changes are
under each account's workspace, on the device and at the server.  A page is closed,
at the sign-in form (`gate`), `restoring`, waiting to `retry`, `open`, `leaving` or
`loggingOut` (the two waits of a sign-out) or about to reload (`locked`); `boot` is
the restoring or the background check it has under way, `sync` a delivery or read,
`out` what it signs out of.  A page in any mode may still hold a late answer of a
`boot` or `sync` begun before.  `told` holds the pages with a storage event waiting,
`turned` those that are told of a switch to an account, and which: a page of another
account reloads at that, whoever is signed in by then.
`misplaced` remembers that a page opened an account, or went on with it, while
another's workspace was in use.

## 3. What the runs check

| run | question | result |
| --- | --- | --- |
| `shared_event_races` | Do races of creation, save, retry, deletion, lost request, removal and invitation lose or revive anything, and is every step a step of the abstract record? | holds, 1.1 M states |
| `shared_event_delivery` | Does every pending edit reach the record, under fairness? | holds, 131 k states |
| `shared_event_late_create` | Is an edit that a creation reported saved in the row? | violated |
| `event_history` | Two administrators and a third person around one expense, closings, removals and a fast clock: legal administrators, same closing same ledger, deletions and removals stand, copies converge? | holds, 288 k states |
| `offline_close_and_reopen` | Is what is queued offline delivered or withdrawn? | violated |
| `outbox_crashes` | One failure and one crash anywhere, a refused edit, a peer: is what is neither delivered nor taken back still in the outbox, and does what was delivered stay on screen? | holds, 634 k states |
| `outbox_delivery` | Two events, partial answers, one failure and one crash: is everything delivered in the end? | holds, 195 k states |
| `settlement_plans` | Two administrators pay, reverse, delete, round and change the method, one with another order of the people, five of them: does every plan settle, do payments stand, does everybody see one plan? | holds, 37 k states |
| `invites_joining` | Can anybody get in who was removed or whose link was cancelled; is one link live; is every pending join settled, and not too early? | holds, 201 k states |
| `activity_notifications` | Two requests at once, two failures of any kind, a removal, of the sender too: no second push, nobody left out, the list emptied? | holds, 679 k states |
| `account_changes` | Two pages, two people: does anything of one account get into the other's workspace, or a waiting change get lost? | holds, 1.6 M states |
| `account_pages` | Do the pages of a browser agree in the end about who is signed in? | holds, 374 k states |

Every property of a passing run has a mutant: a plausible bug in one mapped
definition with which TLC finds the property violated under the same
configuration (`PROJECT.json`, "mutants"; the mutated forms stand before the
definitions, marked *Mutant*).

Some properties carry a condition, which names what the code does not do:

* `DeliveredStaysOnScreen` leaves out the steps in which a request fails, a save is
  refused or a read gives up, and the time after a killed page: those may show what
  the disk has, which is older (section 5).
* `ListedIsSettled` is not claimed once a reservation was orphaned: a server that
  stopped, or a lost answer, between the reservation and its completion or release
  leaves a row that makes every later attempt fail.
* `OwnDataOnly` and `EditsAreKept` end where `misplaced` begins: a page opened an
  account, or went on with it, on a workspace that was not its own (section 5).
* `PagesSettle` supposes that people stop signing out.  A session that a sign-out
  removed may come back (section 5), so the sign-outs themselves need not end.

### Bounds

* *Devices, pages, requests.* Two.  Every race above is between two writers, or
  between one writer and the row; the proofs cover any number.  The outbox runs
  have one page: several pages are discussed below.
* *Edits.* Two or three: one per side to conflict and a second one on one side, made
  while the first is on its way.  `account_changes` has one, which is made before or
  after a switch, or was left behind by the other account; `account_pages` has none,
  because its property does not depend on them.
* *People.* Three in EventReplicas and EventInvites: two administrators and a third
  person, so that an administrator can be removed, demoted, replaced by the fallback and
  restored; an administrator, a member and a stranger for the links.  Five in
  SettlementReplicas: three in one expense, so that a rounding tie arises and a debt can
  go by a third person, and two more, so that they fall into groups that settle among
  themselves and a plan of groups is shorter than the greedy one.  The run's module also
  compares the planners with their definitions (`FlowIsMaximal`, `PlanIsShortest`) on
  every small balance: the flow off the blocked routes is as large as the least cut, and
  the smart plan has no more transfers than people less groups.
* *Recipients.* Two, in order, so that a failure at one meets the other; one of them
  has lost the event and needs a recovery link.  The sender is a third person, who may
  leave while a retry is waiting.
* `Unit` = 2 instead of 100: every remainder of a division by it is still met.
* `MaxFaults`, `MaxFailures`, `MaxCrashes` = 1, `MaxChurn` = 2 (out and in again).
  One failure already meets every step, since it may happen anywhere; notifications
  have two, because a retry of a failed attempt can fail as well.
* `RetryLimit` = 1, not 4; `MaxAttempts` = 2, not 20: exhausting the retries must be
  reachable with few steps.  `Kept` = 0, not 12: the rows of revoked open links are
  pruned as soon as another open link is written, so that pruning is met at all.
* `MaxTime` = 2 and `MaxChanges` = 2 to 4: enough for equal, earlier and later
  stamps and for two changes on one device while the other makes one or two;
  `Tolerance` = 1 with one clock ahead by 1, so that a stamp is accepted or refused
  depending on when it arrives.
* `MaxLogins` = 2: the session at first and one sign-in, of the same person or
  another, by either page, with a password or Google.  That a page hears of another's
  switch when its own account is the stored one again takes a third sign-in; the proofs
  include it.

`account_changes` uses that the two pages are alike (it has no liveness property); no
other run uses a symmetry, and none a state constraint; bounds are guards of the
actions they bound.  Deadlock checking is off: every model stops when its bounds are
used up and nothing is pending.

### Fairness

* SharedEventSave: weak fairness of each device's `Work` (promises settle; the retry
  timer starts pending saves again) and of `Execute` (the server answers a request
  that waits).  Nothing forces edits, failures, removals or strays.  Removals and
  faults are finitely many, by their bounds.
* EventReplicas: weak fairness of `Deliver \/ Refuse \/ LoseAccess`, an answered
  attempt; loads and retries repeat it.
* PendingSyncOutbox: weak fairness of each page's `Job` (its own continuations), of
  its timer and of its reads (a visible page reads every second,
  `requestResumeSync`).  `Online` and `Crash` are not fair.  An edit is delivered
  because at any moment a timer, a job or a read is responsible for the outbox;
  the mutant that lets a read always leave the outbox to its owner breaks it.
* EventInvites: weak fairness of `RetryJoin` only (`recoverPendingMutations` tries
  again on every resume).  No request of anybody is forced.
* ActivityNotifications: weak fairness of `Publish` (the outbox, above), `Announce`
  (the retry timer) and of each request's steps, which end by their deadline.
* AccountSession: weak fairness of `Handle` (the browser delivers storage events) and
  strong fairness of a page's own next step, `GoesOn`: a page takes the answer it
  awaits although other pages' events come in between.  People are never forced to
  sign in, and the model supposes that *a storage event is with a page before the
  next answer is*, as answers take a round trip and events do not; only what the
  person at that page does can come before it.

## 4. What is proved

TLAPS checks the following for every value of the constants that satisfies the
modules' named assumptions (`AccountsAssumption` and `BoundsAssumption`;
`RankAssumption` and `ReplicasAssumption`; `OutboxAssumption`; `InvitesAssumption`;
`NotificationsAssumption`; `SessionAssumption`; `SettlementAssumption` and
`ReplicasAssumption` of SettlementReplicas), so for any
number of devices, people, pages, edits, links, requests, activities and failures.
They say what the constants are: bounds are numbers, the founder is a member, a list
of recipients names nobody twice, a device belongs to one person, an event has finitely
many people and its expenses have a total.  One statement says more:
`AcceptedEditsAreKeptHolds` supposes one page of the browser, since two can lose an edit
(section 5).

`SharedEventSaveProofs` - the invariant the properties need says that *a version
names one content*: a request under way, stray ones included, whose version is the
row's carries everything the row holds (`RequestOK`), likewise each job's candidate
and the version it was read with (`VersionOK`), an "updated" answer still describes
the row (`ReplyOK`), and a candidate contains what the job was started with
(`CandidateOK`).  No property of the row is inductive without that: an update
already on the wire could otherwise replace the row by anything.  Each
transaction is shown to *grow* the row (`Grows`), growth alone to preserve what is
said of every other device, and each client step to preserve its own device's part.

* `TypeCorrect`, `WritesAreOnBaseline`, `AcknowledgedEditsAreSafe`,
  `OnlyDeletedEventsAreDropped`: the invariants of `shared_event_races`.
* `RecordNeverShrinks`: no step takes an edit out of a live row or writes over a
  tombstone.
* `PendingEditsAreRetained` (`IntentRetained`): a pending edit leaves a device's pending
  set only when it was reported saved, the event is deleted, the account is out of it,
  or the server refused the write.  A job clears only what it was started with
  (`SettleClears`), and a deletion's job ends well only on a tombstone, by the
  invariant's parts on versions and answers.
* `ImplementsRecord`: SharedEventSave implements SharedEventRecord.

`EventReplicasProofs` - lemmas about the operators of EventMerge (a merge of copies
is a copy, lists nothing deleted, never moves a stamp back, restores a member only
by a later stamp, and ends in administrators the server accepts), then the
invariant: the types, every copy well formed, and the record's stamps never missing
(`Stamped`).  The last part is needed because the merge has another rule for
missing stamps, by which an older copy *would* win.

* `TypeCorrect`: every copy shown, pending or kept for undoing is well formed.
* `AdministratorsRemain`: a merged payload always has administrators the server
  accepts, whoever demoted or removed whom.
* `DeletionsStand`, `RemovalsStand`: no copy, however old, brings back a deleted
  expense, or a removed member without a later decision.

For the two properties that compare copies a second invariant is needed
(`CopiesFollow`).  One copy is *behind* another if no part of it is newer: its deleted
expenses and receipts are among the other's, each stamp is at most the other's, and on
equal stamps the other is the one the merge prefers - closed rather than open, removed
rather than present (`Behind`, `MemberBehind`).  Both copies that are merged are behind
the outcome (`MergeIsAhead`), being behind is transitive, and merging a copy with one
it is behind gives the latter (`MergeCatchesUp`).  The invariant says that what a device
shows is behind the record when the device has nothing to deliver, that what a refused
save goes back to is behind it likewise, and that both have the record's ledger when
they have its closing.  A device that lost its access has marked its own membership,
so that one is excepted until a read restores it; a device that lost its access with
changes unsent is excepted as a whole, as in the properties.  The ledger part survives
somebody else's write only because a closed event's expenses cannot be changed
(`LedgerAccepted`).

* `SameClosingSameLedgerHolds`: who has nothing to deliver and shows the closing the
  record has shows its expenses.
* `QuietCopiesConvergeHolds`: who has nothing to deliver shows the record after the
  next read, though the merge is not symmetric.

`PendingSyncOutboxProofs` - for any number of pages, the types, with what one
`cloudWriteQueue` gives: only the first job of a page's queue has an answer or is a
flush, and there is one flush or wait for it (`OneAtATime`).  For the only page of a
browser, what keeps the edits: everything that waits is on screen and in the snapshot
(`OnScreen`); the saves of the queue and those that still wait for the configuration
are in the order they were made and no earlier one has a later one's edit (`InOrder`);
a save carries everything that waited when it began, each such edit in the payload it
would restore (`SaveOK`), an event an answer calls saved is at the server
(`AnswerOK`), and a read without a payload began with nothing waiting unless something
was saved since (`ReadOK`).  Without `SaveOK` a refused save could put back an outbox
that lacks what an earlier one left there.

* `TypeCorrect`, and `AcceptedEditsAreKeptHolds`: an accepted edit is delivered, taken
  back with a notice, or still in the outbox, whatever fails, crashes or is late.

`EventInvitesProofs` - the types with the administrators in the event and nobody both
in it and taken out (`EventOK`), each link in one row, one live open row, and every row
of a cancelled link revoked (`InvitesOK`).  The requests under way need no invariant:
`Redeem` looks again at the row and the member in its own transaction, and the proof
shows that what a request had found valid before (`CheckLink`) does not matter.

* `TypeCorrect`, `OneOpenLinkHolds`: one open link of an event is live.
* `RemovedStayOutHolds`, `CancelledLinksAdmitNobodyHolds`: whoever was taken out gets in
  only by an administrator's restoring, and a cancelled link admits nobody.
* `ReceiptsAreHonouredHolds`: a pending join is given up only when the account has the
  event or is not in it.

`ActivityNotificationsProofs` - a push is sent by the request that holds the
recipient's reservation, and a reservation is given back only while nothing has been
pushed for it.  Of a row, that it is pushed or finished only with the notification in
the inbox (`RowOK`); of a request between two calls, what it may rely on
(`RequestOK`): nobody else is in the transaction that reserves (`Alone`), what is left
to push is held, in the inbox and unsent (`TodoOK`), the recipients passed so far are
told or excused (`RoundOK`), all of them from the first push on and in a good answer
(`AllTold`), and a refusal is for an expense that is not there or a sender who is not
`steady`.  The list of recipients is read once: whoever is in `steady` when the request
ends was a member when it was read.  A request that is not running holds nothing (`Resting`): what it left
reserved is nobody's and is never given back.

* `TypeCorrect`, `NoSecondPushHolds`: a device gets at most one push of an activity.
* `ForgottenMeansToldHolds`: what the phone has crossed off is in the inbox of everybody
  who has been in the event all along, if the sender has been one the server serves.
* `InboxComesFirstHolds`: what was pushed or finished is in the inbox.

`AccountSessionProofs` - a page's mode says which account it shows and what it has
under way (`PageOK`); no page remembers a sign-in that was not made, so that a new
session is a change other pages hear of (`GivenOut`); and, unless an account was opened
elsewhere, a page that has taken its storage events works in its account's workspace or
in none (`OwnPlace`), what waits under a workspace was made by its account
(`OutboxOK`), and what is being delivered has reached its author (`PayloadOK`).  A late
answer is harmless because the account it was asked for is compared with the page's
and the stored one before it is used; the proof has a case for each pair of an answer
and a change that came before it.

* `TypeCorrect`, `OwnDataOnlyHolds`: no workspace gets another account's data, and no
  account delivers another's changes.
* `EditsAreKeptHolds`: a change is delivered for its author, waits for the author's next
  sign-in, or was thrown away by the author's sign-out or a change of accounts.

`SettlementProofs` - Settlement is made of functions: folds over lists and sets, and
`Matches`, the loop of `buildGreedyTransfers`, as a recursive function.  What such a
function computes is a matter of induction over lists.  The library's induction
theorems take an operator as a parameter, which the provers cannot instantiate, so
induction is stated here with a set in the place of the predicate: `Induction` from the
well-foundedness of the numbers, `ListInduction` and `SubsetInduction` from that.  A
recursive definition says nothing before a function that satisfies it is known to
exist: `Recursion` shows that for a measure that decreases, `FoldLaw` that a fold over
a list is given by its value on `<<>>` and by one more element, `MatchesIs` that
`Matches` has the values its definition says, as a match shortens the two queues
together.  A maximum flow has one because whatever is sent lessens what is still to be
received, and a partition into most groups because everybody together is a group; that
one of them is found first, because *found sooner* is a strict order of the finitely many
partitions.  The plan of groups settles by induction over their list.  The argument about plans is then arithmetic on lists: `After` (what transfers leave
of the balances) of two lists one after the other is `After` of `After`; netting,
combining and renaming rows do not change it; each match takes the same amount off a
debtor and a creditor, and the two queues have the same sum because the balances add up
to nothing.

* `BalancesEven`: the balances of any ledger add up to nothing, though shares may be a
  unit apart.  `RoundBalancesEven`: rounding keeps that, and puts nobody a whole unit off.
* `GreedySettles`, `OutstandingPlanSettles`: every plan - greedy, in groups, direct,
  avoiding paid routes, favoring the previous one - among any number of people consists of new transfers, or is the pending plan,
  and leaves nobody owing.  That the flow of `runMaximumFlow` is maximal is not proved,
  nor needed: whatever it is, the rest is planned by the event's method.
* `UniqueIdIsFree`, `ReconcileSettles`: reconciling keeps the payments, adds a plan under
  ids no other row has, and settles.

`SettlementReplicasProofs` - every event the system handles, the row, what a device
shows and what waits in an outbox, is shown to be a `Copy`.  Its rows settle its
expenses, exactly or to less than a unit when rounded or empty (`Balanced`).  Of the
rest: a transfer has at most one status update, none in the future (`History`); rows
have ids of their own, each payment is dated by its own update, a row that is owed again
has an update at least as recent, and each update that says paid has its paid row
(`Listing`); what is remembered are plans of unpaid rows, dated likewise (`Memory`).  A
merge may take rows from one side and takes updates from both, so without `Listing` a
row could go by an older update than the one the other side knows.
Lastly a device with changes unsent shows no update that is newer than both its outbox
and the row (`Newer`), so that a read that starts from these two does not put it back.
All this was checked by TLC as an invariant of `settlement_plans` before it was proved.
Merges (`MergeCopy`, `PreservedCopy`, `ReadCopy`, `CandidateCopy`), plans
(`PlanAnew`, `PlanKept`, `PlanRemembered`) and the handlers (`PersonChanges`) take copies to
copies and lose no update, and so does every step (`Step`).

* `Invariance`: the above.  `TypeCorrect` (`TypeOK`): no two rows share an id, amounts are positive.
* `LedgerSettled` (`PlansSettleTheLedger`): whatever is paid, reversed, added, removed,
  rounded or merged, the rows of every copy settle its expenses.
* `PaymentsHold` (`PaymentsStand`): a payment the row or a device shows stays one until
  a reversal at least as recent.
* `FirstPlanHolds` (`FirstPlanStands`): what the row remembers for a method and a state of
  the accounts is not replaced by a later plan of the same.

**Only model-checked.**

* Liveness, and what needs ENABLED: `EditsAreDelivered`, `EditsReachTheServer`,
  `ReceiptsSettle`, `ListedIsSettled`, `PagesSettle`.
* `QuietCopiesShowTheRow` and `UnrelatedWritesKeepThePlan`: they say that two plannings give
  the same rows, which needs on top of the above that plans depend on nothing but
  their inputs, through both merges and the remembered plans.
* `DeliveredStaysOnScreen`: two payloads with the same content cannot be told apart, and
  a refused save that was superseded can write its old payload into an outbox that has
  been emptied meanwhile, so an invariant would have to say which equal payloads are
  the same one.

## 5. Where code, comments and documents disagree

Two of these are runs that end in a violation, with a trace that follows the code.

* **A late creation** (`sharedEventStore.mjs:298`, run `shared_event_late_create`).
  The answer's status (`created`/`existing`) is not read: when a creation that timed
  out lands after all, the next one is answered `existing`, and edits made between
  the two are reported saved although the row does not have them.
* **Close and reopen offline** (`schema.sql:12486`, run `offline_close_and_reopen`).
  The outbox carries the closing receipt with an open event; the guard accepts a
  receipt only in the write that closes the event.  Every retry is refused, nothing
  takes the change back, and nothing this device changes afterwards is delivered.

The others were met while modelling, can be reached in the models named, and have no
run of their own.  What the code does:

*Leaving and saving (EventReplicas, PendingSyncOutbox)*

* **A pending leave** (`sharedEventStore.mjs:1165`).  A refresh while the leave waits
  makes the leaver active again on screen, and the next change stores that state as
  the new payload, although `docs/production-resilience.md:6` has the pending queue
  "preserve edits during a temporary connection failure".
* **A quick second save** (`localStore.mjs:1390`).  A payload carries every pending
  edit of its event, so a good edit is refused because of an earlier refused one: the
  good one is taken back, the refused one goes back to the outbox.  The comment at
  `:1387` says "Reject only this save. Earlier accepted work is not undone by a later
  permission failure and must remain durably retryable."
* **A late read** (`localStore.mjs:889`).  A read that began while a save was in
  flight merges the payload it remembers into the local copy after that save was
  refused and rolled back; the comment at `:186` warns that copying such a payload
  "would resurrect a rejected event on reload, even after the local rollback cleared
  it".
* **Old answers on screen.**  A read that must deliver the outbox first and fails shows
  the outbox's state, which is older than what was on screen (`localStore.mjs:1015`).
  That need not pass: when a payload holds an event the server refuses for good and
  another event of it was saved, no timer is set, every read is such a recovery, and
  what others change does not appear until the payload is gone.  The comment at `:854`
  says "A queued local write must not freeze every remote read", so that changes from a
  second phone still appear.  Besides, a partly successful save or retry stores its
  receipt over what a read stored meanwhile (`:1348`, `:1691`; the comment at `:2551`
  says "An older receipt must not erase that snapshot"), until the next read.
  `DeliveredStaysOnScreen` leaves these steps out.
* **Two pages.**  The second page's save replaces the payload the first one was
  delivering (`:2179`), and if the first page closes, its edit is nowhere.

*Settlement (SettlementReplicas)*

* **A reversal without its row** (`schema.sql:11532`).  Undoing a payment plans again
  (`app.mjs:20865`).  When the expense was deleted after the payment, the payment and
  the transfer that would pay it back cancel, the reversed row disappears, and the
  guard refuses an update that has no transfer row; `schema.sql:9590` says "A payment
  reversal keeps its audit entries and is authorized independently from ordinary
  event editing".
* **Two roundings** (`schema.sql:6404`).  The server rounds the balances and takes the
  payments off, the client takes the payments off and rounds what is left.  After a
  payment that is not in whole units the two plans differ and every write of the
  client is refused.
* **A payment marked offline** is refused when it arrives more than fifteen minutes
  after it was marked (`schema.sql:11562`); `docs/production-resilience.md:45` says of
  an unavailable Supabase "Edits remain local and enter the pending-sync queue".
* **Reopening with the payments reset** is refused while a paid row exists, by the guard
  on history (`schema.sql:9593`), unlike the stubbed server of
  `tests/reopenPaymentReset.test.mjs`.  The guard also refuses an expense added
  offline together with the payment of its transfer, and an undo by a device whose
  list order would give the remaining people other rows than the row has.
* **An empty plan.**  A debt that rounds to nothing leaves an event without transfers.
  Switching rounding off leaves it so (`appActions.mjs:226` plans again only where there
  are transfers), and the debt is not shown as owed until the settlement is opened.  So
  `PlansSettleTheLedger` asks of an empty plan what it asks of a rounded one.
* **An expense nobody owes for.**  A person who pays an expense that is theirs alone
  changes no balance, but the plan is made again where it was added, and a device with
  another order of the people may break the ties of rounding otherwise.  So
  `UnrelatedWritesKeepThePlan` is about writes that leave the expenses alone.
* **Two plans in one page.**  What is shown goes by the remembered plan
  (`eventSettlementTransfers`, `app.mjs:23613`), what is marked paid by the event's own
  rows; between a change and the next merge they need not be the same.

*Invitations (EventInvites)*

* **No link after a removal** (`eventInvites.mjs:260`).  Ensuring an event's link stores
  a token made of the event's key, always the same, and its hash is unique among the
  revoked rows too (`schema.sql:3462`).  A removal revokes every link of the event, so
  from then on every request for the link fails with the retryable answer
  `EVENT_INVITE_STORAGE_FAILED` until somebody rotates it, while
  `tests/eventInvites.test.mjs:715` is called "a recovered event member can recreate
  the stable open link without the raw space key".
* An ensure that runs while another person rotates, in an event that never had the
  stable link, replaces the link just handed out.
* **A cancelled link comes back.**  Once more than twelve later open rows were revoked,
  the stable link's own row is pruned (`schema.sql:8728`), and then asking for the link
  writes the same token again, so a link that was cancelled works.
* Redeeming locks the invitation, the member and the row in this order, a removal
  locks the row first; the database resolves the deadlock by failing one of the two.

*Announcements (ActivityNotifications)*

* **An orphaned reservation** (`schema.sql:4172`).  A reservation has no lease.  If the
  server stops after it, or the call that should complete or release it is lost,
  every retry finds a reservation that is never settled and ends there; the
  recipients after it are not reached.
* **The others pay for the sender** (`eventActivityNotifications.mjs:103`).  A first
  request fails half-way and the sender leaves, is removed, or the account's newest
  snapshots no longer have the event: the retry is answered 403, which is not retryable,
  and the expense is crossed off although members have not been told.  So it is when the
  sender is removed during a request: every later recipient is passed over
  (`schema.sql:7455`) and the answer is good.  A session that cannot be renewed, even
  because the network failed, crosses the expense off as well (`app.mjs:22376`).
* Somebody who joins after the list of recipients was read (`:127`) is not told.
* A page killed between the durable save and the entry in the list announces nothing.
* A recipient whose recovery link cannot be made is dropped without a word.
* The pause of 45 seconds between two pushes to one person is looked up under a lock of
  the activity, so two activities reserved at the same time may both push.

*The account (AccountSession)*

* **A session comes back** (`publicAccountAuthLayer.mjs:495`).  The check of a session
  stores it before it looks at whether the person has signed out meanwhile (`:898`).
  `accountAuth.mjs:553` says "Remove locally reusable credentials before the
  best-effort network logout. A slow or offline request must not let startup restore
  the old account."
* **An account on another's workspace** (`misplaced`).  Google's sign-in stores the
  session before it turns to the account's workspace; a page that starts offline just
  then opens the account on the workspace in use, and what is saved there is not
  delivered.  The password form avoids it: "Reconnect listeners must never pair the
  new token with the pre-login anonymous workspace" (`:1414`).  A page may also be left
  behind: it is open as one person, a second page signs another in by password, a third
  signs the first in again with Google, and the first page, which compares only the
  persons when it takes the storage event (`:777`), goes on while the other's workspace
  is in use.  Its sign-out then clears the other's waiting changes (`:1758`).
* `clearPreviousAccountAfterSwitch` clears the workspace in use, which may be the new
  account's by then; a sign-out throws away what waits without trying to deliver it;
  a session that is refused is removed even if it is not the stored one any more; and
  a storage event during the first wait of a sign-out reloads the page, which cancels
  the sign-out.

## 6. Abstractions

* Edits, not fields, in SharedEventSave and PendingSyncOutbox (see section 2).
* One event in EventReplicas; expenses without amounts; notes, names, categories,
  budgets (last writer wins like the parts modelled) are left out, as are guests and
  account links.
* The server's authority is its guard functions and the membership table; tokens,
  rate limits and sizes are left out.
* In EventReplicas and SettlementReplicas, `LoseAccess`, `Deliver` and `Refuse` are
  atomic; the foreground save's later edits are merged into one outbox, as in the code.
* In PendingSyncOutbox, one account; local storage never fails; the server refuses
  an event if an edit it refuses is in it.
* In Settlement, saved expenses are valid and splits are even; an id is its route and
  amount instead of their text.
* In EventInvites, a private link's expiry, links and keys of earlier formats and
  account links are left out; a request's two reads of the event are one when nothing
  is between them.
* In ActivityNotifications, new expenses only, of one person in one event; clean-up
  calls that were lost are not executed late.  Everybody is in the event at first, so
  that somebody who joins later is one who was removed before; the event's JSON and the
  table of members, which the server reads one after the other, have the same people.
* In AccountSession, renewing a token is no step, as a login stands for all its tokens;
  a page takes the events of the two storage keys that wait at once, as the handler looks
  at what is stored by then; a late answer in a page that is about to reload is counted as a failure.
  Sign-up, profiles, password recovery, the OAuth redirect and invitations in the
  address are left out.

### Not modelled

* *Payment reminders* are the next component of the plan.
* *The read cache* answers with rows whose version was confirmed by the same request.
* *Account deletion, friendships, referrals, billing, inbox, push devices, broadcasts*:
  single transactions, or calls of a service, whose steps do not meet each other.
* *User interface, service worker, native shells, metrics, runtime configuration*:
  rendering and I/O.  `app.mjs` and the layers `src/public*Layer.mjs` are more than half of
  the implementation's lines and are nearly all markup, styles, text and forms; the
  map covers their handlers that change state.  This is why the share of the
  implementation's lines in the map stays small.

## 7. Plan

Done: the save protocol, the merge and the actions, the outbox, settlement,
invitations and pending joins, announcements and the account, each with the proofs of
its safety properties (section 4).  What is left, in this order:

1. Proofs: `DeliveredStaysOnScreen`, with payloads told apart;
   `QuietCopiesShowTheRow` and `UnrelatedWritesKeepThePlan`, which need that a plan is
   determined by its inputs.
2. A refinement of EventReplicas with SharedEventSave's row as the abstract record of
   its edits.
3. Payment reminders: reservation, push and completion with leases and a cooldown.
4. Pending account links.
