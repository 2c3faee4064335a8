-------------------------- MODULE PendingSyncOutbox --------------------------
(***************************************************************************)
(* The pending-sync outbox of data/localStore.mjs: how one account's edits *)
(* get from a page, through the durable outbox and local snapshot in       *)
(* localStorage, to the shared rows and the account's workspace row in the *)
(* cloud, while requests fail, pages crash and reads finish late.          *)
(*                                                                         *)
(* A state is the set of edits it has absorbed, so merging is union; each  *)
(* edit belongs to one event.  A payload is a state with the events it     *)
(* still has to deliver.  The pages of one browser share the disk; each    *)
(* runs one cloud write at a time, in the order of its queue.              *)
(***************************************************************************)
EXTENDS Naturals, Sequences, FiniteSets

CONSTANTS
  Tab,             \* the open pages
  Event, Edit,
  EventOf,         \* the event of each edit
  Peer,            \* edits that arrive from other people's phones
  Refused,         \* edits the server refuses for good
  Narrow,          \* edits of a kind a rejected save can undo by themselves
  Nothing,
  MaxFailures,     \* bound: failed requests
  MaxCrashes       \* bound: pages killed

Payload == [state : SUBSET Edit, events : SUBSET Event]

ASSUME OutboxAssumption ==
  /\ IsFiniteSet(Event) /\ Nothing \notin Payload
  /\ Edit \subseteq DOMAIN EventOf /\ \A e \in Edit : EventOf[e] \in Event
  /\ Peer \subseteq Edit /\ Refused \subseteq Edit \ Peer /\ Narrow \subseteq Edit
  /\ MaxFailures \in Nat /\ MaxCrashes \in Nat

VARIABLES
  server,          \* edits in the shared rows
  workspace,       \* edits in the account's own row
  snapshot,        \* disk: the local copy
  outbox,          \* disk: the payload to deliver, or Nothing
  view,            \* what each page shows
  gen,             \* sharedStateSaveGeneration of each page
  starting,        \* saves and a read that wait for the runtime configuration
  queue,           \* cloudWriteQueue; the head is the running job
  loading,         \* the page's read (sharedStateLoadPromise), or Nothing
  timer,           \* whether the page's retry timer is set
  made,            \* history: edits made on this device
  accepted,        \* history: edits shown as saved on this device
  reverted,        \* history: edits taken back with a notice
  failures, crashes

disk == <<snapshot, outbox>>
cloud == <<server, workspace>>
history == <<made, accepted, reverted>>
bounds == <<failures, crashes>>
vars == <<cloud, disk, view, gen, starting, queue, loading, timer, history, bounds>>

EventsOf(S) == {EventOf[e] : e \in S}

Init ==
  /\ server = {} /\ workspace = {}
  /\ snapshot = {} /\ outbox = Nothing
  /\ view = [t \in Tab |-> {}] /\ gen = [t \in Tab |-> 0]
  /\ starting = [t \in Tab |-> <<>>] /\ queue = [t \in Tab |-> <<>>]
  /\ loading = [t \in Tab |-> Nothing] /\ timer = [t \in Tab |-> FALSE]
  /\ made = {} /\ accepted = {} /\ reverted = {} /\ failures = 0 /\ crashes = 0
-----------------------------------------------------------------------------
(* saveSharedStateToCompletion, up to the cloud write queue. *)

\* mergeSharedSyncSelections: what the save changed and what was waiting.
Selection(changed) == changed \cup (IF outbox = Nothing THEN {} ELSE outbox.events)

SaveJob(t, e) ==
  LET state == view[t] \cup {e} IN
  [kind |-> "save", edit |-> e, gen |-> gen[t] + 1, state |-> state,
   events |-> Selection(EventsOf((state \ snapshot) \cup (snapshot \ state))),
   previous |-> snapshot, prior |-> outbox, payload |-> Nothing, reply |-> Nothing]

ToDeliver(job) == [state |-> job.state, events |-> job.events]

\* Every edit is made once, here or elsewhere.
IsNew(e) == e \notin Peer \cup made

\* The outbox is written before the snapshot, both before the first await.
Save(t, e) ==
  /\ IsNew(e)
  /\ LET job == SaveJob(t, e) IN
     /\ outbox' = ToDeliver(job) /\ snapshot' = job.state
     /\ view' = [view EXCEPT ![t] = job.state]
     /\ gen' = [gen EXCEPT ![t] = @ + 1]
     /\ starting' = [starting EXCEPT ![t] = Append(@, job)]
     /\ made' = made \cup {e} /\ accepted' = accepted \cup {e}
  /\ UNCHANGED <<cloud, queue, loading, timer, reverted, bounds>>

\* The configuration is answered in the order it was asked for.
Asks(t, kind) == starting[t] # <<>> /\ Head(starting[t]).kind = kind

\* Only the newest save may write the outbox again after its await.
Configure(t) ==
  /\ Asks(t, "save")
  /\ LET job == Head(starting[t])
         current == job.gen = gen[t]
         payload == [state |-> job.state, events |-> Selection(job.events)] IN
     /\ outbox' = IF current THEN payload ELSE outbox
     /\ queue' = [queue EXCEPT ![t] =
                    Append(@, [job EXCEPT !.payload = IF current THEN payload ELSE Nothing])]
  /\ starting' = [starting EXCEPT ![t] = Tail(@)]
  /\ UNCHANGED <<cloud, snapshot, view, gen, loading, timer, history, bounds>>

Fail(n) == failures + n <= MaxFailures /\ failures' = failures + n

\* No runtime configuration: the edit stays in the outbox for the timer.
ConfigUnavailable(t) ==
  /\ Asks(t, "save") /\ Fail(1)
  /\ starting' = [starting EXCEPT ![t] = Tail(@)]
  /\ timer' = [timer EXCEPT ![t] = TRUE]
  /\ UNCHANGED <<cloud, disk, view, gen, queue, loading, history, crashes>>
-----------------------------------------------------------------------------
(* The running job: what it sends and how the cloud answers. *)

Running(t) == queue[t] # <<>> /\ Head(queue[t]).reply # Nothing
Finish(t) == queue' = [queue EXCEPT ![t] = Tail(@)]

\* flushPendingSharedStateOnce takes the payload when its turn comes.
FlushJob(t) == [kind |-> "flush", gen |-> gen[t], local |-> snapshot,
                state |-> outbox.state, events |-> outbox.events,
                payload |-> outbox, reply |-> Nothing]

StartFlush(t) ==
  /\ queue[t] # <<>> /\ Head(queue[t]).kind = "flushing"
  /\ IF outbox = Nothing
     THEN Finish(t) /\ timer' = [timer EXCEPT ![t] = FALSE]
     ELSE queue' = [queue EXCEPT ![t][1] = FlushJob(t)] /\ UNCHANGED timer
  /\ UNCHANGED <<cloud, disk, view, gen, starting, loading, history, bounds>>

\* syncAndPersistCloudState.  Of the events to deliver, some are refused (the
\* server refuses an event with a refused edit in it), some cannot be reached
\* (and of those, some were written before the answer got lost), the others
\* are saved.  The workspace is written unless every event failed.
Send(t) ==
  /\ queue[t] # <<>> /\ Head(queue[t]).kind \in {"save", "flush", "recover"}
  /\ Head(queue[t]).reply = Nothing
  /\ LET job == Head(queue[t])
         state == IF job.kind = "save" THEN job.state ELSE job.state \cup workspace
         refused == job.events \cap EventsOf(state \cap Refused)
     IN \E down \in SUBSET job.events, reached \in BOOLEAN :
        \E landed \in SUBSET (down \ refused) :
          LET saved == job.events \ (down \cup refused)
              rows == server \cup {e \in state : EventOf[e] \in saved \cup landed}
              merged == state \cup {e \in rows : EventOf[e] \in saved}
              mirrored == reached /\ (saved # {} \/ job.events = {}) IN
          /\ Fail(Cardinality(down) + IF reached THEN 0 ELSE 1)
          /\ server' = rows
          /\ workspace' = IF mirrored THEN workspace \cup merged ELSE workspace
          /\ queue' = [queue EXCEPT ![t][1].reply =
               [state |-> IF mirrored THEN merged \cup workspace ELSE merged,
                saved |-> saved, failed |-> job.events \ saved,
                ok |-> saved = job.events /\ reached,
                retryable |-> down # {} \/ ~reached]]
  /\ UNCHANGED <<disk, view, gen, starting, loading, timer, history, crashes>>

\* partialSharedSyncState: some rows are confirmed although the save failed.
Partial(reply) == reply.saved # {}

\* Mutant: a partial answer acknowledges every event.
NothingRemains(reply) == [state |-> reply.state, events |-> {}]

\* remainingPendingSharedSelection
Remaining(reply) ==
  [state |-> reply.state,
   events |-> IF outbox = Nothing THEN {} ELSE outbox.events \ reply.saved]

\* The answer is about what the disk still holds, and no newer save was made.
Current(t, job) == job.gen = gen[t] /\ job.payload = outbox

\* mergeConfirmedSaveWithCurrentLocal: a read that came in meanwhile stays.
Confirmed(state, before) == IF snapshot = before THEN state ELSE state \cup snapshot

\* reconcileCurrentPendingSync
Reconcile(t) == timer' = [timer EXCEPT ![t] = outbox # Nothing]
-----------------------------------------------------------------------------
(* What a page does with the answer. *)

SaveSucceeded(t) ==
  /\ Running(t) /\ Head(queue[t]).kind = "save" /\ Head(queue[t]).reply.ok
  /\ LET job == Head(queue[t])
         visible == Confirmed(job.reply.state, job.state)
         emptied == job.payload = outbox IN
     /\ snapshot' = IF Current(t, job) THEN visible ELSE snapshot
     /\ view' = IF Current(t, job) /\ view[t] = job.state
                THEN [view EXCEPT ![t] = visible] ELSE view
     /\ outbox' = IF emptied THEN Nothing ELSE outbox
     /\ timer' = [timer EXCEPT ![t] = outbox' # Nothing]
  /\ Finish(t)
  /\ UNCHANGED <<cloud, gen, starting, loading, history, bounds>>

\* Rolled back to the state before the save, or, for a note, a setting or an
\* event control, by undoing just that in the newest state.
RolledBack(job) == IF job.edit \in Narrow THEN snapshot \ {job.edit} ELSE job.previous

\* Mutant: a refusal empties the outbox.
NothingLeft(job) == Nothing

\* Only this save is rejected; what was waiting before it goes on waiting.
StillWaiting(job) == job.prior

SaveFailed(t) ==
  /\ Running(t) /\ Head(queue[t]).kind = "save" /\ ~Head(queue[t]).reply.ok
  /\ LET job == Head(queue[t])
         reply == job.reply
         final == ~reply.retryable /\ ~Partial(reply) IN
     /\ IF ~Current(t, job) THEN UNCHANGED <<snapshot, view, reverted>>
        ELSE IF Partial(reply)
        THEN /\ snapshot' = reply.state /\ UNCHANGED reverted
             /\ view' = IF view[t] = job.state THEN [view EXCEPT ![t] = reply.state] ELSE view
        ELSE IF reply.retryable THEN UNCHANGED <<snapshot, view, reverted>>
        ELSE /\ snapshot' = RolledBack(job)
             /\ view' = [view EXCEPT ![t] = RolledBack(job)]
             /\ reverted' = reverted \cup {job.edit}
     /\ outbox' = IF Current(t, job) /\ Partial(reply) THEN Remaining(reply)
                  ELSE IF final /\ job.payload = outbox THEN StillWaiting(job) ELSE outbox
     /\ timer' = [timer EXCEPT ![t] =
                    IF ~Current(t, job) THEN outbox' # Nothing
                    ELSE @ \/ (outbox' # Nothing /\ ~final)]
  /\ Finish(t)
  /\ UNCHANGED <<cloud, gen, starting, loading, made, accepted, bounds>>

\* A failed retry: adoptPartialSharedSyncState, and the timer unless the
\* server refused the payload for good.
RetryFailed(t, job) ==
  /\ ~job.reply.ok /\ Current(t, job)
  /\ IF Partial(job.reply)
     THEN outbox' = Remaining(job.reply) /\ snapshot' = job.reply.state
     ELSE UNCHANGED disk
  /\ timer' = [timer EXCEPT ![t] = @ \/ job.reply.retryable]

FlushAnswered(t) ==
  /\ Running(t) /\ Head(queue[t]).kind = "flush"
  /\ LET job == Head(queue[t]) IN
     \/ ~Current(t, job) /\ Reconcile(t) /\ UNCHANGED disk
     \/ /\ job.reply.ok /\ Current(t, job)
        /\ snapshot' = Confirmed(job.reply.state, job.local)
        /\ outbox' = Nothing /\ timer' = [timer EXCEPT ![t] = FALSE]
     \/ RetryFailed(t, job)
  /\ Finish(t)
  /\ UNCHANGED <<cloud, view, gen, starting, loading, history, bounds>>
-----------------------------------------------------------------------------
(* The retry timer, the online event and the flushes they queue. *)

\* Mutant: no single flight.
NoneQueued(t) == FALSE

\* pendingSyncFlushPromise: one flush at a time.
FlushQueued(t) == \E i \in DOMAIN queue[t] : queue[t][i].kind \in {"flushing", "flush"}

QueueFlush(t) ==
  queue' = IF FlushQueued(t) THEN queue
           ELSE [queue EXCEPT ![t] = Append(@, [kind |-> "flushing", reply |-> Nothing])]

TimerFires(t) ==
  /\ timer[t] /\ timer' = [timer EXCEPT ![t] = FALSE]
  /\ QueueFlush(t)
  /\ UNCHANGED <<cloud, disk, view, gen, starting, loading, history, bounds>>

\* recoverOnlineSync; with an empty outbox its flush would do nothing.
Online(t) ==
  /\ outbox # Nothing
  /\ timer' = [timer EXCEPT ![t] = FALSE]
  /\ QueueFlush(t)
  /\ UNCHANGED <<cloud, disk, view, gen, starting, loading, history, bounds>>
-----------------------------------------------------------------------------
(* loadSharedStateOnce and requestResumeSync. *)

StartLoad(t) ==
  /\ loading[t] = Nothing
  /\ loading' = [loading EXCEPT ![t] = [kind |-> "asked"]]
  /\ starting' = [starting EXCEPT ![t] = Append(@, [kind |-> "read", gen |-> gen[t]])]
  /\ UNCHANGED <<cloud, disk, view, gen, queue, timer, history, bounds>>

\* Mutant: a read never delivers the outbox.
AlwaysLeft(t) == TRUE

\* shouldDeferPendingSharedStateRetry, or an active cloud write
LeftToOwner(t) == timer[t] \/ queue[t] # <<>>

\* An outbox that waits for its timer or is being written is left to its
\* owner; otherwise the read queues a delivery of its own.
ChooseRead(t) ==
  /\ Asks(t, "read")
  /\ LET asked == Head(starting[t]).gen
         read == [kind |-> IF outbox = Nothing THEN "plain" ELSE "deferred",
                  gen |-> asked, local |-> snapshot, payload |-> outbox,
                  indexed |-> {}, remote |-> Nothing] IN
     IF outbox = Nothing \/ LeftToOwner(t)
     THEN loading' = [loading EXCEPT ![t] = read] /\ UNCHANGED queue
     ELSE /\ loading' = [loading EXCEPT ![t] = [kind |-> "recover"]]
          /\ queue' = [queue EXCEPT ![t] = Append(@,
               [kind |-> "recover", gen |-> asked, local |-> snapshot,
                state |-> outbox.state, events |-> outbox.events,
                payload |-> outbox, reply |-> Nothing])]
  /\ starting' = [starting EXCEPT ![t] = Tail(@)]
  /\ UNCHANGED <<cloud, disk, view, gen, timer, history, bounds>>

Reads(t) == loading[t] # Nothing /\ loading[t].kind \in {"plain", "deferred"}

\* The workspace, completed with every shared row.
LoadRead(t) ==
  /\ Reads(t) /\ loading[t].remote = Nothing
  /\ loading' = [loading EXCEPT ![t].indexed = workspace, ![t].remote = workspace \cup server]
  /\ UNCHANGED <<cloud, disk, view, gen, starting, queue, timer, history, bounds>>

\* The page shows what the read returned, unless the person saved something
\* since the read began; then what is new in it is merged with what is shown,
\* and stored.
Show(t, read, result, stored) ==
  LET merging == read.gen # gen[t]
      shown == IF merging THEN view[t] \cup result ELSE result IN
  /\ view' = [view EXCEPT ![t] = shown]
  /\ snapshot' = IF merging /\ shown # view[t] THEN shown ELSE stored

\* persistRecoveredEventIndex: what the rows added to the workspace is written
\* back, with the local state, unless that request fails.
KeepIndex(found, indexed) ==
  \/ UNCHANGED workspace
  \/ found # indexed /\ workspace' = workspace \cup found \cup snapshot

\* Mutant: only a newer save of this page supersedes a read.
SupersededBySave(t, read) == read.gen # gen[t]

\* A save or an answer came in since the read began.
Superseded(t, read) ==
  read.gen # gen[t] \/ (read.kind = "deferred" /\ read.payload # outbox)

LoadFinished(t) ==
  /\ Reads(t) /\ loading[t].remote # Nothing
  /\ LET read == loading[t]
         found == read.remote \cup (IF read.kind = "deferred" THEN read.payload.state ELSE {})
         result == IF Superseded(t, read) THEN found \cup snapshot ELSE found IN
     /\ Show(t, read, result, result)
     /\ IF read.kind = "plain"
        THEN KeepIndex(found, read.indexed) /\ UNCHANGED timer
        ELSE /\ IF Superseded(t, read) THEN Reconcile(t) ELSE UNCHANGED timer
             /\ UNCHANGED workspace
  /\ loading' = [loading EXCEPT ![t] = Nothing]
  /\ UNCHANGED <<server, outbox, gen, starting, queue, history, bounds>>

\* A failed read returns what was pending, or the local state, when it began.
LoadFailed(t) ==
  /\ Reads(t) /\ loading[t].remote = Nothing
  /\ Fail(1)
  /\ LET read == loading[t] IN
     IF read.kind = "plain"
     THEN Show(t, read, read.local, snapshot) /\ UNCHANGED timer
     ELSE IF Superseded(t, read) THEN Show(t, read, snapshot, snapshot) /\ Reconcile(t)
     ELSE Show(t, read, read.payload.state, snapshot) /\ UNCHANGED timer
  /\ loading' = [loading EXCEPT ![t] = Nothing]
  /\ UNCHANGED <<cloud, outbox, gen, starting, queue, history, crashes>>

\* No runtime configuration: the read returns the local state.
ReadUnavailable(t) ==
  /\ Asks(t, "read") /\ Fail(1)
  /\ Show(t, Head(starting[t]), snapshot, snapshot)
  /\ starting' = [starting EXCEPT ![t] = Tail(@)]
  /\ loading' = [loading EXCEPT ![t] = Nothing]
  /\ UNCHANGED <<cloud, outbox, gen, queue, timer, history, crashes>>

\* recoverPending: delivered and current, the outbox is emptied and the read
\* goes on to complete the state from the shared rows.
RecoverDelivered(t) ==
  /\ Running(t) /\ Head(queue[t]).kind = "recover"
  /\ LET job == Head(queue[t]) IN
     /\ job.reply.ok
     /\ IF Current(t, job)
        THEN outbox' = Nothing /\ timer' = [timer EXCEPT ![t] = FALSE]
        ELSE Reconcile(t) /\ UNCHANGED outbox
     /\ queue' = [queue EXCEPT ![t][1].kind = IF Current(t, job) THEN "hydrate" ELSE "merge"]
  /\ UNCHANGED <<cloud, snapshot, view, gen, starting, loading, history, bounds>>

RecoverFinished(t) ==
  /\ Running(t) /\ Head(queue[t]).kind \in {"hydrate", "merge"}
  /\ LET job == Head(queue[t])
         found == job.reply.state \cup server
         result == IF job.kind = "merge" THEN found \cup snapshot
                   ELSE Confirmed(found, job.local) IN
     /\ KeepIndex(found, job.reply.state)
     /\ Show(t, job, result, result)
  /\ Finish(t)
  /\ loading' = [loading EXCEPT ![t] = Nothing]
  /\ UNCHANGED <<server, outbox, gen, starting, timer, history, bounds>>

RecoverFailed(t) ==
  /\ Running(t) /\ Head(queue[t]).kind = "recover"
  /\ LET job == Head(queue[t])
         result == IF ~Current(t, job) THEN snapshot
                   ELSE IF Partial(job.reply) THEN job.reply.state ELSE job.payload.state
         stored == IF Current(t, job) /\ Partial(job.reply) THEN job.reply.state ELSE snapshot IN
     /\ ~job.reply.ok
     /\ Show(t, job, result, stored)
     /\ IF ~Current(t, job) THEN Reconcile(t) /\ UNCHANGED outbox
        ELSE /\ timer' = [timer EXCEPT ![t] = @ \/ job.reply.retryable]
             /\ outbox' = IF Partial(job.reply) THEN Remaining(job.reply) ELSE outbox
  /\ Finish(t)
  /\ loading' = [loading EXCEPT ![t] = Nothing]
  /\ UNCHANGED <<cloud, gen, starting, history, bounds>>
-----------------------------------------------------------------------------
(* The page is killed and opened again: memory starts over from the disk. *)
Reopened(t, shown) ==
  /\ crashes < MaxCrashes /\ crashes' = crashes + 1
  /\ view' = [view EXCEPT ![t] = shown]
  /\ gen' = [gen EXCEPT ![t] = 0]
  /\ starting' = [starting EXCEPT ![t] = <<>>]
  /\ queue' = [queue EXCEPT ![t] = <<>>]
  /\ loading' = [loading EXCEPT ![t] = Nothing]
  /\ timer' = [timer EXCEPT ![t] = FALSE]
  /\ UNCHANGED <<cloud, snapshot, accepted, reverted, failures>>

Crash(t) == Reopened(t, snapshot) /\ UNCHANGED <<outbox, made>>

\* Killed between the two writes of a save: the edit was not shown yet.
CrashWhileSaving(t, e) ==
  /\ IsNew(e)
  /\ outbox' = ToDeliver(SaveJob(t, e)) /\ made' = made \cup {e}
  /\ Reopened(t, snapshot)

\* Another person's edit reaches its shared row.
PeerEdit(e) ==
  /\ e \in Peer \ server
  /\ server' = server \cup {e}
  /\ UNCHANGED <<workspace, disk, view, gen, starting, queue, loading, timer, history, bounds>>

Job(t) == \/ Configure(t) \/ StartFlush(t) \/ Send(t)
          \/ SaveSucceeded(t) \/ SaveFailed(t) \/ FlushAnswered(t)
          \/ RecoverDelivered(t) \/ RecoverFinished(t) \/ RecoverFailed(t)

Load(t) == \/ StartLoad(t) \/ ChooseRead(t) \/ ReadUnavailable(t)
           \/ LoadRead(t) \/ LoadFinished(t) \/ LoadFailed(t)

Next ==
  \/ \E t \in Tab, e \in Edit : Save(t, e) \/ CrashWhileSaving(t, e)
  \/ \E t \in Tab : \/ Job(t) \/ Load(t) \/ ConfigUnavailable(t)
                    \/ TimerFires(t) \/ Online(t) \/ Crash(t)
  \/ \E e \in Peer : PeerEdit(e)

Spec == Init /\ [][Next]_vars

\* Promises settle, timers fire, and a visible page reads every second.
FairSpec == /\ Spec
            /\ \A t \in Tab : WF_vars(Job(t)) /\ WF_vars(TimerFires(t)) /\ WF_vars(Load(t))
-----------------------------------------------------------------------------
(* Properties. *)

\* The types; the cloud writes of a page run one at a time, and one flush at a
\* time is queued (flushPendingSharedState).
TypeOK ==
  /\ server \subseteq Edit /\ workspace \subseteq Edit /\ snapshot \subseteq Edit
  /\ outbox = Nothing \/ outbox \in Payload
  /\ view \in [Tab -> SUBSET Edit] /\ gen \in [Tab -> Nat] /\ timer \in [Tab -> BOOLEAN]
  /\ \A t \in Tab : \A i \in DOMAIN queue[t] :
       /\ i > 1 => queue[t][i].reply = Nothing
       /\ queue[t][i].kind = "flushing" => \A j \in 1..(i - 1) : queue[t][j].kind # "flush"
  /\ made \subseteq Edit \ Peer /\ accepted \subseteq made /\ reverted \subseteq accepted
  /\ failures \in 0..MaxFailures /\ crashes \in 0..MaxCrashes

\* An edit shown as saved is in the shared row, or waits in the outbox with
\* its event among those to deliver, or was taken back with a notice; no
\* crash, failure, late answer or late read of the only page loses it
\* (docs/production-resilience.md:6).
AcceptedEditsAreKept ==
  \A e \in accepted \ (server \cup reverted) :
    outbox # Nothing /\ e \in outbox.state /\ EventOf[e] \in outbox.events

\* What is in the shared rows and on screen stays on screen: no answer and no
\* read, however late, puts an older state back there.  A save that is refused,
\* a read and a recovery that fail do: they show what the device has.  A killed
\* page may have left an edit in the outbox that nobody saw; a read shows it,
\* and the next, which knows only what was saved since, does not.
DeliveredStaysOnScreen ==
  [][failures' = failures /\ reverted' = reverted /\ crashes' = 0
     /\ ~(\E t \in Tab : RecoverFailed(t))
       => \A t \in Tab : view[t] \cap server \subseteq view'[t]]_vars

\* Every edit is delivered once the failures end: there is always a timer, a
\* job or a read that takes care of the outbox.
EditsReachTheServer ==
  \A e \in Edit : e \in accepted ~> e \in server
=============================================================================
