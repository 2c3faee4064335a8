--------------------------- MODULE SharedEventSave ---------------------------
(***************************************************************************)
(* How the devices of several accounts write one shared event: the row of  *)
(* app_snapshots with its updated_at version and its membership table      *)
(* (supabase/schema.sql), and the read / merge / conditional-write loop of *)
(* saveSharedEventState and saveSharedEventDeletion (sharedEventStore.mjs, *)
(* cloudStore.mjs, cloudConflictRetry.mjs).  Every await is a step of its  *)
(* own; a request may outlive the client that sent it, an answer may be    *)
(* lost, and a member may be removed or let back in at any moment.         *)
(*                                                                         *)
(* The event's content is the set of edits it has absorbed: merging two    *)
(* copies is their union.  EventMerge shows what absorbing one edit does   *)
(* to the fields.                                                          *)
(***************************************************************************)
EXTENDS Naturals, FiniteSets

CONSTANTS
  Device,          \* app instances: phones and browser tabs
  Account,         \* signed-in users
  AccountOf,       \* the account each device is signed in to
  Creator,         \* the account that creates the event
  Admin,           \* accounts that administer the event
  InitialMember,   \* accounts in the roster the event is created with
  Edit,            \* the edits the devices may make
  Author,          \* the device that makes each edit
  RetryLimit,      \* CLOUD_CONFLICT_RETRY_LIMIT
  MaxFaults,       \* bound: failed reads and abandoned requests
  MaxChurn         \* bound: removals and invitations

ASSUME AccountsAssumption ==
  /\ AccountOf \in [Device -> Account]
  /\ Author \in [Edit -> Device]
  /\ Creator \in Admin
  /\ Admin \subseteq Account
  /\ Creator \in InitialMember
  /\ InitialMember \subseteq Account

ASSUME BoundsAssumption == RetryLimit \in Nat /\ MaxFaults \in Nat /\ MaxChurn \in Nat

VARIABLES
  row,             \* the event's row: kind, version (updated_at) and edits
  active,          \* accounts whose shared_snapshot_members row is active
  tombstoneReader, \* accounts recorded as recipients of the tombstone
  view,            \* what each device's own state says of the event
  local,           \* edits in each device's copy of the event
  pending,         \* edits and deletions each device still has to deliver
  job,             \* the save or deletion each device is running
  wire,            \* the write request each running job waits for
  reply,           \* the answer on its way back to that job
  stray,           \* requests whose client gave up waiting
  acknowledged,    \* edits reported saved by a conditional write
  created,         \* edits reported saved by the creation path
  faults, churn    \* bounds

serverVars == <<row, active, tombstoneReader>>
netVars    == <<wire, reply, stray>>
deviceVars == <<view, local, pending>>
ackVars    == <<acknowledged, created>>
vars == <<serverVars, deviceVars, job, netVars, ackVars, faults, churn>>
-----------------------------------------------------------------------------
Live(S)   == [kind |-> "live", edits |-> S]
Tombstone == [kind |-> "deleted", edits |-> {}]
Snapshot  == [kind : {"live"}, edits : SUBSET Edit] \cup {Tombstone}

Row == [kind : {"none", "live", "deleted"}, version : Nat, edits : SUBSET Edit]
NoRow == [kind |-> "none", version |-> 0, edits |-> {}]
RowSnapshot == [kind |-> row.kind, edits |-> row.edits]

Request == [op : {"create", "update"}, by : Account, version : Nat, snapshot : Snapshot]
NoRequest == [op |-> "none"]

Reply == {"none", "created", "existing", "updated", "conflict", "rejected"}

Step == {"idle", "read", "find", "probe", "create", "raced", "unanswered", "verify",
         "write", "reread", "reprobe"}

\* job.working is the state handed to the save when it started;
\* job.candidate what it will write next, based on the row it last read, and
\* job.version the version it read with it ("" is 0).
Job == [kind : {"none", "save", "delete"}, step : Step, working : SUBSET Edit,
        candidate : Snapshot, version : Nat, confirmed : BOOLEAN, conflicts : Nat]

NoJob == [kind |-> "none", step |-> "idle", working |-> {}, candidate |-> Tombstone,
          version |-> 0, confirmed |-> FALSE, conflicts |-> 0]

View == {"absent", "attached", "revoked", "deleting", "deleted"}

\* The row-level policy: active members read the row, and once it is a
\* tombstone only its recorded recipients do.
Visible(d) == \/ row.kind = "live" /\ AccountOf[d] \in active
              \/ row.kind = "deleted" /\ AccountOf[d] \in tombstoneReader

\* Mutant: a retry merges its edits into the tombstone.
MergeIntoTombstone(latest, candidate) ==
  [kind |-> latest.kind, edits |-> latest.edits \cup candidate.edits]

\* Mutant: the candidate replaces the copy just read.
LocalWins(latest, candidate) == candidate

\* mergeForWrite: a deletion is adopted, a live copy absorbs the candidate.
MergeForWrite(latest, candidate) ==
  IF latest.kind = "deleted" THEN latest
  ELSE Live(latest.edits \cup candidate.edits)
-----------------------------------------------------------------------------
Init ==
  /\ row = NoRow
  /\ active = {} /\ tombstoneReader = {}
  /\ view = [d \in Device |-> IF AccountOf[d] = Creator THEN "attached" ELSE "absent"]
  /\ local = [d \in Device |-> {}]
  /\ pending = [d \in Device |-> {}]
  /\ job = [d \in Device |-> NoJob]
  /\ wire = [d \in Device |-> NoRequest]
  /\ reply = [d \in Device |-> "none"]
  /\ stray = {}
  /\ acknowledged = {} /\ created = {}
  /\ faults = 0 /\ churn = 0

At(d, step) == job[d].step = step
Goto(d, step) == job' = [job EXCEPT ![d].step = step]
Finish(d) == job' = [job EXCEPT ![d] = NoJob]
-----------------------------------------------------------------------------
(* The person using device d. *)

\* An edit of the open event; it is pending until a save delivers it.
EditEvent(d, e) ==
  /\ view[d] = "attached"
  /\ Author[e] = d /\ e \notin local[d]
  /\ local' = [local EXCEPT ![d] = @ \cup {e}]
  /\ pending' = [pending EXCEPT ![d] = @ \cup {e}]
  /\ UNCHANGED <<serverVars, view, job, netVars, ackVars, faults, churn>>

\* An administrator deletes the event on this device.
DeleteEvent(d) ==
  /\ view[d] = "attached" /\ AccountOf[d] \in Admin
  /\ view' = [view EXCEPT ![d] = "deleting"]
  /\ UNCHANGED <<serverVars, local, pending, job, netVars, ackVars, faults, churn>>
-----------------------------------------------------------------------------
(* What a finished job does to the device's own state.  A job that the     *)
(* device has overtaken with a newer edit or deletion reports its result   *)
(* but leaves the state and the pending work to the next job.              *)

\* Mutant: a finished job always clears the pending work.
NeverOvertaken(d) == FALSE

Overtaken(d) ==
  \/ job[d].kind = "delete" /\ view[d] # "deleting"
  \/ job[d].kind = "save" /\ (view[d] # "attached" \/ ~(pending[d] \subseteq job[d].working))

Settle(d, newView, newLocal) ==
  IF Overtaken(d) THEN UNCHANGED deviceVars
  ELSE /\ view' = [view EXCEPT ![d] = newView]
       /\ local' = [local EXCEPT ![d] = newLocal]
       /\ pending' = [pending EXCEPT ![d] = {}]

\* mergeSharedEventIntoState of a live copy: it joins the device's copy.
AdoptLive(d, edits) == Settle(d, "attached", local[d] \cup edits)
\* mergeSharedEventIntoState of a tombstone: the event leaves the device.
AdoptDeletion(d)    == Settle(d, "deleted", {})
\* Mutant: a revoked membership removes the event like a deletion.
RevocationRemovesEvent(d) == Settle(d, "deleted", {})
\* revokeSharedEventAccess: the copy stays, its credentials go.
AdoptRevocation(d)  == Settle(d, "revoked", local[d])
-----------------------------------------------------------------------------
(* saveSharedEventState and saveSharedEventDeletion. *)

StartSave(d) ==
  /\ At(d, "idle")
  /\ view[d] = "attached" /\ pending[d] # {}
  /\ job' = [job EXCEPT ![d] = [NoJob EXCEPT !.kind = "save", !.step = "read",
                                             !.working = local[d],
                                             !.candidate = Live(local[d])]]
  /\ UNCHANGED <<serverVars, deviceVars, netVars, ackVars, faults, churn>>

StartDeletion(d) ==
  /\ At(d, "idle")
  /\ view[d] = "deleting"
  /\ job' = [job EXCEPT ![d] = [NoJob EXCEPT !.kind = "delete", !.step = "read"]]
  /\ UNCHANGED <<serverVars, deviceVars, netVars, ackVars, faults, churn>>

\* The candidate rebuilt on the row just read, with that row's version.
Rebase(d) ==
  job' = [job EXCEPT ![d].step = "write",
                     ![d].version = row.version,
                     ![d].confirmed = (row.kind = "deleted"),
                     ![d].candidate = IF job[d].kind = "delete" THEN Tombstone
                                      ELSE MergeForWrite(RowSnapshot, @)]

\* readLatestForWrite before the first write: payload, version and
\* confirmedDeletion all come from one read.
FirstRead(d) ==
  /\ At(d, "read")
  /\ \/ /\ Visible(d) /\ row.kind = "deleted"
        /\ AdoptDeletion(d)
        /\ Finish(d)
        /\ acknowledged' = acknowledged \cup job[d].working
     \/ /\ Visible(d) /\ row.kind = "live"
        /\ Rebase(d)
        /\ UNCHANGED <<deviceVars, acknowledged>>
     \/ /\ ~Visible(d)
        /\ Goto(d, IF job[d].kind = "delete" THEN "write" ELSE "find")
        /\ UNCHANGED <<deviceVars, acknowledged>>
  /\ UNCHANGED <<serverVars, netVars, created, faults, churn>>

\* findAccessibleSharedEvent: the membership index may know the live event
\* under other credentials, before a creation or after a failed one.
FindAccessible(d) ==
  /\ job[d].step \in {"find", "raced", "unanswered"}
  /\ \/ /\ row.kind = "live" /\ Visible(d)
        /\ Rebase(d)
     \/ /\ ~(row.kind = "live" /\ Visible(d))
        /\ \/ At(d, "find") /\ Goto(d, "probe")
           \/ At(d, "raced") /\ Goto(d, "reprobe")
           \/ At(d, "unanswered") /\ Finish(d)
  /\ UNCHANGED <<serverVars, deviceVars, netVars, ackVars, faults, churn>>

\* A permanent refusal.  The save that made the newest change takes it back
\* and leaves what was pending before it; the retry worker keeps everything.
Reject(d) ==
  /\ Finish(d)
  /\ IF Overtaken(d) THEN UNCHANGED deviceVars
     ELSE IF job[d].kind = "delete"
     THEN /\ view' \in {[view EXCEPT ![d] = "attached"], view}
          /\ UNCHANGED <<local, pending>>
     ELSE \E kept \in SUBSET pending[d] :
            /\ local' = [local EXCEPT ![d] = (@ \ pending[d]) \cup kept]
            /\ pending' = [pending EXCEPT ![d] = kept]
            /\ UNCHANGED view

\* Mutant: a missing row counts as a lost membership.
MissingRowRevokes(d) == AccountOf[d] \notin active

\* join_shared_event answers "no longer a member" for a live row only.
RevocationConfirmed(d) == row.kind = "live" /\ AccountOf[d] \notin active

\* sharedEventMembershipWasRevoked: only that answer revokes.  Otherwise the
\* first probe goes on to create the row, and the one made after a rejected
\* write ends the job.
ProbeMembership(d) ==
  /\ job[d].step \in {"probe", "reprobe"}
  /\ \/ /\ RevocationConfirmed(d)
        /\ AdoptRevocation(d)
        /\ Finish(d)
     \/ /\ ~RevocationConfirmed(d)
        /\ IF At(d, "probe") THEN Goto(d, "create") /\ UNCHANGED deviceVars
                             ELSE Reject(d)
  /\ UNCHANGED <<serverVars, netVars, ackVars, faults, churn>>

SendCreate(d) ==
  /\ At(d, "create") /\ wire[d] = NoRequest /\ reply[d] = "none"
  /\ wire' = [wire EXCEPT ![d] = [op |-> "create", by |-> AccountOf[d], version |-> 0,
                                  snapshot |-> Live(job[d].working)]]
  /\ UNCHANGED <<serverVars, deviceVars, job, reply, stray, ackVars, faults, churn>>

\* Both "created" and "existing" answer HTTP 200, and createSharedEventSnapshot
\* does not read which: the row is read back.  A refusal may mean another
\* device of the account won the race.
CreateAnswered(d) ==
  /\ At(d, "create") /\ reply[d] # "none"
  /\ Goto(d, IF reply[d] = "rejected" THEN "raced" ELSE "verify")
  /\ reply' = [reply EXCEPT ![d] = "none"]
  /\ UNCHANGED <<serverVars, deviceVars, wire, stray, ackVars, faults, churn>>

\* The row read back joins the device's copy; if it cannot be read the
\* creation is refused as unverified.
VerifyCreated(d) ==
  /\ At(d, "verify")
  /\ \/ /\ ~Visible(d)
        /\ Reject(d)
        /\ UNCHANGED created
     \/ /\ Visible(d) /\ row.kind = "deleted"
        /\ AdoptDeletion(d) /\ Finish(d)
        /\ UNCHANGED created
     \/ /\ Visible(d) /\ row.kind = "live"
        /\ AdoptLive(d, row.edits) /\ Finish(d)
        /\ created' = created \cup job[d].working
  /\ UNCHANGED <<serverVars, netVars, acknowledged, faults, churn>>

\* What a successful job reports and adopts.
Succeed(d) ==
  /\ IF job[d].candidate.kind = "deleted" THEN AdoptDeletion(d)
     ELSE AdoptLive(d, job[d].candidate.edits)
  /\ acknowledged' = acknowledged \cup job[d].working
  /\ Finish(d)

\* The conflict branch of saveCloudStateWithConflictRetry.
Conflict(d) ==
  IF job[d].conflicts >= RetryLimit THEN Finish(d)
  ELSE job' = [job EXCEPT ![d].conflicts = @ + 1, ![d].step = "reread"]

\* Mutant: the version is taken from the newest row, not from the read the
\* candidate was rebuilt on.
UnpinnedRequest(d) == [op |-> "update", by |-> AccountOf[d], version |-> row.version,
                       snapshot |-> job[d].candidate]

UpdateRequest(d) == [op |-> "update", by |-> AccountOf[d], version |-> job[d].version,
                     snapshot |-> job[d].candidate]

\* One pass of saveCloudStateWithConflictRetry: a confirmed deletion needs no
\* request, a missing version is a conflict without one, anything else is the
\* conditional write pinned to the version the candidate was rebuilt on.
Write(d) ==
  /\ At(d, "write") /\ wire[d] = NoRequest /\ reply[d] = "none"
  /\ \/ /\ job[d].confirmed
        /\ Succeed(d)
        /\ UNCHANGED wire
     \/ /\ ~job[d].confirmed /\ job[d].version = 0
        /\ Conflict(d)
        /\ UNCHANGED <<deviceVars, acknowledged, wire>>
     \/ /\ ~job[d].confirmed /\ job[d].version # 0
        /\ wire' = [wire EXCEPT ![d] = UpdateRequest(d)]
        /\ UNCHANGED <<deviceVars, acknowledged, job>>
  /\ UNCHANGED <<serverVars, reply, stray, created, faults, churn>>

\* A refused save probes the membership; a refused deletion just fails.
WriteAnswered(d) ==
  /\ At(d, "write") /\ reply[d] # "none"
  /\ reply' = [reply EXCEPT ![d] = "none"]
  /\ \/ /\ reply[d] = "updated"
        /\ Succeed(d)
     \/ /\ reply[d] = "conflict"
        /\ Conflict(d)
        /\ UNCHANGED <<deviceVars, acknowledged>>
     \/ /\ reply[d] = "rejected" /\ job[d].kind = "save"
        /\ Goto(d, "reprobe")
        /\ UNCHANGED <<deviceVars, acknowledged>>
     \/ /\ reply[d] = "rejected" /\ job[d].kind = "delete"
        /\ Reject(d)
        /\ UNCHANGED acknowledged
  /\ UNCHANGED <<serverVars, wire, stray, created, faults, churn>>

\* readLatestForWrite after a conflict.  A row this account can no longer
\* read leaves the candidate as it was, with no version.
Reread(d) ==
  /\ At(d, "reread")
  /\ IF Visible(d) THEN Rebase(d)
     ELSE job' = [job EXCEPT ![d].step = "write", ![d].version = 0, ![d].confirmed = FALSE]
  /\ UNCHANGED <<serverVars, deviceVars, netVars, ackVars, faults, churn>>
-----------------------------------------------------------------------------
(* The database. Each request runs in one transaction that locks the row.  *)

\* Mutant: the creation is an upsert.
CreateUpserts(r) == IF r.by = Creator THEN "created" ELSE "rejected"

\* create_shared_event_snapshot: only the creator's account creates, and a
\* repeated creation by the same member is answered without a write.
CreateReply(r) ==
  IF r.by # Creator THEN "rejected"
  ELSE IF row.kind = "none" THEN "created"
  ELSE IF row.kind = "live" /\ r.by \in active THEN "existing" ELSE "rejected"

\* Mutant: the version is not compared.
LastWriterWins(r) ==
  IF row.kind = "none" \/ r.by \notin active THEN "rejected"
  ELSE IF r.snapshot.kind = "deleted" /\ r.by \notin Admin THEN "rejected"
  ELSE "updated"

\* update_shared_event_snapshot: membership first, then the version, then
\* the guards on what is written (a deletion is an administrator's).
UpdateReply(r) ==
  IF row.kind = "none" \/ r.by \notin active THEN "rejected"
  ELSE IF r.version # row.version THEN "conflict"
  ELSE IF r.snapshot.kind = "deleted" /\ r.by \notin Admin THEN "rejected"
  ELSE "updated"

ReplyTo(r) == IF r.op = "create" THEN CreateReply(r) ELSE UpdateReply(r)

\* The write itself and its triggers: sync_shared_snapshot_members and
\* capture_shared_snapshot_tombstone_recipients.
Apply(r) ==
  \/ /\ ReplyTo(r) = "created"
     /\ row' = [kind |-> "live", version |-> 1, edits |-> r.snapshot.edits]
     /\ active' = InitialMember
     /\ UNCHANGED tombstoneReader
  \/ /\ ReplyTo(r) = "updated"
     /\ row' = [kind |-> r.snapshot.kind, version |-> row.version + 1,
                edits |-> r.snapshot.edits]
     /\ IF r.snapshot.kind = "deleted"
        THEN tombstoneReader' = active /\ active' = {}
        ELSE UNCHANGED <<active, tombstoneReader>>
  \/ /\ ReplyTo(r) \notin {"created", "updated"}
     /\ UNCHANGED serverVars

\* The request of a job that still waits.
Execute(d) ==
  /\ wire[d] # NoRequest
  /\ Apply(wire[d])
  /\ reply' = [reply EXCEPT ![d] = ReplyTo(wire[d])]
  /\ wire' = [wire EXCEPT ![d] = NoRequest]
  /\ UNCHANGED <<deviceVars, job, stray, ackVars, faults, churn>>

\* A request whose client gave up on it still arrives.
ExecuteStray(r) ==
  /\ r \in stray
  /\ Apply(r)
  /\ stray' = stray \ {r}
  /\ UNCHANGED <<deviceVars, job, wire, reply, ackVars, faults, churn>>

\* Another administrator's settings write removes a member: a new version of
\* the row, and the membership trigger marks the account removed.
RemoveMember(a) ==
  /\ row.kind = "live" /\ a \in active /\ a # Creator
  /\ churn < MaxChurn /\ churn' = churn + 1
  /\ row' = [row EXCEPT !.version = @ + 1]
  /\ active' = active \ {a}
  /\ UNCHANGED <<tombstoneReader, deviceVars, job, netVars, ackVars, faults>>

\* An account gets in: it redeems an invitation, or an administrator restores
\* it.  Both write the row with the account in its roster, and both leave the
\* content alone.
AdmitMember(a) ==
  /\ row.kind = "live" /\ a \notin active
  /\ churn < MaxChurn /\ churn' = churn + 1
  /\ row' = [row EXCEPT !.version = @ + 1]
  /\ active' = active \cup {a}
  /\ UNCHANGED <<tombstoneReader, deviceVars, job, netVars, ackVars, faults>>
-----------------------------------------------------------------------------
(* Failures. *)

\* A read fails or the whole app is stopped: the job is gone, what was
\* pending is still in the durable outbox, a request already sent travels on.
\* A creation whose request is abandoned looks for the event first.
GiveUp(d) ==
  /\ ~At(d, "idle")
  /\ faults < MaxFaults /\ faults' = faults + 1
  /\ stray' = IF wire[d] = NoRequest THEN stray ELSE stray \cup {wire[d]}
  /\ wire' = [wire EXCEPT ![d] = NoRequest]
  /\ reply' = [reply EXCEPT ![d] = "none"]
  /\ \/ Finish(d)
     \/ /\ At(d, "create") /\ (wire[d] # NoRequest \/ reply[d] # "none")
        /\ Goto(d, "unanswered")
  /\ UNCHANGED <<serverVars, deviceVars, ackVars, churn>>

\* loadSharedState with nothing pending and nothing in flight: the device
\* takes over what its account can see, and drops its credentials only on
\* the explicit answer.
Refresh(d) ==
  /\ At(d, "idle") /\ pending[d] = {} /\ view[d] \notin {"deleting", "deleted"}
  /\ \/ /\ Visible(d) /\ row.kind = "live"
        /\ view' = [view EXCEPT ![d] = "attached"]
        /\ local' = [local EXCEPT ![d] = @ \cup row.edits]
     \/ /\ Visible(d) /\ row.kind = "deleted"
        /\ view' = [view EXCEPT ![d] = "deleted"]
        /\ local' = [local EXCEPT ![d] = {}]
     \/ /\ view[d] = "attached" /\ RevocationConfirmed(d)
        /\ view' = [view EXCEPT ![d] = "revoked"]
        /\ UNCHANGED local
  /\ UNCHANGED <<serverVars, pending, job, netVars, ackVars, faults, churn>>
-----------------------------------------------------------------------------
Work(d) == \/ StartSave(d) \/ StartDeletion(d) \/ FirstRead(d) \/ FindAccessible(d)
           \/ ProbeMembership(d) \/ SendCreate(d) \/ CreateAnswered(d)
           \/ VerifyCreated(d) \/ Write(d) \/ WriteAnswered(d) \/ Reread(d)

Next == \/ \E d \in Device : Work(d) \/ Execute(d) \/ GiveUp(d) \/ Refresh(d)
        \/ \E d \in Device, e \in Edit : EditEvent(d, e)
        \/ \E d \in Device : DeleteEvent(d)
        \/ \E r \in stray : ExecuteStray(r)
        \/ \E a \in Account : RemoveMember(a) \/ AdmitMember(a)

Spec == Init /\ [][Next]_vars

\* Jobs run to their end, the retry timer starts pending ones again, and a
\* request that waits is answered.
Fairness == \A d \in Device : WF_vars(Work(d)) /\ WF_vars(Execute(d))

FairSpec == Spec /\ Fairness
-----------------------------------------------------------------------------
(* Properties. *)

\* The types: the row, the members, and every device's state, job, request
\* and answer.
TypeOK ==
  /\ row \in Row
  /\ active \subseteq Account /\ tombstoneReader \subseteq Account
  /\ view \in [Device -> View]
  /\ local \in [Device -> SUBSET Edit] /\ pending \in [Device -> SUBSET Edit]
  /\ job \in [Device -> Job]
  /\ wire \in [Device -> Request \cup {NoRequest}]
  /\ reply \in [Device -> Reply]
  /\ stray \subseteq Request
  /\ acknowledged \subseteq Edit /\ created \subseteq Edit
  /\ faults \in 0..MaxFaults /\ churn \in 0..MaxChurn

\* A write that the version check would let through right now carries
\* everything the live row holds, whoever prepared it and however long it was
\* under way: the version sent belongs to the payload the candidate was merged
\* with, never to a newer read (readLatestForWrite, saveCloudState's pinned
\* expectedVersion).
OnBaseline(version, snapshot) ==
  version = row.version /\ snapshot.kind = "live" => row.edits \subseteq snapshot.edits

BaselineMatchesVersion ==
  /\ \A d \in Device :
       /\ wire[d] # NoRequest /\ wire[d].op = "update"
            => OnBaseline(wire[d].version, wire[d].snapshot)
       /\ At(d, "write") /\ job[d].version # 0
            => OnBaseline(job[d].version, job[d].candidate)
  /\ \A r \in stray : r.op = "update" => OnBaseline(r.version, r.snapshot)

\* No interleaving of saves, retries, strays and removals ever takes a
\* committed edit out of the live row, and a tombstone is never written over:
\* a stale save does not bring a deleted event back.
RecordOnlyGrows ==
  [][/\ row.kind = "live" => \/ row'.kind = "deleted"
                             \/ row'.kind = "live" /\ row.edits \subseteq row'.edits
     /\ row.kind = "deleted" => row' = row]_vars

\* Whatever a conditional write reported saved is still in the record however
\* the other devices race, until an administrator deletes the event.
AcknowledgedEditsStay == row.kind = "deleted" \/ acknowledged \subseteq row.edits

\* The same for edits reported saved by the creation path, whose answer does
\* not say whether the row was created with them or existed already.
CreatedEditsStay == row.kind = "deleted" \/ created \subseteq row.edits

\* A device drops its copy of an event only because the shared row really is
\* a tombstone: an unreadable or missing row never deletes it.
DroppedOnlyWhenDeleted == \A d \in Device : view[d] = "deleted" => row.kind = "deleted"

\* A pending edit leaves the outbox only when it was reported saved, the event
\* is deleted, the server says the account is no member, or the server refused
\* the write: "a missing row or transport error alone must retain intent".
IntentRetained ==
  [][\A d \in Device : \A e \in pending[d] \ pending'[d] :
       \/ e \in acknowledged' \cup created'
       \/ row.kind = "deleted"
       \/ row.kind = "live" /\ AccountOf[d] \notin active
       \/ job[d].step \in {"reprobe", "verify"}]_vars

\* The detailed protocol implements the record the members are promised.
Record == INSTANCE SharedEventRecord
            WITH committed <- row.edits, deleted <- (row.kind = "deleted")
RecordSpec == Record!Spec

\* Every edit made on a device reaches the record, unless the event is deleted
\* or the account is no longer a member.
EditsAreDelivered ==
  \A e \in Edit :
    LET d == Author[e] IN
    e \in pending[d] ~> \/ e \in row.edits
                        \/ row.kind = "deleted" \/ view[d] = "deleting"
                        \/ RevocationConfirmed(d)
=============================================================================
