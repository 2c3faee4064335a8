------------------------ MODULE SharedEventSaveProofs ------------------------
(***************************************************************************)
(* Proofs, for every set of devices, accounts and edits and every bound,   *)
(* that the conditional-write protocol of SharedEventSave never loses a    *)
(* committed or an acknowledged edit and implements SharedEventRecord.     *)
(***************************************************************************)
EXTENDS SharedEventSave, TLAPS

(***************************************************************************)
(* The inductive invariant.  A version names one content of the row        *)
(* (RequestOK: an update under way either is older than the row or carries *)
(* everything the row holds), a job's candidate contains what the job was  *)
(* started with, and an "updated" answer still describes the row.          *)
(***************************************************************************)
RowOK == /\ row.kind = "none" <=> row.version = 0
         /\ row.kind # "live" => row.edits = {}
         /\ row.kind = "deleted" => active = {}

RequestOK(r) == r.op = "update" => /\ r.version # 0 /\ r.version <= row.version
                                   /\ OnBaseline(r.version, r.snapshot)

WireOK(d) == wire[d] # NoRequest =>
               /\ RequestOK(wire[d])
               /\ reply[d] = "none"
               /\ At(d, "write") \/ At(d, "create")
               /\ wire[d].op = "update" => At(d, "write") /\ wire[d].snapshot = job[d].candidate
               /\ At(d, "write") => wire[d].op = "update"

ReplyOK(d) == /\ At(d, "create") => reply[d] # "updated"
              /\ reply[d] # "none" => At(d, "write") \/ At(d, "create")
              /\ reply[d] = "updated" =>
                   \/ row.kind = "deleted"
                   \/ /\ row.kind = "live" /\ job[d].candidate.kind = "live"
                      /\ job[d].candidate.edits \subseteq row.edits

CandidateOK(d) ==
  /\ job[d].kind = "delete" => job[d].working = {} /\ job[d].candidate = Tombstone
  /\ job[d].kind = "save" => IF job[d].candidate.kind = "live"
                             THEN job[d].working \subseteq job[d].candidate.edits
                             ELSE row.kind = "deleted"
  /\ job[d].kind = "none" => job[d] = NoJob

VersionOK(d) == /\ job[d].version <= row.version
                /\ job[d].version # 0 => OnBaseline(job[d].version, job[d].candidate)
                /\ job[d].confirmed => row.kind = "deleted"

JobOK(d) == WireOK(d) /\ ReplyOK(d) /\ CandidateOK(d) /\ VersionOK(d)

IInv == /\ TypeOK
        /\ RowOK
        /\ \A r \in stray : RequestOK(r)
        /\ \A d \in Device : JobOK(d)
        /\ AcknowledgedEditsStay
        /\ DroppedOnlyWhenDeleted

(***************************************************************************)
(* What any transaction may do to the row and the membership table.        *)
(***************************************************************************)
Grows == /\ row' \in Row /\ active' \subseteq Account /\ tombstoneReader' \subseteq Account
         /\ row'.version >= row.version
         /\ row'.version = row.version => row' = row
         /\ row.kind = "deleted" => row' = row
         /\ row.kind = "live" => \/ row'.kind = "deleted"
                                 \/ row'.kind = "live" /\ row.edits \subseteq row'.edits
         /\ row'.kind = "none" <=> row'.version = 0
         /\ row'.kind = "deleted" => active' = {} /\ row'.edits = {}
-----------------------------------------------------------------------------
\* The request of a create or an update that is on baseline only grows the row.
LEMMA ApplyGrows ==
  ASSUME TypeOK, RowOK, NEW r \in Request, RequestOK(r), Apply(r)
  PROVE  Grows
<1> USE AccountsAssumption
<1>1. CASE ReplyTo(r) = "created"
  <2>1. row.kind = "none" /\ row.version = 0
    BY <1>1 DEF ReplyTo, CreateReply, UpdateReply, RowOK
  <2>2. /\ row' = [kind |-> "live", version |-> 1, edits |-> r.snapshot.edits]
        /\ active' = InitialMember /\ tombstoneReader' = tombstoneReader
    BY <1>1 DEF Apply
  <2>3. r.snapshot.edits \in SUBSET Edit
    BY DEF Request, Snapshot, Tombstone
  <2> QED BY <2>1, <2>2, <2>3 DEF Grows, TypeOK, Row
<1>2. CASE ReplyTo(r) = "updated"
  <2>1. /\ r.op = "update" /\ row.kind # "none" /\ r.by \in active
        /\ r.version = row.version
    BY <1>2 DEF ReplyTo, CreateReply, UpdateReply, Request
  <2>2. row.kind = "live"
    BY <2>1 DEF RowOK, TypeOK, Row
  <2>3. /\ row' = [kind |-> r.snapshot.kind, version |-> row.version + 1,
                   edits |-> r.snapshot.edits]
        /\ IF r.snapshot.kind = "deleted"
           THEN tombstoneReader' = active /\ active' = {}
           ELSE UNCHANGED <<active, tombstoneReader>>
    BY <1>2 DEF Apply
  <2>4. /\ r.snapshot.kind \in {"live", "deleted"} /\ r.snapshot.edits \in SUBSET Edit
        /\ r.snapshot.kind = "deleted" => r.snapshot.edits = {}
        /\ row.version \in Nat
    BY DEF Request, Snapshot, Tombstone, TypeOK, Row
  <2>5. r.snapshot.kind = "live" => row.edits \subseteq r.snapshot.edits
    BY <2>1 DEF RequestOK, OnBaseline
  <2> QED BY <2>2, <2>3, <2>4, <2>5 DEF Grows, TypeOK, Row
<1>3. CASE ReplyTo(r) \notin {"created", "updated"}
  <2>1. UNCHANGED serverVars
    BY <1>3 DEF Apply
  <2> QED BY <2>1 DEF Grows, serverVars, TypeOK, RowOK, Row
<1> QED BY <1>1, <1>2, <1>3

LEMMA UnchangedGrows ==
  ASSUME IInv, UNCHANGED serverVars
  PROVE  Grows
BY DEF IInv, Grows, serverVars, TypeOK, RowOK, Row

\* Growth alone preserves what is said of stray requests and of the jobs the
\* step leaves alone.
LEMMA GrowsKeepsRequest ==
  ASSUME IInv, Grows, NEW r \in Request, RequestOK(r)
  PROVE  RequestOK(r)'
<1>1. /\ row.version \in Nat /\ row'.version \in Nat /\ r.version \in Nat
      /\ row'.version >= row.version
      /\ row'.version = row.version => row' = row
  BY DEF IInv, Grows, TypeOK, Row, Request
<1>2. SUFFICES ASSUME r.op = "update"
               PROVE  /\ r.version # 0 /\ r.version <= row'.version
                      /\ r.version = row'.version /\ r.snapshot.kind = "live"
                           => row'.edits \subseteq r.snapshot.edits
  BY DEF RequestOK, OnBaseline
<1>3. /\ r.version # 0 /\ r.version <= row.version
      /\ r.version = row.version /\ r.snapshot.kind = "live"
           => row.edits \subseteq r.snapshot.edits
  BY <1>2 DEF RequestOK, OnBaseline
<1>4. r.version = row'.version => row' = row
  BY <1>1, <1>3
<1> QED BY <1>1, <1>3, <1>4

LEMMA GrowsKeepsJob ==
  ASSUME IInv, Grows, NEW x \in Device,
         job'[x] = job[x], wire'[x] = wire[x], reply'[x] = reply[x]
  PROVE  JobOK(x)'
<1>1. JobOK(x) /\ job[x] \in Job /\ wire[x] \in Request \cup {NoRequest} /\ row \in Row
  BY DEF IInv, TypeOK
<1>2. WireOK(x)'
  <2>1. WireOK(x) BY <1>1 DEF JobOK
  <2>2. wire[x] # NoRequest => RequestOK(wire[x])'
    BY <1>1, <2>1, GrowsKeepsRequest DEF WireOK, RequestOK, OnBaseline, Request, NoRequest,
       Grows, Row
  <2> QED BY <2>1, <2>2 DEF WireOK, At, RequestOK, OnBaseline
<1>3. ReplyOK(x)'
  BY <1>1 DEF JobOK, ReplyOK, Grows, At
<1>4. CandidateOK(x)'
  BY <1>1 DEF JobOK, CandidateOK, Grows
<1>5. VersionOK(x)'
  BY <1>1 DEF JobOK, VersionOK, Grows, OnBaseline, Row, Job
<1> QED BY <1>2, <1>3, <1>4, <1>5 DEF JobOK

\* What a finished job may do to its device's state.
DeviceTypeOK == /\ view \in [Device -> View]
                /\ local \in [Device -> SUBSET Edit]
                /\ pending \in [Device -> SUBSET Edit]

LEMMA SettleKeeps ==
  ASSUME DeviceTypeOK, NEW d \in Device, NEW v \in View, NEW l \in SUBSET Edit, Settle(d, v, l)
  PROVE  /\ DeviceTypeOK'
         /\ \A x \in Device : view'[x] = "deleted" => view[x] = "deleted" \/ v = "deleted"
BY DEF DeviceTypeOK, Settle, deviceVars

LEMMA RejectKeeps ==
  ASSUME DeviceTypeOK, NEW d \in Device, Reject(d)
  PROVE  /\ DeviceTypeOK'
         /\ \A x \in Device : view'[x] = "deleted" => view[x] = "deleted"
BY DEF DeviceTypeOK, Reject, deviceVars, View
-----------------------------------------------------------------------------
(* Steps of one device that leave the database alone.                      *)

JobTypeOK == job \in [Device -> Job]
NetTypeOK == wire \in [Device -> Request \cup {NoRequest}] /\ reply \in [Device -> Reply]

LEMMA LocalStepKeeps ==
  ASSUME IInv, NEW d \in Device, UNCHANGED <<serverVars, stray, churn>>,
         DeviceTypeOK', JobTypeOK', NetTypeOK',
         acknowledged' \subseteq Edit, created' \subseteq Edit, faults' \in 0..MaxFaults,
         \A x \in Device \ {d} :
           job'[x] = job[x] /\ wire'[x] = wire[x] /\ reply'[x] = reply[x],
         JobOK(d)',
         row.kind = "deleted" \/ acknowledged' \subseteq row.edits,
         \A x \in Device : view'[x] = "deleted" => row.kind = "deleted"
  PROVE  IInv'
<1>1. Grows BY UnchangedGrows DEF serverVars
<1>2. TypeOK'
  BY DEF IInv, TypeOK, DeviceTypeOK, JobTypeOK, NetTypeOK, serverVars
<1>3. RowOK' BY DEF IInv, RowOK, serverVars
<1>4. \A r \in stray' : RequestOK(r)'
  BY <1>1, GrowsKeepsRequest DEF IInv, TypeOK
<1>5. \A x \in Device : JobOK(x)'
  BY <1>1, GrowsKeepsJob
<1>6. AcknowledgedEditsStay' BY DEF AcknowledgedEditsStay, serverVars
<1>7. DroppedOnlyWhenDeleted' BY DEF DroppedOnlyWhenDeleted, serverVars
<1> QED BY <1>2, <1>3, <1>4, <1>5, <1>6, <1>7 DEF IInv

\* The common case: only job[d] changes.
LEMMA JobStepKeeps ==
  ASSUME IInv, NEW d \in Device, NEW j \in Job, job' = [job EXCEPT ![d] = j],
         UNCHANGED <<serverVars, deviceVars, netVars, ackVars, faults, churn>>,
         JobOK(d)'
  PROVE  IInv'
<1>1. DeviceTypeOK' BY DEF IInv, TypeOK, DeviceTypeOK, deviceVars
<1>2. JobTypeOK' BY DEF IInv, TypeOK, JobTypeOK
<1>3. NetTypeOK' BY DEF IInv, TypeOK, NetTypeOK, netVars
<1>4. acknowledged' \subseteq Edit /\ created' \subseteq Edit /\ faults' \in 0..MaxFaults
  BY DEF IInv, TypeOK, ackVars
<1>5. \A x \in Device \ {d} :
         job'[x] = job[x] /\ wire'[x] = wire[x] /\ reply'[x] = reply[x]
  BY DEF IInv, TypeOK, netVars
<1>6. row.kind = "deleted" \/ acknowledged' \subseteq row.edits
  BY DEF IInv, AcknowledgedEditsStay, ackVars
<1>7. \A x \in Device : view'[x] = "deleted" => row.kind = "deleted"
  BY DEF IInv, DroppedOnlyWhenDeleted, deviceVars
<1> QED
  BY <1>1, <1>2, <1>3, <1>4, <1>5, <1>6, <1>7, LocalStepKeeps DEF netVars

LEMMA NoJobOK ==
  ASSUME IInv, NEW d \in Device, row' = row, job'[d] = NoJob,
         wire'[d] = NoRequest, reply'[d] = "none"
  PROVE  JobOK(d)'
BY DEF JobOK, WireOK, ReplyOK, CandidateOK, VersionOK, NoJob, At, IInv, TypeOK, Row

\* Outside the two steps that wait for an answer nothing is under way.
LEMMA QuietOutsideRequests ==
  ASSUME IInv, NEW d \in Device, job[d].step \notin {"write", "create"}
  PROVE  wire[d] = NoRequest /\ reply[d] = "none"
BY DEF IInv, JobOK, WireOK, ReplyOK, At
-----------------------------------------------------------------------------
(* One lemma per step.                                                     *)

LEMMA InitHolds == Init => IInv
BY AccountsAssumption, BoundsAssumption
   DEF Init, IInv, TypeOK, RowOK, JobOK, WireOK, ReplyOK, CandidateOK, VersionOK,
       AcknowledgedEditsStay, DroppedOnlyWhenDeleted, NoRow, Row, View, Job, NoJob, Step,
       Snapshot, Tombstone, Reply, At

LEMMA EditEventKeeps ==
  ASSUME IInv, NEW d \in Device, NEW e \in Edit, EditEvent(d, e)
  PROVE  IInv'
<1>1. JobOK(d)' BY UnchangedGrows, GrowsKeepsJob DEF EditEvent, netVars
<1>2. DeviceTypeOK' BY DEF EditEvent, IInv, TypeOK, DeviceTypeOK
<1>3. JobTypeOK' /\ NetTypeOK' BY DEF EditEvent, IInv, TypeOK, JobTypeOK, NetTypeOK, netVars
<1> QED
  BY <1>1, <1>2, <1>3, LocalStepKeeps
     DEF EditEvent, IInv, TypeOK, AcknowledgedEditsStay, DroppedOnlyWhenDeleted, netVars, ackVars

LEMMA DeleteEventKeeps ==
  ASSUME IInv, NEW d \in Device, DeleteEvent(d)
  PROVE  IInv'
<1>1. JobOK(d)' BY UnchangedGrows, GrowsKeepsJob DEF DeleteEvent, netVars
<1>2. DeviceTypeOK' BY DEF DeleteEvent, IInv, TypeOK, DeviceTypeOK, View
<1>3. JobTypeOK' /\ NetTypeOK' BY DEF DeleteEvent, IInv, TypeOK, JobTypeOK, NetTypeOK, netVars
<1>4. \A x \in Device : view'[x] = "deleted" => row.kind = "deleted"
  BY DEF DeleteEvent, IInv, TypeOK, DroppedOnlyWhenDeleted
<1> QED
  BY <1>1, <1>2, <1>3, <1>4, LocalStepKeeps
     DEF DeleteEvent, IInv, TypeOK, AcknowledgedEditsStay, netVars, ackVars

LEMMA RefreshKeeps ==
  ASSUME IInv, NEW d \in Device, Refresh(d)
  PROVE  IInv'
<1>1. JobOK(d)' BY UnchangedGrows, GrowsKeepsJob DEF Refresh, netVars
<1>2. DeviceTypeOK' BY DEF Refresh, IInv, TypeOK, DeviceTypeOK, View, Row
<1>3. JobTypeOK' /\ NetTypeOK' BY DEF Refresh, IInv, TypeOK, JobTypeOK, NetTypeOK, netVars
<1>4. \A x \in Device : view'[x] = "deleted" => row.kind = "deleted"
  BY DEF Refresh, IInv, TypeOK, DroppedOnlyWhenDeleted
<1> QED
  BY <1>1, <1>2, <1>3, <1>4, LocalStepKeeps
     DEF Refresh, IInv, TypeOK, AcknowledgedEditsStay, netVars, ackVars

LEMMA StartKeeps ==
  ASSUME IInv, NEW d \in Device, StartSave(d) \/ StartDeletion(d)
  PROVE  IInv'
<1>1. job[d].step = "idle" /\ wire[d] = NoRequest /\ reply[d] = "none"
  BY QuietOutsideRequests DEF StartSave, StartDeletion, At
<1>2. CASE StartSave(d)
  <2> DEFINE j == [NoJob EXCEPT !.kind = "save", !.step = "read", !.working = local[d],
                                !.candidate = Live(local[d])]
  <2>1. j \in Job /\ j.kind = "save" /\ j.step = "read" /\ j.working = local[d]
        /\ j.candidate = Live(local[d]) /\ j.version = 0 /\ j.confirmed = FALSE
    BY DEF NoJob, Job, Step, Live, Snapshot, IInv, TypeOK
  <2>2. job' = [job EXCEPT ![d] = j] /\ job'[d] = j
    BY <1>2 DEF StartSave, IInv, TypeOK
  <2>3. JobOK(d)'
    BY <1>1, <1>2, <2>1, <2>2
       DEF StartSave, netVars, serverVars, JobOK, WireOK, ReplyOK, CandidateOK, VersionOK, At,
           Live, IInv, TypeOK, Row
  <2> HIDE DEF j
  <2> QED BY <1>2, <2>1, <2>2, <2>3, JobStepKeeps DEF StartSave
<1>3. CASE StartDeletion(d)
  <2> DEFINE j == [NoJob EXCEPT !.kind = "delete", !.step = "read"]
  <2>1. j \in Job /\ j.kind = "delete" /\ j.step = "read" /\ j.working = {}
        /\ j.candidate = Tombstone /\ j.version = 0 /\ j.confirmed = FALSE
    BY DEF NoJob, Job, Step, Snapshot
  <2>2. job' = [job EXCEPT ![d] = j] /\ job'[d] = j
    BY <1>3 DEF StartDeletion, IInv, TypeOK
  <2>3. JobOK(d)'
    BY <1>1, <1>3, <2>1, <2>2
       DEF StartDeletion, netVars, serverVars, JobOK, WireOK, ReplyOK, CandidateOK, VersionOK, At,
           IInv, TypeOK, Row
  <2> HIDE DEF j
  <2> QED BY <1>3, <2>1, <2>2, <2>3, JobStepKeeps DEF StartDeletion
<1> QED BY <1>2, <1>3

\* A candidate rebuilt on the row just read is on the row's baseline.
LEMMA RebaseOK ==
  ASSUME IInv, NEW d \in Device, Rebase(d), job[d].kind # "none", UNCHANGED row,
         wire'[d] = NoRequest, reply'[d] = "none", row.kind # "none"
  PROVE  /\ JobOK(d)' /\ job'[d] \in Job
         /\ job' = [job EXCEPT ![d] = job'[d]]
<1> DEFINE c == IF job[d].kind = "delete" THEN Tombstone
                ELSE MergeForWrite(RowSnapshot, job[d].candidate)
<1>1. job[d] \in Job /\ row \in Row /\ CandidateOK(d) /\ job \in [Device -> Job]
  BY DEF IInv, TypeOK, JobOK
<1>2. /\ job' = [job EXCEPT ![d] = job'[d]]
      /\ job'[d].kind = job[d].kind /\ job'[d].step = "write"
      /\ job'[d].working = job[d].working /\ job'[d].candidate = c
      /\ job'[d].version = row.version /\ job'[d].confirmed = (row.kind = "deleted")
      /\ job'[d].conflicts = job[d].conflicts
      /\ job'[d] = [kind |-> job[d].kind, step |-> "write", working |-> job[d].working,
                    candidate |-> c, version |-> row.version,
                    confirmed |-> (row.kind = "deleted"), conflicts |-> job[d].conflicts]
  BY <1>1 DEF Rebase, Job
<1>3. job[d].kind # "delete" => c = IF row.kind = "deleted" THEN Tombstone
                                    ELSE Live(row.edits \cup job[d].candidate.edits)
  BY DEF MergeForWrite, RowSnapshot, Tombstone, IInv, RowOK
<1>4. c \in Snapshot /\ c.kind \in {"live", "deleted"}
  BY <1>1, <1>3 DEF Snapshot, Tombstone, Live, Row, Job
<1>5. job'[d] \in Job
  BY <1>1, <1>2, <1>4 DEF Job, Step, Row
<1>6. CandidateOK(d)'
  <2>1. CASE job[d].kind = "delete"
    BY <1>1, <1>2, <2>1 DEF CandidateOK
  <2>2. CASE job[d].kind = "save" /\ row.kind = "deleted"
    BY <1>1, <1>2, <1>3, <2>2 DEF CandidateOK, Tombstone
  <2>3. CASE job[d].kind = "save" /\ row.kind = "live"
    <3>1. job[d].candidate.kind = "live"
      BY <1>1, <2>3 DEF CandidateOK, Job, Snapshot, Tombstone
    <3>2. job[d].working \subseteq job[d].candidate.edits
      BY <1>1, <2>3, <3>1 DEF CandidateOK
    <3> QED BY <1>2, <1>3, <2>3, <3>2 DEF CandidateOK, Live
  <2> QED BY <1>1, <2>1, <2>2, <2>3 DEF Row, Job
<1>7. OnBaseline(row.version, c)
  BY <1>1, <1>3 DEF OnBaseline, Tombstone, Live, IInv, RowOK, Row, Job
<1>8. VersionOK(d)'
  <2>1. row.version \in Nat /\ row' = row BY <1>1 DEF Row
  <2>2. job'[d].version = row.version /\ job'[d].candidate = c
    BY <1>2
  <2>3. job'[d].confirmed => row'.kind = "deleted"
    BY <1>2, <2>1
  <2> HIDE DEF c
  <2>4. row'.edits \subseteq job'[d].candidate.edits \/ job'[d].candidate.kind # "live"
    BY <1>7, <2>1, <2>2 DEF OnBaseline
  <2> QED BY <2>1, <2>2, <2>3, <2>4 DEF VersionOK, OnBaseline
<1>9. WireOK(d)' /\ ReplyOK(d)'
  BY <1>2 DEF WireOK, ReplyOK, At
<1> QED BY <1>2, <1>5, <1>6, <1>8, <1>9 DEF JobOK

\* A job that only moves to another step, with nothing under way.
LEMMA GotoOK ==
  ASSUME IInv, NEW d \in Device, NEW s \in Step, Goto(d, s), job[d].kind # "none",
         UNCHANGED row, wire'[d] = NoRequest, reply'[d] = "none"
  PROVE  /\ JobOK(d)' /\ job'[d] \in Job
         /\ job' = [job EXCEPT ![d] = job'[d]]
<1>1. job[d] \in Job /\ JobOK(d) /\ job \in [Device -> Job]
  BY DEF IInv, TypeOK
<1>2. /\ job' = [job EXCEPT ![d] = job'[d]]
      /\ job'[d] = [job[d] EXCEPT !.step = s]
  BY <1>1 DEF Goto
<1>3. /\ job'[d].kind = job[d].kind /\ job'[d].working = job[d].working
      /\ job'[d].candidate = job[d].candidate /\ job'[d].version = job[d].version
      /\ job'[d].confirmed = job[d].confirmed /\ job'[d] \in Job
  BY <1>1, <1>2 DEF Job
<1>4. CandidateOK(d)' /\ VersionOK(d)'
  BY <1>1, <1>3 DEF JobOK, CandidateOK, VersionOK, OnBaseline
<1>5. WireOK(d)' /\ ReplyOK(d)'
  BY DEF WireOK, ReplyOK, At
<1> QED BY <1>2, <1>3, <1>4, <1>5 DEF JobOK

\* A job at work has a kind.
LEMMA BusyJobHasKind ==
  ASSUME IInv, NEW d \in Device, job[d].step # "idle"
  PROVE  job[d].kind \in {"save", "delete"}
BY DEF IInv, JobOK, CandidateOK, NoJob, TypeOK, Job

\* The end of a job whose answer, if any, has been consumed.
LEMMA FinishKeeps ==
  ASSUME IInv, NEW d \in Device, Finish(d), DeviceTypeOK',
         UNCHANGED <<serverVars, wire, stray, faults, churn>>, wire[d] = NoRequest,
         reply' = [reply EXCEPT ![d] = "none"],
         acknowledged' \subseteq Edit, created' \subseteq Edit,
         row.kind = "deleted" \/ acknowledged' \subseteq row.edits,
         \A x \in Device : view'[x] = "deleted" => view[x] = "deleted" \/ row.kind = "deleted"
  PROVE  IInv'
<1>1. JobTypeOK' /\ job'[d] = NoJob
  BY DEF Finish, IInv, TypeOK, JobTypeOK, NoJob, Job, Step, Snapshot
<1>2. NetTypeOK' /\ reply'[d] = "none"
  BY DEF IInv, TypeOK, NetTypeOK, Reply
<1>3. \A x \in Device \ {d} :
         job'[x] = job[x] /\ wire'[x] = wire[x] /\ reply'[x] = reply[x]
  BY DEF Finish, IInv, TypeOK
<1>4. JobOK(d)'
  BY <1>1, <1>2, NoJobOK DEF serverVars
<1>5. \A x \in Device : view'[x] = "deleted" => row.kind = "deleted"
  BY DEF IInv, DroppedOnlyWhenDeleted
<1>6. faults' \in 0..MaxFaults
  BY DEF IInv, TypeOK
<1> QED BY <1>1, <1>2, <1>3, <1>4, <1>5, <1>6, LocalStepKeeps

LEMMA FirstReadKeeps ==
  ASSUME IInv, NEW d \in Device, FirstRead(d)
  PROVE  IInv'
<1>1. /\ wire[d] = NoRequest /\ reply[d] = "none" /\ job[d].kind \in {"save", "delete"}
      /\ job[d] \in Job /\ reply = [reply EXCEPT ![d] = "none"]
  BY QuietOutsideRequests, BusyJobHasKind DEF FirstRead, At, IInv, TypeOK
<1>2. CASE row.kind = "deleted" /\ AdoptDeletion(d) /\ Finish(d)
           /\ acknowledged' = acknowledged \cup job[d].working
  <2>1. DeviceTypeOK /\ {} \in SUBSET Edit /\ "deleted" \in View
    BY DEF IInv, TypeOK, DeviceTypeOK, View
  <2>2. DeviceTypeOK'
    BY <1>2, <2>1, SettleKeeps DEF AdoptDeletion
  <2>3. acknowledged' \subseteq Edit /\ created' \subseteq Edit
    BY <1>1, <1>2 DEF FirstRead, IInv, TypeOK, Job
  <2> QED BY <1>1, <1>2, <2>2, <2>3, FinishKeeps DEF FirstRead, netVars
<1>3. CASE row.kind = "live" /\ Rebase(d) /\ UNCHANGED <<deviceVars, acknowledged>>
  <2>1. /\ JobOK(d)' /\ job'[d] \in Job /\ job' = [job EXCEPT ![d] = job'[d]]
    BY <1>1, <1>3, RebaseOK DEF FirstRead, serverVars, netVars
  <2> QED BY <1>3, <2>1, JobStepKeeps DEF FirstRead, ackVars
<1>4. CASE Goto(d, IF job[d].kind = "delete" THEN "write" ELSE "find")
           /\ UNCHANGED <<deviceVars, acknowledged>>
  <2>1. (IF job[d].kind = "delete" THEN "write" ELSE "find") \in Step
    BY DEF Step
  <2>2. /\ JobOK(d)' /\ job'[d] \in Job /\ job' = [job EXCEPT ![d] = job'[d]]
    BY <1>1, <1>4, <2>1, GotoOK DEF FirstRead, serverVars, netVars
  <2> QED BY <1>4, <2>2, JobStepKeeps DEF FirstRead, ackVars
<1> QED BY <1>2, <1>3, <1>4 DEF FirstRead

LEMMA FindAccessibleKeeps ==
  ASSUME IInv, NEW d \in Device, FindAccessible(d)
  PROVE  IInv'
<1>1. /\ wire[d] = NoRequest /\ reply[d] = "none" /\ job[d].kind \in {"save", "delete"}
      /\ reply = [reply EXCEPT ![d] = "none"]
  BY QuietOutsideRequests, BusyJobHasKind DEF FindAccessible, IInv, TypeOK
<1>2. CASE row.kind = "live" /\ Rebase(d)
  <2>1. /\ JobOK(d)' /\ job'[d] \in Job /\ job' = [job EXCEPT ![d] = job'[d]]
    BY <1>1, <1>2, RebaseOK DEF FindAccessible, serverVars, netVars
  <2> QED BY <2>1, JobStepKeeps DEF FindAccessible
<1>3. ASSUME NEW s \in {"probe", "reprobe"}, Goto(d, s)
      PROVE  IInv'
  <2>1. s \in Step BY DEF Step
  <2>2. /\ JobOK(d)' /\ job'[d] \in Job /\ job' = [job EXCEPT ![d] = job'[d]]
    BY <1>1, <1>3, <2>1, GotoOK DEF FindAccessible, serverVars, netVars
  <2> QED BY <2>2, JobStepKeeps DEF FindAccessible
<1>4. CASE Finish(d)
  <2>1. DeviceTypeOK' /\ acknowledged' \subseteq Edit /\ created' \subseteq Edit
    BY DEF FindAccessible, IInv, TypeOK, DeviceTypeOK, deviceVars, ackVars
  <2>2. row.kind = "deleted" \/ acknowledged' \subseteq row.edits
    BY DEF FindAccessible, IInv, AcknowledgedEditsStay, ackVars
  <2> QED BY <1>1, <1>4, <2>1, <2>2, FinishKeeps DEF FindAccessible, netVars, deviceVars
<1> QED BY <1>2, <1>3, <1>4 DEF FindAccessible

LEMMA ProbeMembershipKeeps ==
  ASSUME IInv, NEW d \in Device, ProbeMembership(d)
  PROVE  IInv'
<1>1. /\ wire[d] = NoRequest /\ reply[d] = "none" /\ job[d].kind \in {"save", "delete"}
      /\ reply = [reply EXCEPT ![d] = "none"] /\ DeviceTypeOK
  BY QuietOutsideRequests, BusyJobHasKind DEF ProbeMembership, IInv, TypeOK, DeviceTypeOK
<1>2. /\ acknowledged' \subseteq Edit /\ created' \subseteq Edit
      /\ row.kind = "deleted" \/ acknowledged' \subseteq row.edits
  BY DEF ProbeMembership, IInv, TypeOK, AcknowledgedEditsStay, ackVars
<1>3. CASE AdoptRevocation(d) /\ Finish(d)
  <2>1. local[d] \in SUBSET Edit /\ "revoked" \in View
    BY DEF IInv, TypeOK, View
  <2>2. /\ DeviceTypeOK'
        /\ \A x \in Device : view'[x] = "deleted" => view[x] = "deleted"
    BY <1>1, <1>3, <2>1, SettleKeeps DEF AdoptRevocation
  <2> QED BY <1>1, <1>2, <1>3, <2>2, FinishKeeps DEF ProbeMembership, netVars
<1>4. CASE Goto(d, "create") /\ UNCHANGED deviceVars
  <2>1. "create" \in Step BY DEF Step
  <2>2. /\ JobOK(d)' /\ job'[d] \in Job /\ job' = [job EXCEPT ![d] = job'[d]]
    BY <1>1, <1>4, <2>1, GotoOK DEF ProbeMembership, serverVars, netVars
  <2> QED BY <1>4, <2>2, JobStepKeeps DEF ProbeMembership
<1>5. CASE Reject(d)
  <2>1. /\ DeviceTypeOK' /\ Finish(d)
        /\ \A x \in Device : view'[x] = "deleted" => view[x] = "deleted"
    BY <1>1, <1>5, RejectKeeps DEF Reject
  <2> QED BY <1>1, <1>2, <2>1, FinishKeeps DEF ProbeMembership, netVars
<1> QED BY <1>3, <1>4, <1>5 DEF ProbeMembership

\* A request is sent on behalf of job[d].
LEMMA SendKeeps ==
  ASSUME IInv, NEW d \in Device, NEW r \in Request, wire' = [wire EXCEPT ![d] = r],
         UNCHANGED <<serverVars, deviceVars, job, reply, stray, ackVars, faults, churn>>,
         WireOK(d)'
  PROVE  IInv'
<1>1. DeviceTypeOK' /\ JobTypeOK' /\ NetTypeOK'
  BY DEF IInv, TypeOK, DeviceTypeOK, JobTypeOK, NetTypeOK, deviceVars
<1>2. \A x \in Device \ {d} :
         job'[x] = job[x] /\ wire'[x] = wire[x] /\ reply'[x] = reply[x]
  BY DEF IInv, TypeOK
<1>3. JobOK(d)'
  BY DEF IInv, JobOK, ReplyOK, CandidateOK, VersionOK, OnBaseline, At, serverVars
<1>4. /\ acknowledged' \subseteq Edit /\ created' \subseteq Edit /\ faults' \in 0..MaxFaults
      /\ row.kind = "deleted" \/ acknowledged' \subseteq row.edits
      /\ \A x \in Device : view'[x] = "deleted" => row.kind = "deleted"
  BY DEF IInv, TypeOK, AcknowledgedEditsStay, DroppedOnlyWhenDeleted, ackVars, deviceVars
<1> QED BY <1>1, <1>2, <1>3, <1>4, LocalStepKeeps

LEMMA SendCreateKeeps ==
  ASSUME IInv, NEW d \in Device, SendCreate(d)
  PROVE  IInv'
<1> DEFINE r == [op |-> "create", by |-> AccountOf[d], version |-> 0,
                 snapshot |-> Live(job[d].working)]
<1>1. r \in Request /\ r.op = "create" /\ r # NoRequest
  BY AccountsAssumption DEF IInv, TypeOK, Job, Request, Snapshot, Live, NoRequest
<1>2. wire' = [wire EXCEPT ![d] = r] /\ wire'[d] = r
  BY DEF SendCreate, IInv, TypeOK
<1> HIDE DEF r
<1>3. WireOK(d)'
  BY <1>1, <1>2 DEF SendCreate, WireOK, RequestOK, At
<1> QED BY <1>1, <1>2, <1>3, SendKeeps DEF SendCreate

LEMMA CreateAnsweredKeeps ==
  ASSUME IInv, NEW d \in Device, CreateAnswered(d)
  PROVE  IInv'
<1>1. /\ wire[d] = NoRequest /\ job[d].kind \in {"save", "delete"}
  BY BusyJobHasKind DEF CreateAnswered, At, IInv, JobOK, WireOK
<1>2. reply'[d] = "none" /\ wire'[d] = NoRequest
  BY <1>1 DEF CreateAnswered, IInv, TypeOK
<1> DEFINE s == IF reply[d] = "rejected" THEN "raced" ELSE "verify"
<1>3. s \in Step BY DEF Step
<1>4. Goto(d, s) BY DEF CreateAnswered
<1> HIDE DEF s
<1>5. /\ JobOK(d)' /\ job'[d] \in Job /\ job' = [job EXCEPT ![d] = job'[d]]
  BY <1>1, <1>2, <1>3, <1>4, GotoOK DEF CreateAnswered, serverVars
<1>6. DeviceTypeOK' /\ JobTypeOK' /\ NetTypeOK'
  BY <1>5 DEF CreateAnswered, IInv, TypeOK, DeviceTypeOK, JobTypeOK, NetTypeOK, deviceVars, Reply
<1>7. \A x \in Device \ {d} :
         job'[x] = job[x] /\ wire'[x] = wire[x] /\ reply'[x] = reply[x]
  BY <1>5 DEF CreateAnswered, IInv, TypeOK
<1>8. /\ acknowledged' \subseteq Edit /\ created' \subseteq Edit /\ faults' \in 0..MaxFaults
      /\ row.kind = "deleted" \/ acknowledged' \subseteq row.edits
      /\ \A x \in Device : view'[x] = "deleted" => row.kind = "deleted"
  BY DEF CreateAnswered, IInv, TypeOK, AcknowledgedEditsStay, DroppedOnlyWhenDeleted, ackVars,
         deviceVars
<1> QED BY <1>5, <1>6, <1>7, <1>8, LocalStepKeeps DEF CreateAnswered

LEMMA VerifyCreatedKeeps ==
  ASSUME IInv, NEW d \in Device, VerifyCreated(d)
  PROVE  IInv'
<1>1. /\ wire[d] = NoRequest /\ reply[d] = "none" /\ job[d].kind \in {"save", "delete"}
      /\ reply = [reply EXCEPT ![d] = "none"] /\ DeviceTypeOK /\ job[d] \in Job
  BY QuietOutsideRequests, BusyJobHasKind DEF VerifyCreated, At, IInv, TypeOK, DeviceTypeOK
<1>2. /\ acknowledged' \subseteq Edit /\ created' \subseteq Edit
      /\ row.kind = "deleted" \/ acknowledged' \subseteq row.edits
  BY <1>1 DEF VerifyCreated, IInv, TypeOK, AcknowledgedEditsStay, Job
<1>3. /\ DeviceTypeOK' /\ Finish(d)
      /\ \A x \in Device : view'[x] = "deleted" => view[x] = "deleted" \/ row.kind = "deleted"
  <2>1. CASE Reject(d)
    BY <1>1, <2>1, RejectKeeps DEF Reject
  <2>2. CASE row.kind = "deleted" /\ AdoptDeletion(d) /\ Finish(d)
    <3>1. {} \in SUBSET Edit /\ "deleted" \in View
      BY DEF View
    <3> QED BY <1>1, <2>2, <3>1, SettleKeeps DEF AdoptDeletion
  <2>3. CASE AdoptLive(d, row.edits) /\ Finish(d)
    <3>1. local[d] \cup row.edits \in SUBSET Edit /\ "attached" \in View
      BY DEF IInv, TypeOK, View, Row
    <3> QED BY <1>1, <2>3, <3>1, SettleKeeps DEF AdoptLive
  <2> QED BY <2>1, <2>2, <2>3 DEF VerifyCreated
<1> QED BY <1>1, <1>2, <1>3, FinishKeeps DEF VerifyCreated, netVars

\* A successful job adopts its candidate; what it reports saved must be there.
LEMMA SucceedKeeps ==
  ASSUME IInv, NEW d \in Device, Succeed(d), wire[d] = NoRequest,
         UNCHANGED <<serverVars, wire, stray, created, faults, churn>>,
         reply' = [reply EXCEPT ![d] = "none"],
         row.kind = "deleted" \/ job[d].working \subseteq row.edits,
         job[d].candidate.kind = "deleted" => row.kind = "deleted"
  PROVE  IInv'
<1>1. DeviceTypeOK /\ job[d] \in Job
  BY DEF IInv, TypeOK, DeviceTypeOK
<1>2. /\ acknowledged' \subseteq Edit /\ created' \subseteq Edit
      /\ row.kind = "deleted" \/ acknowledged' \subseteq row.edits
  BY <1>1 DEF Succeed, IInv, TypeOK, AcknowledgedEditsStay, Job
<1>3. /\ DeviceTypeOK'
      /\ \A x \in Device : view'[x] = "deleted" => view[x] = "deleted" \/ row.kind = "deleted"
  <2>1. CASE job[d].candidate.kind = "deleted"
    <3>1. {} \in SUBSET Edit /\ "deleted" \in View /\ AdoptDeletion(d)
      BY <2>1 DEF View, Succeed
    <3> QED BY <1>1, <2>1, <3>1, SettleKeeps DEF AdoptDeletion
  <2>2. CASE job[d].candidate.kind # "deleted"
    <3>1. /\ local[d] \cup job[d].candidate.edits \in SUBSET Edit /\ "attached" \in View
          /\ AdoptLive(d, job[d].candidate.edits)
      BY <1>1, <2>2 DEF IInv, TypeOK, View, Job, Snapshot, Tombstone, Succeed
    <3> QED BY <1>1, <3>1, SettleKeeps DEF AdoptLive
  <2> QED BY <2>1, <2>2
<1> QED BY <1>2, <1>3, FinishKeeps DEF Succeed


\* A job that changes only its own record and consumes its answer.
LEMMA AnsweredKeeps ==
  ASSUME IInv, NEW d \in Device, wire[d] = NoRequest,
         UNCHANGED <<serverVars, deviceVars, wire, stray, ackVars, faults, churn>>,
         reply' = [reply EXCEPT ![d] = "none"],
         job'[d] \in Job, job' = [job EXCEPT ![d] = job'[d]], JobOK(d)'
  PROVE  IInv'
<1>1. DeviceTypeOK' /\ JobTypeOK' /\ NetTypeOK'
  BY DEF IInv, TypeOK, DeviceTypeOK, JobTypeOK, NetTypeOK, deviceVars, Reply
<1>2. \A x \in Device \ {d} :
         job'[x] = job[x] /\ wire'[x] = wire[x] /\ reply'[x] = reply[x]
  BY DEF IInv, TypeOK
<1>3. /\ acknowledged' \subseteq Edit /\ created' \subseteq Edit /\ faults' \in 0..MaxFaults
      /\ row.kind = "deleted" \/ acknowledged' \subseteq row.edits
      /\ \A x \in Device : view'[x] = "deleted" => row.kind = "deleted"
  BY DEF IInv, TypeOK, AcknowledgedEditsStay, DroppedOnlyWhenDeleted, ackVars, deviceVars
<1> QED BY <1>1, <1>2, <1>3, LocalStepKeeps

LEMMA ConflictOK ==
  ASSUME IInv, NEW d \in Device, Conflict(d), job[d].kind # "none", UNCHANGED row,
         wire'[d] = NoRequest, reply'[d] = "none"
  PROVE  /\ JobOK(d)' /\ job'[d] \in Job
         /\ job' = [job EXCEPT ![d] = job'[d]]
<1>1. job[d] \in Job /\ JobOK(d) /\ job \in [Device -> Job]
  BY DEF IInv, TypeOK
<1>2. CASE Finish(d)
  <2>1. job'[d] = NoJob /\ job' = [job EXCEPT ![d] = job'[d]]
    BY <1>1, <1>2 DEF Finish
  <2>2. NoJob \in Job
    BY DEF NoJob, Job, Step, Snapshot
  <2> QED BY <2>1, <2>2, NoJobOK
<1>3. CASE job' = [job EXCEPT ![d].conflicts = @ + 1, ![d].step = "reread"]
  <2>1. /\ job' = [job EXCEPT ![d] = job'[d]] /\ job'[d] \in Job
        /\ job'[d].kind = job[d].kind /\ job'[d].working = job[d].working
        /\ job'[d].candidate = job[d].candidate /\ job'[d].version = job[d].version
        /\ job'[d].confirmed = job[d].confirmed
    <3>1. job'[d] = [job[d] EXCEPT !.conflicts = @ + 1, !.step = "reread"]
      BY <1>1, <1>3
    <3>2. job[d].conflicts + 1 \in Nat /\ "reread" \in Step
      BY <1>1 DEF Job, Step
    <3>3. job' = [job EXCEPT ![d] = job'[d]]
      BY <1>1, <1>3
    <3> QED BY <1>1, <3>1, <3>2, <3>3 DEF Job
  <2>2. CandidateOK(d)' /\ VersionOK(d)'
    BY <1>1, <2>1 DEF JobOK, CandidateOK, VersionOK, OnBaseline
  <2>3. WireOK(d)' /\ ReplyOK(d)'
    BY DEF WireOK, ReplyOK, At
  <2> QED BY <2>1, <2>2, <2>3 DEF JobOK
<1> QED BY <1>2, <1>3 DEF Conflict

LEMMA WriteKeeps ==
  ASSUME IInv, NEW d \in Device, Write(d)
  PROVE  IInv'
<1>1. /\ wire[d] = NoRequest /\ reply[d] = "none" /\ job[d].kind \in {"save", "delete"}
      /\ reply = [reply EXCEPT ![d] = "none"] /\ job[d] \in Job /\ JobOK(d)
  BY BusyJobHasKind DEF Write, At, IInv, TypeOK
<1>2. CASE job[d].confirmed /\ Succeed(d) /\ UNCHANGED wire
  <2>1. row.kind = "deleted"
    BY <1>1, <1>2 DEF JobOK, VersionOK
  <2> QED BY <1>1, <1>2, <2>1, SucceedKeeps DEF Write
<1>3. CASE Conflict(d) /\ UNCHANGED <<deviceVars, acknowledged, wire>>
  <2>1. /\ JobOK(d)' /\ job'[d] \in Job /\ job' = [job EXCEPT ![d] = job'[d]]
    BY <1>1, <1>3, ConflictOK DEF Write, serverVars
  <2> QED BY <1>3, <2>1, JobStepKeeps DEF Write, netVars, ackVars
<1>4. CASE /\ job[d].version # 0 /\ UNCHANGED <<deviceVars, acknowledged, job>>
           /\ wire' = [wire EXCEPT ![d] = UpdateRequest(d)]
  <2> DEFINE r == UpdateRequest(d)
  <2>1. /\ r \in Request /\ r.op = "update" /\ r # NoRequest
        /\ r.version = job[d].version /\ r.snapshot = job[d].candidate
    BY <1>1, AccountsAssumption DEF UpdateRequest, Job, Request, NoRequest
  <2>2. wire' = [wire EXCEPT ![d] = r] /\ wire'[d] = r
    BY <1>4 DEF IInv, TypeOK
  <2> HIDE DEF r
  <2>3. RequestOK(r)
    BY <1>1, <1>4, <2>1 DEF JobOK, VersionOK, RequestOK
  <2>4. row' = row /\ reply'[d] = "none" /\ job' = job /\ job[d].step = "write"
    BY <1>1, <1>4 DEF Write, serverVars, At
  <2>5. RequestOK(wire[d])'
    BY <2>2, <2>3, <2>4 DEF RequestOK, OnBaseline
  <2>6. WireOK(d)'
    BY <2>1, <2>2, <2>4, <2>5 DEF WireOK, At
  <2> QED BY <1>4, <2>1, <2>2, <2>6, SendKeeps DEF Write, ackVars
<1> QED BY <1>2, <1>3, <1>4 DEF Write

LEMMA WriteAnsweredKeeps ==
  ASSUME IInv, NEW d \in Device, WriteAnswered(d)
  PROVE  IInv'
<1>1. /\ wire[d] = NoRequest /\ job[d].kind \in {"save", "delete"} /\ JobOK(d)
      /\ job[d] \in Job /\ DeviceTypeOK
  BY BusyJobHasKind DEF WriteAnswered, At, IInv, TypeOK, JobOK, WireOK, DeviceTypeOK
<1>2. wire'[d] = NoRequest /\ reply'[d] = "none" /\ row' = row
  BY <1>1 DEF WriteAnswered, IInv, TypeOK, serverVars
<1>3. CASE reply[d] = "updated" /\ Succeed(d)
  <2>1. /\ row.kind = "deleted" \/ job[d].working \subseteq row.edits
        /\ job[d].candidate.kind = "deleted" => row.kind = "deleted"
    BY <1>1, <1>3 DEF JobOK, ReplyOK, CandidateOK
  <2> QED BY <1>1, <1>3, <2>1, SucceedKeeps DEF WriteAnswered
<1>4. CASE Conflict(d) /\ UNCHANGED <<deviceVars, acknowledged>>
  <2>1. /\ JobOK(d)' /\ job'[d] \in Job /\ job' = [job EXCEPT ![d] = job'[d]]
    BY <1>1, <1>2, <1>4, ConflictOK
  <2> QED BY <1>1, <1>4, <2>1, AnsweredKeeps DEF WriteAnswered, ackVars
<1>5. CASE Goto(d, "reprobe") /\ UNCHANGED <<deviceVars, acknowledged>>
  <2>1. "reprobe" \in Step BY DEF Step
  <2>2. /\ JobOK(d)' /\ job'[d] \in Job /\ job' = [job EXCEPT ![d] = job'[d]]
    BY <1>1, <1>2, <1>5, <2>1, GotoOK
  <2> QED BY <1>1, <1>5, <2>2, AnsweredKeeps DEF WriteAnswered, ackVars
<1>6. CASE Reject(d) /\ UNCHANGED acknowledged
  <2>1. /\ DeviceTypeOK' /\ Finish(d)
        /\ \A x \in Device : view'[x] = "deleted" => view[x] = "deleted"
    BY <1>1, <1>6, RejectKeeps DEF Reject
  <2>2. /\ acknowledged' \subseteq Edit /\ created' \subseteq Edit
        /\ row.kind = "deleted" \/ acknowledged' \subseteq row.edits
    BY <1>6 DEF WriteAnswered, IInv, TypeOK, AcknowledgedEditsStay
  <2> QED BY <1>1, <2>1, <2>2, FinishKeeps DEF WriteAnswered
<1> QED BY <1>3, <1>4, <1>5, <1>6 DEF WriteAnswered

LEMMA RereadKeeps ==
  ASSUME IInv, NEW d \in Device, Reread(d)
  PROVE  IInv'
<1>1. /\ wire[d] = NoRequest /\ reply[d] = "none" /\ job[d].kind \in {"save", "delete"}
      /\ job[d] \in Job /\ JobOK(d)
  BY QuietOutsideRequests, BusyJobHasKind DEF Reread, At, IInv, TypeOK
<1>2. CASE Visible(d) /\ Rebase(d)
  <2>1. row.kind # "none"
    BY <1>2 DEF Visible
  <2>2. /\ JobOK(d)' /\ job'[d] \in Job /\ job' = [job EXCEPT ![d] = job'[d]]
    BY <1>1, <1>2, <2>1, RebaseOK DEF Reread, serverVars, netVars
  <2> QED BY <2>2, JobStepKeeps DEF Reread
<1>3. CASE job' = [job EXCEPT ![d].step = "write", ![d].version = 0, ![d].confirmed = FALSE]
  <2>1. /\ job' = [job EXCEPT ![d] = job'[d]] /\ job'[d] \in Job
        /\ job'[d].kind = job[d].kind /\ job'[d].working = job[d].working
        /\ job'[d].candidate = job[d].candidate /\ job'[d].version = 0
        /\ job'[d].confirmed = FALSE
    BY <1>1, <1>3 DEF Job, Step, IInv, TypeOK
  <2>2. CandidateOK(d)'
    BY <1>1, <2>1 DEF JobOK, CandidateOK, Reread, serverVars
  <2>3. VersionOK(d)'
    <3>1. row' = row /\ 0 <= row.version
      BY DEF Reread, serverVars, IInv, TypeOK, Row
    <3> QED BY <2>1, <3>1 DEF VersionOK
  <2>4. WireOK(d)' /\ ReplyOK(d)'
    BY <1>1 DEF WireOK, ReplyOK, At, Reread, netVars
  <2> QED BY <2>1, <2>2, <2>3, <2>4, JobStepKeeps DEF Reread, JobOK
<1> QED BY <1>2, <1>3 DEF Reread

-----------------------------------------------------------------------------
(* Steps of the database, and the loss of a client.                        *)

LEMMA ServerStepKeeps ==
  ASSUME IInv, Grows, UNCHANGED <<deviceVars, ackVars>>,
         stray' \subseteq Request, \A r \in stray' : RequestOK(r)',
         JobTypeOK', NetTypeOK', faults' \in 0..MaxFaults, churn' \in 0..MaxChurn,
         \A x \in Device : JobOK(x)'
  PROVE  IInv'
<1>1. TypeOK'
  BY DEF IInv, TypeOK, Grows, JobTypeOK, NetTypeOK, deviceVars, ackVars
<1>2. row \in Row /\ row' \in Row /\ RowOK
  BY DEF IInv, TypeOK, Grows
<1>3. RowOK'
  BY <1>2 DEF RowOK, Grows, Row
<1>4. AcknowledgedEditsStay'
  BY <1>2 DEF IInv, AcknowledgedEditsStay, ackVars, Grows, RowOK, Row
<1>5. DroppedOnlyWhenDeleted'
  BY DEF IInv, DroppedOnlyWhenDeleted, deviceVars, Grows
<1> QED BY <1>1, <1>3, <1>4, <1>5 DEF IInv

\* The answer to a request still describes the row the request left behind.
LEMMA AnswerOK ==
  ASSUME IInv, NEW d \in Device, Execute(d)
  PROVE  Grows /\ JobOK(d)'
<1> DEFINE r == wire[d]
<1>1. /\ r \in Request /\ r # NoRequest /\ RequestOK(r) /\ Apply(r) /\ job' = job
      /\ JobOK(d) /\ job[d] \in Job /\ row \in Row
  BY DEF Execute, IInv, TypeOK, JobOK, WireOK
<1>2. Grows
  BY <1>1, ApplyGrows DEF IInv
<1>3. /\ wire'[d] = NoRequest /\ reply'[d] = ReplyTo(r)
  BY DEF Execute, IInv, TypeOK
<1>4. At(d, "write") \/ At(d, "create")
  BY <1>1 DEF JobOK, WireOK
<1>5. ReplyTo(r) = "updated" =>
        /\ At(d, "write") /\ r.snapshot = job[d].candidate
        /\ row'.kind = job[d].candidate.kind /\ row'.edits = job[d].candidate.edits
  <2>1. SUFFICES ASSUME ReplyTo(r) = "updated"
                 PROVE  /\ At(d, "write") /\ r.snapshot = job[d].candidate
                        /\ row'.kind = job[d].candidate.kind
                        /\ row'.edits = job[d].candidate.edits
    OBVIOUS
  <2>2. r.op = "update"
    BY <1>1, <2>1 DEF ReplyTo, CreateReply, Request
  <2>3. At(d, "write") /\ r.snapshot = job[d].candidate
    BY <1>1, <2>2 DEF JobOK, WireOK
  <2>4. row' = [kind |-> r.snapshot.kind, version |-> row.version + 1,
                edits |-> r.snapshot.edits]
    BY <1>1, <2>1 DEF Apply
  <2> QED BY <2>3, <2>4
<1>6. ReplyOK(d)'
  <2>1. At(d, "create")' => reply'[d] # "updated"
    BY <1>1, <1>3, <1>5 DEF At
  <2>2. reply'[d] = "updated" => \/ row'.kind = "deleted"
                                 \/ /\ row'.kind = "live" /\ job[d].candidate.kind = "live"
                                    /\ job[d].candidate.edits \subseteq row'.edits
    BY <1>1, <1>3, <1>5 DEF Job, Snapshot, Tombstone
  <2> QED BY <1>1, <1>4, <2>1, <2>2 DEF ReplyOK, At
<1>7. WireOK(d)'
  BY <1>3 DEF WireOK
<1>8. CandidateOK(d)'
  BY <1>1, <1>2 DEF JobOK, CandidateOK, Grows
<1>9. VersionOK(d)'
  BY <1>1, <1>2 DEF JobOK, VersionOK, Grows, OnBaseline, Row, Job
<1> QED BY <1>2, <1>6, <1>7, <1>8, <1>9 DEF JobOK

LEMMA ReplyType ==
  ASSUME NEW r \in Request
  PROVE  ReplyTo(r) \in Reply
BY DEF ReplyTo, CreateReply, UpdateReply, Reply

LEMMA ExecuteKeeps ==
  ASSUME IInv, NEW d \in Device, Execute(d)
  PROVE  IInv'
<1>1. Grows /\ JobOK(d)'
  BY AnswerOK
<1>2. \A x \in Device \ {d} : JobOK(x)'
  BY <1>1, GrowsKeepsJob DEF Execute, IInv, TypeOK
<1>3. \A r \in stray' : RequestOK(r)'
  BY <1>1, GrowsKeepsRequest DEF Execute, IInv, TypeOK
<1>4. wire[d] \in Request
  BY DEF Execute, IInv, TypeOK
<1>5. JobTypeOK' /\ NetTypeOK' /\ stray' \subseteq Request
      /\ faults' \in 0..MaxFaults /\ churn' \in 0..MaxChurn
  BY <1>4, ReplyType DEF Execute, IInv, TypeOK, JobTypeOK, NetTypeOK
<1> QED BY <1>1, <1>2, <1>3, <1>5, ServerStepKeeps DEF Execute

LEMMA ExecuteStrayKeeps ==
  ASSUME IInv, NEW r \in stray, ExecuteStray(r)
  PROVE  IInv'
<1>1. Grows
  BY ApplyGrows DEF ExecuteStray, IInv, TypeOK
<1>2. \A x \in Device : JobOK(x)'
  BY <1>1, GrowsKeepsJob DEF ExecuteStray
<1>3. \A q \in stray' : RequestOK(q)'
  BY <1>1, GrowsKeepsRequest DEF ExecuteStray, IInv, TypeOK
<1>4. JobTypeOK' /\ NetTypeOK' /\ stray' \subseteq Request
      /\ faults' \in 0..MaxFaults /\ churn' \in 0..MaxChurn
  BY DEF ExecuteStray, IInv, TypeOK, JobTypeOK, NetTypeOK
<1> QED BY <1>1, <1>2, <1>3, <1>4, ServerStepKeeps DEF ExecuteStray

LEMMA ChurnKeeps ==
  ASSUME IInv, NEW a \in Account, RemoveMember(a) \/ AdmitMember(a)
  PROVE  IInv'
<1>1. row \in Row /\ active \subseteq Account /\ tombstoneReader \subseteq Account
      /\ RowOK /\ churn \in 0..MaxChurn /\ MaxChurn \in Nat
  BY BoundsAssumption DEF IInv, TypeOK
<1>2. Grows
  <2>1. CASE RemoveMember(a)
    BY <1>1, <2>1 DEF RemoveMember, Grows, Row, RowOK
  <2>2. CASE AdmitMember(a)
    BY <1>1, <2>2 DEF AdmitMember, Grows, Row, RowOK
  <2> QED BY <2>1, <2>2
<1>3. UNCHANGED <<deviceVars, job, netVars, ackVars, faults>> /\ churn' \in 0..MaxChurn
  BY <1>1 DEF RemoveMember, AdmitMember
<1>4. \A x \in Device : JobOK(x)'
  BY <1>2, <1>3, GrowsKeepsJob DEF netVars
<1>5. \A q \in stray' : RequestOK(q)'
  BY <1>2, <1>3, GrowsKeepsRequest DEF netVars, IInv, TypeOK
<1>6. JobTypeOK' /\ NetTypeOK' /\ stray' \subseteq Request /\ faults' \in 0..MaxFaults
  BY <1>3 DEF IInv, TypeOK, JobTypeOK, NetTypeOK, netVars
<1> QED BY <1>2, <1>3, <1>4, <1>5, <1>6, ServerStepKeeps

LEMMA GiveUpKeeps ==
  ASSUME IInv, NEW d \in Device, GiveUp(d)
  PROVE  IInv'
<1>1. Grows
  BY UnchangedGrows DEF GiveUp
<1>2. wire'[d] = NoRequest /\ reply'[d] = "none" /\ UNCHANGED serverVars /\ row' = row
  BY DEF GiveUp, IInv, TypeOK, serverVars
<1>3. JobOK(d)' /\ job'[d] \in Job /\ job' = [job EXCEPT ![d] = job'[d]]
  <2>1. CASE Finish(d)
    <3>1. job'[d] = NoJob /\ job' = [job EXCEPT ![d] = job'[d]]
      BY <2>1 DEF Finish, IInv, TypeOK
    <3>2. NoJob \in Job
      BY DEF NoJob, Job, Step, Snapshot
    <3> QED BY <1>2, <3>1, <3>2, NoJobOK
  <2>2. CASE Goto(d, "unanswered")
    <3>1. "unanswered" \in Step /\ job[d].kind # "none"
      BY BusyJobHasKind DEF Step, GiveUp, At
    <3> QED BY <1>2, <2>2, <3>1, GotoOK
  <2> QED BY <2>1, <2>2 DEF GiveUp
<1>4. \A x \in Device \ {d} : JobOK(x)'
  BY <1>1, <1>3, GrowsKeepsJob DEF GiveUp, IInv, TypeOK
<1>5. stray' \subseteq Request /\ \A q \in stray' : RequestOK(q)
  BY DEF GiveUp, IInv, TypeOK, JobOK, WireOK
<1>6. \A q \in stray' : RequestOK(q)'
  BY <1>1, <1>5, GrowsKeepsRequest
<1>7. JobTypeOK' /\ NetTypeOK'
  BY <1>3 DEF GiveUp, IInv, TypeOK, JobTypeOK, NetTypeOK, Reply
<1>8. faults' \in 0..MaxFaults /\ churn' \in 0..MaxChurn
  BY BoundsAssumption DEF GiveUp, IInv, TypeOK
<1> QED BY <1>1, <1>3, <1>4, <1>5, <1>6, <1>7, <1>8, ServerStepKeeps DEF GiveUp

-----------------------------------------------------------------------------
(* The theorems.                                                           *)

LEMMA StepKeeps ==
  ASSUME IInv, [Next]_vars
  PROVE  IInv'
<1>1. ASSUME NEW d \in Device, Work(d)
      PROVE  IInv'
  BY <1>1, StartKeeps, FirstReadKeeps, FindAccessibleKeeps, ProbeMembershipKeeps,
     SendCreateKeeps, CreateAnsweredKeeps, VerifyCreatedKeeps, WriteKeeps, WriteAnsweredKeeps,
     RereadKeeps DEF Work
<1>2. ASSUME NEW d \in Device, Execute(d) \/ GiveUp(d) \/ Refresh(d) \/ DeleteEvent(d)
      PROVE  IInv'
  BY <1>2, ExecuteKeeps, GiveUpKeeps, RefreshKeeps, DeleteEventKeeps
<1>3. ASSUME NEW d \in Device, NEW e \in Edit, EditEvent(d, e)
      PROVE  IInv'
  BY <1>3, EditEventKeeps
<1>4. ASSUME NEW r \in stray, ExecuteStray(r)
      PROVE  IInv'
  BY <1>4, ExecuteStrayKeeps
<1>5. ASSUME NEW a \in Account, RemoveMember(a) \/ AdmitMember(a)
      PROVE  IInv'
  BY <1>5, ChurnKeeps
<1>6. CASE UNCHANGED vars
  BY <1>6 DEF vars, serverVars, deviceVars, netVars, ackVars, IInv, TypeOK, RowOK, RequestOK,
              OnBaseline, JobOK, WireOK, ReplyOK, CandidateOK, VersionOK, At,
              AcknowledgedEditsStay, DroppedOnlyWhenDeleted
<1> QED BY <1>1, <1>2, <1>3, <1>4, <1>5, <1>6 DEF Next

\* The whole inductive invariant holds of every reachable state of the save
\* protocol of sharedEventStore.mjs against the functions of schema.sql.
THEOREM Invariance == Spec => []IInv
<1>1. Init => IInv
  BY InitHolds
<1>2. IInv /\ [Next]_vars => IInv'
  BY StepKeeps
<1> QED BY <1>1, <1>2, PTL DEF Spec

\* Every variable keeps its type, and a row version is never confused with the
\* absence of one.
THEOREM TypeCorrect == Spec => []TypeOK
<1>1. IInv => TypeOK
  BY DEF IInv
<1> QED BY <1>1, Invariance, PTL

\* An edit that a conditional write reported saved stays in the row until an
\* administrator deletes the event, for any number of devices and retries.
THEOREM AcknowledgedEditsAreSafe == Spec => []AcknowledgedEditsStay
<1>1. IInv => AcknowledgedEditsStay
  BY DEF IInv
<1> QED BY <1>1, Invariance, PTL

\* A write the version check of update_shared_event_snapshot would accept
\* always carries everything the live row holds.
THEOREM WritesAreOnBaseline == Spec => []BaselineMatchesVersion
<1>1. IInv => BaselineMatchesVersion
  <2>1. SUFFICES ASSUME IInv PROVE BaselineMatchesVersion
    OBVIOUS
  <2>2. ASSUME NEW d \in Device
        PROVE  /\ wire[d] # NoRequest /\ wire[d].op = "update"
                    => OnBaseline(wire[d].version, wire[d].snapshot)
               /\ At(d, "write") /\ job[d].version # 0
                    => OnBaseline(job[d].version, job[d].candidate)
    BY <2>1 DEF IInv, JobOK, WireOK, VersionOK, RequestOK
  <2>3. \A r \in stray : r.op = "update" => OnBaseline(r.version, r.snapshot)
    BY <2>1 DEF IInv, RequestOK
  <2> QED BY <2>2, <2>3 DEF BaselineMatchesVersion
<1> QED BY <1>1, Invariance, PTL

\* No device drops its copy of an event that is not a tombstone on the server.
THEOREM OnlyDeletedEventsAreDropped == Spec => []DroppedOnlyWhenDeleted
<1>1. IInv => DroppedOnlyWhenDeleted
  BY DEF IInv
<1> QED BY <1>1, Invariance, PTL

\* What one step does to the row and to what was reported saved.
LEMMA StepGrowsOrAcknowledges ==
  ASSUME IInv, [Next]_vars
  PROVE  \/ Grows /\ acknowledged' = acknowledged
         \/ UNCHANGED row /\ acknowledged \subseteq acknowledged'
<1>1. ASSUME NEW d \in Device, Work(d)
      PROVE  UNCHANGED row /\ acknowledged \subseteq acknowledged'
  BY <1>1 DEF Work, StartSave, StartDeletion, FirstRead, FindAccessible, ProbeMembership,
     SendCreate, CreateAnswered, VerifyCreated, Write, WriteAnswered, Reread, Succeed,
     serverVars, ackVars
<1>2. ASSUME NEW d \in Device, Execute(d)
      PROVE  Grows /\ acknowledged' = acknowledged
  BY <1>2, AnswerOK DEF Execute, ackVars
<1>3. ASSUME NEW d \in Device, GiveUp(d) \/ Refresh(d) \/ DeleteEvent(d)
      PROVE  UNCHANGED row /\ acknowledged \subseteq acknowledged'
  BY <1>3 DEF GiveUp, Refresh, DeleteEvent, serverVars, ackVars
<1>4. ASSUME NEW d \in Device, NEW e \in Edit, EditEvent(d, e)
      PROVE  UNCHANGED row /\ acknowledged \subseteq acknowledged'
  BY <1>4 DEF EditEvent, serverVars, ackVars
<1>5. ASSUME NEW r \in stray, ExecuteStray(r)
      PROVE  Grows /\ acknowledged' = acknowledged
  BY <1>5, ApplyGrows DEF ExecuteStray, IInv, TypeOK, ackVars
<1>6. ASSUME NEW a \in Account, RemoveMember(a) \/ AdmitMember(a)
      PROVE  Grows /\ acknowledged' = acknowledged
  BY <1>6 DEF RemoveMember, AdmitMember, ackVars, Grows, IInv, TypeOK, Row, RowOK
<1>7. CASE UNCHANGED vars
  BY <1>7 DEF vars, serverVars, ackVars
<1> QED BY <1>1, <1>2, <1>3, <1>4, <1>5, <1>6, <1>7 DEF Next

\* No step takes an edit out of the live row or writes over a tombstone.
THEOREM RecordNeverShrinks == Spec => RecordOnlyGrows
<1> DEFINE Kept == /\ row.kind = "live" => \/ row'.kind = "deleted"
                                           \/ row'.kind = "live" /\ row.edits \subseteq row'.edits
                   /\ row.kind = "deleted" => row' = row
<1>1. IInv /\ [Next]_vars => [Kept]_vars
  BY StepGrowsOrAcknowledges DEF Grows
<1> QED BY <1>1, Invariance, PTL DEF Spec, RecordOnlyGrows

\* The initial state of the protocol is the empty record.
LEMMA RecordInit == Init => Record!Init
BY DEF Init, Record!Init, NoRow

\* Every step of the protocol is a commit, a deletion, an acknowledgement or
\* nothing at all for the record.
LEMMA RecordStep ==
  ASSUME IInv, IInv', [Next]_vars
  PROVE  [Record!Next]_(Record!recordVars)
<1>1. /\ row \in Row /\ row' \in Row /\ RowOK
      /\ acknowledged \in SUBSET Edit /\ acknowledged' \in SUBSET Edit
      /\ row'.kind = "deleted" \/ acknowledged' \subseteq row'.edits
  BY DEF IInv, TypeOK, AcknowledgedEditsStay
<1>2. CASE UNCHANGED row /\ acknowledged \subseteq acknowledged'
  <2>1. /\ acknowledged' \in SUBSET Edit /\ acknowledged \subseteq acknowledged'
        /\ row.kind = "deleted" \/ acknowledged' \ acknowledged \subseteq row.edits
        /\ row'.edits = row.edits /\ (row'.kind = "deleted") = (row.kind = "deleted")
    BY <1>1, <1>2
  <2>2. Record!Acknowledge
    BY <2>1 DEF Record!Acknowledge
  <2> QED BY <2>2 DEF Record!Next
<1>3. CASE Grows /\ acknowledged' = acknowledged
  <2>1. CASE row' = row
    BY <1>3, <2>1 DEF Record!recordVars
  <2>2. CASE row' # row /\ row'.kind = "deleted"
    <3>1. row.kind # "deleted" /\ row'.edits = {}
      BY <1>3, <2>2 DEF Grows
    <3> QED BY <1>3, <2>2, <3>1 DEF Record!Next, Record!Delete
  <2>3. CASE row' # row /\ row'.kind # "deleted"
    <3>1. row.kind # "deleted" /\ row.edits \subseteq row'.edits /\ row'.edits \in SUBSET Edit
      BY <1>1, <1>3, <2>3 DEF Grows, RowOK, Row
    <3> QED BY <1>3, <2>3, <3>1 DEF Record!Next, Record!Commit
  <2> QED BY <2>1, <2>2, <2>3
<1> QED BY <1>2, <1>3, StepGrowsOrAcknowledges

\* The conditional-write protocol implements the promised record.
THEOREM ImplementsRecord == Spec => RecordSpec
<1>1. Init => Record!Init
  BY RecordInit
<1>2. IInv /\ IInv' /\ [Next]_vars => [Record!Next]_(Record!recordVars)
  BY RecordStep
<1> QED BY <1>1, <1>2, Invariance, PTL DEF Spec, RecordSpec, Record!Spec
(***************************************************************************)
(* Pending edits.                                                          *)
(***************************************************************************)
Retained(d) ==
  \A e \in pending[d] \ pending'[d] :
    \/ e \in acknowledged' \cup created'
    \/ row.kind = "deleted"
    \/ row.kind = "live" /\ AccountOf[d] \notin active
    \/ job[d].step \in {"reprobe", "verify"}

\* A job that ends clears what it was given to save and nothing else, and a
\* deletion's job only what was pending when it was asked for.
LEMMA SettleClears ==
  ASSUME TypeOK, NEW d \in Device, NEW v \in View, NEW S \in SUBSET Edit, Settle(d, v, S)
  PROVE  /\ \A x \in Device \ {d} : pending'[x] = pending[x]
         /\ \/ pending'[d] = pending[d]
            \/ job[d].kind = "delete" /\ view[d] = "deleting"
            \/ job[d].kind = "save" /\ pending[d] \subseteq job[d].working
            \/ job[d].kind = "none"
<1>1. job[d].kind \in {"none", "save", "delete"} /\ pending \in [Device -> SUBSET Edit]
  BY DEF TypeOK, Job
<1>2. CASE Overtaken(d)
  BY <1>2 DEF Settle, deviceVars
<1>3. CASE ~Overtaken(d)
  BY <1>1, <1>3 DEF Settle, Overtaken
<1> QED BY <1>2, <1>3

\* A job that succeeds has reported what it was started with, and a deletion's
\* job succeeds only on a tombstone.
LEMMA SucceedRetains ==
  ASSUME IInv, NEW d \in Device, Succeed(d), row.kind = "deleted" \/ job[d].kind # "delete",
         ~At(d, "idle")
  PROVE  \A x \in Device : Retained(x)
<1>1. /\ job[d].candidate.edits \in SUBSET Edit /\ local[d] \in SUBSET Edit
      /\ job[d].kind # "none"
  BY BusyJobHasKind DEF IInv, TypeOK, Job, Snapshot, Tombstone, At
<1>2. \E v \in View, S \in SUBSET Edit : Settle(d, v, S)
  BY <1>1 DEF Succeed, AdoptDeletion, AdoptLive, View
<1> QED BY <1>1, <1>2, SettleClears DEF Succeed, Retained, IInv

\* A step that changes what one device has pending touches no other device's.
LEMMA OneDeviceRetains ==
  ASSUME NEW d \in Device, \A x \in Device \ {d} : pending'[x] = pending[x], Retained(d)
  PROVE  \A x \in Device : Retained(x)
BY DEF Retained

LEMMA NothingCleared ==
  ASSUME \A x \in Device : pending[x] \subseteq pending'[x]
  PROVE  \A x \in Device : Retained(x)
BY DEF Retained

LEMMA RejectClearsOne ==
  ASSUME TypeOK, NEW d \in Device, Reject(d)
  PROVE  /\ \A x \in Device \ {d} : pending'[x] = pending[x]
         /\ job[d].kind = "delete" => pending' = pending
BY DEF Reject, TypeOK, deviceVars

LEMMA JobEndRetains ==
  ASSUME IInv, NEW d \in Device, FirstRead(d) \/ ProbeMembership(d) \/ VerifyCreated(d)
  PROVE  \A x \in Device : Retained(x)
<1>1. TypeOK /\ local[d] \in SUBSET Edit /\ row.edits \in SUBSET Edit
  BY DEF IInv, TypeOK, Row
<1>2. ASSUME NEW v \in View, NEW S \in SUBSET Edit, Settle(d, v, S),
             \/ row.kind = "deleted"
             \/ row.kind = "live" /\ AccountOf[d] \notin active
             \/ At(d, "verify")
      PROVE  \A x \in Device : Retained(x)
  BY <1>1, <1>2, SettleClears, OneDeviceRetains DEF Retained, At
<1>3. ASSUME Reject(d), job[d].step \in {"reprobe", "verify"}
      PROVE  \A x \in Device : Retained(x)
  BY <1>1, <1>3, RejectClearsOne, OneDeviceRetains DEF Retained
<1>4. ASSUME UNCHANGED deviceVars
      PROVE  \A x \in Device : Retained(x)
  BY <1>4, NothingCleared DEF deviceVars
<1>5. CASE FirstRead(d)
  BY <1>1, <1>2, <1>4, <1>5 DEF FirstRead, AdoptDeletion, View
<1>6. CASE ProbeMembership(d)
  <2>1. CASE RevocationConfirmed(d)
    BY <1>1, <1>2, <1>6, <2>1 DEF ProbeMembership, RevocationConfirmed, AdoptRevocation, View
  <2>2. CASE ~RevocationConfirmed(d)
    BY <1>3, <1>4, <1>6, <2>2 DEF ProbeMembership, At
  <2> QED BY <2>1, <2>2
<1>7. CASE VerifyCreated(d)
  <2>1. At(d, "verify")
    BY <1>7 DEF VerifyCreated
  <2>2. CASE Reject(d)
    BY <1>3, <2>1, <2>2 DEF At
  <2>3. CASE AdoptDeletion(d) \/ AdoptLive(d, row.edits)
    BY <1>1, <1>2, <2>1, <2>3 DEF AdoptDeletion, AdoptLive, View
  <2> QED BY <1>7, <2>2, <2>3 DEF VerifyCreated
<1> QED BY <1>5, <1>6, <1>7

LEMMA WriteRetains ==
  ASSUME IInv, NEW d \in Device, Write(d) \/ WriteAnswered(d)
  PROVE  \A x \in Device : Retained(x)
<1>1. /\ JobOK(d) /\ TypeOK
      /\ ~At(d, "idle")
  BY DEF IInv, Write, WriteAnswered, At
<1>2. CASE Succeed(d) /\ (job[d].confirmed \/ reply[d] = "updated")
  <2>1. row.kind = "deleted" \/ job[d].kind # "delete"
    BY <1>1, <1>2 DEF JobOK, VersionOK, ReplyOK, CandidateOK, Tombstone
  <2> QED BY <1>1, <1>2, <2>1, SucceedRetains
<1>3. CASE UNCHANGED deviceVars
  BY <1>3, NothingCleared DEF deviceVars
<1>4. CASE Reject(d) /\ job[d].kind = "delete"
  BY <1>1, <1>4, RejectClearsOne, NothingCleared
<1> QED BY <1>2, <1>3, <1>4 DEF Write, WriteAnswered

\* However saves, retries, refusals and answers follow each other, a pending edit leaves
\* the outbox only when it was reported saved, the event is deleted, the account is out
\* of it, or the server refused the write.
THEOREM PendingEditsAreRetained == Spec => IntentRetained
<1>1. ASSUME IInv, [Next]_vars
      PROVE  \A d \in Device : Retained(d)
  <2>1. ASSUME NEW d \in Device, Work(d)
        PROVE  \A x \in Device : Retained(x)
    <3>1. CASE FirstRead(d) \/ ProbeMembership(d) \/ VerifyCreated(d) \/ Write(d) \/ WriteAnswered(d)
      BY <1>1, <3>1, JobEndRetains, WriteRetains
    <3>2. CASE \/ StartSave(d) \/ StartDeletion(d) \/ FindAccessible(d) \/ SendCreate(d)
               \/ CreateAnswered(d) \/ Reread(d)
      BY <3>2, NothingCleared DEF StartSave, StartDeletion, FindAccessible, SendCreate,
         CreateAnswered, Reread, deviceVars
    <3> QED BY <2>1, <3>1, <3>2 DEF Work
  <2>2. ASSUME NEW d \in Device, NEW e \in Edit, EditEvent(d, e)
        PROVE  \A x \in Device : Retained(x)
    BY <1>1, <2>2, NothingCleared DEF EditEvent, IInv, TypeOK
  <2>3. CASE UNCHANGED pending
    BY <2>3, NothingCleared
  <2>4. CASE \/ \E d \in Device : Execute(d) \/ GiveUp(d) \/ Refresh(d) \/ DeleteEvent(d)
             \/ \E r \in stray : ExecuteStray(r)
             \/ \E a \in Account : RemoveMember(a) \/ AdmitMember(a)
             \/ UNCHANGED vars
    BY <2>3, <2>4 DEF Execute, GiveUp, Refresh, DeleteEvent, ExecuteStray, RemoveMember,
       AdmitMember, deviceVars, vars
  <2> QED BY <1>1, <2>1, <2>2, <2>4 DEF Next
<1>2. ASSUME IInv, [Next]_vars
      PROVE  \A d \in Device : \A e \in pending[d] \ pending'[d] :
               \/ e \in acknowledged' \cup created'
               \/ row.kind = "deleted"
               \/ row.kind = "live" /\ AccountOf[d] \notin active
               \/ job[d].step \in {"reprobe", "verify"}
  BY <1>1, <1>2 DEF Retained
<1> QED BY <1>2, Invariance, PTL DEF Spec, IntentRetained
=============================================================================
