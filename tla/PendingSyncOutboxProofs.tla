------------------------- MODULE PendingSyncOutboxProofs -------------------------
(***************************************************************************)
(* Proofs, for every set of edits and events and every bound, that the     *)
(* cloud writes of a page run one at a time, and that the only page of a   *)
(* browser keeps every accepted edit until it is delivered                 *)
(* (PendingSyncOutbox).                                                    *)
(***************************************************************************)
EXTENDS PendingSyncOutbox, FiniteSetTheorems, SequenceTheorems, TLAPS

(***************************************************************************)
(* The inductive invariant, in two parts.  The first is the type of every  *)
(* variable, where the states that are anywhere only have edits that were  *)
(* made (Types), with the queue of each page in order (OneAtATime).        *)
(***************************************************************************)
Known == made \cup Peer

PayloadOf(S) == [state : SUBSET S, events : SUBSET Event]
Reply(S) == [state : SUBSET S, saved : SUBSET Event, failed : SUBSET Event,
             ok : BOOLEAN, retryable : BOOLEAN]
SaveRec(S, A) ==
  [kind : {"save"}, edit : A, gen : Nat, state : SUBSET S, events : SUBSET Event,
   previous : SUBSET S, prior : {Nothing} \cup PayloadOf(S),
   payload : {Nothing} \cup PayloadOf(S), reply : {Nothing} \cup Reply(S)]
DeliveryRec(S) ==
  [kind : {"flush", "recover", "hydrate", "merge"}, gen : Nat, local : SUBSET S,
   state : SUBSET S, events : SUBSET Event, payload : PayloadOf(S),
   reply : {Nothing} \cup Reply(S)]
WaitRec == [kind : {"flushing"}, reply : {Nothing}]
JobRec(S, A) == SaveRec(S, A) \cup DeliveryRec(S) \cup WaitRec
AskRec(S, A) == {job \in SaveRec(S, A) : job.reply = Nothing} \cup [kind : {"read"}, gen : Nat]
ReadRec(S) ==
  [kind : {"plain"}, gen : Nat, local : SUBSET S, payload : {Nothing},
   indexed : SUBSET S, remote : {Nothing} \cup SUBSET S]
  \cup [kind : {"deferred"}, gen : Nat, local : SUBSET S, payload : PayloadOf(S),
        indexed : SUBSET S, remote : {Nothing} \cup SUBSET S]
  \cup [kind : {"asked", "recover"}]

Types(S, A) ==
  /\ server \subseteq S /\ workspace \subseteq S /\ snapshot \subseteq S
  /\ outbox \in {Nothing} \cup PayloadOf(S)
  /\ view \in [Tab -> SUBSET S]
  /\ starting \in [Tab -> Seq(AskRec(S, A))] /\ queue \in [Tab -> Seq(JobRec(S, A))]
  /\ loading \in [Tab -> {Nothing} \cup ReadRec(S)]

OneAtATime(q) ==
  /\ \A i \in DOMAIN q : i > 1 => q[i].reply = Nothing /\ q[i].kind # "flush"
  /\ \A i, j \in DOMAIN q : q[i].kind \in {"flushing", "flush"} /\ q[j].kind \in {"flushing", "flush"} => i = j

TypesOK ==
  /\ Types(Known, accepted)
  /\ gen \in [Tab -> Nat] /\ timer \in [Tab -> BOOLEAN]
  /\ made \subseteq Edit \ Peer /\ accepted \subseteq made /\ reverted \subseteq accepted
  /\ failures \in 0..MaxFailures /\ crashes \in 0..MaxCrashes
  /\ \A t \in Tab : OneAtATime(queue[t])

(***************************************************************************)
(* The second is about the browser's only page.  Every edit that waits, to *)
(* be delivered, is on screen, in the snapshot and in the outbox.          *)
(***************************************************************************)
Waiting == accepted \ (server \cup reverted)

Delivers(payload, e) == payload # Nothing /\ e \in payload.state /\ EventOf[e] \in payload.events

Jobs(t) == {queue[t][i] : i \in DOMAIN queue[t]}
Asked(t) == {starting[t][i] : i \in DOMAIN starting[t]}
Saves(S) == {job \in S : job.kind = "save"}

Precedes(a, b) ==
  a.kind = "save" /\ b.kind = "save" => a.gen < b.gen /\ b.edit \notin a.state
Ordered(q) == \A i, j \in DOMAIN q : i < j => Precedes(q[i], q[j])
InOrder(t) == /\ Ordered(queue[t]) /\ Ordered(starting[t])
              /\ \A a \in Jobs(t), b \in Asked(t) : Precedes(a, b)

SaveOK(t, job) ==
  /\ job.gen <= gen[t]
  /\ job.edit \in job.state
  /\ job.payload # Nothing => job.payload.state = job.state
  /\ job.gen = gen[t] => Waiting \subseteq job.state
  /\ \A e \in Waiting \cap job.state :
       /\ EventOf[e] \in job.events
       /\ e = job.edit \/ (e \in job.previous /\ Delivers(job.prior, e))
  /\ job.gen # gen[t] /\ job.edit \in Waiting =>
       outbox # Nothing /\ ~(outbox.state \subseteq job.state)

DeliveryOK(job) ==
  /\ job.kind \in {"flush", "recover"} =>
       job.payload.state = job.state /\ job.payload.events = job.events
  /\ job.kind = "hydrate" => Waiting \cap job.local = {}

AnswerOK(job) ==
  job.reply # Nothing =>
    /\ job.state \subseteq job.reply.state
    /\ \A e \in job.state : EventOf[e] \in job.reply.saved => e \in server
    /\ job.reply.ok => job.reply.saved = job.events

JobOK(t, job) ==
  /\ job.kind = "save" => SaveOK(t, job)
  /\ job.kind \in {"flush", "recover", "hydrate", "merge"} => DeliveryOK(job)
  /\ job.kind # "flushing" => AnswerOK(job)

AskOK(t, ask) == IF ask.kind = "save" THEN SaveOK(t, ask) ELSE ask.gen <= gen[t]

ReadOK(t, read) ==
  read # Nothing /\ read.kind = "plain" =>
    read.gen <= gen[t] /\ (read.gen = gen[t] => Waiting = {})

OnScreen(t) == Waiting \subseteq view[t] \cap snapshot

Kept(t) ==
  /\ OnScreen(t) /\ InOrder(t)
  /\ \A job \in Jobs(t) : JobOK(t, job)
  /\ \A ask \in Asked(t) : AskOK(t, ask)
  /\ ReadOK(t, loading[t])

Only(t) == Tab = {t}

IInv == TypesOK /\ \A t \in Tab : Only(t) => AcceptedEditsAreKept /\ Kept(t)
-----------------------------------------------------------------------------
(* Sequences.                                                              *)

LEMMA HeadIsFirst ==
  ASSUME NEW S, NEW q \in Seq(S), q # <<>>
  PROVE  Head(q) = q[1] /\ Head(q) \in S /\ 1 \in DOMAIN q /\ Len(q) \in Nat \ {0}
OBVIOUS

LEMMA TailShifts ==
  ASSUME NEW S, NEW q \in Seq(S), q # <<>>
  PROVE  /\ Tail(q) \in Seq(S)
         /\ \A i \in DOMAIN Tail(q) : /\ i \in Nat \ {0} /\ i + 1 \in DOMAIN q
                                      /\ Tail(q)[i] = q[i + 1]
OBVIOUS

LEMMA AppendAdds ==
  ASSUME NEW S, NEW q \in Seq(S), NEW x \in S
  PROVE  /\ Append(q, x) \in Seq(S)
         /\ \A i \in DOMAIN Append(q, x) :
              \/ i \in DOMAIN q /\ Append(q, x)[i] = q[i]
              \/ i = Len(q) + 1 /\ Append(q, x)[i] = x
         /\ DOMAIN q = 1..Len(q) /\ Len(q) \in Nat
OBVIOUS

LEMMA FirstReplaced ==
  ASSUME NEW S, NEW q \in Seq(S), q # <<>>, NEW x \in S
  PROVE  /\ [q EXCEPT ![1] = x] \in Seq(S) /\ 1 \in DOMAIN q
         /\ DOMAIN [q EXCEPT ![1] = x] = DOMAIN q
         /\ \A i \in DOMAIN q : [q EXCEPT ![1] = x][i] = IF i = 1 THEN x ELSE q[i]
OBVIOUS

LEMMA PositionsCount ==
  ASSUME NEW S, NEW q \in Seq(S)
  PROVE  DOMAIN q = 1..Len(q) /\ Len(q) \in Nat /\ \A i \in DOMAIN q : q[i] \in S
OBVIOUS
-----------------------------------------------------------------------------
(* Types.                                                                  *)

\* What the edits that are known are the type of, they still are when there are more.
LEMMA TypesGrow ==
  ASSUME NEW S, NEW T, S \subseteq T, NEW A, NEW B, A \subseteq B
  PROVE  /\ PayloadOf(S) \subseteq PayloadOf(T) /\ Reply(S) \subseteq Reply(T)
         /\ SaveRec(S, A) \subseteq SaveRec(T, B) /\ DeliveryRec(S) \subseteq DeliveryRec(T)
         /\ Types(S, A) => Types(T, B)
<1>1. PayloadOf(S) \subseteq PayloadOf(T) /\ Reply(S) \subseteq Reply(T)
  BY DEF PayloadOf, Reply
<1>2. SaveRec(S, A) \subseteq SaveRec(T, B)
  BY <1>1 DEF SaveRec
<1>3. DeliveryRec(S) \subseteq DeliveryRec(T)
  BY <1>1 DEF DeliveryRec
<1>4. ReadRec(S) \subseteq ReadRec(T)
  BY <1>1 DEF ReadRec
<1>5. Seq(AskRec(S, A)) \subseteq Seq(AskRec(T, B)) /\ Seq(JobRec(S, A)) \subseteq Seq(JobRec(T, B))
  <2>1. AskRec(S, A) \subseteq AskRec(T, B) /\ JobRec(S, A) \subseteq JobRec(T, B)
    BY <1>2, <1>3 DEF AskRec, JobRec
  <2> QED BY <2>1, SeqMonotonic
<1>6. ASSUME Types(S, A)
      PROVE  Types(T, B)
  BY <1>1, <1>4, <1>5, <1>6 DEF Types
<1> QED BY <1>1, <1>2, <1>3, <1>6

LEMMA KindsOfJobs ==
  ASSUME NEW S, NEW A, NEW job \in JobRec(S, A)
  PROVE  /\ job.kind = "save" => job \in SaveRec(S, A)
         /\ job.kind \in {"flush", "recover", "hydrate", "merge"} => job \in DeliveryRec(S)
         /\ job.kind = "flushing" => job \in WaitRec
         /\ job.kind \in {"save", "flush", "recover", "hydrate", "merge", "flushing"}
         /\ job.reply # Nothing => job.kind # "flushing" /\ job.reply \in Reply(S)
BY DEF JobRec, SaveRec, DeliveryRec, WaitRec

LEMMA KindsOfAsks ==
  ASSUME NEW S, NEW A, NEW ask \in AskRec(S, A)
  PROVE  /\ ask.kind = "save" => ask \in SaveRec(S, A) /\ ask.reply = Nothing
         /\ ask.kind # "save" => ask.kind = "read"
         /\ ask.gen \in Nat
BY DEF AskRec, SaveRec

\* The types of the variables that one step changes, with everything else as it was.
LEMMA TypeFacts ==
  ASSUME TypesOK
  PROVE  /\ server \subseteq Known /\ workspace \subseteq Known /\ snapshot \subseteq Known
         /\ outbox \in {Nothing} \cup PayloadOf(Known)
         /\ view \in [Tab -> SUBSET Known]
         /\ starting \in [Tab -> Seq(AskRec(Known, accepted))] /\ queue \in [Tab -> Seq(JobRec(Known, accepted))]
         /\ loading \in [Tab -> {Nothing} \cup ReadRec(Known)]
         /\ gen \in [Tab -> Nat] /\ timer \in [Tab -> BOOLEAN]
         /\ Known \subseteq Edit /\ accepted \subseteq Known
BY OutboxAssumption DEF TypesOK, Types, Known

\* The job at the head of a page's queue.
LEMMA HeadJob ==
  ASSUME TypesOK, NEW t \in Tab, queue[t] # <<>>
  PROVE  /\ queue[t] \in Seq(JobRec(Known, accepted)) /\ Head(queue[t]) = queue[t][1]
         /\ Head(queue[t]) \in JobRec(Known, accepted) /\ 1 \in DOMAIN queue[t]
BY TypeFacts, HeadIsFirst

LEMMA JobsTyped ==
  ASSUME TypesOK, NEW t \in Tab
  PROVE  /\ \A job \in Jobs(t) : job \in JobRec(Known, accepted)
         /\ \A ask \in Asked(t) : ask \in AskRec(Known, accepted)
BY TypeFacts, PositionsCount DEF Jobs, Asked

LEMMA EventsOfTyped ==
  ASSUME NEW S \in SUBSET Edit
  PROVE  EventsOf(S) \subseteq Event
BY OutboxAssumption DEF EventsOf

LEMMA SelectionTyped ==
  ASSUME TypesOK, NEW changed \in SUBSET Event
  PROVE  Selection(changed) \subseteq Event
BY TypeFacts DEF Selection, PayloadOf

\* A new save.
LEMMA SaveJobTyped ==
  ASSUME TypesOK, NEW t \in Tab, NEW e \in Edit \ Peer, IsNew(e)
  PROVE  /\ \A A : e \in A => SaveJob(t, e) \in SaveRec(Known \cup {e}, A)
         /\ ToDeliver(SaveJob(t, e)) \in PayloadOf(Known \cup {e})
         /\ SaveJob(t, e).state = view[t] \cup {e} /\ SaveJob(t, e).reply = Nothing
<1> DEFINE S == Known \cup {e}
           state == view[t] \cup {e}
           events == Selection(EventsOf((state \ snapshot) \cup (snapshot \ state)))
<1>1. state \in SUBSET S /\ snapshot \in SUBSET S /\ S \subseteq Edit /\ gen[t] + 1 \in Nat
  BY TypeFacts
<1>2. events \in SUBSET Event
  BY <1>1, EventsOfTyped, SelectionTyped
<1>3. outbox \in {Nothing} \cup PayloadOf(S)
  BY TypeFacts, TypesGrow
<1>4. SaveJob(t, e) = [kind |-> "save", edit |-> e, gen |-> gen[t] + 1, state |-> state,
         events |-> events, previous |-> snapshot, prior |-> outbox,
         payload |-> Nothing, reply |-> Nothing]
  BY DEF SaveJob
<1> HIDE DEF events, state
<1>5. ASSUME NEW A, e \in A
      PROVE  SaveJob(t, e) \in SaveRec(S, A)
  BY <1>1, <1>2, <1>3, <1>4, <1>5 DEF SaveRec
<1>6. ToDeliver(SaveJob(t, e)) \in PayloadOf(S)
  BY <1>1, <1>2, <1>4 DEF ToDeliver, PayloadOf, state
<1>7. SaveJob(t, e).state = state /\ SaveJob(t, e).reply = Nothing
  BY <1>4
<1> QED BY <1>5, <1>6, <1>7 DEF state
-----------------------------------------------------------------------------
(* The types after a step.                                                 *)

LEMMA QueuesMove ==
  ASSUME NEW S, NEW A, NEW q \in Seq(JobRec(S, A)), OneAtATime(q)
  PROVE  /\ q # <<>> => Tail(q) \in Seq(JobRec(S, A)) /\ OneAtATime(Tail(q))
         /\ \A x \in JobRec(S, A) :
              x.reply = Nothing /\ x.kind \notin {"flushing", "flush"} =>
                Append(q, x) \in Seq(JobRec(S, A)) /\ OneAtATime(Append(q, x))
         /\ \A x \in JobRec(S, A) :
              /\ x.reply = Nothing /\ x.kind = "flushing"
              /\ \A i \in DOMAIN q : q[i].kind \notin {"flushing", "flush"}
              => Append(q, x) \in Seq(JobRec(S, A)) /\ OneAtATime(Append(q, x))
         /\ \A x \in JobRec(S, A) :
              /\ q # <<>>
              /\ x.kind \in {"flushing", "flush"} => q[1].kind \in {"flushing", "flush"}
              => [q EXCEPT ![1] = x] \in Seq(JobRec(S, A)) /\ OneAtATime([q EXCEPT ![1] = x])
<1>1. ASSUME q # <<>>
      PROVE  Tail(q) \in Seq(JobRec(S, A)) /\ OneAtATime(Tail(q))
  BY <1>1, TailShifts DEF OneAtATime
<1>2. ASSUME NEW x \in JobRec(S, A), x.reply = Nothing, x.kind # "flush",
             x.kind = "flushing" => \A i \in DOMAIN q : q[i].kind \notin {"flushing", "flush"}
      PROVE  Append(q, x) \in Seq(JobRec(S, A)) /\ OneAtATime(Append(q, x))
  BY <1>2, AppendAdds DEF OneAtATime
<1>3. ASSUME NEW x \in JobRec(S, A), q # <<>>,
             x.kind \in {"flushing", "flush"} => q[1].kind \in {"flushing", "flush"}
      PROVE  [q EXCEPT ![1] = x] \in Seq(JobRec(S, A)) /\ OneAtATime([q EXCEPT ![1] = x])
  BY <1>3, FirstReplaced DEF OneAtATime
<1> QED BY <1>1, <1>2, <1>3

\* What a step that makes no edit has to show of the types.
LEMMA TypesStay ==
  ASSUME TypesOK, made' = made,
         server' \subseteq Known, workspace' \subseteq Known, snapshot' \subseteq Known,
         outbox' \in {Nothing} \cup PayloadOf(Known), view' \in [Tab -> SUBSET Known],
         starting' \in [Tab -> Seq(AskRec(Known, accepted))],
         loading' \in [Tab -> {Nothing} \cup ReadRec(Known)],
         gen' \in [Tab -> Nat], timer' \in [Tab -> BOOLEAN],
         accepted' = accepted, reverted' \subseteq accepted,
         failures' \in 0..MaxFailures, crashes' \in 0..MaxCrashes,
         \/ queue' = queue
         \/ \E t \in Tab, q \in Seq(JobRec(Known, accepted)) :
              OneAtATime(q) /\ queue' = [queue EXCEPT ![t] = q]
  PROVE  TypesOK'
<1>1. queue' \in [Tab -> Seq(JobRec(Known, accepted))] /\ \A s \in Tab : OneAtATime(queue'[s])
  <2>1. queue \in [Tab -> Seq(JobRec(Known, accepted))] /\ \A s \in Tab : OneAtATime(queue[s])
    BY DEF TypesOK, Types
  <2>2. CASE queue' = queue
    BY <2>1, <2>2
  <2>3. ASSUME NEW t \in Tab, NEW q \in Seq(JobRec(Known, accepted)), OneAtATime(q),
               queue' = [queue EXCEPT ![t] = q]
        PROVE  queue' \in [Tab -> Seq(JobRec(Known, accepted))] /\ \A s \in Tab : OneAtATime(queue'[s])
    BY <2>1, <2>3
  <2> QED BY <2>2, <2>3
<1>2. Known' = Known
  BY DEF Known
<1>3. accepted' = accepted
  OBVIOUS
<1>4. Types(Known, accepted)'
  BY <1>1, <1>2, <1>3 DEF Types
<1> QED BY <1>1, <1>4 DEF TypesOK

LEMMA FailCounts ==
  ASSUME TypesOK, NEW n \in Nat, Fail(n)
  PROVE  failures' \in 0..MaxFailures
BY OutboxAssumption DEF Fail, TypesOK

LEMMA BoundsTyped ==
  ASSUME TypesOK
  PROVE  failures \in 0..MaxFailures /\ crashes \in 0..MaxCrashes /\ reverted \subseteq accepted
BY DEF TypesOK

LEMMA SaveTypes ==
  ASSUME TypesOK, NEW t \in Tab, NEW e \in Edit, Save(t, e)
  PROVE  TypesOK'
<1> DEFINE job == SaveJob(t, e)
           S == Known \cup {e}
           A == accepted \cup {e}
<1>1. e \in Edit \ Peer /\ IsNew(e) /\ Known' = S /\ accepted' = A
  BY DEF Save, IsNew, Known
<1>2. /\ job \in SaveRec(S, A) /\ job.reply = Nothing /\ ToDeliver(job) \in PayloadOf(S)
      /\ job.state \in SUBSET S
  BY <1>1, SaveJobTyped, TypeFacts
<1>3. Types(S, A)
  BY TypesGrow DEF TypesOK
<1>4. /\ outbox' = ToDeliver(job) /\ snapshot' = job.state /\ view' = [view EXCEPT ![t] = job.state]
      /\ starting' = [starting EXCEPT ![t] = Append(starting[t], job)]
      /\ UNCHANGED <<server, workspace, queue, loading>>
  BY DEF Save, cloud
<1> HIDE DEF job, S, A
<1>5. starting' \in [Tab -> Seq(AskRec(S, A))]
  <2>1. job \in AskRec(S, A) /\ starting \in [Tab -> Seq(AskRec(S, A))]
    BY <1>2, <1>3 DEF AskRec, Types
  <2>2. Append(starting[t], job) \in Seq(AskRec(S, A))
    BY <2>1, AppendAdds
  <2> QED BY <1>4, <2>1, <2>2
<1>6. Types(Known, accepted)'
  <2>1. /\ server' \subseteq S /\ workspace' \subseteq S /\ snapshot' \subseteq S
        /\ outbox' \in {Nothing} \cup PayloadOf(S) /\ view' \in [Tab -> SUBSET S]
        /\ queue' \in [Tab -> Seq(JobRec(S, A))] /\ loading' \in [Tab -> {Nothing} \cup ReadRec(S)]
    BY <1>2, <1>3, <1>4 DEF Types
  <2> QED BY <1>1, <1>5, <2>1 DEF Types
<1>7. /\ gen' \in [Tab -> Nat] /\ timer' \in [Tab -> BOOLEAN]
      /\ made' \subseteq Edit \ Peer /\ accepted' \subseteq made' /\ reverted' \subseteq accepted'
      /\ failures' \in 0..MaxFailures /\ crashes' \in 0..MaxCrashes
      /\ \A s \in Tab : OneAtATime(queue'[s])
  BY <1>1, <1>4 DEF Save, TypesOK, bounds
<1> QED BY <1>6, <1>7 DEF TypesOK

\* An edit that was in the outbox, but not shown, when its page was killed.
LEMMA CrashTypes ==
  ASSUME TypesOK, NEW t \in Tab, Crash(t) \/ \E e \in Edit : CrashWhileSaving(t, e)
  PROVE  TypesOK'
<1>1. /\ view' = [view EXCEPT ![t] = snapshot] /\ gen' = [gen EXCEPT ![t] = 0]
      /\ starting' = [starting EXCEPT ![t] = <<>>] /\ queue' = [queue EXCEPT ![t] = <<>>]
      /\ loading' = [loading EXCEPT ![t] = Nothing] /\ timer' = [timer EXCEPT ![t] = FALSE]
      /\ UNCHANGED <<server, workspace, snapshot, accepted, reverted, failures>>
      /\ crashes' = crashes + 1 /\ crashes < MaxCrashes
  BY DEF Crash, CrashWhileSaving, Reopened, cloud
<1>2. \E S : /\ Known \subseteq S /\ Known' = S /\ made' \subseteq Edit \ Peer
             /\ made \subseteq made' /\ outbox' \in {Nothing} \cup PayloadOf(S)
  <2>1. CASE Crash(t)
    BY <2>1, TypeFacts DEF Crash, Known, TypesOK
  <2>2. ASSUME NEW e \in Edit, CrashWhileSaving(t, e)
        PROVE  /\ Known \subseteq Known \cup {e} /\ Known' = Known \cup {e}
               /\ made' \subseteq Edit \ Peer
               /\ made \subseteq made' /\ outbox' \in {Nothing} \cup PayloadOf(Known \cup {e})
    BY <2>2, SaveJobTyped DEF CrashWhileSaving, IsNew, Known, TypesOK
  <2> QED BY <2>1, <2>2
<1>3. PICK S : /\ Known \subseteq S /\ Known' = S /\ made' \subseteq Edit \ Peer
               /\ made \subseteq made' /\ outbox' \in {Nothing} \cup PayloadOf(S)
  BY <1>2
<1>4. Types(S, accepted)
  BY <1>3, TypesGrow DEF TypesOK
<1>5. <<>> \in Seq(JobRec(S, accepted)) /\ <<>> \in Seq(AskRec(S, accepted)) /\ OneAtATime(<<>>)
  BY DEF OneAtATime
<1>6. Types(Known, accepted)'
  BY <1>1, <1>3, <1>4, <1>5 DEF Types
<1>7. \A s \in Tab : OneAtATime(queue'[s])
  BY <1>1, <1>5 DEF TypesOK, Types
<1> QED BY <1>1, <1>3, <1>6, <1>7, OutboxAssumption DEF TypesOK

LEMMA ConfigureTypes ==
  ASSUME TypesOK, NEW t \in Tab, Configure(t)
  PROVE  TypesOK'
<1> DEFINE job == Head(starting[t])
           current == job.gen = gen[t]
           payload == [state |-> job.state, events |-> Selection(job.events)]
           new == [job EXCEPT !.payload = IF current THEN payload ELSE Nothing]
<1>1. starting[t] \in Seq(AskRec(Known, accepted)) /\ starting[t] # <<>> /\ job \in SaveRec(Known, accepted)
      /\ job.reply = Nothing
  BY TypeFacts, HeadIsFirst, KindsOfAsks DEF Configure, Asks
<1>2. payload \in PayloadOf(Known)
  BY <1>1, SelectionTyped DEF SaveRec, PayloadOf
<1>3. new \in SaveRec(Known, accepted) /\ new.kind = "save" /\ new.reply = job.reply
  BY <1>1, <1>2 DEF SaveRec
<1>4. /\ queue' = [queue EXCEPT ![t] = Append(queue[t], new)]
      /\ outbox' = IF current THEN payload ELSE outbox
      /\ starting' = [starting EXCEPT ![t] = Tail(starting[t])]
      /\ UNCHANGED <<server, workspace, snapshot, view, gen, loading, timer, made, accepted,
                     reverted, failures, crashes>>
  BY DEF Configure, cloud, history, bounds
<1> HIDE DEF new, payload, job
<1>5. Tail(starting[t]) \in Seq(AskRec(Known, accepted))
  BY <1>1, TailShifts
<1>6. Append(queue[t], new) \in Seq(JobRec(Known, accepted)) /\ OneAtATime(Append(queue[t], new))
  BY <1>1, <1>3, TypeFacts, QueuesMove DEF JobRec, TypesOK
<1>7. outbox' \in {Nothing} \cup PayloadOf(Known) /\ starting' \in [Tab -> Seq(AskRec(Known, accepted))]
  BY <1>2, <1>4, <1>5, TypeFacts
<1> QED BY <1>4, <1>6, <1>7, TypesStay, TypeFacts, BoundsTyped

LEMMA ConfigUnavailableTypes ==
  ASSUME TypesOK, NEW t \in Tab, ConfigUnavailable(t)
  PROVE  TypesOK'
<1>1. starting' \in [Tab -> Seq(AskRec(Known, accepted))]
  BY TypeFacts, TailShifts DEF ConfigUnavailable, Asks
<1> QED BY <1>1, TypesStay, TypeFacts, FailCounts, BoundsTyped DEF ConfigUnavailable, cloud, disk, history

\* The end of the running job.
LEMMA FinishTypes ==
  ASSUME TypesOK, NEW t \in Tab, queue[t] # <<>>, Finish(t)
  PROVE  \E q \in Seq(JobRec(Known, accepted)) : OneAtATime(q) /\ queue' = [queue EXCEPT ![t] = q]
BY TypeFacts, QueuesMove DEF Finish, TypesOK

\* A running job that goes on as another.
LEMMA BecomesTypes ==
  ASSUME TypesOK, NEW t \in Tab, queue[t] # <<>>, NEW x \in JobRec(Known, accepted),
         x.kind \in {"flushing", "flush"} => Head(queue[t]).kind \in {"flushing", "flush"},
         queue' = [queue EXCEPT ![t][1] = x]
  PROVE  \E q \in Seq(JobRec(Known, accepted)) : OneAtATime(q) /\ queue' = [queue EXCEPT ![t] = q]
<1>1. queue' = [queue EXCEPT ![t] = [queue[t] EXCEPT ![1] = x]]
  BY TypeFacts
<1> QED BY <1>1, TypeFacts, HeadJob, QueuesMove DEF TypesOK

LEMMA StartFlushTypes ==
  ASSUME TypesOK, NEW t \in Tab, StartFlush(t)
  PROVE  TypesOK'
<1>1. CASE outbox = Nothing
  BY <1>1, TypesStay, TypeFacts, FinishTypes, BoundsTyped DEF StartFlush, cloud, disk, history, bounds
<1>2. CASE outbox # Nothing
  <2>1. outbox \in PayloadOf(Known) /\ gen[t] \in Nat /\ snapshot \subseteq Known
    BY <1>2, TypeFacts
  <2>2. FlushJob(t) \in DeliveryRec(Known) /\ FlushJob(t).kind = "flush"
    BY <2>1 DEF FlushJob, DeliveryRec, PayloadOf
  <2>3. \E q \in Seq(JobRec(Known, accepted)) : OneAtATime(q) /\ queue' = [queue EXCEPT ![t] = q]
    BY <1>2, <2>2, BecomesTypes DEF StartFlush, JobRec
  <2> QED BY <1>2, <2>3, TypesStay, TypeFacts, BoundsTyped DEF StartFlush, cloud, disk, history, bounds
<1> QED BY <1>1, <1>2

\* What a request sends and what it is answered.
\* What a request does to the rows, and the answer it brings.
LEMMA SendAnswers ==
  ASSUME TypesOK, NEW t \in Tab, Send(t)
  PROVE  \E reply \in Reply(Known), n \in Nat :
           /\ Fail(n) /\ server \subseteq server' /\ server' \subseteq Known /\ workspace' \subseteq Known
           /\ queue' = [queue EXCEPT ![t][1].reply = reply]
           /\ Head(queue[t]).state \subseteq reply.state
           /\ \A e \in Head(queue[t]).state : EventOf[e] \in reply.saved => e \in server'
           /\ reply.ok => reply.saved = Head(queue[t]).events
<1> DEFINE job == Head(queue[t])
           state == IF job.kind = "save" THEN job.state ELSE job.state \cup workspace
           refused == job.events \cap EventsOf(state \cap Refused)
<1>1. queue[t] # <<>> /\ job \in JobRec(Known, accepted) /\ job.kind \in {"save", "flush", "recover"}
  BY HeadJob DEF Send
<1>2. job \in SaveRec(Known, accepted) \cup DeliveryRec(Known)
  BY <1>1, KindsOfJobs
<1>3. /\ job.state \in SUBSET Known /\ job.events \in SUBSET Event /\ state \in SUBSET Known
      /\ job.state \subseteq state
  BY <1>2, TypeFacts DEF SaveRec, DeliveryRec
<1>4. PICK down \in SUBSET job.events, reached \in BOOLEAN :
        \E landed \in SUBSET (down \ refused) :
          LET saved == job.events \ (down \cup refused)
              rows == server \cup {e \in state : EventOf[e] \in saved \cup landed}
              merged == state \cup {e \in rows : EventOf[e] \in saved}
              mirrored == reached /\ (saved # {} \/ job.events = {}) IN
          /\ Fail(Cardinality(down) + IF reached THEN 0 ELSE 1)
          /\ server' = rows
          /\ workspace' = IF mirrored THEN workspace \cup merged ELSE workspace
          /\ queue' = [queue EXCEPT ![t][1].reply =
               [state |-> IF mirrored THEN merged \cup workspace ELSE merged,
                saved |-> saved, failed |-> job.events \ saved,
                ok |-> saved = job.events /\ reached,
                retryable |-> down # {} \/ ~reached]]
  BY Zenon DEF Send
<1>5. PICK landed \in SUBSET (down \ refused) :
        LET saved == job.events \ (down \cup refused)
            rows == server \cup {e \in state : EventOf[e] \in saved \cup landed}
            merged == state \cup {e \in rows : EventOf[e] \in saved}
            mirrored == reached /\ (saved # {} \/ job.events = {}) IN
        /\ Fail(Cardinality(down) + IF reached THEN 0 ELSE 1)
        /\ server' = rows
        /\ workspace' = IF mirrored THEN workspace \cup merged ELSE workspace
        /\ queue' = [queue EXCEPT ![t][1].reply =
             [state |-> IF mirrored THEN merged \cup workspace ELSE merged,
              saved |-> saved, failed |-> job.events \ saved,
              ok |-> saved = job.events /\ reached,
              retryable |-> down # {} \/ ~reached]]
  BY <1>4
<1> DEFINE saved == job.events \ (down \cup refused)
           rows == server \cup {e \in state : EventOf[e] \in saved \cup landed}
           merged == state \cup {e \in rows : EventOf[e] \in saved}
           mirrored == reached /\ (saved # {} \/ job.events = {})
           answered == IF mirrored THEN merged \cup workspace ELSE merged
           reply == [state |-> answered, saved |-> saved, failed |-> job.events \ saved,
                     ok |-> saved = job.events /\ reached,
                     retryable |-> down # {} \/ ~reached]
           n == Cardinality(down) + IF reached THEN 0 ELSE 1
<1>6. /\ saved \in SUBSET Event /\ rows \in SUBSET Known /\ merged \in SUBSET Known
      /\ job.state \subseteq merged /\ server \subseteq rows
      /\ \A e \in job.state : EventOf[e] \in saved => e \in rows
  BY <1>3, TypeFacts
<1>7. /\ server' = rows /\ workspace' \in {workspace, workspace \cup merged}
      /\ queue' = [queue EXCEPT ![t][1].reply = reply] /\ Fail(n)
  BY <1>5
<1>8. n \in Nat
  <2>1. IsFiniteSet(down)
    BY <1>3, OutboxAssumption, FS_Subset
  <2> QED BY <2>1, FS_CardinalityType
<1> HIDE DEF mirrored, merged, rows, saved, n
<1>9. answered \in SUBSET Known /\ job.state \subseteq answered
  BY <1>6, TypeFacts
<1> HIDE DEF answered
<1>10. reply \in Reply(Known) /\ reply.state = answered /\ reply.saved = saved
       /\ (reply.ok => saved = job.events)
  BY <1>3, <1>6, <1>9 DEF Reply
<1> HIDE DEF reply
<1>11. server \subseteq server' /\ server' \subseteq Known /\ workspace' \subseteq Known
  BY <1>6, <1>7, TypeFacts
<1>12. /\ job.state \subseteq reply.state
       /\ \A e \in job.state : EventOf[e] \in reply.saved => e \in server'
       /\ reply.ok => reply.saved = job.events
  BY <1>6, <1>7, <1>9, <1>10
<1> QED BY <1>7, <1>8, <1>10, <1>11, <1>12

LEMMA SendTypes ==
  ASSUME TypesOK, NEW t \in Tab, Send(t)
  PROVE  TypesOK'
<1> DEFINE job == Head(queue[t])
<1>1. queue[t] # <<>> /\ job \in JobRec(Known, accepted) /\ job.kind \in {"save", "flush", "recover"}
  BY HeadJob DEF Send
<1>2. job \in SaveRec(Known, accepted) \cup DeliveryRec(Known)
  BY <1>1, KindsOfJobs
<1>3. PICK reply \in Reply(Known), n \in Nat :
        /\ Fail(n) /\ server' \subseteq Known /\ workspace' \subseteq Known
        /\ queue' = [queue EXCEPT ![t][1].reply = reply]
  BY SendAnswers
<1>4. \E q \in Seq(JobRec(Known, accepted)) : OneAtATime(q) /\ queue' = [queue EXCEPT ![t] = q]
  <2> DEFINE x == [job EXCEPT !.reply = reply]
  <2>1. x \in JobRec(Known, accepted) /\ x.kind = job.kind
    BY <1>2 DEF JobRec, SaveRec, DeliveryRec
  <2>2. queue' = [queue EXCEPT ![t] = [queue[t] EXCEPT ![1] = x]]
    BY <1>1, <1>3, TypeFacts, HeadJob
  <2> HIDE DEF x
  <2> QED BY <1>1, <2>1, <2>2, TypeFacts, HeadJob, QueuesMove DEF TypesOK
<1>5. failures' \in 0..MaxFailures
  BY <1>3, FailCounts
<1>6. UNCHANGED <<disk, view, gen, starting, loading, timer, history, crashes>>
  BY DEF Send
<1> QED BY <1>3, <1>4, <1>5, <1>6, TypesStay, TypeFacts, BoundsTyped DEF disk, history

\* The job that was answered.
LEMMA AnsweredJob ==
  ASSUME TypesOK, NEW t \in Tab, Running(t)
  PROVE  LET job == Head(queue[t]) IN
         /\ queue[t] # <<>> /\ job = queue[t][1] /\ job \in JobRec(Known, accepted)
         /\ job.reply \in Reply(Known)
         /\ job.kind = "save" => job \in SaveRec(Known, accepted)
         /\ job.kind \in {"flush", "recover", "hydrate", "merge"} => job \in DeliveryRec(Known)
BY HeadJob, KindsOfJobs DEF Running

LEMMA RemainingTyped ==
  ASSUME TypesOK, NEW reply \in Reply(Known)
  PROVE  Remaining(reply) \in PayloadOf(Known) /\ reply.state \in SUBSET Known
BY TypeFacts DEF Remaining, Reply, PayloadOf

LEMMA ConfirmedTyped ==
  ASSUME TypesOK, NEW state \in SUBSET Known, NEW before
  PROVE  Confirmed(state, before) \in SUBSET Known
BY TypeFacts DEF Confirmed

LEMMA ShowTyped ==
  ASSUME TypesOK, NEW t \in Tab, NEW read, NEW result \in SUBSET Known, NEW old \in SUBSET Known,
         Show(t, read, result, old)
  PROVE  view' \in [Tab -> SUBSET Known] /\ snapshot' \subseteq Known
BY TypeFacts DEF Show

LEMMA SaveSucceededTypes ==
  ASSUME TypesOK, NEW t \in Tab, SaveSucceeded(t)
  PROVE  TypesOK'
<1> DEFINE job == Head(queue[t])
           visible == Confirmed(job.reply.state, job.state)
<1>1. /\ queue[t] # <<>> /\ job \in SaveRec(Known, accepted) /\ job.reply \in Reply(Known)
      /\ \E q \in Seq(JobRec(Known, accepted)) : OneAtATime(q) /\ queue' = [queue EXCEPT ![t] = q]
  BY AnsweredJob, FinishTypes DEF SaveSucceeded
<1>2. visible \in SUBSET Known
  BY <1>1, RemainingTyped, ConfirmedTyped
<1>3. /\ snapshot' \in {snapshot, visible} /\ view' \in {view, [view EXCEPT ![t] = visible]}
      /\ outbox' \in {outbox, Nothing} /\ timer' = [timer EXCEPT ![t] = outbox' # Nothing]
      /\ UNCHANGED <<cloud, gen, starting, loading, history, bounds>>
  BY DEF SaveSucceeded
<1> HIDE DEF visible
<1>4. /\ snapshot' \subseteq Known /\ view' \in [Tab -> SUBSET Known]
      /\ outbox' \in {Nothing} \cup PayloadOf(Known) /\ timer' \in [Tab -> BOOLEAN]
  BY <1>2, <1>3, TypeFacts
<1> QED BY <1>1, <1>3, <1>4, TypesStay, TypeFacts, BoundsTyped DEF cloud, history, bounds

LEMMA SaveFailedTypes ==
  ASSUME TypesOK, NEW t \in Tab, SaveFailed(t)
  PROVE  TypesOK'
<1> DEFINE job == Head(queue[t])
<1>1. /\ queue[t] # <<>> /\ job \in SaveRec(Known, accepted) /\ job.reply \in Reply(Known)
      /\ \E q \in Seq(JobRec(Known, accepted)) : OneAtATime(q) /\ queue' = [queue EXCEPT ![t] = q]
  BY AnsweredJob, FinishTypes DEF SaveFailed
<1>2. /\ RolledBack(job) \in SUBSET Known /\ job.reply.state \in SUBSET Known
      /\ Remaining(job.reply) \in PayloadOf(Known)
      /\ StillWaiting(job) \in {Nothing} \cup PayloadOf(Known)
  BY <1>1, RemainingTyped, TypeFacts DEF RolledBack, StillWaiting, SaveRec
<1>3. /\ UNCHANGED <<cloud, gen, starting, loading, made, accepted, bounds>>
      /\ snapshot' \in {snapshot, job.reply.state, RolledBack(job)}
      /\ view' \in {view, [view EXCEPT ![t] = job.reply.state], [view EXCEPT ![t] = RolledBack(job)]}
      /\ reverted' = reverted \/ (Current(t, job) /\ reverted' = reverted \cup {job.edit})
      /\ outbox' \in {Remaining(job.reply), StillWaiting(job), outbox}
      /\ \E b \in BOOLEAN : timer' = [timer EXCEPT ![t] = b]
  BY DEF SaveFailed
<1> HIDE DEF job
<1>4. /\ snapshot' \subseteq Known /\ view' \in [Tab -> SUBSET Known]
      /\ outbox' \in {Nothing} \cup PayloadOf(Known) /\ timer' \in [Tab -> BOOLEAN]
  BY <1>2, <1>3, TypeFacts
<1>5. reverted' \subseteq accepted
  BY <1>1, <1>3, BoundsTyped DEF SaveRec
<1> QED BY <1>1, <1>3, <1>4, <1>5, TypesStay, TypeFacts, BoundsTyped DEF cloud, bounds

LEMMA FlushAnsweredTypes ==
  ASSUME TypesOK, NEW t \in Tab, FlushAnswered(t)
  PROVE  TypesOK'
<1> DEFINE job == Head(queue[t])
<1>1. /\ queue[t] # <<>> /\ job \in DeliveryRec(Known) /\ job.reply \in Reply(Known)
      /\ \E q \in Seq(JobRec(Known, accepted)) : OneAtATime(q) /\ queue' = [queue EXCEPT ![t] = q]
  BY AnsweredJob, FinishTypes DEF FlushAnswered
<1>2. /\ job.reply.state \in SUBSET Known /\ Remaining(job.reply) \in PayloadOf(Known)
      /\ Confirmed(job.reply.state, job.local) \in SUBSET Known
  BY <1>1, RemainingTyped, ConfirmedTyped
<1>3. /\ UNCHANGED <<cloud, view, gen, starting, loading, history, bounds>>
      /\ snapshot' \in {snapshot, job.reply.state, Confirmed(job.reply.state, job.local)}
      /\ outbox' \in {Remaining(job.reply), Nothing, outbox}
      /\ \E b : timer' = [timer EXCEPT ![t] = b] /\ b \in {TRUE, FALSE, outbox' # Nothing, timer[t] \/ job.reply.retryable, outbox # Nothing}
  BY DEF FlushAnswered, RetryFailed, Reconcile, disk
<1> HIDE DEF job
<1>4. /\ snapshot' \subseteq Known
      /\ outbox' \in {Nothing} \cup PayloadOf(Known) /\ timer' \in [Tab -> BOOLEAN]
  <2>1. timer[t] \/ job.reply.retryable \in BOOLEAN
    BY <1>1, TypeFacts DEF Reply
  <2> QED BY <1>2, <1>3, <2>1, TypeFacts
<1> QED BY <1>1, <1>3, <1>4, TypesStay, TypeFacts, BoundsTyped DEF cloud, bounds, history

LEMMA TimerTypes ==
  ASSUME TypesOK, NEW t \in Tab, TimerFires(t) \/ Online(t)
  PROVE  TypesOK'
<1> DEFINE wait == [kind |-> "flushing", reply |-> Nothing]
<1>1. /\ UNCHANGED <<cloud, disk, view, gen, starting, loading, history, bounds>>
      /\ timer' = [timer EXCEPT ![t] = FALSE] /\ QueueFlush(t)
  BY DEF TimerFires, Online
<1>2. wait \in JobRec(Known, accepted) /\ wait.reply = Nothing /\ wait.kind = "flushing"
  BY DEF JobRec, WaitRec
<1>3. \/ queue' = queue
      \/ \E q \in Seq(JobRec(Known, accepted)) : OneAtATime(q) /\ queue' = [queue EXCEPT ![t] = q]
  <2>1. CASE FlushQueued(t)
    BY <1>1, <2>1 DEF QueueFlush
  <2>2. CASE ~FlushQueued(t)
    <3>1. \A i \in DOMAIN queue[t] : queue[t][i].kind \notin {"flushing", "flush"}
      BY <2>2 DEF FlushQueued
    <3>2. queue' = [queue EXCEPT ![t] = Append(queue[t], wait)]
      BY <1>1, <2>2 DEF QueueFlush
    <3> HIDE DEF wait
    <3>3. Append(queue[t], wait) \in Seq(JobRec(Known, accepted)) /\ OneAtATime(Append(queue[t], wait))
      BY <1>2, <3>1, TypeFacts, QueuesMove DEF TypesOK
    <3> QED BY <3>2, <3>3
  <2> QED BY <2>1, <2>2
<1> QED BY <1>1, <1>3, TypesStay, TypeFacts, BoundsTyped DEF cloud, disk, bounds, history

LEMMA StartLoadTypes ==
  ASSUME TypesOK, NEW t \in Tab, StartLoad(t)
  PROVE  TypesOK'
<1> DEFINE ask == [kind |-> "read", gen |-> gen[t]]
<1>1. ask \in AskRec(Known, accepted) /\ [kind |-> "asked"] \in ReadRec(Known)
  BY TypeFacts DEF AskRec, ReadRec
<1>2. /\ loading' = [loading EXCEPT ![t] = [kind |-> "asked"]]
      /\ starting' = [starting EXCEPT ![t] = Append(starting[t], ask)]
      /\ UNCHANGED <<cloud, disk, view, gen, queue, timer, history, bounds>>
  BY DEF StartLoad
<1> HIDE DEF ask
<1>3. Append(starting[t], ask) \in Seq(AskRec(Known, accepted))
  BY <1>1, TypeFacts, AppendAdds
<1>4. starting' \in [Tab -> Seq(AskRec(Known, accepted))] /\ loading' \in [Tab -> {Nothing} \cup ReadRec(Known)]
  BY <1>1, <1>2, <1>3, TypeFacts
<1> QED BY <1>2, <1>4, TypesStay, TypeFacts, BoundsTyped DEF cloud, disk, bounds, history

LEMMA ChooseReadTypes ==
  ASSUME TypesOK, NEW t \in Tab, ChooseRead(t)
  PROVE  TypesOK'
<1> DEFINE asked == Head(starting[t]).gen
           read == [kind |-> IF outbox = Nothing THEN "plain" ELSE "deferred",
                    gen |-> asked, local |-> snapshot, payload |-> outbox,
                    indexed |-> {}, remote |-> Nothing]
           job == [kind |-> "recover", gen |-> asked, local |-> snapshot,
                   state |-> outbox.state, events |-> outbox.events,
                   payload |-> outbox, reply |-> Nothing]
<1>1. starting[t] \in Seq(AskRec(Known, accepted)) /\ starting[t] # <<>> /\ asked \in Nat
  BY TypeFacts, HeadIsFirst, KindsOfAsks DEF ChooseRead, Asks
<1>2. /\ UNCHANGED <<cloud, disk, view, gen, timer, history, bounds>>
      /\ starting' = [starting EXCEPT ![t] = Tail(starting[t])]
      /\ \/ loading' = [loading EXCEPT ![t] = read] /\ queue' = queue
         \/ /\ outbox # Nothing /\ loading' = [loading EXCEPT ![t] = [kind |-> "recover"]]
            /\ queue' = [queue EXCEPT ![t] = Append(queue[t], job)]
  BY DEF ChooseRead
<1>3. [kind |-> "recover"] \in ReadRec(Known) /\ read \in ReadRec(Known)
  <2>1. [kind |-> "recover"] \in ReadRec(Known)
    BY DEF ReadRec
  <2>2. CASE outbox = Nothing
    BY <1>1, <2>1, <2>2, TypeFacts DEF ReadRec
  <2>3. CASE outbox # Nothing
    BY <1>1, <2>1, <2>3, TypeFacts DEF ReadRec
  <2> QED BY <2>2, <2>3
<1>4. outbox # Nothing => job \in JobRec(Known, accepted) /\ job.reply = Nothing /\ job.kind = "recover"
  BY <1>1, TypeFacts DEF JobRec, DeliveryRec, PayloadOf
<1> HIDE DEF read, job
<1>5. outbox # Nothing =>
        /\ Append(queue[t], job) \in Seq(JobRec(Known, accepted))
        /\ OneAtATime(Append(queue[t], job))
  BY <1>4, TypeFacts, QueuesMove DEF TypesOK
<1>6. /\ starting' \in [Tab -> Seq(AskRec(Known, accepted))]
      /\ loading' \in [Tab -> {Nothing} \cup ReadRec(Known)]
  <2>1. Tail(starting[t]) \in Seq(AskRec(Known, accepted))
    BY <1>1, TailShifts
  <2> QED BY <1>2, <1>3, <2>1, TypeFacts
<1> QED BY <1>2, <1>5, <1>6, TypesStay, TypeFacts, BoundsTyped DEF cloud, disk, bounds, history

\* The read that a page is in the middle of.
LEMMA ReadTyped ==
  ASSUME TypesOK, NEW t \in Tab, Reads(t)
  PROVE  /\ loading[t] \in ReadRec(Known) /\ loading[t].kind \in {"plain", "deferred"}
         /\ loading[t].local \in SUBSET Known /\ loading[t].gen \in Nat
         /\ loading[t].remote # Nothing => loading[t].remote \in SUBSET Known
         /\ loading[t].kind = "deferred" => loading[t].payload \in PayloadOf(Known)
         /\ \A indexed, remote \in SUBSET Known :
              [loading[t] EXCEPT !.indexed = indexed, !.remote = remote] \in ReadRec(Known)
<1>1. loading[t] \in ReadRec(Known) /\ loading[t].kind \in {"plain", "deferred"}
  BY TypeFacts DEF Reads
<1> QED BY <1>1 DEF ReadRec

LEMMA LoadReadTypes ==
  ASSUME TypesOK, NEW t \in Tab, LoadRead(t)
  PROVE  TypesOK'
<1>1. loading' \in [Tab -> {Nothing} \cup ReadRec(Known)]
  <2> DEFINE read == [loading[t] EXCEPT !.indexed = workspace, !.remote = workspace \cup server]
  <2>1. read \in ReadRec(Known)
    BY ReadTyped, TypeFacts DEF LoadRead
  <2>2. loading' = [loading EXCEPT ![t] = read]
    BY TypeFacts DEF LoadRead
  <2> HIDE DEF read
  <2> QED BY <2>1, <2>2, TypeFacts
<1> QED BY <1>1, TypesStay, TypeFacts, BoundsTyped DEF LoadRead, cloud, disk, bounds, history

LEMMA LoadFinishedTypes ==
  ASSUME TypesOK, NEW t \in Tab, LoadFinished(t)
  PROVE  TypesOK'
<1> DEFINE read == loading[t]
           found == read.remote \cup (IF read.kind = "deferred" THEN read.payload.state ELSE {})
           result == IF Superseded(t, read) THEN found \cup snapshot ELSE found
<1>1. found \in SUBSET Known /\ result \in SUBSET Known
  BY ReadTyped, TypeFacts DEF LoadFinished, PayloadOf
<1>2. /\ Show(t, read, result, result) /\ loading' = [loading EXCEPT ![t] = Nothing]
      /\ workspace' \in {workspace, workspace \cup found \cup snapshot}
      /\ timer' = timer \/ Reconcile(t)
      /\ UNCHANGED <<server, outbox, gen, starting, queue, history, bounds>>
  BY DEF LoadFinished, KeepIndex
<1> HIDE DEF found, result
<1>3. view' \in [Tab -> SUBSET Known] /\ snapshot' \subseteq Known
  BY <1>1, <1>2, ShowTyped
<1>4. /\ workspace' \subseteq Known /\ timer' \in [Tab -> BOOLEAN]
      /\ loading' \in [Tab -> {Nothing} \cup ReadRec(Known)]
  BY <1>1, <1>2, TypeFacts DEF Reconcile
<1> QED BY <1>2, <1>3, <1>4, TypesStay, TypeFacts, BoundsTyped DEF bounds, history

LEMMA LoadFailedTypes ==
  ASSUME TypesOK, NEW t \in Tab, LoadFailed(t)
  PROVE  TypesOK'
<1>1. \E result \in {loading[t].local, snapshot, loading[t].payload.state} :
        /\ Show(t, loading[t], result, snapshot)
        /\ result = loading[t].payload.state => loading[t].kind = "deferred" \/ result = snapshot \/ result = loading[t].local
  BY ReadTyped DEF LoadFailed
<1>2. PICK result : result \in SUBSET Known /\ Show(t, loading[t], result, snapshot)
  BY <1>1, ReadTyped, TypeFacts DEF LoadFailed, PayloadOf
<1>3. view' \in [Tab -> SUBSET Known] /\ snapshot' \subseteq Known
  BY <1>2, ShowTyped, TypeFacts
<1>4. /\ loading' = [loading EXCEPT ![t] = Nothing] /\ Fail(1)
      /\ timer' = timer \/ Reconcile(t)
      /\ UNCHANGED <<cloud, outbox, gen, starting, queue, history, crashes>>
  BY DEF LoadFailed
<1>5. timer' \in [Tab -> BOOLEAN] /\ loading' \in [Tab -> {Nothing} \cup ReadRec(Known)]
  BY <1>4, TypeFacts DEF Reconcile
<1> QED BY <1>3, <1>4, <1>5, FailCounts, TypesStay, TypeFacts, BoundsTyped DEF cloud, history

LEMMA ReadUnavailableTypes ==
  ASSUME TypesOK, NEW t \in Tab, ReadUnavailable(t)
  PROVE  TypesOK'
<1>1. view' \in [Tab -> SUBSET Known] /\ snapshot' \subseteq Known
  BY ShowTyped, TypeFacts DEF ReadUnavailable
<1>2. Tail(starting[t]) \in Seq(AskRec(Known, accepted))
  BY TypeFacts, TailShifts DEF ReadUnavailable, Asks
<1>3. /\ starting' \in [Tab -> Seq(AskRec(Known, accepted))]
      /\ loading' \in [Tab -> {Nothing} \cup ReadRec(Known)]
  BY <1>2, TypeFacts DEF ReadUnavailable
<1> QED BY <1>1, <1>3, FailCounts, TypesStay, TypeFacts, BoundsTyped DEF ReadUnavailable, cloud, history

LEMMA RecoverDeliveredTypes ==
  ASSUME TypesOK, NEW t \in Tab, RecoverDelivered(t)
  PROVE  TypesOK'
<1> DEFINE job == Head(queue[t])
<1>1. queue[t] # <<>> /\ job = queue[t][1] /\ job \in DeliveryRec(Known)
  BY AnsweredJob DEF RecoverDelivered
<1>2. \E kind \in {"hydrate", "merge"} : queue' = [queue EXCEPT ![t][1].kind = kind]
  BY DEF RecoverDelivered
<1>3. \E q \in Seq(JobRec(Known, accepted)) : OneAtATime(q) /\ queue' = [queue EXCEPT ![t] = q]
  <2> PICK kind \in {"hydrate", "merge"} : queue' = [queue EXCEPT ![t][1].kind = kind]
    BY <1>2
  <2> DEFINE x == [job EXCEPT !.kind = kind]
  <2>1. x \in JobRec(Known, accepted) /\ x.kind \in {"hydrate", "merge"}
    BY <1>1 DEF JobRec, DeliveryRec
  <2>2. queue' = [queue EXCEPT ![t] = [queue[t] EXCEPT ![1] = x]]
    BY <1>1, TypeFacts, HeadJob
  <2> HIDE DEF x
  <2> QED BY <1>1, <2>1, <2>2, TypeFacts, HeadJob, QueuesMove DEF TypesOK
<1>4. /\ UNCHANGED <<cloud, snapshot, view, gen, starting, loading, history, bounds>>
      /\ outbox' \in {Nothing, outbox} /\ timer' \in [Tab -> BOOLEAN]
  BY TypeFacts DEF RecoverDelivered, Reconcile
<1> QED BY <1>3, <1>4, TypesStay, TypeFacts, BoundsTyped DEF cloud, history, bounds

LEMMA RecoverFinishedTypes ==
  ASSUME TypesOK, NEW t \in Tab, RecoverFinished(t)
  PROVE  TypesOK'
<1> DEFINE job == Head(queue[t])
           found == job.reply.state \cup server
           result == IF job.kind = "merge" THEN found \cup snapshot ELSE Confirmed(found, job.local)
<1>1. /\ queue[t] # <<>> /\ job \in DeliveryRec(Known) /\ job.reply \in Reply(Known)
      /\ \E q \in Seq(JobRec(Known, accepted)) : OneAtATime(q) /\ queue' = [queue EXCEPT ![t] = q]
  BY AnsweredJob, FinishTypes DEF RecoverFinished
<1>2. found \in SUBSET Known /\ result \in SUBSET Known
  <2>1. found \in SUBSET Known
    BY <1>1, RemainingTyped, TypeFacts
  <2> HIDE DEF found
  <2> QED BY <2>1, ConfirmedTyped, TypeFacts
<1>3. /\ Show(t, job, result, result) /\ loading' = [loading EXCEPT ![t] = Nothing]
      /\ workspace' \in {workspace, workspace \cup found \cup snapshot}
      /\ UNCHANGED <<server, outbox, gen, starting, timer, history, bounds>>
  BY DEF RecoverFinished, KeepIndex
<1> HIDE DEF job, found, result
<1>4. view' \in [Tab -> SUBSET Known] /\ snapshot' \subseteq Known
  BY <1>2, <1>3, ShowTyped
<1>5. workspace' \subseteq Known /\ loading' \in [Tab -> {Nothing} \cup ReadRec(Known)]
  BY <1>2, <1>3, TypeFacts
<1> QED BY <1>1, <1>3, <1>4, <1>5, TypesStay, TypeFacts, BoundsTyped DEF bounds, history

LEMMA RecoverFailedTypes ==
  ASSUME TypesOK, NEW t \in Tab, RecoverFailed(t)
  PROVE  TypesOK'
<1> DEFINE job == Head(queue[t])
           result == IF ~Current(t, job) THEN snapshot
                     ELSE IF Partial(job.reply) THEN job.reply.state ELSE job.payload.state
           old == IF Current(t, job) /\ Partial(job.reply) THEN job.reply.state ELSE snapshot
<1>1. /\ queue[t] # <<>> /\ job \in DeliveryRec(Known) /\ job.reply \in Reply(Known)
      /\ \E q \in Seq(JobRec(Known, accepted)) : OneAtATime(q) /\ queue' = [queue EXCEPT ![t] = q]
  BY AnsweredJob, FinishTypes DEF RecoverFailed
<1>2. /\ result \in SUBSET Known /\ old \in SUBSET Known
      /\ Remaining(job.reply) \in PayloadOf(Known)
  BY <1>1, RemainingTyped, TypeFacts DEF DeliveryRec, PayloadOf
<1>3. /\ Show(t, job, result, old) /\ loading' = [loading EXCEPT ![t] = Nothing]
      /\ outbox' \in {Remaining(job.reply), outbox}
      /\ \E b : timer' = [timer EXCEPT ![t] = b] /\ b \in {timer[t] \/ job.reply.retryable, outbox # Nothing}
      /\ UNCHANGED <<cloud, gen, starting, history, bounds>>
  BY DEF RecoverFailed, Reconcile
<1> HIDE DEF job, result, old
<1>4. view' \in [Tab -> SUBSET Known] /\ snapshot' \subseteq Known
  BY <1>2, <1>3, ShowTyped
<1>5. /\ outbox' \in {Nothing} \cup PayloadOf(Known) /\ timer' \in [Tab -> BOOLEAN]
      /\ loading' \in [Tab -> {Nothing} \cup ReadRec(Known)]
  <2>1. timer[t] \/ job.reply.retryable \in BOOLEAN
    BY <1>1, TypeFacts DEF Reply
  <2> QED BY <1>2, <1>3, <2>1, TypeFacts
<1> QED BY <1>1, <1>3, <1>4, <1>5, TypesStay, TypeFacts, BoundsTyped DEF cloud, bounds, history

LEMMA PeerEditTypes ==
  ASSUME TypesOK, NEW e \in Peer, PeerEdit(e)
  PROVE  TypesOK'
<1>1. server' \subseteq Known
  BY TypeFacts DEF PeerEdit, Known
<1> QED BY <1>1, TypesStay, TypeFacts, BoundsTyped DEF PeerEdit, disk, bounds, history
-----------------------------------------------------------------------------
(* What a step leaves as it was.                                           *)

\* The outbox can still not be taken for what a superseded save wrote there.
OutboxStays(job) ==
  \/ outbox' = outbox
  \/ job.edit \notin Waiting'
  \/ outbox' # Nothing /\ ~(outbox'.state \subseteq job.state)
  \/ outbox' # Nothing /\ outbox # Nothing /\ outbox.state \subseteq outbox'.state

LEMMA SaveStays ==
  ASSUME NEW t, NEW job, SaveOK(t, job), Waiting' \subseteq Waiting, gen'[t] = gen[t],
         OutboxStays(job)
  PROVE  SaveOK(t, job)'
BY DEF SaveOK, OutboxStays, Delivers

LEMMA JobStays ==
  ASSUME NEW t, NEW job, JobOK(t, job), Waiting' \subseteq Waiting, gen'[t] = gen[t],
         server \subseteq server', job.kind = "save" => OutboxStays(job)
  PROVE  JobOK(t, job)'
<1>1. job.kind = "save" => SaveOK(t, job)'
  BY SaveStays DEF JobOK
<1>2. DeliveryOK(job) => DeliveryOK(job)'
  BY DEF DeliveryOK
<1>3. AnswerOK(job) => AnswerOK(job)'
  BY DEF AnswerOK
<1> QED BY <1>1, <1>2, <1>3 DEF JobOK

LEMMA AskStays ==
  ASSUME NEW t, NEW ask, AskOK(t, ask), Waiting' \subseteq Waiting, gen'[t] = gen[t],
         ask.kind = "save" => OutboxStays(ask)
  PROVE  AskOK(t, ask)'
BY SaveStays DEF AskOK

\* A read that goes on without edits of its own page.
LEMMA ReadStays ==
  ASSUME NEW t, ReadOK(t, loading[t]), Waiting' \subseteq Waiting, gen'[t] = gen[t],
         loading'[t] = loading[t]
  PROVE  ReadOK(t, loading[t])'
BY DEF ReadOK

\* What a step that saves nothing has to show.
LEMMA KeptStays ==
  ASSUME NEW t, Kept(t), Waiting' \subseteq Waiting, gen'[t] = gen[t], server \subseteq server',
         OnScreen(t)', InOrder(t)',
         \A job \in Jobs(t)' : \/ job \in Jobs(t) /\ (job.kind = "save" => OutboxStays(job))
                               \/ JobOK(t, job)',
         \A ask \in Asked(t)' : \/ ask \in Asked(t) /\ (ask.kind = "save" => OutboxStays(ask))
                                \/ AskOK(t, ask)',
         loading'[t] = loading[t] \/ ReadOK(t, loading[t])'
  PROVE  Kept(t)'
<1>1. \A job \in Jobs(t)' : JobOK(t, job)'
  BY JobStays DEF Kept
<1>2. \A ask \in Asked(t)' : AskOK(t, ask)'
  BY AskStays DEF Kept
<1>3. ReadOK(t, loading[t])'
  BY ReadStays DEF Kept
<1> QED BY <1>1, <1>2, <1>3 DEF Kept
-----------------------------------------------------------------------------
(* The order of the saves.                                                 *)

LEMMA OrderMoves ==
  ASSUME NEW S, NEW q \in Seq(S), Ordered(q)
  PROVE  /\ q # <<>> => Ordered(Tail(q)) /\ \A i \in DOMAIN Tail(q) : Precedes(q[1], Tail(q)[i])
         /\ \A x \in S : (\A i \in DOMAIN q : Precedes(q[i], x)) => Ordered(Append(q, x))
         /\ \A x \in S :
              /\ q # <<>>
              /\ x.kind = "save" => /\ q[1].kind = "save" /\ x.gen = q[1].gen
                                    /\ x.edit = q[1].edit /\ x.state = q[1].state
              => Ordered([q EXCEPT ![1] = x])
<1>1. ASSUME q # <<>>
      PROVE  Ordered(Tail(q)) /\ \A i \in DOMAIN Tail(q) : Precedes(q[1], Tail(q)[i])
  BY <1>1, TailShifts, HeadIsFirst DEF Ordered
<1>2. ASSUME NEW x \in S, \A i \in DOMAIN q : Precedes(q[i], x)
      PROVE  Ordered(Append(q, x))
  BY <1>2, AppendAdds DEF Ordered
<1>3. ASSUME NEW x \in S, q # <<>>,
             x.kind = "save" => /\ q[1].kind = "save" /\ x.gen = q[1].gen
                                /\ x.edit = q[1].edit /\ x.state = q[1].state
      PROVE  Ordered([q EXCEPT ![1] = x])
  <2> DEFINE new == [q EXCEPT ![1] = x]
  <2>1. ASSUME NEW i \in DOMAIN q, NEW j \in DOMAIN q, i < j
        PROVE  Precedes(new[i], new[j])
    <3>1. Precedes(q[i], q[j]) /\ j # 1 /\ new[j] = q[j] /\ new[i] = IF i = 1 THEN x ELSE q[i]
      BY <1>3, <2>1, FirstReplaced, PositionsCount DEF Ordered
    <3> HIDE DEF new
    <3> QED BY <1>3, <3>1 DEF Precedes
  <2>2. DOMAIN new = DOMAIN q
    BY <1>3, FirstReplaced
  <2> HIDE DEF new
  <2>3. Ordered(new)
    BY <2>1, <2>2 DEF Ordered
  <2> QED BY <2>3 DEF new
<1> QED BY <1>1, <1>2, <1>3

\* When the running job is over, those left come after it.
LEMMA FinishKeeps ==
  ASSUME TypesOK, NEW t \in Tab, Kept(t), queue[t] # <<>>, Finish(t), starting' = starting
  PROVE  /\ InOrder(t)' /\ Asked(t)' = Asked(t) /\ Jobs(t)' \subseteq Jobs(t)
         /\ Head(queue[t]) \in Jobs(t)
         /\ \A job \in Jobs(t)' \cup Asked(t)' : Precedes(Head(queue[t]), job)
<1>1. queue[t] \in Seq(JobRec(Known, accepted)) /\ queue'[t] = Tail(queue[t])
  BY TypeFacts DEF Finish
<1>2. Ordered(queue[t]) /\ Ordered(starting[t]) /\ \A a \in Jobs(t), b \in Asked(t) : Precedes(a, b)
  BY DEF Kept, InOrder
<1>3. /\ Ordered(Tail(queue[t]))
      /\ \A i \in DOMAIN Tail(queue[t]) : Precedes(queue[t][1], Tail(queue[t])[i])
  BY <1>1, <1>2, OrderMoves
<1>4. Jobs(t)' \subseteq Jobs(t) /\ Asked(t)' = Asked(t)
  BY <1>1, TailShifts DEF Jobs, Asked
<1>5. Head(queue[t]) = queue[t][1] /\ Head(queue[t]) \in Jobs(t)
  BY <1>1, HeadIsFirst DEF Jobs
<1>6. \A job \in Jobs(t)' : Precedes(Head(queue[t]), job)
  BY <1>1, <1>3, <1>5 DEF Jobs
<1>7. InOrder(t)'
  BY <1>1, <1>2, <1>3, <1>4 DEF InOrder
<1> QED BY <1>2, <1>4, <1>5, <1>6, <1>7

\* A running job that goes on as another.
LEMMA BecomesKeeps ==
  ASSUME TypesOK, NEW t \in Tab, Kept(t), queue[t] # <<>>, NEW x \in JobRec(Known, accepted),
         x.kind = "save" => /\ Head(queue[t]).kind = "save" /\ x.gen = Head(queue[t]).gen
                            /\ x.edit = Head(queue[t]).edit /\ x.state = Head(queue[t]).state,
         queue'[t] = [queue[t] EXCEPT ![1] = x], starting' = starting
  PROVE  InOrder(t)' /\ Asked(t)' = Asked(t) /\ Jobs(t)' \subseteq Jobs(t) \cup {x}
<1>1. queue[t] \in Seq(JobRec(Known, accepted)) /\ Head(queue[t]) = queue[t][1]
  BY HeadJob
<1>2. Ordered(queue[t]) /\ Ordered(starting[t]) /\ \A a \in Jobs(t), b \in Asked(t) : Precedes(a, b)
  BY DEF Kept, InOrder
<1>3. Ordered(queue'[t])
  BY <1>1, <1>2, OrderMoves
<1>4. Jobs(t)' \subseteq Jobs(t) \cup {x} /\ Asked(t)' = Asked(t) /\ Head(queue[t]) \in Jobs(t)
  BY <1>1, FirstReplaced DEF Jobs, Asked
<1>5. \A b \in Asked(t) : Precedes(x, b)
  BY <1>2, <1>4 DEF Precedes
<1> QED BY <1>2, <1>3, <1>4, <1>5 DEF InOrder

\* A job that is not a save joins the queue, and the first of those that ask leaves.
LEMMA JoinsKeeps ==
  ASSUME TypesOK, NEW t \in Tab, Kept(t), NEW x \in JobRec(Known, accepted), x.kind # "save",
         queue'[t] \in {queue[t], Append(queue[t], x)},
         \/ starting'[t] = starting[t]
         \/ starting[t] # <<>> /\ starting'[t] = Tail(starting[t])
  PROVE  InOrder(t)' /\ Asked(t)' \subseteq Asked(t) /\ Jobs(t)' \subseteq Jobs(t) \cup {x}
<1>1. queue[t] \in Seq(JobRec(Known, accepted)) /\ starting[t] \in Seq(AskRec(Known, accepted))
  BY TypeFacts
<1>2. Ordered(queue[t]) /\ Ordered(starting[t]) /\ \A a \in Jobs(t), b \in Asked(t) : Precedes(a, b)
  BY DEF Kept, InOrder
<1>3. Ordered(queue'[t]) /\ Ordered(starting'[t])
  <2>1. \A i \in DOMAIN queue[t] : Precedes(queue[t][i], x)
    BY DEF Precedes
  <2>2. Ordered(Append(queue[t], x))
    BY <1>1, <1>2, <2>1, OrderMoves
  <2>3. starting[t] # <<>> => Ordered(Tail(starting[t]))
    BY <1>1, <1>2, OrderMoves
  <2> QED BY <1>2, <2>2, <2>3
<1>4. Jobs(t)' \subseteq Jobs(t) \cup {x} /\ Asked(t)' \subseteq Asked(t)
  <2>1. \A i \in DOMAIN Append(queue[t], x) :
          Append(queue[t], x)[i] = x \/ (i \in DOMAIN queue[t] /\ Append(queue[t], x)[i] = queue[t][i])
    BY <1>1, AppendAdds
  <2>2. starting[t] # <<>> =>
          \A i \in DOMAIN Tail(starting[t]) :
            i + 1 \in DOMAIN starting[t] /\ Tail(starting[t])[i] = starting[t][i + 1]
    BY <1>1, TailShifts
  <2>3. Jobs(t)' \subseteq Jobs(t) \cup {x}
    BY <2>1 DEF Jobs
  <2>4. Asked(t)' \subseteq Asked(t)
    BY <2>2 DEF Asked
  <2> QED BY <2>3, <2>4
<1>5. \A b : Precedes(x, b)
  BY DEF Precedes
<1> QED BY <1>2, <1>3, <1>4, <1>5 DEF InOrder
\* The first of those that ask leaves.
LEMMA AskLeaves ==
  ASSUME TypesOK, NEW t \in Tab, Kept(t), queue'[t] = queue[t], starting[t] # <<>>,
         starting'[t] = Tail(starting[t])
  PROVE  InOrder(t)' /\ Asked(t)' \subseteq Asked(t) /\ Jobs(t)' = Jobs(t)
<1>1. /\ Ordered(queue[t]) /\ Ordered(starting[t])
      /\ \A a \in Jobs(t), b \in Asked(t) : Precedes(a, b)
  BY DEF Kept, InOrder
<1>2. Ordered(Tail(starting[t]))
  BY <1>1, TypeFacts, OrderMoves
<1>3. \A i \in DOMAIN Tail(starting[t]) :
        i + 1 \in DOMAIN starting[t] /\ Tail(starting[t])[i] = starting[t][i + 1]
  BY TypeFacts, TailShifts
<1>4. Asked(t)' \subseteq Asked(t) /\ Jobs(t)' = Jobs(t)
  BY <1>3 DEF Asked, Jobs
<1> QED BY <1>1, <1>2, <1>4 DEF InOrder
-----------------------------------------------------------------------------
(* What the answers and reads keep.                                        *)

LEMMA WaitingInOutbox ==
  /\ AcceptedEditsAreKept <=> \A e \in Waiting : Delivers(outbox, e)
  /\ AcceptedEditsAreKept' <=> \A e \in Waiting' : Delivers(outbox', e)
BY DEF AcceptedEditsAreKept, Waiting, Delivers

LEMMA RunningJob ==
  ASSUME NEW t \in Tab, TypesOK, Kept(t), Running(t)
  PROVE  /\ JobOK(t, Head(queue[t])) /\ AnswerOK(Head(queue[t])) /\ Head(queue[t]).reply # Nothing
         /\ \A job \in Jobs(t) : JobOK(t, job)
         /\ OnScreen(t)
<1>1. Head(queue[t]) \in Jobs(t)
  BY HeadJob DEF Jobs, Running
<1>2. Head(queue[t]).kind # "flushing"
  BY HeadJob, KindsOfJobs DEF Running
<1> QED BY <1>1, <1>2 DEF Kept, JobOK, Running

\* Once the payload that is in the outbox has been delivered, nothing waits.
LEMMA DeliveredEnds ==
  ASSUME NEW t \in Tab, TypesOK, AcceptedEditsAreKept, Kept(t), Running(t),
         Head(queue[t]).kind \in {"save", "flush", "recover"},
         Head(queue[t]).reply.ok, Head(queue[t]).payload = outbox
  PROVE  Waiting = {}
<1> DEFINE job == Head(queue[t])
<1> SUFFICES ASSUME NEW e \in Waiting
             PROVE  FALSE
  OBVIOUS
<1>1. outbox # Nothing /\ e \in outbox.state /\ EventOf[e] \in outbox.events
  BY WaitingInOutbox DEF Delivers
<1>2. JobOK(t, job) /\ AnswerOK(job) /\ job.reply # Nothing
  BY RunningJob
<1>3. e \in job.state /\ EventOf[e] \in job.events
  BY <1>1, <1>2 DEF JobOK, SaveOK, DeliveryOK
<1> QED BY <1>2, <1>3 DEF AnswerOK, Waiting

\* What is left of the outbox after a partial answer still has every edit that waits.
LEMMA RemainingKeeps ==
  ASSUME NEW t \in Tab, TypesOK, AcceptedEditsAreKept, Kept(t), Running(t),
         Head(queue[t]).kind \in {"save", "flush", "recover"},
         Head(queue[t]).payload = outbox, outbox' = Remaining(Head(queue[t]).reply),
         Waiting' = Waiting
  PROVE  /\ Waiting \subseteq Head(queue[t]).reply.state
         /\ AcceptedEditsAreKept' /\ \A job : OutboxStays(job)
<1> DEFINE job == Head(queue[t])
<1>1. JobOK(t, job) /\ AnswerOK(job) /\ job.reply # Nothing
  BY RunningJob
<1>2. /\ outbox # Nothing => outbox.state \subseteq job.reply.state
      /\ \A e \in Waiting : /\ outbox # Nothing /\ e \in outbox.state /\ EventOf[e] \in outbox.events
                            /\ EventOf[e] \notin job.reply.saved
  <2>1. outbox # Nothing => outbox.state = job.state
    BY <1>1 DEF JobOK, SaveOK, DeliveryOK
  <2> QED BY <1>1, <2>1, WaitingInOutbox DEF AnswerOK, Delivers, Waiting
<1>3. outbox' # Nothing
  <2>1. Remaining(job.reply) \in PayloadOf(Known)
    BY AnsweredJob, RemainingTyped
  <2>2. PayloadOf(Known) \subseteq Payload
    BY TypeFacts DEF PayloadOf, Payload
  <2> QED BY <2>1, <2>2, OutboxAssumption
<1>4. /\ outbox'.state = job.reply.state
      /\ outbox # Nothing => outbox'.events = outbox.events \ job.reply.saved
  BY DEF Remaining
<1> HIDE DEF job
<1>5. AcceptedEditsAreKept'
  BY <1>2, <1>3, <1>4, WaitingInOutbox DEF Delivers
<1>6. ASSUME NEW any
      PROVE  OutboxStays(any)
  BY <1>2, <1>3, <1>4 DEF OutboxStays
<1> QED BY <1>2, <1>5, <1>6 DEF job

LEMMA ShowKeeps ==
  ASSUME TypesOK, NEW t \in Tab, OnScreen(t), NEW read, NEW result, NEW old,
         Show(t, read, result, old), Waiting' \subseteq Waiting,
         Waiting \subseteq old, read.gen = gen[t] => Waiting \subseteq result
  PROVE  OnScreen(t)'
BY TypeFacts DEF Show, OnScreen

\* What waited does, if a step neither accepts an edit nor takes one back.
LEMMA WaitingShrinks ==
  ASSUME accepted' = accepted, reverted' = reverted, server \subseteq server'
  PROVE  Waiting' \subseteq Waiting /\ (server' = server => Waiting' = Waiting)
BY DEF Waiting
-----------------------------------------------------------------------------
(* The actions.                                                            *)

LEMMA ConfigureKeeps ==
  ASSUME TypesOK, NEW t \in Tab, AcceptedEditsAreKept, Kept(t), Configure(t)
  PROVE  AcceptedEditsAreKept' /\ Kept(t)'
<1> DEFINE job == Head(starting[t])
           current == job.gen = gen[t]
           payload == [state |-> job.state, events |-> Selection(job.events)]
<1> PICK new : new = [job EXCEPT !.payload = IF current THEN payload ELSE Nothing]
  OBVIOUS
<1>1. /\ starting[t] \in Seq(AskRec(Known, accepted)) /\ starting[t] # <<>>
      /\ job \in SaveRec(Known, accepted) /\ job.reply = Nothing /\ job.kind = "save"
      /\ job = starting[t][1] /\ job \in Asked(t) /\ queue[t] \in Seq(JobRec(Known, accepted))
  BY TypeFacts, HeadIsFirst, KindsOfAsks DEF Configure, Asks, Asked
<1>2. payload \in PayloadOf(Known) /\ payload # Nothing
  <2>1. payload \in PayloadOf(Known)
    BY <1>1, SelectionTyped DEF SaveRec, PayloadOf
  <2>2. PayloadOf(Known) \subseteq Payload
    BY TypeFacts DEF PayloadOf, Payload
  <2> QED BY <2>1, <2>2, OutboxAssumption
<1>3. /\ new \in SaveRec(Known, accepted) /\ new.kind = "save" /\ new.reply = Nothing
      /\ new.gen = job.gen /\ new.edit = job.edit /\ new.state = job.state /\ new.events = job.events
      /\ new.previous = job.previous /\ new.prior = job.prior
      /\ new.payload = IF current THEN payload ELSE Nothing
  BY <1>1, <1>2 DEF SaveRec
<1>4. /\ queue'[t] = Append(queue[t], new) /\ starting'[t] = Tail(starting[t])
      /\ outbox' = IF current THEN payload ELSE outbox
      /\ UNCHANGED <<server, snapshot, view, gen, loading, accepted, reverted>>
  BY TypeFacts DEF Configure, cloud, history
<1>5. /\ payload.state = job.state /\ job.events \subseteq payload.events
  BY DEF Selection
<1> HIDE DEF payload, job
<1>6. /\ SaveOK(t, job) /\ \A ask \in Asked(t) : AskOK(t, ask)
      /\ \A any \in Jobs(t) : JobOK(t, any)
  BY <1>1 DEF Kept, AskOK
<1>7. Waiting' = Waiting
  BY <1>4, WaitingShrinks
<1>8. AcceptedEditsAreKept'
  <2>1. CASE current
    BY <1>2, <1>4, <1>5, <1>6, <1>7, <2>1, WaitingInOutbox DEF SaveOK, Delivers
  <2>2. CASE ~current
    BY <1>4, <1>7, <2>2, WaitingInOutbox
  <2> QED BY <2>1, <2>2
<1>9. /\ Ordered(queue[t]) /\ Ordered(starting[t])
      /\ \A a \in Jobs(t), b \in Asked(t) : Precedes(a, b)
  BY DEF Kept, InOrder
<1>10. /\ Asked(t)' \subseteq Asked(t) /\ \A ask \in Asked(t)' : Precedes(job, ask)
       /\ Ordered(starting[t])'
  <2>1. /\ Ordered(Tail(starting[t]))
        /\ \A i \in DOMAIN Tail(starting[t]) : Precedes(starting[t][1], Tail(starting[t])[i])
    BY <1>1, <1>9, OrderMoves
  <2> QED BY <1>1, <1>4, <2>1, TailShifts DEF Asked
<1>11. Ordered(queue[t])'
  <2>1. \A i \in DOMAIN queue[t] : Precedes(queue[t][i], new)
    BY <1>1, <1>3, <1>9 DEF Jobs, Precedes
  <2>2. new \in JobRec(Known, accepted)
    BY <1>3 DEF JobRec
  <2>3. Ordered(Append(queue[t], new))
    BY <1>1, <1>9, <2>1, <2>2, OrderMoves
  <2> QED BY <1>4, <2>3
<1>12. Jobs(t)' \subseteq Jobs(t) \cup {new}
  <2>1. new \in JobRec(Known, accepted)
    BY <1>3 DEF JobRec
  <2>2. \A i \in DOMAIN Append(queue[t], new) :
          \/ Append(queue[t], new)[i] = new
          \/ i \in DOMAIN queue[t] /\ Append(queue[t], new)[i] = queue[t][i]
    BY <1>1, <2>1, AppendAdds
  <2> QED BY <1>4, <2>2 DEF Jobs
<1>13. InOrder(t)'
  <2>1. \A b \in Asked(t)' : Precedes(new, b)
    BY <1>1, <1>3, <1>10 DEF Precedes
  <2> QED BY <1>9, <1>10, <1>11, <1>12, <2>1 DEF InOrder
<1>14. ASSUME NEW any \in Jobs(t), any.kind = "save"
       PROVE  OutboxStays(any)
  <2>1. job.edit \notin any.state /\ job.edit \in job.state
    BY <1>1, <1>6, <1>9, <1>14 DEF Precedes, SaveOK
  <2> QED BY <1>2, <1>4, <1>5, <2>1 DEF OutboxStays
<1>15. ASSUME NEW ask \in Asked(t)', ask.kind = "save"
       PROVE  OutboxStays(ask)
  <2>1. ask.gen <= gen[t] /\ job.gen < ask.gen /\ ask.gen \in Nat /\ job.gen \in Nat /\ gen[t] \in Nat
    <3>1. ask \in AskRec(Known, accepted) /\ job \in AskRec(Known, accepted)
      BY <1>1, <1>10, JobsTyped
    <3> QED BY <1>1, <1>6, <1>10, <1>15, <3>1, TypeFacts, KindsOfAsks DEF Precedes, AskOK, SaveOK
  <2>2. ~current
    BY <2>1
  <2> QED BY <1>4, <2>2 DEF OutboxStays
<1>16. JobOK(t, new)'
  <2>1. SaveOK(t, new)'
    <3>1. CASE current
      BY <1>2, <1>3, <1>4, <1>5, <1>6, <1>7, <3>1 DEF SaveOK, Delivers
    <3>2. CASE ~current
      BY <1>3, <1>4, <1>5, <1>6, <1>7, <3>2 DEF SaveOK, Delivers
    <3> QED BY <3>1, <3>2
  <2> QED BY <1>3, <2>1 DEF JobOK, AnswerOK
<1>17. OnScreen(t)'
  BY <1>4, <1>7 DEF Kept, OnScreen
<1>18. Kept(t)'
  BY <1>4, <1>7, <1>10, <1>12, <1>13, <1>14, <1>15, <1>16, <1>17, KeptStays
<1> QED BY <1>8, <1>18

LEMMA ConfigUnavailableKeeps ==
  ASSUME TypesOK, NEW t \in Tab, AcceptedEditsAreKept, Kept(t), ConfigUnavailable(t)
  PROVE  AcceptedEditsAreKept' /\ Kept(t)'
<1>1. /\ starting[t] # <<>> /\ starting'[t] = Tail(starting[t])
      /\ UNCHANGED <<server, outbox, snapshot, view, gen, queue, loading, accepted, reverted>>
  BY TypeFacts DEF ConfigUnavailable, Asks, cloud, disk, history
<1>2. Waiting' = Waiting /\ AcceptedEditsAreKept'
  BY <1>1, WaitingShrinks, WaitingInOutbox
<1>3. \A any : OutboxStays(any)
  BY <1>1 DEF OutboxStays
<1>4. InOrder(t)' /\ Asked(t)' \subseteq Asked(t) /\ Jobs(t)' = Jobs(t)
  BY <1>1, AskLeaves
<1>5. OnScreen(t)'
  BY <1>1, <1>2 DEF Kept, OnScreen
<1>6. Kept(t)'
  BY <1>1, <1>2, <1>3, <1>4, <1>5, KeptStays
<1> QED BY <1>2, <1>6

LEMMA StartFlushKeeps ==
  ASSUME TypesOK, NEW t \in Tab, AcceptedEditsAreKept, Kept(t), StartFlush(t)
  PROVE  AcceptedEditsAreKept' /\ Kept(t)'
<1>1. /\ queue[t] # <<>> /\ starting' = starting
      /\ UNCHANGED <<server, outbox, snapshot, view, gen, loading, accepted, reverted>>
  BY DEF StartFlush, cloud, disk, history
<1>2. Waiting' = Waiting /\ AcceptedEditsAreKept' /\ OnScreen(t)'
  BY <1>1, WaitingShrinks, WaitingInOutbox DEF Kept, OnScreen
<1>3. \A any : OutboxStays(any)
  BY <1>1 DEF OutboxStays
<1>4. CASE outbox = Nothing
  BY <1>1, <1>2, <1>3, <1>4, FinishKeeps, KeptStays DEF StartFlush
<1>5. CASE outbox # Nothing
  <2> PICK x : x = FlushJob(t)
    OBVIOUS
  <2>1. outbox \in PayloadOf(Known) /\ gen[t] \in Nat /\ snapshot \subseteq Known
    BY <1>5, TypeFacts
  <2>2. /\ x \in JobRec(Known, accepted) /\ x.kind = "flush" /\ x.reply = Nothing
        /\ x.payload.state = x.state /\ x.payload.events = x.events
    BY <2>1 DEF FlushJob, JobRec, DeliveryRec, PayloadOf
  <2>3. queue'[t] = [queue[t] EXCEPT ![1] = x]
    BY <1>5, TypeFacts DEF StartFlush
  <2>4. InOrder(t)' /\ Asked(t)' = Asked(t) /\ Jobs(t)' \subseteq Jobs(t) \cup {x}
    BY <1>1, <2>2, <2>3, BecomesKeeps
  <2>5. JobOK(t, x)'
    BY <2>2 DEF JobOK, DeliveryOK, AnswerOK
  <2>6. Kept(t)'
    BY <1>1, <1>2, <1>3, <2>4, <2>5, KeptStays
  <2> QED BY <1>2, <2>6
<1> QED BY <1>2, <1>4, <1>5

LEMMA SendKeeps ==
  ASSUME TypesOK, NEW t \in Tab, AcceptedEditsAreKept, Kept(t), Send(t)
  PROVE  AcceptedEditsAreKept' /\ Kept(t)'
<1> PICK job : job = Head(queue[t])
  OBVIOUS
<1>1. /\ queue[t] # <<>> /\ job \in JobRec(Known, accepted) /\ job.kind \in {"save", "flush", "recover"}
      /\ starting' = starting
      /\ UNCHANGED <<outbox, snapshot, view, gen, loading, accepted, reverted>>
  BY HeadJob DEF Send, disk, history
<1>2. job \in SaveRec(Known, accepted) \cup DeliveryRec(Known)
  BY <1>1, KindsOfJobs
<1>3. PICK reply \in Reply(Known) :
        /\ server \subseteq server' /\ queue'[t] = [queue[t] EXCEPT ![1].reply = reply]
        /\ job.state \subseteq reply.state
        /\ \A e \in job.state : EventOf[e] \in reply.saved => e \in server'
        /\ reply.ok => reply.saved = job.events
  BY SendAnswers, TypeFacts
<1> PICK x : x = [job EXCEPT !.reply = reply]
  OBVIOUS
<1>4. /\ x \in JobRec(Known, accepted) /\ x.kind = job.kind /\ x.reply = reply
      /\ x.state = job.state /\ x.events = job.events /\ x.payload = job.payload /\ x.gen = job.gen
      /\ x.kind = "save" => /\ x.edit = job.edit /\ x.previous = job.previous /\ x.prior = job.prior
  BY <1>2, <1>3 DEF JobRec, SaveRec, DeliveryRec
<1>5. queue'[t] = [queue[t] EXCEPT ![1] = x]
  BY <1>1, <1>3, HeadJob
<1>6. Waiting' \subseteq Waiting /\ \A any : OutboxStays(any)
  BY <1>1, <1>3, WaitingShrinks DEF OutboxStays
<1>7. AcceptedEditsAreKept' /\ OnScreen(t)'
  BY <1>1, <1>6, WaitingInOutbox DEF Kept, OnScreen
<1>8. InOrder(t)' /\ Asked(t)' = Asked(t) /\ Jobs(t)' \subseteq Jobs(t) \cup {x}
  BY <1>1, <1>4, <1>5, BecomesKeeps
<1>9. JobOK(t, x)'
  <2>1. JobOK(t, job) /\ gen' = gen
    BY <1>1, HeadJob DEF Kept, Jobs
  <2>2. JobOK(t, job)'
    BY <1>3, <1>6, <2>1, JobStays
  <2>3. AnswerOK(x)'
    BY <1>3, <1>4 DEF AnswerOK
  <2>4. x.kind = "save" => SaveOK(t, x)'
    BY <1>4, <2>2 DEF JobOK, SaveOK
  <2>5. x.kind # "save" => DeliveryOK(x)'
    BY <1>1, <1>4, <2>2 DEF JobOK, DeliveryOK
  <2> QED BY <2>3, <2>4, <2>5 DEF JobOK
<1>10. Kept(t)'
  BY <1>1, <1>3, <1>6, <1>7, <1>8, <1>9, KeptStays
<1> QED BY <1>7, <1>10

LEMMA SaveSucceededKeeps ==
  ASSUME TypesOK, NEW t \in Tab, AcceptedEditsAreKept, Kept(t), SaveSucceeded(t)
  PROVE  AcceptedEditsAreKept' /\ Kept(t)'
<1> PICK job : job = Head(queue[t])
  OBVIOUS
<1>1. /\ Running(t) /\ job.kind = "save" /\ job.reply.ok /\ Finish(t) /\ starting' = starting
      /\ outbox' = IF job.payload = outbox THEN Nothing ELSE outbox
      /\ UNCHANGED <<server, gen, loading, accepted, reverted>>
      /\ queue[t] # <<>>
  BY AnsweredJob DEF SaveSucceeded, cloud, history
<1>2. Waiting' = Waiting
  BY <1>1, WaitingShrinks
<1>3. job.payload = outbox => Waiting = {}
  BY <1>1, DeliveredEnds
<1>4. AcceptedEditsAreKept' /\ \A any : OutboxStays(any)
  BY <1>1, <1>2, <1>3, WaitingInOutbox DEF OutboxStays
<1>5. OnScreen(t)'
  <2>1. Current(t, job) => Waiting = {}
    BY <1>3 DEF Current
  <2>2. ~Current(t, job) => snapshot' = snapshot /\ view' = view
    BY DEF SaveSucceeded
  <2> QED BY <1>2, <2>1, <2>2 DEF Kept, OnScreen
<1>6. Kept(t)'
  BY <1>1, <1>2, <1>4, <1>5, FinishKeeps, KeptStays
<1> QED BY <1>4, <1>6

LEMMA SaveFailedKeeps ==
  ASSUME TypesOK, NEW t \in Tab, AcceptedEditsAreKept, Kept(t), SaveFailed(t)
  PROVE  AcceptedEditsAreKept' /\ Kept(t)'
<1> PICK job : job = Head(queue[t])
  OBVIOUS
<1>1. /\ Running(t) /\ job.kind = "save" /\ Finish(t) /\ starting' = starting
      /\ UNCHANGED <<server, gen, loading, accepted>>
      /\ queue[t] # <<>> /\ job \in SaveRec(Known, accepted)
  BY AnsweredJob DEF SaveFailed, cloud
<1>2. SaveOK(t, job) /\ OnScreen(t)
  BY <1>1, RunningJob DEF JobOK
<1>3. /\ InOrder(t)' /\ Asked(t)' = Asked(t) /\ Jobs(t)' \subseteq Jobs(t)
      /\ \A any \in Jobs(t)' \cup Asked(t)' : Precedes(job, any)
  BY <1>1, FinishKeeps
<1>4. SUFFICES /\ Waiting' \subseteq Waiting /\ OnScreen(t)' /\ AcceptedEditsAreKept'
               /\ \A any : any.kind = "save" /\ Precedes(job, any) => OutboxStays(any)
  BY <1>1, <1>3, KeptStays
<1>5. CASE ~Current(t, job)
  <2>1. /\ UNCHANGED <<snapshot, view, reverted>>
        /\ outbox' = outbox \/ (job.payload = outbox /\ outbox' = StillWaiting(job))
    BY <1>5 DEF SaveFailed
  <2>2. Waiting' = Waiting /\ OnScreen(t)'
    BY <1>1, <1>2, <2>1, WaitingShrinks DEF OnScreen
  <2>3. CASE outbox' = outbox
    BY <2>2, <2>3, WaitingInOutbox DEF OutboxStays
  <2>4. CASE job.payload = outbox /\ outbox' = StillWaiting(job)
    <3>1. Waiting \subseteq job.state
      BY <1>2, <2>4, WaitingInOutbox DEF SaveOK, Delivers
    <3>2. \A e \in Waiting : e # job.edit
      BY <1>2, <1>5, <2>4, WaitingInOutbox DEF SaveOK, Delivers, Current
    <3>3. AcceptedEditsAreKept'
      BY <1>2, <2>2, <2>4, <3>1, <3>2, WaitingInOutbox DEF SaveOK, StillWaiting
    <3>4. \A any : any.kind = "save" /\ Precedes(job, any) => any.edit \notin Waiting'
      BY <1>1, <2>2, <3>1 DEF Precedes
    <3> QED BY <2>2, <3>3, <3>4 DEF OutboxStays
  <2> QED BY <2>1, <2>2, <2>3, <2>4
<1>6. CASE Current(t, job) /\ Partial(job.reply)
  <2>1. /\ snapshot' = job.reply.state /\ reverted' = reverted
        /\ view' = IF view[t] = job.state THEN [view EXCEPT ![t] = job.reply.state] ELSE view
        /\ outbox' = Remaining(job.reply) /\ job.payload = outbox
    BY <1>6 DEF SaveFailed, Current
  <2>2. Waiting' = Waiting
    BY <1>1, <2>1, WaitingShrinks
  <2>3. Waiting \subseteq job.reply.state /\ AcceptedEditsAreKept' /\ \A any : OutboxStays(any)
    BY <1>1, <2>1, <2>2, RemainingKeeps
  <2>4. OnScreen(t)'
    BY <1>2, <2>1, <2>2, <2>3, TypeFacts DEF OnScreen
  <2> QED BY <2>2, <2>3, <2>4
<1>7. CASE Current(t, job) /\ ~Partial(job.reply) /\ job.reply.retryable
  <2>1. UNCHANGED <<snapshot, view, reverted, outbox>>
    BY <1>7 DEF SaveFailed
  <2> QED BY <1>1, <1>2, <2>1, WaitingShrinks, WaitingInOutbox DEF OnScreen, OutboxStays
<1>8. CASE Current(t, job) /\ ~Partial(job.reply) /\ ~job.reply.retryable
  <2>1. /\ snapshot' = RolledBack(job) /\ view' = [view EXCEPT ![t] = RolledBack(job)]
        /\ reverted' = reverted \cup {job.edit} /\ outbox' = StillWaiting(job)
    BY <1>8 DEF SaveFailed, Current
  <2>2. Waiting' = Waiting \ {job.edit}
    BY <1>1, <2>1 DEF Waiting
  <2>3. Waiting \subseteq job.state
    BY <1>2, <1>8 DEF SaveOK, Current
  <2>4. \A e \in Waiting' : e \in job.previous /\ Delivers(job.prior, e)
    BY <1>2, <2>2, <2>3 DEF SaveOK
  <2>5. AcceptedEditsAreKept'
    BY <2>1, <2>4, WaitingInOutbox DEF StillWaiting
  <2>6. OnScreen(t)'
    BY <1>2, <2>1, <2>2, <2>4, TypeFacts DEF OnScreen, RolledBack
  <2>7. \A any : any.kind = "save" /\ Precedes(job, any) => any.edit \notin Waiting'
    BY <1>1, <2>2, <2>3 DEF Precedes
  <2> QED BY <2>2, <2>5, <2>6, <2>7 DEF OutboxStays
<1> QED BY <1>5, <1>6, <1>7, <1>8

LEMMA FlushAnsweredKeeps ==
  ASSUME TypesOK, NEW t \in Tab, AcceptedEditsAreKept, Kept(t), FlushAnswered(t)
  PROVE  AcceptedEditsAreKept' /\ Kept(t)'
<1> PICK job : job = Head(queue[t])
  OBVIOUS
<1>1. /\ Running(t) /\ job.kind = "flush" /\ Finish(t) /\ starting' = starting /\ queue[t] # <<>>
      /\ UNCHANGED <<server, view, gen, loading, accepted, reverted>>
  BY AnsweredJob DEF FlushAnswered, cloud, history
<1>2. Waiting' = Waiting /\ OnScreen(t)
  BY <1>1, WaitingShrinks, RunningJob
<1>3. SUFFICES OnScreen(t)' /\ AcceptedEditsAreKept' /\ \A any : OutboxStays(any)
  BY <1>1, <1>2, FinishKeeps, KeptStays
<1>4. CASE UNCHANGED disk
  BY <1>1, <1>2, <1>4, WaitingInOutbox DEF disk, OnScreen, OutboxStays
<1>5. CASE job.reply.ok /\ Current(t, job) /\ outbox' = Nothing
  <2>1. Waiting = {}
    BY <1>1, <1>5, DeliveredEnds DEF Current
  <2> QED BY <1>2, <2>1, WaitingInOutbox DEF OnScreen, OutboxStays
<1>6. CASE Current(t, job) /\ outbox' = Remaining(job.reply) /\ snapshot' = job.reply.state
  <2>1. Waiting \subseteq job.reply.state /\ AcceptedEditsAreKept' /\ \A any : OutboxStays(any)
    BY <1>1, <1>2, <1>6, RemainingKeeps DEF Current
  <2> QED BY <1>1, <1>2, <1>6, <2>1 DEF OnScreen
<1> QED BY <1>4, <1>5, <1>6 DEF FlushAnswered, RetryFailed

LEMMA TimerKeeps ==
  ASSUME TypesOK, NEW t \in Tab, AcceptedEditsAreKept, Kept(t), TimerFires(t) \/ Online(t)
  PROVE  AcceptedEditsAreKept' /\ Kept(t)'
<1> PICK x : x = [kind |-> "flushing", reply |-> Nothing]
  OBVIOUS
<1>1. /\ UNCHANGED <<server, outbox, snapshot, view, gen, starting, loading, accepted, reverted>>
      /\ queue'[t] \in {queue[t], Append(queue[t], x)}
  BY TypeFacts DEF TimerFires, Online, QueueFlush, cloud, disk, history
<1>2. x \in JobRec(Known, accepted) /\ x.kind = "flushing"
  BY DEF JobRec, WaitRec
<1>3. InOrder(t)' /\ Asked(t)' \subseteq Asked(t) /\ Jobs(t)' \subseteq Jobs(t) \cup {x}
  BY <1>1, <1>2, JoinsKeeps
<1>4. JobOK(t, x)'
  BY <1>2 DEF JobOK
<1>5. Waiting' = Waiting /\ AcceptedEditsAreKept' /\ OnScreen(t)' /\ \A any : OutboxStays(any)
  BY <1>1, WaitingShrinks, WaitingInOutbox DEF Kept, OnScreen, OutboxStays
<1> QED BY <1>1, <1>3, <1>4, <1>5, KeptStays

LEMMA StartLoadKeeps ==
  ASSUME TypesOK, NEW t \in Tab, AcceptedEditsAreKept, Kept(t), StartLoad(t)
  PROVE  AcceptedEditsAreKept' /\ Kept(t)'
<1> PICK ask : ask = [kind |-> "read", gen |-> gen[t]]
  OBVIOUS
<1>1. /\ UNCHANGED <<server, outbox, snapshot, view, gen, queue, accepted, reverted>>
      /\ starting'[t] = Append(starting[t], ask) /\ loading'[t] = [kind |-> "asked"]
      /\ starting[t] \in Seq(AskRec(Known, accepted))
  BY TypeFacts DEF StartLoad, cloud, disk, history
<1>2. ask \in AskRec(Known, accepted) /\ ask.kind = "read" /\ ask.gen = gen[t] /\ gen[t] \in Nat
  BY TypeFacts DEF AskRec
<1>3. \A any : Precedes(any, ask)
  BY <1>2 DEF Precedes
<1>4. InOrder(t)' /\ Asked(t)' \subseteq Asked(t) \cup {ask} /\ Jobs(t)' = Jobs(t)
  <2>1. /\ Ordered(queue[t]) /\ Ordered(starting[t])
        /\ \A a \in Jobs(t), b \in Asked(t) : Precedes(a, b)
    BY DEF Kept, InOrder
  <2>2. Ordered(starting[t])'
    BY <1>1, <1>2, <1>3, <2>1, OrderMoves
  <2>3. \A i \in DOMAIN Append(starting[t], ask) :
          \/ Append(starting[t], ask)[i] = ask
          \/ i \in DOMAIN starting[t] /\ Append(starting[t], ask)[i] = starting[t][i]
    BY <1>1, <1>2, AppendAdds
  <2>4. Asked(t)' \subseteq Asked(t) \cup {ask} /\ Jobs(t)' = Jobs(t)
    BY <1>1, <2>3 DEF Asked, Jobs
  <2> QED BY <1>1, <1>3, <2>1, <2>2, <2>4 DEF InOrder
<1>5. AskOK(t, ask)' /\ ReadOK(t, loading[t])'
  BY <1>1, <1>2 DEF AskOK, ReadOK
<1>6. Waiting' = Waiting /\ AcceptedEditsAreKept' /\ OnScreen(t)' /\ \A any : OutboxStays(any)
  BY <1>1, WaitingShrinks, WaitingInOutbox DEF Kept, OnScreen, OutboxStays
<1> QED BY <1>1, <1>4, <1>5, <1>6, KeptStays

LEMMA ChooseReadKeeps ==
  ASSUME TypesOK, NEW t \in Tab, AcceptedEditsAreKept, Kept(t), ChooseRead(t)
  PROVE  AcceptedEditsAreKept' /\ Kept(t)'
<1> PICK asked : asked = Head(starting[t]).gen
  OBVIOUS
<1> PICK read : read = [kind |-> IF outbox = Nothing THEN "plain" ELSE "deferred",
                        gen |-> asked, local |-> snapshot, payload |-> outbox,
                        indexed |-> {}, remote |-> Nothing]
  OBVIOUS
<1> PICK x : x = [kind |-> "recover", gen |-> asked, local |-> snapshot,
                  state |-> outbox.state, events |-> outbox.events,
                  payload |-> outbox, reply |-> Nothing]
  OBVIOUS
<1>1. /\ UNCHANGED <<server, outbox, snapshot, view, gen, accepted, reverted>>
      /\ starting[t] # <<>> /\ starting'[t] = Tail(starting[t])
      /\ \/ loading'[t] = read /\ queue' = queue
         \/ /\ outbox # Nothing /\ loading'[t] = [kind |-> "recover"]
            /\ queue'[t] = Append(queue[t], x)
  BY TypeFacts DEF ChooseRead, Asks, cloud, disk, history
<1>2. asked \in Nat /\ asked <= gen[t]
  <2>1. Head(starting[t]) \in Asked(t) /\ Head(starting[t]).kind = "read"
    BY TypeFacts, HeadIsFirst DEF ChooseRead, Asks, Asked
  <2>2. Head(starting[t]).gen \in Nat
    BY <2>1, JobsTyped, KindsOfAsks
  <2> QED BY <2>1, <2>2 DEF Kept, AskOK
<1>3. Waiting' = Waiting /\ AcceptedEditsAreKept' /\ OnScreen(t)' /\ \A any : OutboxStays(any)
  BY <1>1, WaitingShrinks, WaitingInOutbox DEF Kept, OnScreen, OutboxStays
<1>4. CASE loading'[t] = read /\ queue' = queue
  <2>2. InOrder(t)' /\ Asked(t)' \subseteq Asked(t) /\ Jobs(t)' = Jobs(t)
    BY <1>1, <1>4, AskLeaves
  <2>3. outbox = Nothing => Waiting = {}
    BY WaitingInOutbox DEF Delivers
  <2>4. ReadOK(t, loading[t])'
    BY <1>1, <1>2, <1>3, <1>4, <2>3 DEF ReadOK
  <2> QED BY <1>1, <1>3, <2>2, <2>4, KeptStays
<1>5. CASE /\ outbox # Nothing /\ loading'[t] = [kind |-> "recover"]
           /\ queue'[t] = Append(queue[t], x)
  <2>1. /\ x \in JobRec(Known, accepted) /\ x.kind = "recover" /\ x.reply = Nothing
        /\ x.payload.state = x.state /\ x.payload.events = x.events
    BY <1>2, <1>5, TypeFacts DEF JobRec, DeliveryRec, PayloadOf
  <2>2. JobOK(t, x)'
    BY <2>1 DEF JobOK, DeliveryOK, AnswerOK
  <2>3. InOrder(t)' /\ Asked(t)' \subseteq Asked(t) /\ Jobs(t)' \subseteq Jobs(t) \cup {x}
    BY <1>1, <1>5, <2>1, JoinsKeeps
  <2>4. ReadOK(t, loading[t])'
    BY <1>5 DEF ReadOK
  <2> QED BY <1>1, <1>3, <2>2, <2>3, <2>4, KeptStays
<1> QED BY <1>1, <1>4, <1>5

LEMMA LoadReadKeeps ==
  ASSUME TypesOK, NEW t \in Tab, AcceptedEditsAreKept, Kept(t), LoadRead(t)
  PROVE  AcceptedEditsAreKept' /\ Kept(t)'
<1>1. /\ UNCHANGED <<server, outbox, snapshot, view, gen, starting, queue, accepted, reverted>>
      /\ loading'[t] = [loading[t] EXCEPT !.indexed = workspace, !.remote = workspace \cup server]
  BY TypeFacts DEF LoadRead, cloud, disk, history
<1>2. Waiting' = Waiting /\ AcceptedEditsAreKept' /\ OnScreen(t)' /\ \A any : OutboxStays(any)
  BY <1>1, WaitingShrinks, WaitingInOutbox DEF Kept, OnScreen, OutboxStays
<1>3. InOrder(t)' /\ Asked(t)' = Asked(t) /\ Jobs(t)' = Jobs(t)
  BY <1>1 DEF Kept, InOrder, Asked, Jobs
<1>4. /\ loading'[t].kind = loading[t].kind /\ loading'[t].gen = loading[t].gen
      /\ loading[t] # Nothing
  <2>1. loading[t] \in ReadRec(Known) /\ loading[t].kind \in {"plain", "deferred"} /\ loading[t] # Nothing
    BY ReadTyped DEF LoadRead, Reads
  <2> QED BY <1>1, <2>1 DEF ReadRec
<1>5. ReadOK(t, loading[t])'
  BY <1>1, <1>2, <1>4 DEF ReadOK, Kept
<1> QED BY <1>1, <1>2, <1>3, <1>5, KeptStays

LEMMA LoadFinishedKeeps ==
  ASSUME TypesOK, NEW t \in Tab, AcceptedEditsAreKept, Kept(t), LoadFinished(t)
  PROVE  AcceptedEditsAreKept' /\ Kept(t)'
<1> PICK read : read = loading[t]
  OBVIOUS
<1> DEFINE found == read.remote \cup (IF read.kind = "deferred" THEN read.payload.state ELSE {})
<1> PICK result : result = IF Superseded(t, read) THEN found \cup snapshot ELSE found
  OBVIOUS
<1>1. /\ UNCHANGED <<server, outbox, gen, starting, queue, accepted, reverted>>
      /\ Show(t, read, result, result) /\ loading'[t] = Nothing
  BY TypeFacts DEF LoadFinished, history
<1>2. Waiting' = Waiting /\ AcceptedEditsAreKept' /\ \A any : OutboxStays(any)
  BY <1>1, WaitingShrinks, WaitingInOutbox DEF OutboxStays
<1>3. Waiting \subseteq result
  <2>1. CASE Superseded(t, read)
    BY <2>1 DEF Kept, OnScreen
  <2>2. CASE ~Superseded(t, read) /\ read.kind = "plain"
    BY <2>2, ReadTyped DEF Kept, ReadOK, Superseded, LoadFinished, Reads
  <2>3. CASE ~Superseded(t, read) /\ read.kind = "deferred"
    BY <2>3, WaitingInOutbox DEF Superseded, Delivers
  <2> QED BY <2>1, <2>2, <2>3 DEF LoadFinished, Reads
<1>4. OnScreen(t)'
  BY <1>1, <1>2, <1>3, ShowKeeps DEF Kept
<1>5. InOrder(t)' /\ Asked(t)' = Asked(t) /\ Jobs(t)' = Jobs(t) /\ ReadOK(t, loading[t])'
  BY <1>1 DEF Kept, InOrder, Asked, Jobs, ReadOK
<1> QED BY <1>1, <1>2, <1>4, <1>5, KeptStays

LEMMA LoadFailedKeeps ==
  ASSUME TypesOK, NEW t \in Tab, AcceptedEditsAreKept, Kept(t), LoadFailed(t)
  PROVE  AcceptedEditsAreKept' /\ Kept(t)'
<1> PICK read : read = loading[t]
  OBVIOUS
<1>1. /\ UNCHANGED <<server, outbox, gen, starting, queue, accepted, reverted>>
      /\ loading'[t] = Nothing
  BY TypeFacts DEF LoadFailed, cloud, history
<1>2. Waiting' = Waiting /\ AcceptedEditsAreKept' /\ \A any : OutboxStays(any)
  BY <1>1, WaitingShrinks, WaitingInOutbox DEF OutboxStays
<1>3. \E result : /\ Show(t, read, result, snapshot)
                  /\ read.gen = gen[t] => Waiting \subseteq result
  <2>1. CASE read.kind = "plain"
    <3>1. Show(t, read, read.local, snapshot)
      BY <2>1 DEF LoadFailed
    <3>2. read.gen = gen[t] => Waiting = {}
      BY <2>1 DEF LoadFailed, Reads, Kept, ReadOK
    <3> QED BY <3>1, <3>2
  <2>2. CASE read.kind = "deferred" /\ Superseded(t, read)
    BY <2>2 DEF LoadFailed, Kept, OnScreen
  <2>3. CASE read.kind = "deferred" /\ ~Superseded(t, read)
    <3>1. Show(t, read, read.payload.state, snapshot)
      BY <2>3 DEF LoadFailed
    <3>2. Waiting \subseteq read.payload.state
      BY <2>3, WaitingInOutbox DEF Superseded, Delivers
    <3> QED BY <3>1, <3>2
  <2> QED BY <2>1, <2>2, <2>3 DEF LoadFailed, Reads
<1>4. OnScreen(t)'
  BY <1>2, <1>3, ShowKeeps DEF Kept, OnScreen
<1>5. InOrder(t)' /\ Asked(t)' = Asked(t) /\ Jobs(t)' = Jobs(t) /\ ReadOK(t, loading[t])'
  BY <1>1 DEF Kept, InOrder, Asked, Jobs, ReadOK
<1> QED BY <1>1, <1>2, <1>4, <1>5, KeptStays

LEMMA ReadUnavailableKeeps ==
  ASSUME TypesOK, NEW t \in Tab, AcceptedEditsAreKept, Kept(t), ReadUnavailable(t)
  PROVE  AcceptedEditsAreKept' /\ Kept(t)'
<1>1. /\ UNCHANGED <<server, outbox, gen, queue, accepted, reverted>>
      /\ Show(t, Head(starting[t]), snapshot, snapshot)
      /\ starting[t] # <<>> /\ starting'[t] = Tail(starting[t]) /\ loading'[t] = Nothing
  BY TypeFacts DEF ReadUnavailable, Asks, cloud, history
<1>2. Waiting' = Waiting /\ AcceptedEditsAreKept' /\ \A any : OutboxStays(any)
  BY <1>1, WaitingShrinks, WaitingInOutbox DEF OutboxStays
<1>3. OnScreen(t)'
  BY <1>1, <1>2, ShowKeeps DEF Kept, OnScreen
<1>4. InOrder(t)' /\ Asked(t)' \subseteq Asked(t) /\ Jobs(t)' = Jobs(t)
  BY <1>1, AskLeaves
<1>5. ReadOK(t, loading[t])'
  BY <1>1 DEF ReadOK
<1> QED BY <1>1, <1>2, <1>3, <1>4, <1>5, KeptStays

LEMMA RecoverDeliveredKeeps ==
  ASSUME TypesOK, NEW t \in Tab, AcceptedEditsAreKept, Kept(t), RecoverDelivered(t)
  PROVE  AcceptedEditsAreKept' /\ Kept(t)'
<1> PICK job : job = Head(queue[t])
  OBVIOUS
<1> PICK x : x = [job EXCEPT !.kind = IF Current(t, job) THEN "hydrate" ELSE "merge"]
  OBVIOUS
<1>1. /\ Running(t) /\ job.kind = "recover" /\ job.reply.ok /\ starting' = starting
      /\ outbox' = IF Current(t, job) THEN Nothing ELSE outbox
      /\ UNCHANGED <<server, snapshot, view, gen, loading, accepted, reverted>>
  BY DEF RecoverDelivered, cloud, history
<1>2. queue[t] # <<>> /\ job = queue[t][1] /\ job \in DeliveryRec(Known)
  BY <1>1, AnsweredJob
<1>3. /\ x \in JobRec(Known, accepted) /\ x.state = job.state /\ x.events = job.events
      /\ x.reply = job.reply /\ x.kind = IF Current(t, job) THEN "hydrate" ELSE "merge"
  BY <1>2 DEF JobRec, DeliveryRec
<1>4. queue'[t] = [queue[t] EXCEPT ![1] = x]
  BY <1>2, TypeFacts, HeadJob DEF RecoverDelivered
<1>5. Current(t, job) => Waiting = {}
  BY <1>1, DeliveredEnds DEF Current
<1>6. Waiting' = Waiting /\ AcceptedEditsAreKept' /\ OnScreen(t)' /\ \A any : OutboxStays(any)
  BY <1>1, <1>5, WaitingShrinks, WaitingInOutbox DEF Kept, OnScreen, OutboxStays
<1>7. InOrder(t)' /\ Asked(t)' = Asked(t) /\ Jobs(t)' \subseteq Jobs(t) \cup {x}
  <2>1. x \in JobRec(Known, accepted) /\ x.kind # "save"
    BY <1>3
  <2> QED BY <1>1, <1>2, <1>4, <2>1, BecomesKeeps
<1>8. JobOK(t, x)'
  <2>1. AnswerOK(x)'
    BY <1>1, <1>3, RunningJob DEF AnswerOK
  <2>2. DeliveryOK(x)'
    BY <1>3, <1>5, <1>6 DEF DeliveryOK
  <2> QED BY <1>3, <2>1, <2>2 DEF JobOK
<1> QED BY <1>1, <1>6, <1>7, <1>8, KeptStays

LEMMA RecoverFinishedKeeps ==
  ASSUME TypesOK, NEW t \in Tab, AcceptedEditsAreKept, Kept(t), RecoverFinished(t)
  PROVE  AcceptedEditsAreKept' /\ Kept(t)'
<1> PICK job : job = Head(queue[t])
  OBVIOUS
<1> DEFINE found == job.reply.state \cup server
<1> PICK result : result = IF job.kind = "merge" THEN found \cup snapshot
                           ELSE Confirmed(found, job.local)
  OBVIOUS
<1>1. /\ Running(t) /\ job.kind \in {"hydrate", "merge"} /\ Finish(t) /\ queue[t] # <<>>
      /\ UNCHANGED <<server, outbox, gen, starting, accepted, reverted>>
      /\ Show(t, job, result, result) /\ loading'[t] = Nothing
  BY AnsweredJob, TypeFacts DEF RecoverFinished, history
<1>2. Waiting' = Waiting /\ AcceptedEditsAreKept' /\ \A any : OutboxStays(any)
  BY <1>1, WaitingShrinks, WaitingInOutbox DEF OutboxStays
<1>3. Waiting \subseteq result
  <2>1. Waiting \subseteq snapshot
    BY DEF Kept, OnScreen
  <2>2. job.kind = "hydrate" => Waiting \cap job.local = {}
    BY <1>1, RunningJob DEF JobOK, DeliveryOK
  <2> QED BY <1>1, <2>1, <2>2 DEF Confirmed
<1>4. OnScreen(t)'
  BY <1>1, <1>2, <1>3, ShowKeeps DEF Kept
<1>5. ReadOK(t, loading[t])'
  BY <1>1 DEF ReadOK
<1> QED BY <1>1, <1>2, <1>4, <1>5, FinishKeeps, KeptStays

LEMMA RecoverFailedKeeps ==
  ASSUME TypesOK, NEW t \in Tab, AcceptedEditsAreKept, Kept(t), RecoverFailed(t)
  PROVE  AcceptedEditsAreKept' /\ Kept(t)'
<1> PICK job : job = Head(queue[t])
  OBVIOUS
<1>1. /\ Running(t) /\ job.kind = "recover" /\ Finish(t) /\ queue[t] # <<>>
      /\ UNCHANGED <<server, gen, starting, accepted, reverted>> /\ loading'[t] = Nothing
  BY AnsweredJob, TypeFacts DEF RecoverFailed, cloud, history
<1>2. Waiting' = Waiting /\ OnScreen(t)
  BY <1>1, WaitingShrinks DEF Kept
<1>3. ReadOK(t, loading[t])'
  BY <1>1 DEF ReadOK
<1>4. SUFFICES OnScreen(t)' /\ AcceptedEditsAreKept' /\ \A any : OutboxStays(any)
  BY <1>1, <1>2, <1>3, FinishKeeps, KeptStays
<1>5. CASE ~Current(t, job)
  <2>1. Show(t, job, snapshot, snapshot) /\ outbox' = outbox
    BY <1>5 DEF RecoverFailed
  <2>2. OnScreen(t)'
    BY <1>2, <2>1, ShowKeeps DEF OnScreen
  <2> QED BY <1>2, <2>1, <2>2, WaitingInOutbox DEF OutboxStays
<1>6. CASE Current(t, job) /\ Partial(job.reply)
  <2>1. Show(t, job, job.reply.state, job.reply.state) /\ outbox' = Remaining(job.reply)
    BY <1>6 DEF RecoverFailed
  <2>2. Waiting \subseteq job.reply.state /\ AcceptedEditsAreKept' /\ \A any : OutboxStays(any)
    BY <1>1, <1>2, <1>6, <2>1, RemainingKeeps DEF Current
  <2>3. OnScreen(t)'
    BY <1>2, <2>1, <2>2, ShowKeeps
  <2> QED BY <2>2, <2>3
<1>7. CASE Current(t, job) /\ ~Partial(job.reply)
  <2>1. Show(t, job, job.payload.state, snapshot) /\ outbox' = outbox
    BY <1>7 DEF RecoverFailed
  <2>2. Waiting \subseteq job.payload.state
    BY <1>7, WaitingInOutbox DEF Current, Delivers
  <2>3. OnScreen(t)'
    BY <1>2, <2>1, <2>2, ShowKeeps DEF OnScreen
  <2> QED BY <1>2, <2>1, <2>3, WaitingInOutbox DEF OutboxStays
<1> QED BY <1>5, <1>6, <1>7

LEMMA CrashKeeps ==
  ASSUME TypesOK, NEW t \in Tab, AcceptedEditsAreKept, Kept(t),
         Crash(t) \/ \E e \in Edit : CrashWhileSaving(t, e)
  PROVE  AcceptedEditsAreKept' /\ Kept(t)'
<1>1. /\ view'[t] = snapshot /\ starting'[t] = <<>> /\ queue'[t] = <<>> /\ loading'[t] = Nothing
      /\ UNCHANGED <<server, snapshot, accepted, reverted>>
  BY TypeFacts DEF Crash, CrashWhileSaving, Reopened, cloud
<1>2. Waiting' = Waiting
  BY <1>1, WaitingShrinks
<1>3. AcceptedEditsAreKept'
  <2>1. CASE Crash(t)
    BY <1>2, <2>1, WaitingInOutbox DEF Crash
  <2>2. ASSUME NEW e \in Edit, CrashWhileSaving(t, e)
        PROVE  AcceptedEditsAreKept'
    <3> PICK job : job = SaveJob(t, e)
      OBVIOUS
    <3>1. outbox' = ToDeliver(job) /\ outbox' # Nothing
      <4>1. e \in Edit \ Peer /\ IsNew(e) /\ outbox' = ToDeliver(job)
        BY <2>2 DEF CrashWhileSaving, IsNew
      <4>2. ToDeliver(job) \in PayloadOf(Known \cup {e}) /\ Known \cup {e} \subseteq Edit
        BY <4>1, SaveJobTyped, TypeFacts
      <4>3. PayloadOf(Known \cup {e}) \subseteq Payload
        BY <4>2 DEF PayloadOf, Payload
      <4> QED BY <4>1, <4>2, <4>3, OutboxAssumption
    <3>2. view[t] \subseteq job.state /\ (outbox # Nothing => outbox.events \subseteq job.events)
      BY DEF SaveJob, Selection
    <3> QED BY <1>2, <3>1, <3>2, WaitingInOutbox DEF Kept, OnScreen, Delivers, ToDeliver
  <2> QED BY <2>1, <2>2
<1>4. Jobs(t)' = {} /\ Asked(t)' = {} /\ InOrder(t)' /\ ReadOK(t, loading[t])'
  BY <1>1 DEF Jobs, Asked, InOrder, Ordered, ReadOK
<1>5. OnScreen(t)'
  BY <1>1, <1>2 DEF Kept, OnScreen
<1> QED BY <1>3, <1>4, <1>5 DEF Kept

LEMMA PeerEditKeeps ==
  ASSUME TypesOK, NEW t \in Tab, AcceptedEditsAreKept, Kept(t), NEW e \in Peer, PeerEdit(e)
  PROVE  AcceptedEditsAreKept' /\ Kept(t)'
<1>1. /\ server \subseteq server'
      /\ UNCHANGED <<outbox, snapshot, view, gen, starting, queue, loading, accepted, reverted>>
  BY DEF PeerEdit, disk, history
<1>2. Waiting' \subseteq Waiting
  BY <1>1, WaitingShrinks
<1>3. AcceptedEditsAreKept' /\ OnScreen(t)' /\ \A any : OutboxStays(any)
  BY <1>1, <1>2, WaitingInOutbox DEF Kept, OnScreen, OutboxStays
<1>4. InOrder(t)' /\ Asked(t)' = Asked(t) /\ Jobs(t)' = Jobs(t)
  BY <1>1 DEF Kept, InOrder, Asked, Jobs
<1> QED BY <1>1, <1>2, <1>3, <1>4, KeptStays

\* A new edit is in no state that is already on its way, which is what tells the new
\* outbox from what every earlier save was to deliver.
LEMMA SaveKeeps ==
  ASSUME TypesOK, NEW t \in Tab, AcceptedEditsAreKept, Kept(t), NEW e \in Edit, Save(t, e)
  PROVE  AcceptedEditsAreKept' /\ Kept(t)'
<1> PICK job : job = SaveJob(t, e)
  OBVIOUS
<1>1. e \in Edit \ Peer /\ IsNew(e) /\ e \notin Known
  BY DEF Save, IsNew, Known
<1>2. /\ outbox' = ToDeliver(job) /\ snapshot' = job.state /\ view'[t] = job.state
      /\ gen'[t] = gen[t] + 1 /\ gen[t] \in Nat /\ starting'[t] = Append(starting[t], job)
      /\ accepted' = accepted \cup {e}
      /\ UNCHANGED <<server, queue, loading, reverted>>
  BY TypeFacts DEF Save, cloud
<1>3. /\ job.kind = "save" /\ job.edit = e /\ job.gen = gen[t] + 1 /\ job.state = view[t] \cup {e}
      /\ job.events = Selection(EventsOf((job.state \ snapshot) \cup (snapshot \ job.state)))
      /\ job.previous = snapshot /\ job.prior = outbox /\ job.payload = Nothing
      /\ job.reply = Nothing
  BY DEF SaveJob
<1>4. outbox'.state = job.state /\ outbox'.events = job.events /\ outbox' # Nothing
  <2>1. ToDeliver(job) \in PayloadOf(Known \cup {e}) /\ Known \cup {e} \subseteq Edit
    BY <1>1, SaveJobTyped, TypeFacts
  <2>2. PayloadOf(Known \cup {e}) \subseteq Payload
    BY <2>1 DEF PayloadOf, Payload
  <2> QED BY <1>2, <2>1, <2>2, OutboxAssumption DEF ToDeliver
<1>5. Waiting' = Waiting \cup {e}
  BY <1>1, <1>2, TypeFacts, BoundsTyped DEF Waiting
<1>6. Waiting' \subseteq job.state /\ \A d \in Waiting' : EventOf[d] \in job.events
  <2>1. Waiting \subseteq job.state /\ \A d \in Waiting : EventOf[d] \in job.events
    BY <1>3, WaitingInOutbox DEF Kept, OnScreen, Delivers, Selection
  <2>2. e \notin snapshot
    BY <1>1, TypeFacts
  <2>3. EventOf[e] \in job.events
    BY <1>3, <2>2 DEF Selection, EventsOf
  <2> QED BY <1>3, <1>5, <2>1, <2>3
<1>7. AcceptedEditsAreKept' /\ OnScreen(t)'
  BY <1>2, <1>4, <1>6, WaitingInOutbox DEF OnScreen, Delivers
<1>8. /\ \A any \in Jobs(t) : any.kind = "save" => SaveOK(t, any) /\ e \notin any.state /\ any.gen \in Nat
      /\ \A any \in Asked(t) : any.kind = "save" => SaveOK(t, any) /\ e \notin any.state /\ any.gen \in Nat
  <2>1. \A any \in SaveRec(Known, accepted) : e \notin any.state /\ any.gen \in Nat
    BY <1>1 DEF SaveRec
  <2> QED BY <2>1, JobsTyped, KindsOfJobs, KindsOfAsks DEF Kept, JobOK, AskOK
<1>9. ASSUME NEW any, any.kind = "save", SaveOK(t, any), e \notin any.state, any.gen \in Nat
      PROVE  SaveOK(t, any)' /\ Precedes(any, job)
  <2>1. any.gen < gen'[t]
    BY <1>2, <1>9 DEF SaveOK
  <2>2. outbox' # Nothing /\ ~(outbox'.state \subseteq any.state)
    BY <1>3, <1>4, <1>9
  <2>3. Waiting' \cap any.state = Waiting \cap any.state
    BY <1>5, <1>9
  <2>4. SaveOK(t, any)'
    BY <1>2, <1>9, <2>1, <2>2, <2>3 DEF SaveOK, Delivers
  <2>5. Precedes(any, job)
    BY <1>2, <1>3, <1>9, <2>1 DEF Precedes
  <2> QED BY <2>4, <2>5
<1>10. /\ \A any \in Jobs(t) \cup Asked(t) : Precedes(any, job)
       /\ \A any \in Jobs(t) \cup Asked(t) : any.kind = "save" => SaveOK(t, any)'
  BY <1>8, <1>9 DEF Precedes
<1>11. starting[t] \in Seq(AskRec(Known, accepted) \cup {job})
  BY TypeFacts, SeqMonotonic
<1>12. Asked(t)' \subseteq Asked(t) \cup {job} /\ Jobs(t)' = Jobs(t)
  <2>1. \A i \in DOMAIN Append(starting[t], job) :
          \/ Append(starting[t], job)[i] = job
          \/ i \in DOMAIN starting[t] /\ Append(starting[t], job)[i] = starting[t][i]
    BY <1>11, AppendAdds
  <2> QED BY <1>2, <2>1 DEF Asked, Jobs
<1>13. InOrder(t)'
  <2>1. /\ Ordered(queue[t]) /\ Ordered(starting[t])
        /\ \A a \in Jobs(t), b \in Asked(t) : Precedes(a, b)
    BY DEF Kept, InOrder
  <2>2. \A i \in DOMAIN starting[t] : Precedes(starting[t][i], job)
    BY <1>10 DEF Asked
  <2>3. Ordered(Append(starting[t], job))
    BY <1>11, <2>1, <2>2, OrderMoves
  <2> QED BY <1>2, <1>10, <1>12, <2>1, <2>3 DEF InOrder
<1>14. SaveOK(t, job)'
  <2>1. job.gen = gen'[t] /\ gen'[t] \in Nat /\ job.edit \in job.state
    BY <1>2, <1>3
  <2>2. \A d \in Waiting' : d = job.edit \/ (d \in job.previous /\ Delivers(job.prior, d))
    BY <1>3, <1>5, WaitingInOutbox DEF Kept, OnScreen
  <2>3. /\ job.gen <= gen'[t]
        /\ job.payload = Nothing /\ job.gen = gen'[t] => Waiting' \subseteq job.state
    BY <1>3, <1>6, <2>1
  <2>4. \A d \in Waiting' \cap job.state :
          /\ EventOf[d] \in job.events
          /\ d = job.edit \/ (d \in job.previous /\ Delivers(job.prior, d))
    BY <1>6, <2>2
  <2> QED BY <1>3, <2>1, <2>3, <2>4 DEF SaveOK, Delivers
<1>15. ASSUME NEW any \in Jobs(t)
       PROVE  JobOK(t, any)'
  <2>1. any.kind = "save" => SaveOK(t, any)'
    BY <1>10
  <2>2. any.kind \in {"flush", "recover", "hydrate", "merge"} => DeliveryOK(any)'
    <3>1. any.kind \in {"flush", "recover", "hydrate", "merge"} => e \notin any.local
      BY <1>1, JobsTyped, KindsOfJobs DEF DeliveryRec
    <3> QED BY <1>5, <3>1 DEF Kept, JobOK, DeliveryOK
  <2>3. any.kind # "flushing" => AnswerOK(any)'
    BY <1>2 DEF Kept, JobOK, AnswerOK
  <2> QED BY <2>1, <2>2, <2>3 DEF JobOK
<1>16. \A ask \in Asked(t)' : AskOK(t, ask)'
  <2>1. ASSUME NEW ask \in Asked(t), ask.kind # "save"
        PROVE  ask.gen <= gen'[t]
    <3>1. ask.gen \in Nat /\ ask.gen <= gen[t]
      BY <2>1, JobsTyped, KindsOfAsks DEF Kept, AskOK
    <3> QED BY <1>2, <3>1
  <2> QED BY <1>3, <1>10, <1>12, <1>14, <2>1 DEF AskOK
<1>17. ReadOK(t, loading[t])'
  <2>1. loading[t] # Nothing /\ loading[t].kind = "plain" => loading[t].gen \in Nat
    BY TypeFacts DEF ReadRec
  <2> QED BY <1>2, <2>1 DEF Kept, ReadOK
<1> QED BY <1>7, <1>12, <1>13, <1>15, <1>16, <1>17 DEF Kept
-----------------------------------------------------------------------------
(* The invariant.                                                          *)

LEMMA InitHolds ==
  ASSUME Init
  PROVE  IInv
<1>1. \A S : <<>> \in Seq(S)
  OBVIOUS
<1>2. TypesOK
  BY <1>1, OutboxAssumption DEF Init, TypesOK, Types, OneAtATime
<1>3. ASSUME NEW t \in Tab
      PROVE  AcceptedEditsAreKept /\ Kept(t)
  <2>1. Jobs(t) = {} /\ Asked(t) = {} /\ InOrder(t) /\ ReadOK(t, loading[t])
    BY DEF Init, Jobs, Asked, InOrder, Ordered, ReadOK
  <2>2. AcceptedEditsAreKept /\ OnScreen(t)
    BY DEF Init, AcceptedEditsAreKept, OnScreen, Waiting
  <2> QED BY <2>1, <2>2 DEF Kept
<1> QED BY <1>2, <1>3 DEF IInv

LEMMA StepTypes ==
  ASSUME TypesOK, Next
  PROVE  TypesOK'
<1>1. CASE \E t \in Tab, e \in Edit : Save(t, e) \/ CrashWhileSaving(t, e)
  BY <1>1, SaveTypes, CrashTypes
<1>2. CASE \E t \in Tab : Job(t)
  BY <1>2, ConfigureTypes, StartFlushTypes, SendTypes, SaveSucceededTypes, SaveFailedTypes,
     FlushAnsweredTypes, RecoverDeliveredTypes, RecoverFinishedTypes, RecoverFailedTypes DEF Job
<1>3. CASE \E t \in Tab : Load(t)
  BY <1>3, StartLoadTypes, ChooseReadTypes, ReadUnavailableTypes, LoadReadTypes,
     LoadFinishedTypes, LoadFailedTypes DEF Load
<1>4. CASE \E t \in Tab : ConfigUnavailable(t) \/ TimerFires(t) \/ Online(t) \/ Crash(t)
  BY <1>4, ConfigUnavailableTypes, TimerTypes, CrashTypes
<1>5. CASE \E e \in Peer : PeerEdit(e)
  BY <1>5, PeerEditTypes
<1> QED BY <1>1, <1>2, <1>3, <1>4, <1>5 DEF Next

LEMMA StepKeeps ==
  ASSUME TypesOK, Next, NEW t \in Tab, Only(t), AcceptedEditsAreKept, Kept(t)
  PROVE  AcceptedEditsAreKept' /\ Kept(t)'
<1>1. CASE \E e \in Edit : Save(t, e) \/ CrashWhileSaving(t, e)
  BY <1>1, SaveKeeps, CrashKeeps
<1>2. CASE Job(t)
  BY <1>2, ConfigureKeeps, StartFlushKeeps, SendKeeps, SaveSucceededKeeps, SaveFailedKeeps,
     FlushAnsweredKeeps, RecoverDeliveredKeeps, RecoverFinishedKeeps, RecoverFailedKeeps DEF Job
<1>3. CASE Load(t)
  BY <1>3, StartLoadKeeps, ChooseReadKeeps, ReadUnavailableKeeps, LoadReadKeeps,
     LoadFinishedKeeps, LoadFailedKeeps DEF Load
<1>4. CASE ConfigUnavailable(t) \/ TimerFires(t) \/ Online(t) \/ Crash(t)
  BY <1>4, ConfigUnavailableKeeps, TimerKeeps, CrashKeeps
<1>5. CASE \E e \in Peer : PeerEdit(e)
  BY <1>5, PeerEditKeeps
<1> QED BY <1>1, <1>2, <1>3, <1>4, <1>5 DEF Next, Only

LEMMA StutterKeeps ==
  ASSUME IInv, UNCHANGED vars
  PROVE  IInv'
<1>1. UNCHANGED <<server, workspace, snapshot, outbox, view, gen, starting, queue, loading,
                  timer, made, accepted, reverted, failures, crashes>>
  BY DEF vars, cloud, disk, history, bounds
<1>2. TypesOK'
  BY <1>1 DEF IInv, TypesOK, Types, Known
<1>3. ASSUME NEW t \in Tab, Only(t)
      PROVE  AcceptedEditsAreKept' /\ Kept(t)'
  <2>1. AcceptedEditsAreKept /\ Kept(t) /\ TypesOK
    BY <1>3 DEF IInv
  <2>2. Waiting' = Waiting /\ AcceptedEditsAreKept' /\ OnScreen(t)' /\ \A any : OutboxStays(any)
    BY <1>1, <2>1, WaitingShrinks, WaitingInOutbox DEF Kept, OnScreen, OutboxStays
  <2>3. InOrder(t)' /\ Asked(t)' = Asked(t) /\ Jobs(t)' = Jobs(t)
    BY <1>1, <2>1 DEF Kept, InOrder, Asked, Jobs
  <2> QED BY <1>1, <2>1, <2>2, <2>3, KeptStays
<1> QED BY <1>2, <1>3 DEF IInv, Only

\* The types and, for the only page of a browser, what keeps the accepted edits.
THEOREM Invariance == Spec => []IInv
<1>1. Init => IInv
  BY InitHolds
<1>2. IInv /\ [Next]_vars => IInv'
  <2> SUFFICES ASSUME IInv, [Next]_vars
               PROVE  IInv'
    OBVIOUS
  <2>1. CASE Next
    BY <2>1, StepTypes, StepKeeps DEF IInv, Only
  <2> QED BY <2>1, StutterKeeps
<1> QED BY <1>1, <1>2, PTL DEF Spec

\* The types; the cloud writes of a page run one at a time, in the order they
\* were asked for, and one flush at a time is queued.
THEOREM TypeCorrect == Spec => []TypeOK
<1>1. IInv => TypeOK
  <2> SUFFICES ASSUME TypesOK
               PROVE  TypeOK
    BY DEF IInv
  <2>1. PayloadOf(Known) \subseteq Payload
    BY TypeFacts DEF PayloadOf, Payload
  <2>2. /\ server \subseteq Edit /\ workspace \subseteq Edit /\ snapshot \subseteq Edit
        /\ outbox = Nothing \/ outbox \in Payload
        /\ view \in [Tab -> SUBSET Edit] /\ gen \in [Tab -> Nat] /\ timer \in [Tab -> BOOLEAN]
    BY <2>1, TypeFacts
  <2>3. ASSUME NEW t \in Tab, NEW i \in DOMAIN queue[t]
        PROVE  /\ i > 1 => queue[t][i].reply = Nothing
               /\ queue[t][i].kind = "flushing" => \A j \in 1..(i - 1) : queue[t][j].kind # "flush"
    <3>1. OneAtATime(queue[t]) /\ DOMAIN queue[t] = 1..Len(queue[t]) /\ Len(queue[t]) \in Nat
      BY TypeFacts, PositionsCount DEF TypesOK
    <3> QED BY <3>1 DEF OneAtATime
  <2> QED BY <2>2, <2>3 DEF TypeOK, TypesOK
<1> QED BY <1>1, Invariance, PTL

\* An edit the only page of a browser showed as saved is in the shared row, or
\* waits in the outbox with its event among those to deliver, or was taken back
\* with a notice, whatever fails, crashes or is answered late.
THEOREM AcceptedEditsAreKeptHolds ==
  ASSUME \A s, t \in Tab : s = t, Tab # {}
  PROVE  Spec => []AcceptedEditsAreKept
<1>1. IInv => AcceptedEditsAreKept
  BY DEF IInv, Only
<1> QED BY <1>1, Invariance, PTL
=============================================================================
