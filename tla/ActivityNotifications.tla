-------------------------- MODULE ActivityNotifications --------------------------
(***************************************************************************)
(* Telling the people of an event that somebody added an expense: the list *)
(* of notifications a phone still has to send                              *)
(* (data/pendingEventNotifications.mjs, app.mjs), the request of the API   *)
(* server that sends one to every recipient                                *)
(* (server/eventActivityNotifications.mjs), the table of reservations and  *)
(* its function (supabase/schema.sql), the inbox and the push service.     *)
(*                                                                         *)
(* A request runs to its end on the server even when the phone has given   *)
(* it up, so two requests for one activity may run at the same time.  Any  *)
(* call can fail, be executed without an answer, or stop the server; after *)
(* a deadline of ten seconds every call but the cleaning up fails at once. *)
(* The wait for an answer, and the order of the recipients, are those of   *)
(* the code: one recipient after the other.  Kinds other than              *)
(* "expense-created" and servers without a push service are left out.      *)
(***************************************************************************)
EXTENDS Integers, FiniteSets, SequencesExt

CONSTANTS
  Activity,        \* expenses of one person in one event
  Sender,          \* the person who adds them
  People,          \* the others, in the order of the event
  DevicesOf,       \* the devices each of them registered
  Astray,          \* those whose own account has lost the event
  Handler,         \* requests the server can run at the same time
  Nobody,          \* no request
  MaxFailures,     \* bound: failures of any kind, people and events coming back
  MaxRemovals      \* bound: people removed, expenses deleted, the sender's account losing the event

Recipient == ToSet(People)
Everybody == Recipient \cup {Sender}
Device == UNION {DevicesOf[r] : r \in Recipient}

ASSUME NotificationsAssumption ==
  /\ People \in Seq(Recipient) /\ Recipient # {}
  /\ \A i, j \in DOMAIN People : People[i] = People[j] => i = j
  /\ Astray \subseteq Recipient /\ Sender \notin Recipient
  /\ \A r, s \in Recipient : r # s => DevicesOf[r] \cap DevicesOf[s] = {}
  /\ Nobody \notin Handler
  /\ MaxFailures \in Nat /\ MaxRemovals \in Nat

VARIABLES
  intent,          \* what the phone remembers of each activity
  asking,          \* the request it waits for
  published,       \* whether the event's row has the activity
  members,         \* the active members of the event
  account,         \* whether the sender's own account has the event
  steady,          \* history: who has been in the event all along - the sender, with
                   \* an account that has it and a session that could be renewed
  rows,            \* event_activity_notifications, the rows of these activities
  others,          \* who was just told of somebody else's expense
  inbox,           \* notification_inbox
  pushed,          \* how often each device got each activity
  enabled,         \* the devices that are still registered
  work,            \* the requests the server is running
  failures, removals      \* bounds

phone == <<intent, asking>>
server == <<rows, others, inbox, pushed, enabled>>
bounds == <<failures, removals>>
event == <<published, members, account, steady>>
vars == <<phone, event, server, work, bounds>>

NoRow == [status |-> "none", by |-> Nobody, recent |-> FALSE]
Row(status, h) == [status |-> status, by |-> h, recent |-> TRUE]

\* A request before its first step; list is whom it will tell, mine and todo what it
\* has reserved and the devices it will push to, the flags what its loops have counted.
Idle ==
  [act |-> Nobody, phase |-> "idle", at |-> 1, answer |-> "none", verdict |-> "none",
   list |-> {}, mine |-> {}, todo |-> {}, stored |-> FALSE, delivered |-> FALSE,
   unconfirmed |-> FALSE, taken |-> FALSE, unclear |-> FALSE, late |-> FALSE]

At(h, phase) == work[h].phase = phase
Current(h) == People[work[h].at]
Going(h) == ~work[h].late      \* createDeadlineFetch: no call starts after the deadline
Become(h, w) == work' = [work EXCEPT ![h] = w]
Goto(h, phase) == Become(h, [work[h] EXCEPT !.phase = phase])

\* Up to n of the things that can go wrong go wrong.
Failing(n) == failures + n <= MaxFailures /\ failures' = failures + n

Init ==
  /\ intent = [a \in Activity |-> "saved"]
  /\ asking = [a \in Activity |-> Nobody]
  /\ published = [a \in Activity |-> "no"]
  /\ members = Everybody /\ steady = Everybody /\ account = TRUE
  /\ rows = [a \in Activity |-> [r \in Recipient |-> NoRow]]
  /\ others \in SUBSET Recipient
  /\ inbox = {}
  /\ pushed = [a \in Activity |-> [d \in Device |-> 0]]
  /\ enabled = Device
  /\ work = [h \in Handler |-> Idle]
  /\ failures = 0 /\ removals = 0
-----------------------------------------------------------------------------
(* The phone. *)

\* The expense is in the outbox, which is durable; the notification is not yet.
Remember(a) ==
  /\ intent[a] = "saved"
  /\ intent' = [intent EXCEPT ![a] = "listed"]
  /\ UNCHANGED <<asking, event, server, work, bounds>>

\* The outbox is delivered, or refused, as everything is of who is not in the event;
\* the page that saved forgets what was refused, a page opened since does not know of it.
Publish(a) ==
  /\ published[a] = "no"
  /\ \/ /\ Sender \in members
        /\ published' = [published EXCEPT ![a] = "yes"] /\ UNCHANGED <<intent, failures>>
     \/ /\ Failing(IF Sender \in members THEN 1 ELSE 0)
        /\ published' = [published EXCEPT ![a] = "refused"]
        /\ \/ intent' = [intent EXCEPT ![a] = "forgotten"]
           \/ intent[a] # "saved" /\ UNCHANGED intent
  /\ UNCHANGED <<asking, members, account, steady, server, work, removals>>

\* Not before the outbox has nothing left of the event.
\* Mutant: the outbox is not waited for.
AnnouncesUnsent(a) == TRUE
MayAnnounce(a) == published[a] # "no"

\* Any place of the server is as good as another.
FirstIdle == CHOOSE h \in Handler : At(h, "idle")

\* One request of an activity at a time, from the save or from the retry timer.
Announce(a, h) ==
  /\ intent[a] = "listed" /\ asking[a] = Nobody /\ MayAnnounce(a)
  /\ At(h, "idle") /\ h = FirstIdle
  /\ asking' = [asking EXCEPT ![a] = h]
  /\ Become(h, [Idle EXCEPT !.act = a, !.phase = "check"])
  /\ UNCHANGED <<intent, event, server, bounds>>

\* After twelve seconds, or when the connection is lost.
GiveUp(a) ==
  /\ asking[a] # Nobody /\ Failing(1)
  /\ asking' = [asking EXCEPT ![a] = Nobody]
  /\ UNCHANGED <<intent, event, server, work, removals>>

\* The page is closed: what was not listed yet will never be.
Reopen ==
  /\ Failing(1)
  /\ intent' = [a \in Activity |-> IF intent[a] = "saved" THEN "unlisted" ELSE intent[a]]
  /\ asking' = [a \in Activity |-> Nobody]
  /\ UNCHANGED <<event, server, work, removals>>

\* Mutant: what the server does not allow is asked for again.
KeepsRefused(answer) == answer \in {"retry", "not allowed"}
\* Retryable answers leave the activity in the list.
Keeps(answer) == answer = "retry"

Hear(a, h, answer) ==
  IF asking[a] # h THEN UNCHANGED phone
  ELSE /\ asking' = [asking EXCEPT ![a] = Nobody]
       /\ intent' = IF Keeps(answer) THEN intent ELSE [intent EXCEPT ![a] = "forgotten"]
-----------------------------------------------------------------------------
(* Other people. *)

DeleteExpense(a) ==
  /\ published[a] = "yes" /\ removals < MaxRemovals
  /\ removals' = removals + 1
  /\ published' = [published EXCEPT ![a] = "withdrawn"]
  /\ UNCHANGED <<phone, members, account, steady, server, work, failures>>

\* Somebody leaves or is removed, the sender too.
RemoveMember(r) ==
  /\ r \in members /\ removals < MaxRemovals
  /\ removals' = removals + 1
  /\ members' = members \ {r} /\ steady' = steady \ {r}
  /\ UNCHANGED <<phone, published, account, server, work, failures>>

\* Somebody comes back: who joins later is like one who was removed before.
Join(r) ==
  /\ r \notin members /\ Failing(1)
  /\ members' = members \cup {r}
  /\ UNCHANGED <<phone, published, account, steady, server, work, removals>>

\* The account's newest snapshots have the event or not: another device saved one.
LoseEvent ==
  /\ account /\ removals < MaxRemovals
  /\ removals' = removals + 1
  /\ account' = FALSE /\ steady' = steady \ {Sender}
  /\ UNCHANGED <<phone, published, members, server, work, failures>>

RegainEvent ==
  /\ ~account /\ Failing(1)
  /\ account' = TRUE
  /\ UNCHANGED <<phone, published, members, steady, server, work, removals>>

\* Forty-five seconds after the last reservation.
IntervalPasses ==
  /\ others # {} \/ \E a \in Activity, r \in Recipient : rows[a][r].recent
  /\ others' = {}
  /\ rows' = [a \in Activity |-> [r \in Recipient |-> [rows[a][r] EXCEPT !.recent = FALSE]]]
  /\ UNCHANGED <<phone, event, inbox, pushed, enabled, work, bounds>>
-----------------------------------------------------------------------------
(* A request: what it does to the table. *)

Set(table, a, r, row) == [table EXCEPT ![a][r] = row]

\* completeActivityNotification and deleteActivityReservation name the row by its
\* identifier, which no later reservation has.
Completed(table, h, r) ==
  LET a == work[h].act IN
  IF table[a][r].by # h THEN table ELSE [table EXCEPT ![a][r].status = "delivered"]

Deleted(table, h, r) ==
  LET a == work[h].act IN
  IF table[a][r].by = h /\ table[a][r].status = "reserved" THEN Set(table, a, r, NoRow) ELSE table

\* Either call may fail, and nobody looks.
Writing(new) ==
  \/ rows' = new /\ UNCHANGED failures
  \/ new # rows /\ rows' = rows /\ Failing(1)

\* reserve_event_activity_notification, at most one expense per interval
Limited(r) ==
  \/ r \in others
  \/ \E a \in Activity : rows[a][r].recent /\ rows[a][r].status \in {"reserved", "delivered"}

Locked(h, a, r) ==
  \E g \in Handler \ {h} : At(g, "insert") /\ work[g].act = a /\ Current(g) = r

\* The identifiers of a request that has ended are known to nobody.
Released(h) ==
  [a \in Activity |-> [r \in Recipient |->
     IF rows[a][r].by = h THEN [rows[a][r] EXCEPT !.by = Nobody] ELSE rows[a][r]]]
-----------------------------------------------------------------------------
(* A request: one recipient after the other. *)

Answering(w, answer) == [w EXCEPT !.phase = "answer", !.answer = answer]

\* Whose turn it can be from place i on.
\* Mutant: one recipient too many.
OneTooMany(w, i) == i..(Len(People) + 1)
Following(w, i) == {j \in i..Len(People) : People[j] \in w.list}

GoOn(w, i) ==
  CASE Following(w, i) # {} ->
         [w EXCEPT !.at = Min(Following(w, i)), !.phase = "verify", !.verdict = "none"]
    [] Following(w, i) = {} /\ w.todo # {} -> [w EXCEPT !.phase = "token"]
    [] OTHER -> Answering(w, IF w.stored THEN "ok" ELSE "no-eligible-recipients")

NextRecipient(w) == GoOn(w, w.at + 1)

\* The sender's account has the event, the event the sender and the expense.
Allowed(a) == account /\ Sender \in members /\ published[a] = "yes"

\* Whom it tells is read here, and not again.
Check(h) ==
  /\ At(h, "check") /\ Going(h)
  /\ Become(h, IF Allowed(work[h].act)
               THEN GoOn([work[h] EXCEPT !.list = members \ {Sender}], 1)
               ELSE Answering(work[h], "not allowed"))
  /\ UNCHANGED <<phone, event, server, bounds>>

\* verify_shared_event_notification_parties
BothMembers(r) == {Sender, r} \subseteq members

Verify(h) ==
  /\ At(h, "verify") /\ Going(h)
  /\ Become(h, IF BothMembers(Current(h)) THEN [work[h] EXCEPT !.phase = "look"]
               ELSE NextRecipient(work[h]))
  /\ UNCHANGED <<phone, event, server, bounds>>

Look(h) ==
  LET a == work[h].act  r == Current(h) IN
  /\ At(h, "look") /\ Going(h) /\ ~Locked(h, a, r)
  /\ Become(h,
       IF rows[a][r].status # "none"
       THEN [work[h] EXCEPT !.phase = "status", !.verdict = "duplicate"]
       ELSE [work[h] EXCEPT !.phase = "insert",
                            !.verdict = IF Limited(r) THEN "rate-limited" ELSE "allowed"])
  /\ UNCHANGED <<phone, event, server, bounds>>

Reserved(w) == [w EXCEPT !.phase = IF People[w.at] \in Astray THEN "link" ELSE "store"]

\* The rest of the transaction; without its answer the request does not know the row.
Insert(h) ==
  LET a == work[h].act
      r == Current(h)
      allowed == work[h].verdict = "allowed"
  IN
  /\ At(h, "insert")
  /\ rows' = Set(rows, a, r, IF allowed THEN Row("reserved", h) ELSE Row("suppressed", Nobody))
  /\ \/ /\ Going(h)
        /\ Become(h, [Reserved(work[h]) EXCEPT !.mine = IF allowed THEN @ \cup {r} ELSE @])
        /\ UNCHANGED failures
     \/ Goto(h, "failed") /\ Failing(IF Going(h) THEN 1 ELSE 0)
  /\ UNCHANGED <<phone, event, others, inbox, pushed, enabled, removals>>

\* A reserved row may belong to a request that is pushing.
Acknowledges(status) == status \in {"delivered", "suppressed"}

ReadStatus(h) ==
  /\ At(h, "status") /\ Going(h)
  /\ IF Acknowledges(rows[work[h].act][Current(h)].status) THEN Become(h, Reserved(work[h]))
     ELSE Goto(h, "failed")
  /\ UNCHANGED <<phone, event, server, bounds>>

\* A private link for somebody whose account has lost the event, from one member to
\* another.
MakeLink(h) ==
  /\ At(h, "link") /\ Going(h) /\ BothMembers(Current(h))
  /\ Goto(h, "store")
  /\ UNCHANGED <<phone, event, server, bounds>>

NoLink(h) ==
  LET refused == IF BothMembers(Current(h)) THEN 1 ELSE 0 IN
  /\ At(h, "link") /\ Going(h)
  /\ Become(h, NextRecipient(work[h]))
  /\ \/ rows' = Deleted(rows, h, Current(h)) /\ Failing(refused)
     \/ rows' = rows /\ Failing(refused + 1)
  /\ UNCHANGED <<phone, event, others, inbox, pushed, enabled, removals>>

Store(h) ==
  LET stored == [work[h] EXCEPT !.stored = TRUE] IN
  /\ At(h, "store") /\ Going(h)
  /\ inbox' = inbox \cup {<<work[h].act, Current(h)>>}
  /\ \/ /\ Become(h, IF stored.verdict = "allowed" THEN [stored EXCEPT !.phase = "devices"]
                     ELSE NextRecipient(stored))
        /\ UNCHANGED failures
     \/ Goto(h, "failed") /\ Failing(1)
  /\ UNCHANGED <<phone, event, rows, others, pushed, enabled, removals>>

LoadDevices(h) ==
  LET r == Current(h)
      devices == {r} \X (DevicesOf[r] \cap enabled)
  IN
  /\ At(h, "devices") /\ Going(h)
  /\ IF devices = {} THEN Writing(Completed(rows, h, r)) /\ Become(h, NextRecipient(work[h]))
     ELSE /\ Become(h, NextRecipient([work[h] EXCEPT !.todo = @ \cup devices]))
          /\ UNCHANGED <<rows, failures>>
  /\ UNCHANGED <<phone, event, others, inbox, pushed, enabled, removals>>

\* A call that fails, or is not made any more, ends the loop.
\* Mutant: the answer of the inbox is ignored.
GoesOnWithoutInbox(w) ==
  [w EXCEPT !.phase = IF w.phase = "store" THEN "devices" ELSE "failed"]
Failed(w) == [w EXCEPT !.phase = "failed"]

Fail(h) ==
  /\ work[h].phase \in {"check", "verify", "look", "status", "link", "store", "devices", "token"}
  /\ Failing(IF Going(h) THEN 1 ELSE 0)
  /\ Become(h, Failed(work[h]))
  /\ UNCHANGED <<phone, event, server, removals>>

\* releaseReservations: nothing has been pushed, so a retry may begin again.
Release(h) ==
  /\ At(h, "failed")
  /\ \E lost \in SUBSET work[h].mine :
       /\ Failing(Cardinality(lost))
       /\ rows' = [rows EXCEPT ![work[h].act] = [r \in Recipient |->
            IF r \in work[h].mine \ lost THEN Deleted(rows, h, r)[work[h].act][r] ELSE @[r]]]
  /\ Become(h, Answering(work[h], "retry"))
  /\ UNCHANGED <<phone, event, others, inbox, pushed, enabled, removals>>
-----------------------------------------------------------------------------
(* A request: the pushes. *)

Left(w, r) == {d \in DevicesOf[r] : <<r, d>> \in w.todo}
Unpushed(w) == {i \in DOMAIN People : Left(w, People[i]) # {}}
Pushing(w) ==
  [w EXCEPT !.phase = "push", !.at = Min(Unpushed(w)), !.taken = FALSE, !.unclear = FALSE]

GetToken(h) ==
  /\ At(h, "token") /\ Going(h)
  /\ Become(h, Pushing(work[h]))
  /\ UNCHANGED <<phone, event, server, bounds>>

Got(a, d) == [pushed EXCEPT ![a][d] = @ + 1]

\* The service takes the push, refuses it, says that the device is gone, or does
\* not answer; after the deadline nothing is sent.
Push(h) == \E d \in Left(work[h], Current(h)) :
  LET a == work[h].act
      sent == [work[h] EXCEPT !.todo = @ \ {<<Current(h), d>>}]
  IN
  /\ At(h, "push")
  /\ \/ /\ ~Going(h) /\ Become(h, sent)
        /\ UNCHANGED <<pushed, enabled, failures>>
     \/ /\ Going(h) /\ Become(h, [sent EXCEPT !.taken = TRUE])
        /\ pushed' = Got(a, d) /\ UNCHANGED <<enabled, failures>>
     \/ /\ Going(h) /\ Become(h, sent) /\ Failing(1)
        /\ enabled' \in {enabled, enabled \ {d}} /\ UNCHANGED pushed
     \/ /\ Going(h) /\ Become(h, [sent EXCEPT !.unclear = TRUE]) /\ Failing(1)
        /\ pushed' \in {pushed, Got(a, d)} /\ UNCHANGED enabled
  /\ UNCHANGED <<phone, event, rows, others, inbox, removals>>

\* A push without an answer may have been delivered: never send it again.
\* Mutant: a push without an answer may be sent again.
ClosesWhenTaken(w) == w.taken
Closes(w) == w.taken \/ w.unclear

Settle(h) ==
  LET w == work[h]
      settled == [w EXCEPT !.delivered = @ \/ w.taken,
                           !.unconfirmed = @ \/ (w.unclear /\ ~w.taken)]
  IN
  /\ At(h, "push") /\ Left(w, Current(h)) = {}
  /\ Writing(IF Closes(w) THEN Completed(rows, h, Current(h)) ELSE Deleted(rows, h, Current(h)))
  /\ Become(h,
       IF w.todo # {} THEN Pushing(settled)
       ELSE Answering(settled, IF settled.delivered \/ (settled.unconfirmed /\ settled.stored)
                               THEN "ok" ELSE "retry"))
  /\ UNCHANGED <<phone, event, others, inbox, pushed, enabled, removals>>

Finish(h) ==
  /\ At(h, "answer")
  /\ Hear(work[h].act, h, work[h].answer)
  /\ rows' = Released(h)
  /\ Become(h, Idle)
  /\ UNCHANGED <<event, others, inbox, pushed, enabled, bounds>>

DeadlinePasses(h) ==
  /\ ~At(h, "idle") /\ Going(h) /\ Failing(1)
  /\ Become(h, [work[h] EXCEPT !.late = TRUE])
  /\ UNCHANGED <<phone, event, server, removals>>

\* The server is stopped: the phone sees its connection end.
Crash(h) ==
  /\ ~At(h, "idle") /\ Failing(1)
  /\ Hear(work[h].act, h, "retry")
  /\ rows' = Released(h)
  /\ Become(h, Idle)
  /\ UNCHANGED <<event, others, inbox, pushed, enabled, removals>>

\* The server does not know the token any more, and the page cannot renew its session:
\* that is no failure to retry after, whatever kept the page from renewing it.
Unauthorized(h) ==
  /\ At(h, "check") /\ asking[work[h].act] = h /\ Failing(1)
  /\ Hear(work[h].act, h, "unauthorized")
  /\ steady' = steady \ {Sender}
  /\ rows' = Released(h)
  /\ Become(h, Idle)
  /\ UNCHANGED <<published, members, account, others, inbox, pushed, enabled, removals>>

Serve(h) ==
  \/ Check(h) \/ Verify(h) \/ Look(h) \/ Insert(h) \/ ReadStatus(h)
  \/ MakeLink(h) \/ NoLink(h) \/ Store(h) \/ LoadDevices(h) \/ Fail(h) \/ Release(h)
  \/ GetToken(h) \/ Push(h) \/ Settle(h) \/ Finish(h)

Next ==
  \/ \E a \in Activity : Remember(a) \/ Publish(a) \/ GiveUp(a) \/ DeleteExpense(a)
  \/ \E a \in Activity, h \in Handler : Announce(a, h)
  \/ \E r \in Everybody : RemoveMember(r) \/ Join(r)
  \/ \E h \in Handler : Serve(h) \/ Unauthorized(h) \/ DeadlinePasses(h) \/ Crash(h)
  \/ Reopen \/ LoseEvent \/ RegainEvent \/ IntervalPasses

\* The outbox and the retry timer of the phone go on, and so does the server.
Fairness ==
  /\ \A a \in Activity : WF_vars(Publish(a)) /\ WF_vars(\E h \in Handler : Announce(a, h))
  /\ \A h \in Handler : WF_vars(Serve(h))

Spec == Init /\ [][Next]_vars /\ Fairness
-----------------------------------------------------------------------------
(* Properties *)

TypeOK ==
  /\ intent \in [Activity -> {"saved", "listed", "unlisted", "forgotten"}]
  /\ asking \in [Activity -> Handler \cup {Nobody}]
  /\ published \in [Activity -> {"no", "yes", "refused", "withdrawn"}]
  /\ members \subseteq Everybody /\ steady \subseteq members /\ account \in BOOLEAN
  /\ others \subseteq Recipient /\ enabled \subseteq Device
  /\ \A a \in Activity, r \in Recipient :
       /\ rows[a][r].status \in {"none", "reserved", "delivered", "suppressed"}
       /\ rows[a][r].by = Nobody \/ work[rows[a][r].by].act = a
  /\ inbox \subseteq Activity \X Recipient
  /\ pushed \in [Activity -> [Device -> Nat]]
  /\ \A h \in Handler :
       /\ work[h].act \in Activity \cup {Nobody}
       /\ work[h].at \in DOMAIN People
       /\ work[h].list \subseteq Recipient /\ work[h].mine \subseteq Recipient
       /\ work[h].todo \subseteq Recipient \X Device

\* A device gets at most one push of an activity, however often the phone asks
\* again: after lost answers, a request that goes on behind the phone's back, a
\* server that was stopped, or a push that nobody confirmed.
NoSecondPush == \A a \in Activity, d \in Device : pushed[a][d] <= 1

\* Once the phone has crossed an expense off its list, everybody who was in the event
\* all along has it in the inbox, through failures, retries and what others do in the
\* meantime - unless it was refused or deleted, or the link for an account that lost
\* the event could not be made, or the sender was not all along somebody the server
\* serves: one who left or was removed, whose own account lost the event, or whose
\* session could not be renewed is told "not allowed", which crosses it off for all.
ForgottenMeansTold ==
  \A a \in Activity :
    intent[a] = "forgotten" /\ published[a] = "yes" /\ Sender \in steady =>
      \A r \in steady \ (Astray \cup {Sender}) : <<a, r>> \in inbox

\* Nobody's device shows what their inbox does not have, and a finished row stands
\* for an activity that is in the inbox: that is why a retry may take it as done.
InboxComesFirst ==
  \A a \in Activity, r \in Recipient :
    rows[a][r].status = "delivered" \/ (\E d \in DevicesOf[r] : pushed[a][d] > 0)
      => <<a, r>> \in inbox

\* A reservation that no running request knows of.
Orphaned(a) ==
  \E r \in Recipient : rows[a][r].status = "reserved" /\ rows[a][r].by = Nobody

\* Whatever is on the list is crossed off in the end, also when answers were lost
\* and the retry finds the work done - except that a reservation left behind by a
\* stopped server, or whose end was not written, stops it for good.
ListedIsSettled ==
  \A a \in Activity :
    intent[a] = "listed" ~> (intent[a] = "forgotten" \/ Orphaned(a))
=============================================================================
