------------------------------ MODULE EventInvites ------------------------------
(***************************************************************************)
(* Links to one event: the requests of the API server that hand them out   *)
(* and redeem them (server/eventInvites.mjs), the table of their hashes    *)
(* and its functions (supabase/schema.sql), and the receipt a phone keeps  *)
(* of a join until its account has the event (data/pendingEventJoins.mjs). *)
(*                                                                         *)
(* A request is a sequence of reads and writes with everybody else's steps *)
(* between them; the functions of the database are one step.  The rows of  *)
(* the members table follow the event (SharedEventSave), so a person is in *)
(* the event, was taken out of it, or neither.  A private link only brings *)
(* an event back to somebody who is in it; that it expires is left out,    *)
(* and so are the links and keys of older versions.                        *)
(***************************************************************************)
EXTENDS Integers

CONSTANTS
  Person,
  Founder,         \* the first administrator
  FirstMembers,    \* who is in the event at first
  Kept,            \* how many revoked rows are kept (12)
  MaxAttempts,     \* how often a join is looked for (20)
  Nothing,         \* no request, no receipt
  MaxChanges,      \* bound: changes of the event
  MaxRequests,     \* bound: requests
  MaxFailures      \* bound: failed requests and lost answers

ASSUME InvitesAssumption ==
  /\ Founder \in FirstMembers /\ FirstMembers \subseteq Person
  /\ Kept \in Nat /\ MaxAttempts \in Nat \ {0}
  /\ MaxChanges \in Nat /\ MaxRequests \in Nat /\ MaxFailures \in Nat
  /\ Nothing \notin 0..MaxAttempts

VARIABLES
  event,           \* who is in it, who was taken out, its administrators and settings
  invites,         \* the rows of event_invite_tokens
  given,           \* the links people have been given
  request,         \* what the server is doing for each person
  receipt,         \* each phone's pending join: the attempts made
  shown,           \* what each phone has of the event
  cancelled,       \* history: the links that were cancelled and not written anew
  changes, requests, failures      \* bounds

server == <<event, invites, cancelled>>
bounds == <<changes, requests, failures>>
vars == <<event, invites, given, request, receipt, shown, cancelled, bounds>>

\* The link made of the event's key, links made of the time as well, which every
\* device can make again too, and random private ones.
Stable == <<"stable", 0>>
Token == {Stable} \cup ({"rotated", "private"} \X (0..MaxRequests))

\* Of the times of a row, a revoked open one keeps how many were revoked after it.
Row == [token : Token, kind : {"open", "private"}, by : Person, to : Person,
        revoked : BOOLEAN, newer : Nat]

Link(token, kind, by, to) ==
  [token |-> token, kind |-> kind, by |-> by, to |-> to, revoked |-> FALSE, newer |-> 0]

In(p) == p \in event.active

\* canCreateOpenInvite
CanInvite(p) == ~event.closed /\ In(p) /\ (event.adminsOnly => p \in event.admins)

Live(token) == {row \in invites : row.token = token /\ ~row.revoked}
Tokens(rows) == {row.token : row \in rows}

Init ==
  /\ event = [active |-> FirstMembers, inactive |-> {}, admins |-> {Founder},
              adminsOnly |-> FALSE, closed |-> FALSE]
  /\ invites = {} /\ given = {}
  /\ request = [p \in Person |-> Nothing]
  /\ receipt = [p \in Person |-> Nothing]
  /\ shown = [p \in Person |-> IF p \in FirstMembers THEN "saved" ELSE "nothing"]
  /\ cancelled = {}
  /\ changes = 0 /\ requests = 0 /\ failures = 0
-----------------------------------------------------------------------------
(* Changes of the event that reach its row. *)

\* Stamped with the time, so that they come after those revoked before them.
Revoke(rows, gone) ==
  LET open == \E row \in gone : row.kind = "open" IN
  {IF row \in gone THEN [row EXCEPT !.revoked = TRUE]
   ELSE IF open /\ row.revoked THEN [row EXCEPT !.newer = @ + 1]
   ELSE row : row \in rows}

Revoking(gone) ==
  /\ invites' = Revoke(invites, gone)
  /\ cancelled' = cancelled \cup Tokens(gone)

\* revoke_event_invites_after_member_removal: all of the event's links.
RevokeAll == Revoking({row \in invites : ~row.revoked})

ChangeEvent(new) ==
  /\ changes < MaxChanges /\ changes' = changes + 1
  /\ event' = new
  /\ IF event.active \subseteq new.active THEN UNCHANGED <<invites, cancelled>> ELSE RevokeAll
  /\ UNCHANGED <<given, request, receipt, shown, requests, failures>>

Without(p) ==
  [event EXCEPT !.active = @ \ {p}, !.inactive = @ \cup {p}, !.admins = @ \ {p}]

RemovePerson(a, p) ==
  /\ a \in event.admins /\ p \in event.active \ {a}
  /\ ChangeEvent(Without(p))

Leave(p) ==
  /\ In(p) /\ event.admins # {p}
  /\ ChangeEvent(Without(p))

RestorePerson(a, p) ==
  /\ a \in event.admins /\ p \in event.inactive
  /\ ChangeEvent([event EXCEPT !.active = @ \cup {p}, !.inactive = @ \ {p}])

Promote(a, p) ==
  /\ a \in event.admins /\ p \in event.active \ event.admins
  /\ ChangeEvent([event EXCEPT !.admins = @ \cup {p}])

SetAdminsOnly(a) ==
  /\ a \in event.admins
  /\ ChangeEvent([event EXCEPT !.adminsOnly = ~@])

CloseOrReopen(a) ==
  /\ a \in event.admins
  /\ ChangeEvent([event EXCEPT !.closed = ~@])

EventChanges ==
  \/ \E a, p \in Person : RemovePerson(a, p) \/ RestorePerson(a, p) \/ Promote(a, p)
  \/ \E p \in Person : Leave(p) \/ SetAdminsOnly(p) \/ CloseOrReopen(p)
-----------------------------------------------------------------------------
(* Requests of a person to the API server. *)

Job(op, step, token, to) == [op |-> op, step |-> step, token |-> token, to |-> to]

At(p, step) == request[p] # Nothing /\ request[p].step = step
Mine(p) == request[p].token
Goto(p, step) == request' = [request EXCEPT ![p].step = step]
Done(p) == request' = [request EXCEPT ![p] = Nothing]

Start(p, job) ==
  /\ request[p] = Nothing
  /\ requests < MaxRequests /\ requests' = requests + 1
  /\ request' = [request EXCEPT ![p] = job]
  /\ UNCHANGED <<server, given, receipt, shown, changes, failures>>

\* manageOpenEventInviteRequest, until the event has been read.
AskForLink(p) == CanInvite(p) /\ Start(p, Job("ensure", "read", Stable, p))
AskForNewLink(p) == CanInvite(p) /\ Start(p, Job("rotate", "write", <<"rotated", requests>>, p))

\* createPrivateEventInvite, until the event has been read.
AskForPrivateLink(p, to) ==
  /\ p # to /\ In(p) /\ In(to)
  /\ Start(p, Job("private", "write", <<"private", requests>>, to))

\* Ensuring answers the link there is; without one it goes on to write one.
ReadLinks(p) ==
  /\ At(p, "read")
  /\ LET open == {row \in invites : row.kind = "open" /\ ~row.revoked} IN
     \/ \E row \in open : given' = given \cup {row.token} /\ Done(p)
     \/ open = {} /\ Goto(p, "write") /\ UNCHANGED given
  /\ UNCHANGED <<server, receipt, shown, bounds>>

\* Mutant: each person has a link.
OwnOpen(job, p, row) == row.kind = "open" /\ row.by = p

\* rotate_open_event_invite, rotate_private_event_invite: the link takes the
\* place of the event's, or of that person's for the same recipient.
Replaced(job, p, row) ==
  IF job.op = "private" THEN row.kind = "private" /\ row.by = p /\ row.to = job.to
  ELSE row.kind = "open"

Taken(p) == {row \in invites : ~row.revoked /\ Replaced(request[p], p, row)}

\* prune_revoked_event_invites.  (Private rows are pruned too; no link of
\* theirs is ever made again.)
Pruned(rows) == {row \in rows : row.kind = "open" /\ row.revoked => row.newer < Kept}

Written(p) ==
  LET job == request[p] IN
  Revoke(invites, Taken(p))
    \cup {Link(job.token, IF job.op = "private" THEN "private" ELSE "open", p, job.to)}

Answered(lost) == failures + (IF lost THEN 1 ELSE 0) <= MaxFailures
                  /\ failures' = failures + (IF lost THEN 1 ELSE 0)

WriteLink(p, lost) ==
  /\ At(p, "write") /\ Mine(p) \notin Tokens(invites)
  /\ invites' = IF request[p].op = "private" THEN Written(p) ELSE Pruned(Written(p))
  /\ cancelled' = (cancelled \ {Mine(p)}) \cup Tokens(Taken(p))
  /\ Answered(lost)
  /\ given' = IF lost THEN given ELSE given \cup {Mine(p)}
  /\ Done(p)
  /\ UNCHANGED <<event, receipt, shown, changes, requests>>

\* The hash of a link is unique, also among the revoked rows.
RefuseLink(p) ==
  /\ At(p, "write") /\ Mine(p) \in Tokens(invites)
  /\ Done(p)
  /\ UNCHANGED <<server, given, receipt, shown, bounds>>
-----------------------------------------------------------------------------
(* redeemEventInviteRequest, and joinEvent on the phone. *)

OpenLink(p, token) ==
  /\ token \in given
  /\ Start(p, Job("redeem", "check", token, p))

Stays == UNCHANGED <<given, receipt, shown, bounds>>

StillEligible(row) ==
  IF row.kind = "open" THEN CanInvite(row.by) ELSE In(row.to) /\ In(row.by)

\* The link's row is read, and then the event.
CheckLink(p) ==
  /\ At(p, "check")
  /\ LET usable == {row \in Live(Mine(p)) : row.kind = "private" => row.to = p} IN
     \/ \E row \in usable : Goto(p, IF StillEligible(row) THEN "redeem" ELSE "revoke")
     \/ usable = {} /\ Done(p)
  /\ UNCHANGED server /\ Stays

\* revokeInviteRow
RevokeLink(p) ==
  /\ At(p, "revoke")
  /\ Revoking(Live(Mine(p)))
  /\ Done(p)
  /\ UNCHANGED event /\ Stays

\* Mutant: what the API server has checked is taken as true.
AdmitsAnyone(row, p) == TRUE

\* Mutant: people taken out of the event come back with a link.
AdmitsRemoved(row, p) ==
  /\ ~row.revoked /\ (row.kind = "private" => row.to = p /\ In(p))
  /\ In(row.by) /\ ~event.closed

\* redeem_event_invite_membership
Admits(row, p) ==
  /\ ~row.revoked /\ (row.kind = "private" => row.to = p /\ In(p))
  /\ p \notin event.inactive
  /\ In(row.by) /\ ~event.closed

Admitted(p) == \E row \in invites : row.token = Mine(p) /\ Admits(row, p)

\* Once the answer is there the phone keeps a receipt, and goes on to read the
\* event.
Redeem(p, lost) ==
  /\ At(p, "redeem") /\ Admitted(p)
  /\ event' = [event EXCEPT !.active = @ \cup {p}]
  /\ Answered(lost)
  /\ IF lost THEN Done(p) /\ UNCHANGED receipt
     ELSE Goto(p, "finish") /\ receipt' = [receipt EXCEPT ![p] = 0]
  /\ UNCHANGED <<invites, given, shown, cancelled, changes, requests>>

RefuseToAdmit(p) ==
  /\ At(p, "redeem") /\ ~Admitted(p)
  /\ Done(p)
  /\ UNCHANGED server /\ Stays

Settled(p) ==
  /\ shown' = [shown EXCEPT ![p] = "saved"]
  /\ receipt' = [receipt EXCEPT ![p] = Nothing]

\* The event is read and the account saved; whoever was taken out again cannot.
FinishJoin(p) ==
  /\ At(p, "finish")
  /\ IF In(p) THEN Settled(p) ELSE UNCHANGED <<receipt, shown>>
  /\ Done(p)
  /\ UNCHANGED <<server, given, bounds>>

\* A request fails or times out, or the page is closed.
Fail(p) ==
  /\ request[p] # Nothing
  /\ failures < MaxFailures /\ failures' = failures + 1
  /\ Done(p)
  /\ UNCHANGED <<server, given, receipt, shown, changes, requests>>
-----------------------------------------------------------------------------
\* recoverAccessibleSharedEvents: a copy one has no access to any more is kept,
\* with its owner marked as taken out.
Recovered(p) ==
  IF In(p) THEN "saved" ELSE IF shown[p] = "nothing" THEN "nothing" ELSE "revoked"

\* Mutant: nobody counts.
KeepsTrying(p) == [receipt EXCEPT ![p] = IF In(p) THEN Nothing ELSE @]

\* pendingEventJoinRecoveryAction, once the event was looked for.
AfterRecovery(p) ==
  [receipt EXCEPT ![p] = IF Recovered(p) = "nothing" /\ @ + 1 < MaxAttempts THEN @ + 1 ELSE Nothing]

\* retryPendingEventJoins
RetryJoin(p) ==
  /\ receipt[p] # Nothing
  /\ shown' = [shown EXCEPT ![p] = Recovered(p)]
  /\ receipt' = AfterRecovery(p)
  /\ UNCHANGED <<server, given, request, bounds>>

\* Mutant: saving is given up after the last attempt too.
ForgottenInTheEnd(p) ==
  [receipt EXCEPT ![p] = IF @ + 1 < MaxAttempts THEN @ + 1 ELSE Nothing]

\* A receipt of an event that is there is kept, whatever its count.
AfterFailure(p) ==
  [receipt EXCEPT ![p] = IF @ < MaxAttempts THEN @ + 1 ELSE @]

\* The event was read, the account could not be saved.
RetryFails(p) ==
  /\ receipt[p] # Nothing /\ In(p)
  /\ failures < MaxFailures /\ failures' = failures + 1
  /\ shown' = [shown EXCEPT ![p] = IF @ = "saved" THEN @ ELSE "seen"]
  /\ receipt' = AfterFailure(p)
  /\ UNCHANGED <<server, given, request, changes, requests>>

Asks(p) ==
  \/ AskForLink(p) \/ AskForNewLink(p)
  \/ \E to \in Person : AskForPrivateLink(p, to)
  \/ \E token \in Token : OpenLink(p, token)

Serve(p) ==
  \/ ReadLinks(p) \/ RefuseLink(p)
  \/ CheckLink(p) \/ RevokeLink(p) \/ RefuseToAdmit(p) \/ FinishJoin(p)
  \/ \E lost \in BOOLEAN : WriteLink(p, lost) \/ Redeem(p, lost)

Next ==
  \/ EventChanges
  \/ \E p \in Person : \/ Asks(p) \/ Serve(p) \/ Fail(p)
                       \/ RetryJoin(p) \/ RetryFails(p)

\* A pending join is tried again until it is settled (recoverPendingMutations).
Spec == Init /\ [][Next]_vars /\ \A p \in Person : WF_vars(RetryJoin(p))
-----------------------------------------------------------------------------
\* The people are in the event or taken out of it, with an administrator left;
\* every link is stored once.
TypeOK ==
  /\ event.active \subseteq Person /\ event.inactive \subseteq Person \ event.active
  /\ event.admins \subseteq event.active /\ event.admins # {}
  /\ {event.adminsOnly, event.closed} \subseteq BOOLEAN
  /\ invites \subseteq Row /\ \A r, s \in invites : r.token = s.token => r = s
  /\ given \subseteq Token
  /\ \A p \in Person : /\ receipt[p] \in {Nothing} \cup 0..MaxAttempts
                       /\ shown[p] \in {"nothing", "seen", "saved", "revoked"}

\* "Collaborative participants reuse the event open link instead of creating
\* parallel links" (tests/eventInvites.test.mjs:965): however many of them ask,
\* rotate and get no answer at the same time, one open link is live.
OneOpenLink ==
  \A r, s \in invites : r.kind = "open" /\ s.kind = "open" /\ ~r.revoked /\ ~s.revoked => r = s

Enters(p) == p \notin event.active /\ p \in event'.active

\* Nobody who was taken out of the event, or left it, is let in by a link they
\* had opened before, or kept, or were sent: only an administrator does that.
RemovedStayOut ==
  [][\A p \in Person : Enters(p) /\ p \in event.inactive =>
       request' = request /\ p \notin event'.inactive]_vars

\* A link that was cancelled - by a newer one, by somebody's going, by the
\* server - lets nobody in until it is written anew, although requests that
\* had found it valid may still be running.
CancelledLinksAdmitNobody ==
  [][\A p \in Person : Enters(p) /\ request'[p] # request[p] => Mine(p) \notin cancelled]_vars

\* A receipt is given up only when the owner's account has the event, or its
\* owner is not in it.
ReceiptsAreHonoured ==
  [][\A p \in Person : receipt[p] # Nothing /\ receipt'[p] = Nothing =>
       shown'[p] = "saved" \/ ~In(p)]_vars

\* Every pending join is settled: saved in the account, or given up.
ReceiptsSettle == \A p \in Person : receipt[p] # Nothing ~> receipt[p] = Nothing
=============================================================================
