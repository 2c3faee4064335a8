--------------------------- MODULE EventInvitesProofs ---------------------------
(***************************************************************************)
(* Proofs, for every set of people and every bound, that one open link is  *)
(* live, that neither those who were taken out of the event nor cancelled  *)
(* links get in, and that receipts are honoured (EventInvites).            *)
(***************************************************************************)
EXTENDS EventInvites, TLAPS

(***************************************************************************)
(* The inductive invariant: the types, with the administrators in the      *)
(* event and nobody both in it and taken out (EventOK), each link in one   *)
(* row (OneRow), one live open row, and every row of a cancelled link      *)
(* revoked (CancelledOK).                                                  *)
(***************************************************************************)
Step == {"read", "write", "check", "redeem", "revoke", "finish"}
JobRec == [op : {"ensure", "rotate", "private", "redeem"}, step : Step, token : Token, to : Person]

EventOK ==
  /\ event \in [active : SUBSET Person, inactive : SUBSET Person, admins : SUBSET Person,
                adminsOnly : BOOLEAN, closed : BOOLEAN]
  /\ event.active \cap event.inactive = {}
  /\ event.admins \subseteq event.active /\ event.admins # {}
OneRow == \A r, s \in invites : r.token = s.token => r = s
CancelledOK == \A row \in invites : row.token \in cancelled => row.revoked
InvitesOK == invites \subseteq Row /\ OneRow /\ OneOpenLink /\ CancelledOK
RequestsOK == /\ request \in [Person -> {Nothing} \cup JobRec]
              /\ given \subseteq Token /\ requests \in Nat
PhonesOK == /\ receipt \in [Person -> {Nothing} \cup 0..MaxAttempts]
            /\ shown \in [Person -> {"nothing", "seen", "saved", "revoked"}]

IInv == EventOK /\ InvitesOK /\ RequestsOK /\ PhonesOK
-----------------------------------------------------------------------------
LEMMA InitHolds == Init => IInv
<1> SUFFICES ASSUME Init
             PROVE  IInv
  OBVIOUS
<1>1. EventOK
  BY InvitesAssumption DEF Init, EventOK
<1>2. InvitesOK /\ RequestsOK
  BY DEF Init, InvitesOK, OneRow, OneOpenLink, CancelledOK, RequestsOK
<1>3. PhonesOK
  BY InvitesAssumption DEF Init, PhonesOK
<1> QED BY <1>1, <1>2, <1>3 DEF IInv
-----------------------------------------------------------------------------
(* The rows.                                                               *)

Sound(rows) == /\ rows \subseteq Row
               /\ \A r, s \in rows : r.token = s.token => r = s
               /\ \A r, s \in rows :
                    r.kind = "open" /\ s.kind = "open" /\ ~r.revoked /\ ~s.revoked => r = s

\* Every row that is there after a revocation was there, and is live only if it was and
\* is not one of those revoked.
LEMMA RevokedRows ==
  ASSUME NEW rows, Sound(rows), NEW gone \in SUBSET rows
  PROVE  /\ Sound(Revoke(rows, gone))
         /\ \A r \in Revoke(rows, gone) : \E s \in rows :
              /\ r.token = s.token /\ r.kind = s.kind
              /\ ~r.revoked => ~s.revoked /\ s \notin gone
<1> DEFINE open == \E row \in gone : row.kind = "open"
           After(row) == IF row \in gone THEN [row EXCEPT !.revoked = TRUE]
                         ELSE IF open /\ row.revoked THEN [row EXCEPT !.newer = @ + 1]
                         ELSE row
<1>1. Revoke(rows, gone) = {After(row) : row \in rows}
  BY DEF Revoke
<1>2. \A s \in rows : /\ After(s) \in Row
                      /\ After(s).token = s.token /\ After(s).kind = s.kind
                      /\ ~After(s).revoked => ~s.revoked /\ s \notin gone /\ After(s) = s
  <2> TAKE s \in rows
  <2>1. s \in [token : Token, kind : {"open", "private"}, by : Person, to : Person,
               revoked : BOOLEAN, newer : Nat]
    BY DEF Sound, Row
  <2>2. CASE s \in gone
    BY <2>1, <2>2 DEF Row
  <2>3. CASE s \notin gone /\ open /\ s.revoked
    BY <2>1, <2>3 DEF Row
  <2>4. CASE s \notin gone /\ ~(open /\ s.revoked)
    BY <2>1, <2>4 DEF Row
  <2> QED BY <2>2, <2>3, <2>4
<1> HIDE DEF After
<1>3. Sound(Revoke(rows, gone))
  BY <1>1, <1>2 DEF Sound
<1> QED BY <1>1, <1>2, <1>3

\* A step that only revokes links keeps what is said of them.
LEMMA RevokingKeeps ==
  ASSUME IInv, NEW gone \in SUBSET invites, Revoking(gone)
  PROVE  InvitesOK'
<1>1. Sound(invites) /\ CancelledOK
  BY DEF IInv, InvitesOK, OneRow, OneOpenLink, Sound
<1>2. Sound(invites') /\ \A r \in invites' : \E s \in invites :
        r.token = s.token /\ (~r.revoked => ~s.revoked /\ s \notin gone)
  BY <1>1, RevokedRows DEF Revoking
<1>3. ASSUME NEW r \in invites', r.token \in cancelled', ~r.revoked
      PROVE  FALSE
  <2>1. PICK s \in invites : r.token = s.token /\ ~s.revoked /\ s \notin gone
    BY <1>2, <1>3
  <2>2. PICK g \in gone : g.token = s.token
    BY <1>1, <1>3, <2>1 DEF Revoking, Tokens, CancelledOK
  <2> QED BY <1>1, <2>1, <2>2 DEF Sound
<1>4. CancelledOK'
  <2>1. \A r \in invites' : r.token \in cancelled' => r.revoked \in BOOLEAN
    BY <1>2 DEF Sound, Row
  <2> QED BY <1>3, <2>1 DEF CancelledOK
<1> QED BY <1>2, <1>4 DEF InvitesOK, OneRow, OneOpenLink, Sound

\* So does the step that writes a link in the place of another.
LEMMA WritingKeeps ==
  ASSUME IInv, NEW p \in Person, NEW lost \in BOOLEAN, WriteLink(p, lost)
  PROVE  InvitesOK'
<1> DEFINE job == request[p]
           kind == IF job.op = "private" THEN "private" ELSE "open"
           link == Link(job.token, kind, p, job.to)
           left == Revoke(invites, Taken(p))
<1>1. Sound(invites) /\ CancelledOK /\ Taken(p) \in SUBSET invites
  BY DEF IInv, InvitesOK, OneRow, OneOpenLink, Sound, Taken
<1>2. job \in JobRec /\ job.token \notin Tokens(invites)
  BY DEF WriteLink, At, Mine, IInv, RequestsOK
<1>3. Sound(left) /\ \A r \in left : \E s \in invites :
        r.token = s.token /\ r.kind = s.kind /\ (~r.revoked => ~s.revoked /\ s \notin Taken(p))
  BY <1>1, RevokedRows
<1>4. /\ link \in Row /\ link.token = job.token /\ link.kind = kind /\ ~link.revoked
  BY <1>2 DEF Link, Row, JobRec
<1>5. invites' \subseteq left \cup {link} /\ cancelled' = (cancelled \ {job.token}) \cup Tokens(Taken(p))
  BY DEF WriteLink, Written, Pruned, Mine
<1> HIDE DEF left, link
<1>6. \A r \in left : r.token # job.token
  BY <1>2, <1>3 DEF Tokens
<1>7. ASSUME kind = "open", NEW r \in left, r.kind = "open", ~r.revoked
      PROVE  FALSE
  <2>1. PICK s \in invites : r.kind = s.kind /\ ~s.revoked /\ s \notin Taken(p)
    BY <1>3, <1>7
  <2>2. job.op # "private"
    BY <1>7
  <2> QED BY <1>7, <2>1, <2>2 DEF Taken, Replaced
<1>8. Sound(left \cup {link})
  BY <1>3, <1>4, <1>6, <1>7 DEF Sound
<1>9. Sound(invites')
  BY <1>5, <1>8 DEF Sound
<1>10. ASSUME NEW r \in invites', r.token \in cancelled', ~r.revoked
       PROVE  FALSE
  <2>1. job.token \notin Tokens(Taken(p))
    BY <1>1, <1>2 DEF Tokens
  <2>2. r \in left
    BY <1>4, <1>5, <1>10, <2>1
  <2>3. PICK s \in invites : r.token = s.token /\ ~s.revoked /\ s \notin Taken(p)
    BY <1>3, <1>10, <2>2
  <2>4. PICK g \in Taken(p) : g.token = s.token
    BY <1>1, <1>5, <1>10, <2>3 DEF Tokens, CancelledOK
  <2> QED BY <1>1, <2>3, <2>4 DEF Sound
<1>11. CancelledOK'
  <2>1. \A r \in invites' : r.revoked \in BOOLEAN
    BY <1>9 DEF Sound, Row
  <2> QED BY <1>10, <2>1 DEF CancelledOK
<1> QED BY <1>9, <1>11 DEF InvitesOK, OneRow, OneOpenLink, Sound
-----------------------------------------------------------------------------
(* Steps that leave parts of the state alone.                              *)

LEMMA SameEvent == EventOK /\ UNCHANGED event => EventOK'
BY DEF EventOK

LEMMA SameInvites == InvitesOK /\ UNCHANGED <<invites, cancelled>> => InvitesOK'
BY DEF InvitesOK, OneRow, OneOpenLink, CancelledOK

LEMMA SamePhones == PhonesOK /\ UNCHANGED <<receipt, shown>> => PhonesOK'
BY DEF PhonesOK

LEMMA SameRequests == RequestsOK /\ UNCHANGED <<given, request, requests>> => RequestsOK'
BY DEF RequestsOK

\* A request that is over, and one that goes on.
LEMMA DoneKeeps ==
  ASSUME RequestsOK, NEW p \in Person, Done(p), given' \subseteq Token, requests' = requests
  PROVE  RequestsOK'
BY DEF RequestsOK, Done

LEMMA GotoKeeps ==
  ASSUME RequestsOK, NEW p \in Person, request[p] # Nothing, NEW step \in Step,
         Goto(p, step), given' = given, requests' = requests
  PROVE  RequestsOK'
<1>1. request[p] \in JobRec
  BY DEF RequestsOK
<1>2. [request[p] EXCEPT !.step = step] \in JobRec
  BY <1>1 DEF JobRec, Step
<1> QED BY <1>2 DEF RequestsOK, Goto

LEMMA StartKeeps ==
  ASSUME IInv, NEW p \in Person, NEW job \in JobRec, Start(p, job)
  PROVE  IInv'
<1>1. RequestsOK'
  BY DEF Start, IInv, RequestsOK
<1> QED BY <1>1, SameEvent, SameInvites, SamePhones DEF Start, server, IInv
-----------------------------------------------------------------------------
(* The actions.                                                            *)

LEMMA ChangeKeeps ==
  ASSUME IInv, NEW new, ChangeEvent(new), EventOK'
  PROVE  IInv'
<1>1. InvitesOK'
  <2>1. CASE event.active \subseteq new.active
    BY <2>1, SameInvites DEF ChangeEvent, IInv
  <2>2. CASE ~(event.active \subseteq new.active)
    BY <2>2, RevokingKeeps DEF ChangeEvent, RevokeAll
  <2> QED BY <2>1, <2>2
<1> QED BY <1>1, SameRequests, SamePhones DEF ChangeEvent, IInv

LEMMA EventChangesKeep ==
  ASSUME IInv, EventChanges
  PROVE  IInv'
<1>1. ASSUME NEW a \in Person, NEW p \in Person, RemovePerson(a, p)
      PROVE  IInv'
  <2>1. EventOK'
    BY <1>1 DEF RemovePerson, ChangeEvent, Without, IInv, EventOK
  <2> QED BY <1>1, <2>1, ChangeKeeps DEF RemovePerson
<1>2. ASSUME NEW a \in Person, NEW p \in Person, RestorePerson(a, p)
      PROVE  IInv'
  <2>1. EventOK'
    BY <1>2 DEF RestorePerson, ChangeEvent, IInv, EventOK
  <2> QED BY <1>2, <2>1, ChangeKeeps DEF RestorePerson
<1>3. ASSUME NEW a \in Person, NEW p \in Person, Promote(a, p)
      PROVE  IInv'
  <2>1. EventOK'
    BY <1>3 DEF Promote, ChangeEvent, IInv, EventOK
  <2> QED BY <1>3, <2>1, ChangeKeeps DEF Promote
<1>4. ASSUME NEW p \in Person, Leave(p)
      PROVE  IInv'
  <2>1. EventOK'
    BY <1>4 DEF Leave, In, ChangeEvent, Without, IInv, EventOK
  <2> QED BY <1>4, <2>1, ChangeKeeps DEF Leave
<1>5. ASSUME NEW p \in Person, SetAdminsOnly(p) \/ CloseOrReopen(p)
      PROVE  IInv'
  <2>1. EventOK'
    BY <1>5 DEF SetAdminsOnly, CloseOrReopen, ChangeEvent, IInv, EventOK
  <2> QED BY <1>5, <2>1, ChangeKeeps DEF SetAdminsOnly, CloseOrReopen
<1> QED BY <1>1, <1>2, <1>3, <1>4, <1>5 DEF EventChanges

LEMMA AsksKeeps ==
  ASSUME IInv, NEW p \in Person, Asks(p)
  PROVE  IInv'
<1>1. Stable \in Token /\ requests \in Nat /\ given \subseteq Token
  BY DEF Token, IInv, RequestsOK
<1>2. CASE AskForLink(p)
  <2>1. Job("ensure", "read", Stable, p) \in JobRec
    BY <1>1 DEF Job, JobRec, Step
  <2> QED BY <1>2, <2>1, StartKeeps DEF AskForLink
<1>3. CASE AskForNewLink(p)
  <2>1. <<"rotated", requests>> \in Token
    BY <1>1, <1>3, InvitesAssumption DEF AskForNewLink, Start, Token
  <2>2. Job("rotate", "write", <<"rotated", requests>>, p) \in JobRec
    BY <2>1 DEF Job, JobRec, Step
  <2> QED BY <1>3, <2>2, StartKeeps DEF AskForNewLink
<1>4. ASSUME NEW to \in Person, AskForPrivateLink(p, to)
      PROVE  IInv'
  <2>1. <<"private", requests>> \in Token
    BY <1>1, <1>4, InvitesAssumption DEF AskForPrivateLink, Start, Token
  <2>2. Job("private", "write", <<"private", requests>>, to) \in JobRec
    BY <2>1 DEF Job, JobRec, Step
  <2> QED BY <1>4, <2>2, StartKeeps DEF AskForPrivateLink
<1>5. ASSUME NEW token \in Token, OpenLink(p, token)
      PROVE  IInv'
  <2>1. Job("redeem", "check", token, p) \in JobRec
    BY DEF Job, JobRec, Step
  <2> QED BY <1>5, <2>1, StartKeeps DEF OpenLink
<1> QED BY <1>2, <1>3, <1>4, <1>5 DEF Asks

LEMMA LinkStepsKeep ==
  ASSUME IInv, NEW p \in Person,
         ReadLinks(p) \/ RefuseLink(p) \/ \E lost \in BOOLEAN : WriteLink(p, lost)
  PROVE  IInv'
<1>1. CASE ReadLinks(p)
  <2>1. RequestsOK'
    <3>1. ASSUME NEW row \in invites, given' = given \cup {row.token}, Done(p)
          PROVE  RequestsOK'
      BY <1>1, <3>1, DoneKeeps DEF ReadLinks, bounds, IInv, InvitesOK, RequestsOK, Row
    <3>2. ASSUME Goto(p, "write"), UNCHANGED given
          PROVE  RequestsOK'
      BY <1>1, <3>2, GotoKeeps DEF Step, ReadLinks, bounds, At, IInv
    <3> QED BY <1>1, <3>1, <3>2 DEF ReadLinks
  <2> QED BY <1>1, <2>1, SameEvent, SameInvites, SamePhones DEF ReadLinks, server, IInv
<1>2. CASE RefuseLink(p)
  <2>1. RequestsOK'
    BY <1>2, DoneKeeps DEF RefuseLink, bounds, IInv, RequestsOK
  <2> QED BY <1>2, <2>1, SameEvent, SameInvites, SamePhones DEF RefuseLink, server, IInv
<1>3. ASSUME NEW lost \in BOOLEAN, WriteLink(p, lost)
      PROVE  IInv'
  <2>1. Mine(p) \in Token
    BY <1>3 DEF WriteLink, At, Mine, IInv, RequestsOK, JobRec
  <2>2. RequestsOK'
    BY <1>3, <2>1, DoneKeeps DEF WriteLink, IInv, RequestsOK
  <2> QED BY <1>3, <2>2, WritingKeeps, SameEvent, SamePhones DEF WriteLink, IInv
<1> QED BY <1>1, <1>2, <1>3

LEMMA JoinStepsKeep ==
  ASSUME IInv, NEW p \in Person, CheckLink(p) \/ RevokeLink(p) \/ RefuseToAdmit(p)
  PROVE  IInv'
<1>1. CASE CheckLink(p)
  <2>1. RequestsOK'
    <3>1. ASSUME NEW step \in {"redeem", "revoke"}, Goto(p, step)
          PROVE  RequestsOK'
      BY <1>1, <3>1, GotoKeeps DEF Step, CheckLink, Stays, bounds, At, IInv
    <3>2. ASSUME Done(p)
          PROVE  RequestsOK'
      BY <1>1, <3>2, DoneKeeps DEF CheckLink, Stays, bounds, IInv, RequestsOK
    <3> QED BY <1>1, <3>1, <3>2 DEF CheckLink
  <2> QED BY <1>1, <2>1, SameEvent, SameInvites, SamePhones DEF CheckLink, Stays, server, IInv
<1>2. CASE RevokeLink(p)
  <2>1. RequestsOK'
    BY <1>2, DoneKeeps DEF RevokeLink, Stays, bounds, IInv, RequestsOK
  <2>2. InvitesOK'
    BY <1>2, RevokingKeeps DEF RevokeLink, Live
  <2> QED BY <1>2, <2>1, <2>2, SameEvent, SamePhones DEF RevokeLink, Stays, IInv
<1>3. CASE RefuseToAdmit(p)
  <2>1. RequestsOK'
    BY <1>3, DoneKeeps DEF RefuseToAdmit, Stays, bounds, IInv, RequestsOK
  <2> QED BY <1>3, <2>1, SameEvent, SameInvites, SamePhones DEF RefuseToAdmit, Stays, server, IInv
<1> QED BY <1>1, <1>2, <1>3

LEMMA RedeemKeeps ==
  ASSUME IInv, NEW p \in Person, NEW lost \in BOOLEAN, Redeem(p, lost)
  PROVE  IInv'
<1>1. RequestsOK'
  <2>1. CASE lost
    BY <2>1, DoneKeeps DEF Redeem, IInv, RequestsOK
  <2>2. CASE ~lost
    BY <2>2, GotoKeeps DEF Step, Redeem, At, IInv
  <2> QED BY <2>1, <2>2
<1>2. p \notin event.inactive
  BY DEF Redeem, Admitted, Admits
<1>3. EventOK'
  BY <1>2 DEF Redeem, IInv, EventOK
<1>4. PhonesOK'
  BY InvitesAssumption DEF Redeem, IInv, PhonesOK
<1>5. InvitesOK'
  BY SameInvites DEF Redeem, IInv
<1> QED BY <1>1, <1>3, <1>4, <1>5 DEF IInv

LEMMA PhoneStepsKeep ==
  ASSUME IInv, NEW p \in Person, FinishJoin(p) \/ RetryJoin(p) \/ RetryFails(p)
  PROVE  IInv'
<1>1. PhonesOK'
  <2>1. CASE FinishJoin(p)
    BY <2>1 DEF FinishJoin, Settled, IInv, PhonesOK
  <2>2. CASE RetryJoin(p)
    BY <2>2, InvitesAssumption DEF RetryJoin, AfterRecovery, Recovered, IInv, PhonesOK
  <2>3. CASE RetryFails(p)
    BY <2>3, InvitesAssumption DEF RetryFails, AfterFailure, IInv, PhonesOK
  <2> QED BY <2>1, <2>2, <2>3
<1>2. EventOK' /\ InvitesOK'
  BY SameEvent, SameInvites DEF FinishJoin, RetryJoin, RetryFails, server, IInv
<1>3. RequestsOK'
  <2>1. CASE FinishJoin(p)
    BY <2>1, DoneKeeps DEF FinishJoin, bounds, IInv, RequestsOK
  <2>2. CASE RetryJoin(p) \/ RetryFails(p)
    BY <2>2, SameRequests DEF RetryJoin, RetryFails, bounds, IInv
  <2> QED BY <2>1, <2>2
<1> QED BY <1>1, <1>2, <1>3 DEF IInv

LEMMA FailKeeps ==
  ASSUME IInv, NEW p \in Person, Fail(p)
  PROVE  IInv'
<1>1. RequestsOK'
  BY DoneKeeps DEF Fail, IInv, RequestsOK
<1> QED BY <1>1, SameEvent, SameInvites, SamePhones DEF Fail, server, IInv

LEMMA StepKeeps == IInv /\ [Next]_vars => IInv'
<1> SUFFICES ASSUME IInv, [Next]_vars
             PROVE  IInv'
  OBVIOUS
<1>1. CASE UNCHANGED vars
  BY <1>1, SameEvent, SameInvites, SameRequests, SamePhones DEF vars, bounds, IInv
<1>2. ASSUME NEW p \in Person, Serve(p)
      PROVE  IInv'
  BY <1>2, LinkStepsKeep, JoinStepsKeep, RedeemKeeps, PhoneStepsKeep DEF Serve
<1> QED BY <1>1, <1>2, EventChangesKeep, AsksKeeps, FailKeeps, PhoneStepsKeep DEF Next

\* The inductive invariant holds of every reachable state.
THEOREM Invariance == Spec => []IInv
BY InitHolds, StepKeeps, PTL DEF Spec
-----------------------------------------------------------------------------
(* The properties the runs check, for every set of people.                 *)

\* Types; an event keeps an administrator, and a link has one row.
THEOREM TypeCorrect == Spec => []TypeOK
<1>1. IInv => TypeOK
  BY DEF IInv, TypeOK, EventOK, InvitesOK, OneRow, RequestsOK, PhonesOK
<1> QED BY <1>1, Invariance, PTL

\* However many people ask for links, make new ones and get no answer, one open link of
\* the event is live.
THEOREM OneOpenLinkHolds == Spec => []OneOpenLink
<1>1. IInv => OneOpenLink
  BY DEF IInv, InvitesOK
<1> QED BY <1>1, Invariance, PTL

\* Who is in the event after a step, and was not before it, redeemed a link or was
\* brought back by an administrator.
LEMMA WaysIn ==
  ASSUME IInv, [Next]_vars, NEW p \in Person, Enters(p)
  PROVE  \/ request' = request /\ p \notin event'.inactive
         \/ \E lost \in BOOLEAN : Redeem(p, lost)
<1>1. event' # event
  BY DEF Enters
<1>2. CASE EventChanges
  <2>1. event \in [active : SUBSET Person, inactive : SUBSET Person, admins : SUBSET Person,
                   adminsOnly : BOOLEAN, closed : BOOLEAN]
    BY DEF IInv, EventOK
  <2>2. PICK a \in Person, q \in Person :
          \/ RemovePerson(a, q) \/ RestorePerson(a, q) \/ Promote(a, q)
          \/ Leave(q) \/ SetAdminsOnly(q) \/ CloseOrReopen(q)
    BY <1>2 DEF EventChanges
  <2>3. CASE RestorePerson(a, q)
    BY <2>1, <2>3 DEF RestorePerson, ChangeEvent, Enters
  <2>4. CASE RemovePerson(a, q) \/ Leave(q)
    BY <2>1, <2>4 DEF RemovePerson, Leave, Without, ChangeEvent, Enters
  <2>5. CASE Promote(a, q) \/ SetAdminsOnly(q) \/ CloseOrReopen(q)
    BY <2>1, <2>5 DEF Promote, SetAdminsOnly, CloseOrReopen, ChangeEvent, Enters
  <2> QED BY <2>2, <2>3, <2>4, <2>5
<1>3. ASSUME NEW q \in Person, NEW lost \in BOOLEAN, Redeem(q, lost)
      PROVE  Redeem(p, lost)
  BY <1>3 DEF Redeem, Enters, IInv, EventOK
<1>4. ASSUME NEW q \in Person, Asks(q) \/ Fail(q) \/ RetryJoin(q) \/ RetryFails(q)
      PROVE  FALSE
  BY <1>1, <1>4
     DEF Asks, AskForLink, AskForNewLink, AskForPrivateLink, OpenLink, Start, Fail, RetryJoin,
         RetryFails, server
<1>5. ASSUME NEW q \in Person, Serve(q)
      PROVE  \E lost \in BOOLEAN : Redeem(q, lost)
  BY <1>1, <1>5
     DEF Serve, ReadLinks, RefuseLink, CheckLink, RevokeLink, RefuseToAdmit, FinishJoin, WriteLink,
         Stays, server
<1>6. ~UNCHANGED vars
  BY <1>1 DEF vars
<1> QED BY <1>2, <1>3, <1>4, <1>5, <1>6 DEF Next

\* Nobody who was taken out of the event comes back by a link, however old the request
\* that found it valid: an administrator brings people back.
THEOREM RemovedStayOutHolds == Spec => RemovedStayOut
<1>1. ASSUME IInv, [Next]_vars
      PROVE  \A p \in Person : Enters(p) /\ p \in event.inactive =>
               request' = request /\ p \notin event'.inactive
  BY <1>1, WaysIn DEF Redeem, Admitted, Admits
<1> QED BY <1>1, Invariance, PTL DEF Spec, RemovedStayOut

\* A link that was cancelled, and not written anew, admits nobody, whatever the requests
\* that had found it valid do later.
THEOREM CancelledLinksAdmitNobodyHolds == Spec => CancelledLinksAdmitNobody
<1>1. ASSUME IInv, [Next]_vars
      PROVE  \A p \in Person : Enters(p) /\ request'[p] # request[p] => Mine(p) \notin cancelled
  <2>1. ASSUME NEW p \in Person, NEW lost \in BOOLEAN, Redeem(p, lost)
        PROVE  Mine(p) \notin cancelled
    BY <1>1, <2>1 DEF Redeem, Admitted, Admits, IInv, InvitesOK, CancelledOK
  <2> QED BY <1>1, <2>1, WaysIn
<1> QED BY <1>1, Invariance, PTL DEF Spec, CancelledLinksAdmitNobody

\* A phone gives a receipt up only when its account has the event, or is not in it.
THEOREM ReceiptsAreHonouredHolds == Spec => ReceiptsAreHonoured
<1>1. ASSUME IInv, [Next]_vars
      PROVE  \A p \in Person : receipt[p] # Nothing /\ receipt'[p] = Nothing =>
               shown'[p] = "saved" \/ ~In(p)
  <2> SUFFICES ASSUME NEW p \in Person, receipt[p] # Nothing, receipt'[p] = Nothing
               PROVE  shown'[p] = "saved" \/ ~In(p)
    OBVIOUS
  <2>1. receipt' # receipt
    OBVIOUS
  <2>2. receipt \in [Person -> {Nothing} \cup 0..MaxAttempts] /\ shown \in [Person -> {"nothing", "seen", "saved", "revoked"}]
    BY <1>1 DEF IInv, PhonesOK
  <2>3. ASSUME NEW q \in Person, NEW lost \in BOOLEAN, Redeem(q, lost)
        PROVE  FALSE
    BY <1>1, <2>2, <2>3, InvitesAssumption DEF Redeem
  <2>4. ASSUME NEW q \in Person, RetryFails(q)
        PROVE  FALSE
    BY <1>1, <2>2, <2>4, InvitesAssumption DEF RetryFails, AfterFailure
  <2>5. ASSUME NEW q \in Person, FinishJoin(q)
        PROVE  shown'[p] = "saved"
    BY <1>1, <2>2, <2>5 DEF FinishJoin, Settled
  <2>6. ASSUME NEW q \in Person, RetryJoin(q)
        PROVE  shown'[p] = "saved" \/ ~In(p)
    BY <1>1, <2>2, <2>6, InvitesAssumption DEF RetryJoin, AfterRecovery, Recovered
  <2>7. ASSUME NEW q \in Person, Asks(q) \/ Fail(q)
        PROVE  FALSE
    BY <2>1, <2>7
       DEF Asks, AskForLink, AskForNewLink, AskForPrivateLink, OpenLink, Start, Fail
  <2>8. ASSUME NEW q \in Person, Serve(q)
        PROVE  FinishJoin(q) \/ \E lost \in BOOLEAN : Redeem(q, lost)
    BY <2>1, <2>8
       DEF Serve, ReadLinks, RefuseLink, CheckLink, RevokeLink, RefuseToAdmit, WriteLink, Stays
  <2>9. ~EventChanges /\ ~UNCHANGED vars
    BY <2>1
       DEF EventChanges, RemovePerson, RestorePerson, Promote, Leave, SetAdminsOnly,
           CloseOrReopen, ChangeEvent, vars
  <2> QED BY <1>1, <2>3, <2>4, <2>5, <2>6, <2>7, <2>8, <2>9 DEF Next
<1> QED BY <1>1, Invariance, PTL DEF Spec, ReceiptsAreHonoured
=============================================================================
