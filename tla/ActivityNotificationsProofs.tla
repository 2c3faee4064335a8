---------------------- MODULE ActivityNotificationsProofs ----------------------
(***************************************************************************)
(* Theorems about ActivityNotifications, for any number of activities,     *)
(* recipients, devices, requests and failures.                             *)
(*                                                                         *)
(* A push is sent by the request that holds the recipient's reservation,   *)
(* and a reservation is given back only while nothing has been pushed for  *)
(* it.  The invariant says so row by row (RowOK) and, for a request        *)
(* between two of its calls, what it may rely on (RequestOK).              *)
(***************************************************************************)
EXTENDS ActivityNotifications, TLAPS, WellFoundedInduction

Phase == {"idle", "check", "verify", "look", "insert", "status", "link", "store", "devices",
          "failed", "token", "push", "answer"}
Round == {"verify", "look", "insert", "status", "link", "store", "devices"}
BeforePushes == Round \cup {"check", "failed", "token"}

WorkRec ==
  [act : Activity \cup {Nobody}, phase : Phase, at : DOMAIN People,
   answer : {"none", "ok", "no-eligible-recipients", "not allowed", "retry"},
   verdict : {"none", "duplicate", "rate-limited", "allowed"},
   list : SUBSET Recipient, mine : SUBSET Recipient, todo : SUBSET (Recipient \X Device),
   stored : BOOLEAN, delivered : BOOLEAN, unconfirmed : BOOLEAN,
   taken : BOOLEAN, unclear : BOOLEAN, late : BOOLEAN]

RowRec ==
  [status : {"none", "reserved", "delivered", "suppressed"}, by : Handler \cup {Nobody},
   recent : BOOLEAN]

TypesOK ==
  /\ intent \in [Activity -> {"saved", "listed", "unlisted", "forgotten"}]
  /\ asking \in [Activity -> Handler \cup {Nobody}]
  /\ published \in [Activity -> {"no", "yes", "refused", "withdrawn"}]
  /\ members \subseteq Everybody /\ steady \subseteq members
  /\ account \in BOOLEAN /\ (~account => Sender \notin steady)
  /\ others \subseteq Recipient /\ enabled \subseteq Device
  /\ inbox \subseteq Activity \X Recipient
  /\ rows \in [Activity -> [Recipient -> RowRec]]
  /\ pushed \in [Activity -> [Device -> Nat]]
  /\ work \in [Handler -> WorkRec]

Unsent(a, r) == \A d \in DevicesOf[r] : pushed[a][d] = 0
Told(a, r) == <<a, r>> \in inbox
Excused(r) == Sender \notin steady \/ r \notin steady \ Astray

\* Request h holds the reservation of r.
Holds(h, r) ==
  rows[work[h].act][r].status = "reserved" /\ rows[work[h].act][r].by = h

RowOK(a, r) ==
  /\ rows[a][r].status = "none" => rows[a][r].by = Nobody /\ Unsent(a, r)
  /\ rows[a][r].by # Nobody => work[rows[a][r].by].act = a
  /\ rows[a][r].status = "delivered" \/ ~Unsent(a, r) => Told(a, r)

\* Nobody else is in the transaction that reserves.
Alone(h) ==
  /\ rows[work[h].act][Current(h)].status = "none"
  /\ \A g \in Handler \ {h} :
       At(g, "insert") => work[g].act # work[h].act \/ Current(g) # Current(h)

\* What is left to push is held, is in the inbox, and was not pushed before.
TodoOK(h) ==
  \A r \in Recipient, d \in Device : <<r, d>> \in work[h].todo =>
    /\ d \in DevicesOf[r] /\ Holds(h, r) /\ Told(work[h].act, r)
    /\ pushed[work[h].act][d] = 0
    /\ Unsent(work[h].act, r) \/ (At(h, "push") /\ r = Current(h))

RoundOK(h) ==
  LET w == work[h] IN
  /\ Sender \in steady => steady \ {Sender} \subseteq w.list
  /\ \A i \in 1..(w.at - 1) : Excused(People[i]) \/ Told(w.act, People[i])
  /\ \A r \in Recipient, d \in Device :
       <<r, d>> \in w.todo => \E i \in 1..(w.at - 1) : People[i] = r

AllTold(h) == \A r \in Recipient : Excused(r) \/ Told(work[h].act, r)

RequestOK(h) ==
  LET w == work[h] IN
  /\ w.act \in Activity /\ published[w.act] # "no"
  /\ w.phase \in BeforePushes =>
       \A r \in Recipient : rows[w.act][r].by = h => Unsent(w.act, r)
  /\ w.phase # "answer" => TodoOK(h)
  /\ w.phase = "check" => w.at = 1 /\ w.todo = {}
  /\ w.phase \in Round => RoundOK(h)
  /\ w.phase = "insert" => Alone(h)
  /\ w.phase = "status" => w.verdict = "duplicate"
  /\ w.phase = "link" => Current(h) \in Astray
  /\ w.phase \in {"link", "store", "devices"} /\ w.verdict = "allowed" => Holds(h, Current(h))
  /\ w.phase = "devices" => w.verdict = "allowed" /\ Told(w.act, Current(h))
  /\ w.phase = "token" => w.todo # {}
  /\ w.phase \in {"token", "push"} => AllTold(h)
  /\ w.phase = "push" => /\ Holds(h, Current(h)) /\ Told(w.act, Current(h))
                         /\ w.taken \/ w.unclear \/ Unsent(w.act, Current(h))
  /\ w.phase = "answer" => /\ w.answer # "none"
                           /\ w.answer = "not allowed" => published[w.act] # "yes" \/ Sender \notin steady
                           /\ w.answer \in {"ok", "no-eligible-recipients"} => AllTold(h)

\* A request that is not running holds nothing.
Resting(h) == \A a \in Activity, r \in Recipient : rows[a][r].by # h

HandlerOK(h) == IF work[h].phase = "idle" THEN Resting(h) ELSE RequestOK(h)

UnsentIsKept == \A a \in Activity : published[a] = "no" => intent[a] # "forgotten"

IInv ==
  /\ TypesOK
  /\ \A a \in Activity, r \in Recipient : RowOK(a, r)
  /\ \A h \in Handler : HandlerOK(h)
  /\ NoSecondPush /\ ForgottenMeansTold /\ UnsentIsKept
-----------------------------------------------------------------------------
(* The recipients, the records and the least of some numbers.              *)

LEMMA PeopleFacts ==
  /\ Len(People) \in Nat /\ DOMAIN People = 1..Len(People) /\ 1 \in DOMAIN People
  /\ \A i \in DOMAIN People : People[i] \in Recipient
  /\ \A r \in Recipient : \E i \in DOMAIN People : People[i] = r
<1>1. People \in Seq(Recipient) /\ Recipient # {}
  BY NotificationsAssumption
<1>2. Recipient = {People[i] : i \in DOMAIN People}
  BY DEF Recipient, ToSet
<1> HIDE DEF Recipient
<1>3. Len(People) \in Nat /\ DOMAIN People = 1..Len(People)
  BY <1>1
<1> QED BY <1>1, <1>2, <1>3

LEMMA LeastExists ==
  \A S \in SUBSET Nat : S # {} => Min(S) \in S /\ \A y \in S : Min(S) =< y
<1> SUFFICES ASSUME NEW S \in SUBSET Nat, S # {}
             PROVE  Min(S) \in S /\ \A y \in S : Min(S) =< y
  OBVIOUS
<1>1. PICK x \in S : \A y \in S : ~ (<<y, x>> \in OpToRel(<, Nat))
  BY NatLessThanWellFounded, WFMin
<1>2. \A y \in S : ~ (y < x)
  BY <1>1 DEF OpToRel
<1>3. \A y \in S : x =< y
  BY <1>2
<1> QED BY <1>3 DEF Min

LEMMA IdleFacts ==
  Idle \in WorkRec /\ Idle.phase = "idle" /\ Idle.act = Nobody /\ Idle.at = 1 /\ Idle.todo = {}
BY PeopleFacts DEF Idle, WorkRec, Phase

LEMMA RowFacts ==
  /\ NoRow \in RowRec /\ NoRow.status = "none" /\ NoRow.by = Nobody
  /\ \A h \in Handler \cup {Nobody}, s \in {"none", "reserved", "delivered", "suppressed"} :
       Row(s, h) \in RowRec /\ Row(s, h).status = s /\ Row(s, h).by = h
BY DEF NoRow, Row, RowRec

LEMMA Facts ==
  ASSUME IInv, NEW h \in Handler
  PROVE  /\ work[h] \in WorkRec /\ Current(h) \in Recipient
         /\ work[h].at \in DOMAIN People /\ work[h].at \in Nat \ {0}
         /\ work[h].phase # "idle" => RequestOK(h)
<1>1. work[h] \in WorkRec
  BY DEF IInv, TypesOK
<1>2. work[h].at \in DOMAIN People
  BY <1>1 DEF WorkRec
<1>3. work[h].phase # "idle" => RequestOK(h)
  BY DEF IInv, HandlerOK
<1> QED BY <1>1, <1>2, <1>3, PeopleFacts DEF Current

\* The loop goes on with the next of the list, or it has been with everybody in it.
LEMMA GoFacts ==
  ASSUME NEW v \in WorkRec, NEW i \in Nat \ {0}
  PROVE  LET n == GoOn(v, i) IN
         /\ n \in WorkRec /\ n.act = v.act /\ n.todo = v.todo /\ n.list = v.list
         /\ n.phase \in {"verify", "token", "answer"}
         /\ n.phase = "verify" =>
              /\ n.at \in i..Len(People)
              /\ \A j \in i..(n.at - 1) : People[j] \notin v.list
         /\ n.phase # "verify" => \A j \in i..Len(People) : People[j] \notin v.list
         /\ n.phase = "token" => n.todo # {}
         /\ n.phase = "answer" => n.todo = {} /\ n.answer \in {"ok", "no-eligible-recipients"}
<1> DEFINE F == Following(v, i)
           m == Min(F)
<1>1. Len(People) \in Nat /\ DOMAIN People = 1..Len(People)
  BY PeopleFacts
<1>2. F \in SUBSET Nat /\ \A j \in i..Len(People) : j \in F <=> People[j] \in v.list
  BY <1>1 DEF Following
<1>3. CASE F # {}
  <2>1. m \in F /\ \A j \in F : m =< j
    BY <1>2, <1>3, LeastExists
  <2>2. m \in i..Len(People)
    BY <1>1, <2>1 DEF Following
  <2>3. \A j \in i..(m - 1) : People[j] \notin v.list
    BY <1>1, <1>2, <2>1, <2>2
  <2> HIDE DEF m
  <2>4. GoOn(v, i) = [v EXCEPT !.at = m, !.phase = "verify", !.verdict = "none"]
    BY <1>3 DEF GoOn, m
  <2>5. m \in DOMAIN People
    BY <1>1, <2>2
  <2> DEFINE n == [v EXCEPT !.at = m, !.phase = "verify", !.verdict = "none"]
  <2>6. /\ n \in WorkRec /\ n.act = v.act /\ n.todo = v.todo /\ n.list = v.list
        /\ n.phase = "verify" /\ n.at = m
    BY <2>5 DEF WorkRec, Phase
  <2>7. GoOn(v, i) = n
    BY <2>4
  <2> HIDE DEF n
  <2> QED BY <2>2, <2>3, <2>6, <2>7
<1>4. CASE F = {} /\ v.todo # {}
  <2>1. GoOn(v, i) = [v EXCEPT !.phase = "token"]
    BY <1>4 DEF GoOn
  <2> QED BY <1>2, <1>4, <2>1 DEF WorkRec, Phase
<1>5. CASE F = {} /\ v.todo = {}
  <2>1. GoOn(v, i) = [v EXCEPT !.phase = "answer",
                               !.answer = IF v.stored THEN "ok" ELSE "no-eligible-recipients"]
    BY <1>5 DEF GoOn, Answering
  <2> DEFINE n == [v EXCEPT !.phase = "answer",
                            !.answer = IF v.stored THEN "ok" ELSE "no-eligible-recipients"]
  <2>2. /\ n \in WorkRec /\ n.act = v.act /\ n.todo = v.todo /\ n.list = v.list
        /\ n.phase = "answer" /\ n.answer \in {"ok", "no-eligible-recipients"}
    BY DEF WorkRec, Phase
  <2>3. GoOn(v, i) = n
    BY <2>1
  <2> HIDE DEF n
  <2> QED BY <1>2, <1>5, <2>2, <2>3
<1> QED BY <1>3, <1>4, <1>5

LEMMA NextIsGoOn ==
  ASSUME NEW v \in WorkRec
  PROVE  /\ v.at \in 1..Len(People) /\ v.at + 1 \in Nat \ {0}
         /\ NextRecipient(v) = GoOn(v, v.at + 1)
<1>1. v.at \in DOMAIN People
  BY DEF WorkRec
<1>2. v.at \in 1..Len(People) /\ v.at + 1 \in Nat \ {0}
  BY <1>1, PeopleFacts
<1> QED BY <1>2 DEF NextRecipient

LEMMA NextFacts ==
  ASSUME NEW v \in WorkRec
  PROVE  LET n == NextRecipient(v) IN
         n \in WorkRec /\ n.act = v.act /\ n.phase \in {"verify", "token", "answer"}
<1>1. v.at + 1 \in Nat \ {0} /\ NextRecipient(v) = GoOn(v, v.at + 1)
  BY NextIsGoOn
<1> QED BY <1>1, GoFacts
-----------------------------------------------------------------------------
(* What a step leaves alone.                                               *)

\* No step takes a published activity back to where it was not.
GoesOn == \A a \in Activity :
  published'[a] # published[a] =>
    published'[a] # "no" /\ (published'[a] = "yes" => published[a] = "no")

\* The step leaves request g what it holds.
Leaves(g) ==
  /\ work'[g] = work[g]
  /\ \A a \in Activity, r \in Recipient :
       /\ rows'[a][r].by = g <=> rows[a][r].by = g
       /\ rows[a][r].by = g => /\ rows'[a][r].status = rows[a][r].status
                               /\ \A d \in DevicesOf[r] : pushed'[a][d] = pushed[a][d]

LEMMA LeftAlone ==
  ASSUME IInv, NEW g \in Handler, Leaves(g), GoesOn, steady' \subseteq steady,
         inbox \subseteq inbox', At(g, "insert") => Alone(g)'
  PROVE  HandlerOK(g)'
<1>1. CASE work[g].phase = "idle"
  BY <1>1 DEF IInv, HandlerOK, Resting, Leaves
<1>2. CASE work[g].phase # "idle"
  <2> DEFINE a == work[g].act
  <2>1. RequestOK(g) /\ Current(g) \in Recipient /\ a \in Activity /\ work'[g] = work[g]
    BY <1>2, Facts DEF RequestOK, Leaves
  <2>2. \A i \in DOMAIN People : People[i] \in Recipient
    BY PeopleFacts
  <2>3. /\ Current(g)' = Current(g) /\ \A s \in Phase : At(g, s)' <=> At(g, s)
    BY <2>1 DEF Current, At
  <2>4. \A r \in Recipient : Holds(g, r) => Holds(g, r)'
    BY <2>1 DEF Holds, Leaves
  <2>5. \A r \in Recipient : rows[a][r].by = g /\ Unsent(a, r) => Unsent(a, r)'
    BY <2>1 DEF Leaves, Unsent
  <2>6. \A r \in Recipient : /\ Told(a, r) => Told(a, r)'
                             /\ Excused(r) => Excused(r)'
    BY <2>1 DEF Told, Excused
  <2>7. TodoOK(g) => TodoOK(g)'
    <3> SUFFICES ASSUME TodoOK(g), NEW r \in Recipient, NEW d \in Device, <<r, d>> \in work[g].todo
                 PROVE  /\ d \in DevicesOf[r] /\ Holds(g, r)' /\ Told(a, r)'
                        /\ pushed'[a][d] = 0
                        /\ Unsent(a, r)' \/ (At(g, "push") /\ r = Current(g))
      BY <2>1, <2>3 DEF TodoOK, Phase
    <3>1. /\ d \in DevicesOf[r] /\ Holds(g, r) /\ Told(a, r) /\ pushed[a][d] = 0
          /\ Unsent(a, r) \/ (At(g, "push") /\ r = Current(g))
      BY DEF TodoOK
    <3>2. rows[a][r].by = g
      BY <3>1 DEF Holds
    <3> QED BY <2>1, <2>4, <2>5, <2>6, <3>1, <3>2 DEF Leaves
  <2>8. RoundOK(g) => RoundOK(g)'
    <3>1. work[g].at \in DOMAIN People
      BY Facts
    <3>2. \A i \in 1..(work[g].at - 1) : People[i] \in Recipient
      BY <3>1, PeopleFacts
    <3> QED BY <2>1, <2>6, <3>2 DEF RoundOK
  <2>9. AllTold(g) => AllTold(g)'
    BY <2>1, <2>6 DEF AllTold
  <2>10. published'[a] # "no" /\ (published'[a] = "yes" => published[a] = "yes")
    BY <2>1 DEF RequestOK, GoesOn
  <2>11. \A r \in Recipient : rows'[a][r].by = g => rows[a][r].by = g
    BY <2>1 DEF Leaves
  <2>12. Holds(g, Current(g)) => rows[a][Current(g)].by = g
    BY DEF Holds
  <2>13. RequestOK(g)'
    <3> DEFINE w == work[g]
    <3>1. (w.act \in Activity /\ published[w.act] # "no")'
      BY <2>1, <2>10
    <3>2. (w.phase \in BeforePushes =>
             \A r \in Recipient : rows[w.act][r].by = g => Unsent(w.act, r))'
      BY <2>1, <2>5, <2>11 DEF RequestOK
    <3>3. (/\ w.phase # "answer" => TodoOK(g)
           /\ w.phase = "check" => w.at = 1 /\ w.todo = {}
           /\ w.phase \in Round => RoundOK(g)
           /\ w.phase = "insert" => Alone(g)
           /\ w.phase = "status" => w.verdict = "duplicate"
           /\ w.phase = "link" => Current(g) \in Astray)'
      BY <2>1, <2>3, <2>7, <2>8 DEF RequestOK, At
    <3>4. (w.phase \in {"link", "store", "devices"} /\ w.verdict = "allowed" =>
             Holds(g, Current(g)))'
      BY <2>1, <2>3, <2>4 DEF RequestOK
    <3>5. (/\ w.phase = "devices" => w.verdict = "allowed" /\ Told(w.act, Current(g))
           /\ w.phase = "token" => w.todo # {}
           /\ w.phase \in {"token", "push"} => AllTold(g))'
      BY <2>1, <2>3, <2>6, <2>9 DEF RequestOK
    <3>6. (w.phase = "push" => /\ Holds(g, Current(g)) /\ Told(w.act, Current(g))
                               /\ w.taken \/ w.unclear \/ Unsent(w.act, Current(g)))'
      BY <2>1, <2>3, <2>4, <2>5, <2>6, <2>12 DEF RequestOK
    <3>7. (w.phase = "answer" => /\ w.answer # "none"
                                 /\ w.answer = "not allowed" => published[w.act] # "yes" \/ Sender \notin steady
                                 /\ w.answer \in {"ok", "no-eligible-recipients"} => AllTold(g))'
      BY <2>1, <2>9, <2>10 DEF RequestOK
    <3> QED BY <3>1, <3>2, <3>3, <3>4, <3>5, <3>6, <3>7 DEF RequestOK
  <2> QED BY <1>2, <2>1, <2>13 DEF HandlerOK
<1> QED BY <1>1, <1>2

\* A step of the phone or of somebody else, while every request waits.
LEMMA OthersMove ==
  ASSUME IInv, TypesOK', UNCHANGED <<work, inbox, pushed>>, GoesOn, steady' \subseteq steady,
         \A a \in Activity, r \in Recipient :
           rows'[a][r].status = rows[a][r].status /\ rows'[a][r].by = rows[a][r].by,
         ForgottenMeansTold', UnsentIsKept'
  PROVE  IInv'
<1>1. \A a \in Activity, r \in Recipient : RowOK(a, r)'
  <2> SUFFICES ASSUME NEW a \in Activity, NEW r \in Recipient
               PROVE  RowOK(a, r)'
    OBVIOUS
  <2>1. RowOK(a, r)
    BY DEF IInv
  <2>2. rows'[a][r].status = rows[a][r].status /\ rows'[a][r].by = rows[a][r].by
    OBVIOUS
  <2>3. Unsent(a, r)' <=> Unsent(a, r)
    BY DEF Unsent
  <2> QED BY <2>1, <2>2, <2>3 DEF RowOK, Told
<1>2. ASSUME NEW g \in Handler
      PROVE  HandlerOK(g)'
  <2>1. Leaves(g)
    BY DEF Leaves
  <2>2. At(g, "insert") => Alone(g)'
    <3> SUFFICES ASSUME At(g, "insert")
                 PROVE  Alone(g)'
      OBVIOUS
    <3>1. Alone(g) /\ work[g].act \in Activity /\ Current(g) \in Recipient
      BY Facts DEF At, RequestOK
    <3> QED BY <3>1 DEF Alone, At, Current
  <2> QED BY <2>1, <2>2, LeftAlone
<1>3. NoSecondPush'
  BY DEF IInv, NoSecondPush
<1> QED BY <1>1, <1>2, <1>3 DEF IInv

LEMMA RequestMoves ==
  ASSUME IInv, TypesOK', NEW h \in Handler, UNCHANGED published, steady' \subseteq steady,
         inbox \subseteq inbox',
         \A g \in Handler \ {h} : Leaves(g) /\ (At(g, "insert") => Alone(g)'),
         HandlerOK(h)', \A a \in Activity, r \in Recipient : RowOK(a, r)',
         NoSecondPush', ForgottenMeansTold', UnsentIsKept'
  PROVE  IInv'
<1>1. GoesOn
  BY DEF GoesOn
<1>2. \A g \in Handler \ {h} : HandlerOK(g)'
  BY <1>1, LeftAlone
<1> QED BY <1>2 DEF IInv

\* A step of a request that changes nothing but what the request knows.
LEMMA QuietMoves ==
  ASSUME IInv, NEW h \in Handler, NEW w \in WorkRec, work' = [work EXCEPT ![h] = w],
         UNCHANGED <<intent, published, members, account, steady, rows, others, inbox,
                     pushed, enabled>>,
         asking' \in [Activity -> Handler \cup {Nobody}],
         w.act = work[h].act \/ Resting(h), w.phase # "idle",
         w.phase = "insert" =>
           \A g \in Handler \ {h} :
             At(g, "insert") => work[g].act # w.act \/ Current(g) # People[w.at],
         RequestOK(h)'
  PROVE  IInv'
<1>1. TypesOK'
  BY DEF IInv, TypesOK
<1>2. work'[h] = w /\ \A g \in Handler \ {h} : work'[g] = work[g]
  BY DEF IInv, TypesOK
<1>3. ASSUME NEW g \in Handler \ {h}
      PROVE  Leaves(g) /\ (At(g, "insert") => Alone(g)')
  <2>1. Leaves(g)
    BY <1>2 DEF Leaves
  <2>2. ASSUME At(g, "insert")
        PROVE  Alone(g)'
    <3>1. Alone(g)
      BY <2>2, Facts DEF At, RequestOK
    <3> QED BY <1>2, <2>2, <3>1 DEF Alone, At, Current
  <2> QED BY <2>1, <2>2
<1>4. HandlerOK(h)'
  BY <1>2 DEF HandlerOK
<1>5. ASSUME NEW a \in Activity, NEW r \in Recipient
      PROVE  RowOK(a, r)'
  <2>1. RowOK(a, r) /\ rows[a][r].by \in Handler \cup {Nobody}
    BY DEF IInv, TypesOK, RowRec
  <2>2. rows[a][r].by # Nobody => work'[rows[a][r].by].act = a
    BY <1>2, <2>1 DEF RowOK, Resting
  <2> QED BY <2>1, <2>2 DEF RowOK, Unsent, Told
<1>6. NoSecondPush' /\ ForgottenMeansTold' /\ UnsentIsKept'
  BY DEF IInv, NoSecondPush, ForgottenMeansTold, UnsentIsKept
<1> QED BY <1>1, <1>3, <1>4, <1>5, <1>6, RequestMoves
-----------------------------------------------------------------------------
(* The phone and the others.                                               *)

LEMMA InitHolds == Init => IInv
<1> SUFFICES ASSUME Init
             PROVE  IInv
  OBVIOUS
<1> USE DEF Init
<1>1. TypesOK
  BY IdleFacts, RowFacts DEF TypesOK
<1>2. \A a \in Activity, d \in Device : pushed[a][d] = 0
  OBVIOUS
<1>3. \A r \in Recipient : DevicesOf[r] \subseteq Device
  BY DEF Device
<1>4. \A a \in Activity, r \in Recipient : RowOK(a, r)
  BY <1>2, <1>3, RowFacts DEF RowOK, Unsent
<1>5. \A h \in Handler : HandlerOK(h)
  BY IdleFacts, RowFacts, NotificationsAssumption DEF HandlerOK, Resting
<1>6. NoSecondPush /\ ForgottenMeansTold /\ UnsentIsKept
  BY <1>2 DEF NoSecondPush, ForgottenMeansTold, UnsentIsKept
<1> QED BY <1>1, <1>4, <1>5, <1>6 DEF IInv

LEMMA PhoneKeeps ==
  ASSUME IInv, NEW a \in Activity, Remember(a) \/ Publish(a) \/ GiveUp(a) \/ DeleteExpense(a)
  PROVE  IInv'
<1>1. /\ UNCHANGED <<members, account, steady, rows, others, inbox, pushed, enabled, work>>
  BY DEF Remember, Publish, GiveUp, DeleteExpense, server, phone, event, bounds
<1>2. /\ intent \in [Activity -> {"saved", "listed", "unlisted", "forgotten"}]
      /\ published \in [Activity -> {"no", "yes", "refused", "withdrawn"}]
      /\ asking \in [Activity -> Handler \cup {Nobody}]
  BY DEF IInv, TypesOK
<1>3. CASE Remember(a)
  <2>1. UNCHANGED <<asking, published>> /\ intent' = [intent EXCEPT ![a] = "listed"]
    BY <1>3 DEF Remember, event
  <2>2. TypesOK'
    BY <1>1, <2>1 DEF IInv, TypesOK
  <2>3. ForgottenMeansTold' /\ UnsentIsKept'
    BY <1>1, <1>2, <2>1 DEF IInv, ForgottenMeansTold, UnsentIsKept
  <2>4. GoesOn
    BY <2>1 DEF GoesOn
  <2> QED BY <1>1, <2>2, <2>3, <2>4, OthersMove
<1>4. CASE GiveUp(a)
  <2>1. UNCHANGED <<intent, published>> /\ asking' = [asking EXCEPT ![a] = Nobody]
    BY <1>4 DEF GiveUp, event
  <2>2. TypesOK'
    BY <1>1, <2>1 DEF IInv, TypesOK
  <2>3. ForgottenMeansTold' /\ UnsentIsKept' /\ GoesOn
    BY <1>1, <2>1 DEF IInv, ForgottenMeansTold, UnsentIsKept, GoesOn
  <2> QED BY <1>1, <2>2, <2>3, OthersMove
<1>5. CASE DeleteExpense(a)
  <2>1. UNCHANGED <<intent, asking>> /\ published' = [published EXCEPT ![a] = "withdrawn"]
    BY <1>5 DEF DeleteExpense, phone, event
  <2>2. TypesOK'
    BY <1>1, <2>1 DEF IInv, TypesOK
  <2>3. ForgottenMeansTold' /\ UnsentIsKept' /\ GoesOn
    BY <1>1, <1>2, <2>1 DEF IInv, ForgottenMeansTold, UnsentIsKept, GoesOn
  <2> QED BY <1>1, <2>2, <2>3, OthersMove
<1>6. CASE Publish(a)
  <2>1. published[a] = "no" /\ intent[a] # "forgotten" /\ UNCHANGED asking
    BY <1>6 DEF Publish, IInv, UnsentIsKept
  <2>2. \/ published' = [published EXCEPT ![a] = "yes"] /\ UNCHANGED intent
        \/ /\ published' = [published EXCEPT ![a] = "refused"]
           /\ intent' = [intent EXCEPT ![a] = "forgotten"] \/ UNCHANGED intent
    BY <1>6 DEF Publish
  <2>3. TypesOK'
    BY <1>1, <2>1, <2>2 DEF IInv, TypesOK
  <2>4. ForgottenMeansTold' /\ UnsentIsKept' /\ GoesOn
    BY <1>1, <1>2, <2>1, <2>2 DEF IInv, ForgottenMeansTold, UnsentIsKept, GoesOn
  <2> QED BY <1>1, <2>3, <2>4, OthersMove
<1> QED BY <1>3, <1>4, <1>5, <1>6

LEMMA ReopenKeeps == IInv /\ Reopen => IInv'
<1> SUFFICES ASSUME IInv, Reopen
             PROVE  IInv'
  OBVIOUS
<1>1. UNCHANGED <<published, members, account, steady, rows, others, inbox, pushed,
                  enabled, work>>
  BY DEF Reopen, server, event
<1>2. \A a \in Activity : intent'[a] \in {"unlisted", intent[a]}
  BY DEF Reopen
<1>3. TypesOK'
  BY <1>1 DEF IInv, TypesOK, Reopen
<1>4. ForgottenMeansTold' /\ UnsentIsKept' /\ GoesOn
  BY <1>1, <1>2 DEF IInv, ForgottenMeansTold, UnsentIsKept, GoesOn
<1> QED BY <1>1, <1>3, <1>4, OthersMove

\* People leave and come back, and the sender's account loses the event and regains it:
\* who has been in it all along only become fewer.
LEMMA MembersKeep ==
  ASSUME IInv, (\E r \in Everybody : RemoveMember(r) \/ Join(r)) \/ LoseEvent \/ RegainEvent
  PROVE  IInv'
<1>1. /\ UNCHANGED <<intent, asking, published, rows, others, inbox, pushed, enabled, work>>
      /\ steady' \subseteq steady
  BY DEF RemoveMember, Join, LoseEvent, RegainEvent, phone, server
<1>2. TypesOK'
  <2>1. /\ members' \subseteq Everybody /\ steady' \subseteq members'
        /\ account' \in BOOLEAN /\ (~account' => Sender \notin steady')
    BY DEF RemoveMember, Join, LoseEvent, RegainEvent, IInv, TypesOK
  <2> QED BY <1>1, <2>1 DEF IInv, TypesOK
<1>3. ForgottenMeansTold' /\ UnsentIsKept' /\ GoesOn
  BY <1>1 DEF IInv, ForgottenMeansTold, UnsentIsKept, GoesOn
<1> QED BY <1>1, <1>2, <1>3, OthersMove

LEMMA IntervalPassesKeeps == IInv /\ IntervalPasses => IInv'
<1> SUFFICES ASSUME IInv, IntervalPasses
             PROVE  IInv'
  OBVIOUS
<1>1. /\ UNCHANGED <<intent, asking, published, members, account, steady, inbox, pushed,
                     enabled, work>>
      /\ others' \subseteq Recipient
      /\ rows' = [a \in Activity |-> [r \in Recipient |-> [rows[a][r] EXCEPT !.recent = FALSE]]]
  BY DEF IntervalPasses, phone, event
<1>2. \A a \in Activity, r \in Recipient :
        /\ rows[a][r] \in RowRec /\ rows'[a][r] \in RowRec
        /\ rows'[a][r].status = rows[a][r].status /\ rows'[a][r].by = rows[a][r].by
  <2> SUFFICES ASSUME NEW a \in Activity, NEW r \in Recipient
               PROVE  /\ rows[a][r] \in RowRec /\ rows'[a][r] \in RowRec
                      /\ rows'[a][r].status = rows[a][r].status
                      /\ rows'[a][r].by = rows[a][r].by
    OBVIOUS
  <2>1. rows[a][r] \in RowRec
    BY DEF IInv, TypesOK
  <2>2. rows'[a][r] = [rows[a][r] EXCEPT !.recent = FALSE]
    BY <1>1
  <2> QED BY <2>1, <2>2 DEF RowRec
<1>3. TypesOK'
  BY <1>1, <1>2 DEF IInv, TypesOK
<1>4. ForgottenMeansTold' /\ UnsentIsKept' /\ GoesOn
  BY <1>1 DEF IInv, ForgottenMeansTold, UnsentIsKept, GoesOn
<1> QED BY <1>1, <1>2, <1>3, <1>4, OthersMove
-----------------------------------------------------------------------------
(* What a request may rely on after a step of its own.                     *)

\* The step leaves the rows and the phone's count of pushes as they are.
Still == UNCHANGED <<published, members, account, steady, rows,
                     pushed>> /\ inbox \subseteq inbox'

LEMMA StaysOK ==
  ASSUME IInv, Still, NEW h \in Handler, NEW w \in WorkRec, work' = [work EXCEPT ![h] = w],
         w.act = work[h].act, w.at = work[h].at, w.todo = work[h].todo /\ w.list = work[h].list,
         work[h].phase \in BeforePushes, w.phase \in Round \cup {"failed"},
         w.phase \in Round => work[h].phase \in Round,
         w.phase = "insert" => Alone(h)',
         w.phase = "status" => w.verdict = "duplicate",
         w.phase = "link" => Current(h) \in Astray,
         w.phase \in {"link", "store", "devices"} /\ w.verdict = "allowed" => Holds(h, Current(h)),
         w.phase = "devices" => w.verdict = "allowed" /\ <<w.act, Current(h)>> \in inbox'
  PROVE  RequestOK(h)'
<1>1. work'[h] = w /\ work[h].phase # "idle" /\ RequestOK(h) /\ work[h].phase \notin {"push", "answer"}
  BY Facts DEF IInv, TypesOK, BeforePushes, Round
<1>2. /\ Current(h)' = Current(h) /\ w.phase \notin {"idle", "token", "push", "answer", "check"}
      /\ ~At(h, "push") /\ w.phase \in BeforePushes
  BY <1>1 DEF Current, Round, BeforePushes, At
<1>3. TodoOK(h)'
  <2>1. TodoOK(h)
    BY <1>1 DEF RequestOK
  <2> QED BY <1>1, <1>2, <2>1 DEF TodoOK, Still, Holds, Unsent, Told, At
<1>4. w.phase \in Round => RoundOK(h)'
  <2> SUFFICES ASSUME w.phase \in Round
               PROVE  RoundOK(h)'
    OBVIOUS
  <2>1. RoundOK(h)
    BY <1>1 DEF RequestOK
  <2> QED BY <1>1, <2>1 DEF RoundOK, Still, Told, Excused
<1>5. /\ w.act \in Activity /\ published[w.act] # "no"
      /\ \A r \in Recipient : rows[w.act][r].by = h => Unsent(w.act, r)
  BY <1>1 DEF RequestOK
<1>6. (\A r \in Recipient : rows[work[h].act][r].by = h => Unsent(work[h].act, r))'
  BY <1>1, <1>5 DEF Still, Unsent
<1>7. w.phase \in {"link", "store", "devices"} /\ w.verdict = "allowed" => Holds(h, Current(h))'
  BY <1>1, <1>2 DEF Still, Holds
<1>8. (w.act \in Activity /\ published[w.act] # "no")'
  BY <1>1, <1>5 DEF Still
<1>9. w.phase = "devices" => Told(work[h].act, Current(h))'
  BY <1>1, <1>2 DEF Told
<1> QED BY <1>1, <1>2, <1>3, <1>4, <1>6, <1>7, <1>8, <1>9 DEF RequestOK, Still

\* The loop goes on from place i: whom it passes over is not on the list.
LEMMA GoOK ==
  ASSUME IInv, NEW h \in Handler, NEW v \in WorkRec, NEW i \in 1..(Len(People) + 1),
         work' = [work EXCEPT ![h] = GoOn(v, i)],
         v.act \in Activity, published[v.act] # "no",
         UNCHANGED <<published, members, account, steady>>, inbox \subseteq inbox',
         Sender \in steady => steady \ {Sender} \subseteq v.list,
         \A j \in 1..(i - 1) : Excused(People[j]) \/ <<v.act, People[j]>> \in inbox',
         \A r \in Recipient : rows'[v.act][r].by = h =>
           \A d \in DevicesOf[r] : pushed'[v.act][d] = 0,
         \A r \in Recipient, d \in Device : <<r, d>> \in v.todo =>
           /\ \E j \in 1..(i - 1) : People[j] = r
           /\ d \in DevicesOf[r] /\ <<v.act, r>> \in inbox'
           /\ rows'[v.act][r].status = "reserved" /\ rows'[v.act][r].by = h
  PROVE  RequestOK(h)'
<1> DEFINE n == GoOn(v, i)
<1>1. Len(People) \in Nat /\ i \in Nat \ {0}
  BY PeopleFacts
<1>2. /\ n \in WorkRec /\ n.act = v.act /\ n.todo = v.todo /\ n.list = v.list
      /\ n.phase \in {"verify", "token", "answer"}
      /\ n.phase = "verify" =>
           /\ n.at \in i..Len(People)
           /\ \A j \in i..(n.at - 1) : People[j] \notin v.list
      /\ n.phase # "verify" => \A j \in i..Len(People) : People[j] \notin v.list
      /\ n.phase = "token" => n.todo # {}
      /\ n.phase = "answer" => n.todo = {} /\ n.answer \in {"ok", "no-eligible-recipients"}
  BY <1>1, GoFacts
<1> HIDE DEF n
<1>3. work'[h] = n
  BY DEF IInv, TypesOK, n
<1>4. UNCHANGED <<published, steady>>
  OBVIOUS
<1>5. \A j \in 1..Len(People) : People[j] \in Recipient /\ People[j] # Sender
  BY PeopleFacts, NotificationsAssumption
<1>6. \A j \in i..Len(People) : People[j] \notin v.list => Excused(People[j])
  BY <1>1, <1>5 DEF Excused
<1>7. TodoOK(h)'
  BY <1>2, <1>3 DEF TodoOK, Holds, Told, Unsent
<1>8. n.phase = "verify" => RoundOK(h)'
  <2> SUFFICES ASSUME n.phase = "verify"
               PROVE  RoundOK(h)'
    OBVIOUS
  <2>1. \A j \in 1..(n.at - 1) : Excused(People[j]) \/ <<v.act, People[j]>> \in inbox'
    <3> SUFFICES ASSUME NEW j \in 1..(n.at - 1)
                 PROVE  Excused(People[j]) \/ <<v.act, People[j]>> \in inbox'
      OBVIOUS
    <3>1. CASE j < i
      BY <1>1, <3>1
    <3>2. CASE j >= i
      BY <1>1, <1>2, <1>6, <3>2
    <3> QED BY <1>1, <3>1, <3>2
  <2>2. \A r \in Recipient, d \in Device :
          <<r, d>> \in v.todo => \E j \in 1..(n.at - 1) : People[j] = r
    <3> SUFFICES ASSUME NEW r \in Recipient, NEW d \in Device, <<r, d>> \in v.todo
                 PROVE  \E j \in 1..(n.at - 1) : People[j] = r
      OBVIOUS
    <3>1. PICK j \in 1..(i - 1) : People[j] = r
      OBVIOUS
    <3>2. j \in 1..(n.at - 1)
      BY <1>1, <1>2
    <3> QED BY <3>1, <3>2
  <2> QED BY <1>2, <1>3, <1>4, <2>1, <2>2 DEF RoundOK, Told, Excused
<1>9. n.phase # "verify" => AllTold(h)'
  <2> SUFFICES ASSUME n.phase # "verify", NEW r \in Recipient
               PROVE  Excused(r) \/ <<v.act, r>> \in inbox'
    BY <1>2, <1>3, <1>4 DEF AllTold, Told, Excused
  <2>1. PICK j \in 1..Len(People) : People[j] = r
    BY PeopleFacts
  <2>2. CASE j < i
    BY <1>1, <2>1, <2>2
  <2>3. CASE j >= i
    BY <1>1, <1>2, <1>6, <2>1, <2>3
  <2> QED BY <1>1, <2>1, <2>2, <2>3
<1>10. (\A r \in Recipient : rows[n.act][r].by = h => Unsent(n.act, r))'
  BY <1>2, <1>3 DEF Unsent
<1>11. (n.act \in Activity /\ published[n.act] # "no")'
  BY <1>2, <1>3, <1>4
<1> QED BY <1>2, <1>3, <1>4, <1>7, <1>8, <1>9, <1>10, <1>11 DEF RequestOK, Round

LEMMA NextOK ==
  ASSUME IInv, NEW h \in Handler, NEW v \in WorkRec,
         work' = [work EXCEPT ![h] = NextRecipient(v)],
         v.act = work[h].act, v.at = work[h].at, v.list = work[h].list, work[h].phase \in Round,
         UNCHANGED <<published, members, account, steady>>, inbox \subseteq inbox',
         Excused(Current(h)) \/ <<v.act, Current(h)>> \in inbox',
         \A r \in Recipient : rows'[v.act][r].by = h =>
           \A d \in DevicesOf[r] : pushed'[v.act][d] = 0,
         \A r \in Recipient, d \in Device : <<r, d>> \in v.todo =>
           /\ r = Current(h) \/ <<r, d>> \in work[h].todo
           /\ d \in DevicesOf[r] /\ <<v.act, r>> \in inbox'
           /\ rows'[v.act][r].status = "reserved" /\ rows'[v.act][r].by = h
  PROVE  RequestOK(h)'
<1> DEFINE i == v.at + 1
<1>1. RequestOK(h) /\ RoundOK(h) /\ v.act \in Activity /\ published[v.act] # "no"
  BY Facts DEF RequestOK, Round
<1>2. /\ v.at \in 1..Len(People) /\ Len(People) \in Nat /\ Current(h) = People[v.at]
      /\ i \in 1..(Len(People) + 1) /\ i - 1 = v.at /\ NextRecipient(v) = GoOn(v, i)
  BY NextIsGoOn, PeopleFacts DEF Current
<1> HIDE DEF i
<1>3. \A j \in 1..(i - 1) : Excused(People[j]) \/ <<v.act, People[j]>> \in inbox'
  BY <1>1, <1>2 DEF RoundOK, Told
<1>4. \A r \in Recipient, d \in Device :
        <<r, d>> \in v.todo => \E j \in 1..(i - 1) : People[j] = r
  <2> SUFFICES ASSUME NEW r \in Recipient, NEW d \in Device, <<r, d>> \in v.todo
               PROVE  \E j \in 1..(i - 1) : People[j] = r
    OBVIOUS
  <2>1. CASE r = Current(h)
    BY <1>2, <2>1
  <2>2. CASE <<r, d>> \in work[h].todo
    <3>1. PICK j \in 1..(v.at - 1) : People[j] = r
      BY <1>1, <2>2 DEF RoundOK
    <3> QED BY <1>2, <3>1
  <2> QED BY <2>1, <2>2
<1>5. Sender \in steady => steady \ {Sender} \subseteq v.list
  BY <1>1 DEF RoundOK
<1> QED BY <1>1, <1>2, <1>3, <1>4, <1>5, GoOK
-----------------------------------------------------------------------------
(* The steps of a request that only look.                                  *)

LEMMA AnnounceKeeps ==
  ASSUME IInv, NEW a \in Activity, NEW h \in Handler, Announce(a, h)
  PROVE  IInv'
<1> DEFINE w == [Idle EXCEPT !.act = a, !.phase = "check"]
<1>1. /\ work[h].phase = "idle" /\ published[a] # "no" /\ work' = [work EXCEPT ![h] = w]
      /\ asking' = [asking EXCEPT ![a] = h]
      /\ UNCHANGED <<intent, published, members, account, steady, rows, others, inbox,
                     pushed, enabled>>
  BY DEF Announce, At, MayAnnounce, Become, server, event
<1>2. w \in WorkRec /\ w.phase = "check" /\ w.act = a /\ w.at = 1 /\ w.todo = {}
  BY IdleFacts DEF WorkRec, Phase
<1> HIDE DEF w
<1>3. Resting(h)
  BY <1>1 DEF IInv, HandlerOK
<1>4. work'[h] = w
  BY <1>1 DEF IInv, TypesOK
<1>5. RequestOK(h)'
  BY <1>1, <1>2, <1>3, <1>4 DEF RequestOK, TodoOK, Resting, Round
<1>6. asking' \in [Activity -> Handler \cup {Nobody}]
  BY <1>1 DEF IInv, TypesOK
<1> QED BY <1>1, <1>2, <1>3, <1>5, <1>6, QuietMoves

\* Steps that go on with the same recipient, or stop.
LEMMA LookingKeeps ==
  ASSUME IInv, NEW h \in Handler, NEW w \in WorkRec, work' = [work EXCEPT ![h] = w],
         UNCHANGED <<phone, event, server>>,
         w.act = work[h].act, w.at = work[h].at, w.todo = work[h].todo /\ w.list = work[h].list,
         work[h].phase \in BeforePushes, w.phase \in Round \cup {"failed"},
         w.phase \in Round => work[h].phase \in Round,
         w.phase = "insert" =>
           /\ rows[w.act][Current(h)].status = "none"
           /\ \A g \in Handler \ {h} :
                At(g, "insert") => work[g].act # w.act \/ Current(g) # Current(h),
         w.phase = "status" => w.verdict = "duplicate",
         w.phase = "link" => Current(h) \in Astray,
         w.phase \in {"link", "store", "devices"} /\ w.verdict = "allowed" => Holds(h, Current(h)),
         w.phase # "devices"
  PROVE  IInv'
<1>1. /\ UNCHANGED <<intent, asking, published, members, account, steady, rows, others,
                     inbox, pushed, enabled>>
      /\ w.phase # "idle" /\ Still
  BY DEF phone, event, server, Round, Still
<1>2. work'[h] = w /\ \A g \in Handler \ {h} : work'[g] = work[g]
  BY DEF IInv, TypesOK
<1>3. w.phase = "insert" => Alone(h)'
  BY <1>1, <1>2 DEF Alone, At, Current
<1>4. RequestOK(h)'
  BY <1>1, <1>3, StaysOK
<1>5. asking' \in [Activity -> Handler \cup {Nobody}]
  BY <1>1 DEF IInv, TypesOK
<1> QED BY <1>1, <1>4, <1>5, QuietMoves DEF Current

LEMMA CheckKeeps ==
  ASSUME IInv, NEW h \in Handler, Check(h)
  PROVE  IInv'
<1> DEFINE a == work[h].act
<1>1. /\ work[h].phase = "check" /\ UNCHANGED <<phone, event, server>>
      /\ work[h] \in WorkRec /\ RequestOK(h) /\ a \in Activity /\ published[a] # "no"
      /\ work[h].todo = {}
  BY Facts DEF Check, At, RequestOK
<1>2. /\ UNCHANGED <<intent, asking, published, members, account, steady, rows, others, inbox,
                     pushed, enabled>>
      /\ asking' \in [Activity -> Handler \cup {Nobody}]
  BY <1>1 DEF phone, event, server, IInv, TypesOK
<1>3. CASE Allowed(a)
  <2> DEFINE v == [work[h] EXCEPT !.list = members \ {Sender}]
             w == GoOn(v, 1)
  <2>1. members \ {Sender} \subseteq Recipient /\ steady \subseteq members
    BY DEF IInv, TypesOK, Everybody
  <2>2. v \in WorkRec /\ v.act = a /\ v.todo = {} /\ v.list = members \ {Sender}
    BY <1>1, <2>1 DEF WorkRec
  <2> HIDE DEF v
  <2>3. work' = [work EXCEPT ![h] = w]
    BY <1>3 DEF Check, Become, v
  <2>4. w \in WorkRec /\ w.act = a /\ w.phase \notin {"idle", "insert"}
    BY <2>2, GoFacts
  <2> HIDE DEF w
  <2>5. \A r \in Recipient : rows[a][r].by = h => Unsent(a, r)
    BY <1>1 DEF RequestOK, BeforePushes
  <2>6. 1 \in 1..(Len(People) + 1) /\ 1..(1 - 1) = {}
    BY PeopleFacts
  <2>7. RequestOK(h)'
    BY <1>1, <1>2, <2>1, <2>2, <2>3, <2>5, <2>6, GoOK DEF w, Unsent
  <2> QED BY <1>2, <2>3, <2>4, <2>7, QuietMoves
<1>4. CASE ~Allowed(a)
  <2> DEFINE w == [work[h] EXCEPT !.phase = "answer", !.answer = "not allowed"]
  <2>1. work' = [work EXCEPT ![h] = w]
    BY <1>4 DEF Check, Become, Answering
  <2>2. /\ w \in WorkRec /\ w.phase = "answer" /\ w.act = work[h].act
        /\ w.answer = "not allowed"
    BY <1>1 DEF WorkRec, Phase
  <2> HIDE DEF w
  <2>3. work'[h] = w
    BY <2>1 DEF IInv, TypesOK
  <2>4. published[a] # "yes" \/ Sender \notin steady
    BY <1>4 DEF Allowed, IInv, TypesOK
  <2>5. RequestOK(h)'
    BY <1>1, <1>2, <2>2, <2>3, <2>4 DEF RequestOK, BeforePushes, Round
  <2> QED BY <1>2, <2>1, <2>2, <2>5, QuietMoves
<1> QED BY <1>3, <1>4

\* The loop goes on to the next recipient without anything having been written.
LEMMA PassingKeeps ==
  ASSUME IInv, NEW h \in Handler, work' = [work EXCEPT ![h] = NextRecipient(work[h])],
         UNCHANGED <<phone, event, server>>, work[h].phase \in Round,
         Excused(Current(h))
  PROVE  IInv'
<1> DEFINE w == NextRecipient(work[h])
<1>1. work[h] \in WorkRec /\ RequestOK(h) /\ TodoOK(h)
  BY Facts DEF Round, RequestOK
<1>2. UNCHANGED <<intent, asking, published, members, account, steady, rows, others, inbox,
                  pushed, enabled>>
  BY DEF phone, event, server
<1>3. w \in WorkRec /\ w.act = work[h].act /\ w.phase \notin {"idle", "insert"}
  BY <1>1, NextFacts
<1> HIDE DEF w
<1>4. \A r \in Recipient : rows[work[h].act][r].by = h => Unsent(work[h].act, r)
  BY <1>1 DEF RequestOK, BeforePushes
<1>5. \A r \in Recipient, d \in Device : <<r, d>> \in work[h].todo =>
        d \in DevicesOf[r] /\ Told(work[h].act, r) /\ Holds(h, r)
  BY <1>1 DEF TodoOK
<1>6. RequestOK(h)'
  BY <1>1, <1>2, <1>4, <1>5, NextOK DEF Unsent, Told, Holds
<1>7. asking' \in [Activity -> Handler \cup {Nobody}]
  BY <1>2 DEF IInv, TypesOK
<1> QED BY <1>2, <1>3, <1>6, <1>7, QuietMoves DEF w

LEMMA VerifyKeeps ==
  ASSUME IInv, NEW h \in Handler, Verify(h)
  PROVE  IInv'
<1>1. /\ work[h].phase = "verify" /\ UNCHANGED <<phone, event, server>>
      /\ work[h] \in WorkRec
  BY Facts DEF Verify, At
<1>2. CASE BothMembers(Current(h))
  <2> DEFINE w == [work[h] EXCEPT !.phase = "look"]
  <2>1. work' = [work EXCEPT ![h] = w]
    BY <1>2 DEF Verify, Become
  <2>2. /\ w \in WorkRec /\ w.phase = "look" /\ w.act = work[h].act /\ w.at = work[h].at
        /\ w.todo = work[h].todo /\ w.list = work[h].list
    BY <1>1 DEF WorkRec, Phase
  <2> HIDE DEF w
  <2> QED BY <1>1, <2>1, <2>2, LookingKeeps DEF BeforePushes, Round
<1>3. CASE ~BothMembers(Current(h))
  <2>1. work' = [work EXCEPT ![h] = NextRecipient(work[h])]
    BY <1>3 DEF Verify, Become
  <2>2. Excused(Current(h))
    BY <1>3 DEF BothMembers, Excused, IInv, TypesOK
  <2> QED BY <1>1, <2>1, <2>2, PassingKeeps DEF Round
<1> QED BY <1>2, <1>3

LEMMA LookKeeps ==
  ASSUME IInv, NEW h \in Handler, Look(h)
  PROVE  IInv'
<1> DEFINE a == work[h].act
           r == Current(h)
<1>1. /\ work[h].phase = "look" /\ UNCHANGED <<phone, event, server>>
      /\ work[h] \in WorkRec /\ ~Locked(h, a, r)
  BY Facts DEF Look, At
<1>2. CASE rows[a][r].status # "none"
  <2> DEFINE w == [work[h] EXCEPT !.phase = "status", !.verdict = "duplicate"]
  <2>1. work' = [work EXCEPT ![h] = w]
    BY <1>2 DEF Look, Become
  <2>2. /\ w \in WorkRec /\ w.phase = "status" /\ w.act = a /\ w.at = work[h].at
        /\ w.todo = work[h].todo /\ w.list = work[h].list /\ w.verdict = "duplicate"
    BY <1>1 DEF WorkRec, Phase
  <2> HIDE DEF w
  <2> QED BY <1>1, <2>1, <2>2, LookingKeeps DEF BeforePushes, Round
<1>3. CASE rows[a][r].status = "none"
  <2> DEFINE v == IF Limited(r) THEN "rate-limited" ELSE "allowed"
             w == [work[h] EXCEPT !.phase = "insert", !.verdict = v]
  <2>1. work' = [work EXCEPT ![h] = w]
    BY <1>3 DEF Look, Become
  <2>2. v \in {"rate-limited", "allowed"}
    OBVIOUS
  <2> HIDE DEF v
  <2>3. /\ w \in WorkRec /\ w.phase = "insert" /\ w.act = a /\ w.at = work[h].at
        /\ w.todo = work[h].todo /\ w.list = work[h].list
    BY <1>1, <2>2 DEF WorkRec, Phase
  <2> HIDE DEF w
  <2>4. \A g \in Handler \ {h} : At(g, "insert") => work[g].act # a \/ Current(g) # r
    BY <1>1 DEF Locked
  <2> QED BY <1>1, <1>3, <2>1, <2>3, <2>4, LookingKeeps DEF BeforePushes, Round
<1> QED BY <1>2, <1>3

LEMMA ReservedFacts ==
  ASSUME NEW v \in WorkRec
  PROVE  LET w == Reserved(v) IN
         /\ w \in WorkRec /\ w.act = v.act /\ w.at = v.at /\ w.todo = v.todo /\ w.list = v.list
         /\ w.verdict = v.verdict /\ w.phase \in {"link", "store"}
         /\ w.phase = "link" => People[v.at] \in Astray
BY DEF Reserved, WorkRec, Phase

LEMMA ReadStatusKeeps ==
  ASSUME IInv, NEW h \in Handler, ReadStatus(h)
  PROVE  IInv'
<1>1. /\ work[h].phase = "status" /\ UNCHANGED <<phone, event, server>>
      /\ work[h] \in WorkRec /\ work[h].verdict # "allowed"
  BY Facts DEF ReadStatus, At, RequestOK
<1>2. CASE work' = [work EXCEPT ![h] = Reserved(work[h])]
  BY <1>1, <1>2, ReservedFacts, LookingKeeps DEF BeforePushes, Round, Current
<1>3. CASE work' = [work EXCEPT ![h] = [work[h] EXCEPT !.phase = "failed"]]
  <2> DEFINE w == [work[h] EXCEPT !.phase = "failed"]
  <2>1. /\ w \in WorkRec /\ w.phase = "failed" /\ w.act = work[h].act /\ w.at = work[h].at
        /\ w.todo = work[h].todo /\ w.list = work[h].list
    BY <1>1 DEF WorkRec, Phase
  <2> HIDE DEF w
  <2> QED BY <1>1, <1>3, <2>1, LookingKeeps DEF BeforePushes, Round, w
<1> QED BY <1>2, <1>3 DEF ReadStatus, Become, Goto

LEMMA MakeLinkKeeps ==
  ASSUME IInv, NEW h \in Handler, MakeLink(h)
  PROVE  IInv'
<1> DEFINE w == [work[h] EXCEPT !.phase = "store"]
<1>1. /\ work[h].phase = "link" /\ UNCHANGED <<phone, event, server>>
      /\ work[h] \in WorkRec /\ RequestOK(h) /\ work' = [work EXCEPT ![h] = w]
  BY Facts DEF MakeLink, At, Goto, Become
<1>2. /\ w \in WorkRec /\ w.phase = "store" /\ w.act = work[h].act /\ w.at = work[h].at
      /\ w.todo = work[h].todo /\ w.list = work[h].list /\ w.verdict = work[h].verdict
  BY <1>1 DEF WorkRec, Phase
<1> HIDE DEF w
<1>3. w.verdict = "allowed" => Holds(h, Current(h))
  BY <1>1, <1>2 DEF RequestOK
<1> QED BY <1>1, <1>2, <1>3, LookingKeeps DEF BeforePushes, Round

LEMMA FailKeeps ==
  ASSUME IInv, NEW h \in Handler, Fail(h)
  PROVE  IInv'
<1> DEFINE w == [work[h] EXCEPT !.phase = "failed"]
<1>1. /\ work[h].phase \in BeforePushes /\ UNCHANGED <<phone, event, server>>
      /\ work[h] \in WorkRec /\ work' = [work EXCEPT ![h] = w]
  BY Facts DEF Fail, Become, Failed, BeforePushes, Round
<1>2. /\ w \in WorkRec /\ w.phase = "failed" /\ w.act = work[h].act /\ w.at = work[h].at
      /\ w.todo = work[h].todo /\ w.list = work[h].list
  BY <1>1 DEF WorkRec, Phase
<1> HIDE DEF w
<1> QED BY <1>1, <1>2, LookingKeeps DEF Round

\* Passing the deadline changes nothing that another step looks at.
LEMMA DeadlinePassesKeeps ==
  ASSUME IInv, NEW h \in Handler, DeadlinePasses(h)
  PROVE  IInv'
<1> DEFINE w == [work[h] EXCEPT !.late = TRUE]
<1>1. /\ work[h].phase # "idle" /\ UNCHANGED <<phone, event, server>>
      /\ work[h] \in WorkRec /\ RequestOK(h) /\ work' = [work EXCEPT ![h] = w]
      /\ Current(h) \in Recipient
  BY Facts DEF DeadlinePasses, Become, At
<1>2. /\ w \in WorkRec /\ w.phase = work[h].phase /\ w.act = work[h].act /\ w.at = work[h].at
      /\ w.todo = work[h].todo /\ w.list = work[h].list /\ w.verdict = work[h].verdict /\ w.answer = work[h].answer
      /\ w.taken = work[h].taken /\ w.unclear = work[h].unclear
  BY <1>1 DEF WorkRec
<1> HIDE DEF w
<1>3. UNCHANGED <<intent, asking, published, members, account, steady, rows, others, inbox,
                  pushed, enabled>>
  BY <1>1 DEF phone, event, server
<1>4. work'[h] = w /\ \A g \in Handler \ {h} : work'[g] = work[g]
  BY <1>1 DEF IInv, TypesOK
<1>5. Current(h)' = Current(h) /\ \A s \in Phase : At(h, s)' <=> At(h, s)
  BY <1>2, <1>4 DEF Current, At
<1>6. /\ TodoOK(h) => TodoOK(h)'
      /\ RoundOK(h) => RoundOK(h)'
      /\ AllTold(h) => AllTold(h)'
  <2>1. TodoOK(h) => TodoOK(h)'
    BY <1>2, <1>3, <1>4, <1>5 DEF TodoOK, Holds, Told, Unsent, Phase
  <2>2. RoundOK(h) => RoundOK(h)'
    BY <1>2, <1>3, <1>4 DEF RoundOK, Told, Excused
  <2>3. AllTold(h) => AllTold(h)'
    BY <1>2, <1>3, <1>4 DEF AllTold, Told, Excused
  <2> QED BY <2>1, <2>2, <2>3
<1>7. Alone(h) => Alone(h)'
  BY <1>2, <1>3, <1>4, <1>5 DEF Alone, At, Current
<1>8. /\ Holds(h, Current(h)) => Holds(h, Current(h))'
      /\ Told(work[h].act, Current(h)) => Told(work[h].act, Current(h))'
      /\ Unsent(work[h].act, Current(h)) => Unsent(work[h].act, Current(h))'
      /\ \A r \in Recipient : Unsent(work[h].act, r) => Unsent(work[h].act, r)'
  BY <1>2, <1>3, <1>4, <1>5 DEF Holds, Told, Unsent
<1>9. RequestOK(h)'
  <2>1. (/\ work[h].act \in Activity /\ published[work[h].act] # "no"
         /\ work[h].phase \in BeforePushes =>
              \A r \in Recipient : rows[work[h].act][r].by = h => Unsent(work[h].act, r))'
    BY <1>1, <1>2, <1>3, <1>4, <1>8 DEF RequestOK
  <2>2. (/\ work[h].phase # "answer" => TodoOK(h)
         /\ work[h].phase = "check" => work[h].at = 1 /\ work[h].todo = {}
         /\ work[h].phase \in Round => RoundOK(h)
         /\ work[h].phase = "insert" => Alone(h))'
    BY <1>1, <1>2, <1>4, <1>6, <1>7 DEF RequestOK
  <2>3. (/\ work[h].phase = "status" => work[h].verdict = "duplicate"
         /\ work[h].phase = "link" => Current(h) \in Astray
         /\ work[h].phase \in {"link", "store", "devices"} /\ work[h].verdict = "allowed" =>
              Holds(h, Current(h))
         /\ work[h].phase = "devices" =>
              work[h].verdict = "allowed" /\ Told(work[h].act, Current(h)))'
    BY <1>1, <1>2, <1>4, <1>5, <1>8 DEF RequestOK
  <2>4. (/\ work[h].phase = "token" => work[h].todo # {}
         /\ work[h].phase \in {"token", "push"} => AllTold(h)
         /\ work[h].phase = "push" =>
              /\ Holds(h, Current(h)) /\ Told(work[h].act, Current(h))
              /\ work[h].taken \/ work[h].unclear \/ Unsent(work[h].act, Current(h)))'
    BY <1>1, <1>2, <1>4, <1>6, <1>8 DEF RequestOK
  <2>5. (work[h].phase = "answer" =>
           /\ work[h].answer # "none"
           /\ work[h].answer = "not allowed" => published[work[h].act] # "yes" \/ Sender \notin steady
           /\ work[h].answer \in {"ok", "no-eligible-recipients"} => AllTold(h))'
    BY <1>1, <1>2, <1>3, <1>4, <1>6 DEF RequestOK
  <2> QED BY <2>1, <2>2, <2>3, <2>4, <2>5 DEF RequestOK
<1>10. w.phase = "insert" => \A g \in Handler \ {h} :
         At(g, "insert") => work[g].act # w.act \/ Current(g) # People[w.at]
  BY <1>1, <1>2 DEF RequestOK, Alone, Current
<1>11. asking' \in [Activity -> Handler \cup {Nobody}]
  BY <1>3 DEF IInv, TypesOK
<1> QED BY <1>1, <1>2, <1>3, <1>9, <1>10, <1>11, QuietMoves

\* The first push: the least of the recipients with devices left.
LEMMA PushingFacts ==
  ASSUME NEW v \in WorkRec, v.todo # {},
         \A r \in Recipient, d \in Device : <<r, d>> \in v.todo => d \in DevicesOf[r]
  PROVE  LET w == Pushing(v) IN
         /\ w \in WorkRec /\ w.phase = "push" /\ w.act = v.act /\ w.todo = v.todo /\ w.list = v.list
         /\ w.taken = FALSE /\ w.unclear = FALSE
         /\ \E d \in Device : <<People[w.at], d>> \in v.todo
<1> DEFINE U == Unpushed(v)
           m == Min(U)
<1>1. PICK r \in Recipient, d \in Device : <<r, d>> \in v.todo
  <2>1. PICK t \in v.todo : TRUE
    OBVIOUS
  <2>2. t \in Recipient \X Device
    BY <2>1 DEF WorkRec
  <2>3. t[1] \in Recipient /\ t[2] \in Device /\ t = <<t[1], t[2]>>
    BY <2>2
  <2>4. <<t[1], t[2]>> \in v.todo
    BY <2>1, <2>3
  <2> QED BY <2>3, <2>4
<1>2. d \in Left(v, r)
  BY <1>1 DEF Left
<1>3. PICK i \in DOMAIN People : People[i] = r
  BY PeopleFacts
<1>4. i \in U /\ U \in SUBSET Nat
  BY <1>2, <1>3, PeopleFacts DEF Unpushed
<1>5. m \in U
  BY <1>4, LeastExists
<1>6. m \in DOMAIN People /\ Left(v, People[m]) # {}
  BY <1>5 DEF Unpushed
<1>7. PICK e \in DevicesOf[People[m]] : <<People[m], e>> \in v.todo
  BY <1>6 DEF Left
<1>8. e \in Device
  BY <1>6, <1>7, PeopleFacts DEF Device
<1> HIDE DEF m
<1>9. Pushing(v) = [v EXCEPT !.phase = "push", !.at = m, !.taken = FALSE, !.unclear = FALSE]
  BY DEF Pushing, m
<1> QED BY <1>6, <1>7, <1>8, <1>9 DEF WorkRec, Phase

LEMMA GetTokenKeeps ==
  ASSUME IInv, NEW h \in Handler, GetToken(h)
  PROVE  IInv'
<1> DEFINE w == Pushing(work[h])
           a == work[h].act
<1>1. /\ work[h].phase = "token" /\ UNCHANGED <<phone, event, server>>
      /\ work[h] \in WorkRec /\ RequestOK(h) /\ work' = [work EXCEPT ![h] = w]
  BY Facts DEF GetToken, At, Become
<1>2. TodoOK(h) /\ work[h].todo # {} /\ AllTold(h) /\ a \in Activity /\ published[a] # "no"
  BY <1>1 DEF RequestOK
<1>3. /\ w \in WorkRec /\ w.phase = "push" /\ w.act = a /\ w.todo = work[h].todo /\ w.list = work[h].list
      /\ \E d \in Device : <<People[w.at], d>> \in w.todo
  BY <1>1, <1>2, PushingFacts DEF TodoOK
<1> HIDE DEF w
<1>4. People[w.at] \in Recipient
  BY <1>3, PeopleFacts DEF WorkRec
<1>5. UNCHANGED <<intent, asking, published, members, account, steady, rows, others, inbox,
                  pushed, enabled>>
  BY <1>1 DEF phone, event, server
<1>6. work'[h] = w /\ Current(h)' = People[w.at]
  BY <1>1 DEF IInv, TypesOK, Current
<1>7. \A r \in Recipient, d \in Device : <<r, d>> \in work[h].todo =>
        /\ d \in DevicesOf[r] /\ Holds(h, r) /\ Told(a, r) /\ pushed[a][d] = 0 /\ Unsent(a, r)
  BY <1>1, <1>2 DEF TodoOK, At
<1>8. TodoOK(h)'
  BY <1>3, <1>5, <1>6, <1>7 DEF TodoOK, Holds, Told, Unsent
<1>9. (Holds(h, Current(h)) /\ Told(work[h].act, Current(h)) /\ Unsent(work[h].act, Current(h)))'
  <2>1. Holds(h, People[w.at]) /\ Told(a, People[w.at]) /\ Unsent(a, People[w.at])
    BY <1>3, <1>4, <1>7
  <2> QED BY <1>3, <1>5, <1>6, <2>1 DEF Holds, Told, Unsent
<1>10. AllTold(h)'
  BY <1>2, <1>3, <1>5, <1>6 DEF AllTold, Told, Excused
<1>11. RequestOK(h)'
  BY <1>2, <1>3, <1>5, <1>6, <1>8, <1>9, <1>10 DEF RequestOK, BeforePushes, Round
<1>12. asking' \in [Activity -> Handler \cup {Nobody}]
  BY <1>5 DEF IInv, TypesOK
<1> QED BY <1>1, <1>3, <1>5, <1>11, <1>12, QuietMoves
-----------------------------------------------------------------------------
(* The steps of a request that write.                                      *)

LEMMA CompletedFacts ==
  ASSUME IInv, NEW h \in Handler, work[h].act \in Activity, NEW r \in Recipient
  PROVE  LET new == Completed(rows, h, r) IN
         /\ new \in [Activity -> [Recipient -> RowRec]]
         /\ \A b \in Activity, s \in Recipient :
              \/ new[b][s] = rows[b][s]
              \/ /\ b = work[h].act /\ s = r /\ rows[b][s].by = h
                 /\ new[b][s].by = h /\ new[b][s].status = "delivered"
<1> DEFINE a == work[h].act
           new == Completed(rows, h, r)
<1>1. rows \in [Activity -> [Recipient -> RowRec]]
  BY DEF IInv, TypesOK
<1>2. CASE rows[a][r].by # h
  BY <1>1, <1>2 DEF Completed
<1>3. CASE rows[a][r].by = h
  <2>1. new = [rows EXCEPT ![a][r].status = "delivered"]
    BY <1>3 DEF Completed
  <2>2. /\ new[a][r] = [rows[a][r] EXCEPT !.status = "delivered"]
        /\ \A b \in Activity, s \in Recipient : b # a \/ s # r => new[b][s] = rows[b][s]
    BY <1>1, <2>1
  <2>3. rows[a][r] \in RowRec
    BY <1>1
  <2>4. /\ new[a][r] \in RowRec /\ new[a][r].by = h /\ new[a][r].status = "delivered"
    BY <1>3, <2>2, <2>3 DEF RowRec
  <2>5. new \in [Activity -> [Recipient -> RowRec]]
    <3>1. new = [rows EXCEPT ![a] = [rows[a] EXCEPT ![r] = new[a][r]]]
      BY <1>1, <2>1
    <3> HIDE DEF new
    <3> QED BY <1>1, <2>4, <3>1
  <2> HIDE DEF new
  <2> QED BY <1>3, <2>2, <2>4, <2>5 DEF new
<1> QED BY <1>2, <1>3

LEMMA SetFacts ==
  ASSUME IInv, NEW a \in Activity, NEW r \in Recipient, NEW row \in RowRec
  PROVE  LET new == Set(rows, a, r, row) IN
         /\ new \in [Activity -> [Recipient -> RowRec]]
         /\ new[a][r] = row
         /\ \A b \in Activity, s \in Recipient : b # a \/ s # r => new[b][s] = rows[b][s]
BY DEF IInv, TypesOK, Set

LEMMA DeletedFacts ==
  ASSUME IInv, NEW h \in Handler, work[h].act \in Activity, NEW r \in Recipient
  PROVE  LET new == Deleted(rows, h, r) IN
         /\ new \in [Activity -> [Recipient -> RowRec]]
         /\ \A b \in Activity, s \in Recipient :
              \/ new[b][s] = rows[b][s]
              \/ b = work[h].act /\ s = r /\ rows[b][s].by = h /\ new[b][s] = NoRow
<1>1. rows \in [Activity -> [Recipient -> RowRec]] /\ NoRow \in RowRec
  BY RowFacts DEF IInv, TypesOK
<1>2. CASE rows[work[h].act][r].by = h /\ rows[work[h].act][r].status = "reserved"
  <2> DEFINE new == Set(rows, work[h].act, r, NoRow)
  <2>1. Deleted(rows, h, r) = new
    BY <1>2 DEF Deleted
  <2>2. /\ new \in [Activity -> [Recipient -> RowRec]] /\ new[work[h].act][r] = NoRow
        /\ \A b \in Activity, s \in Recipient :
             b # work[h].act \/ s # r => new[b][s] = rows[b][s]
    BY <1>1 DEF Set
  <2> HIDE DEF new
  <2> QED BY <1>2, <2>1, <2>2
<1>3. CASE ~(rows[work[h].act][r].by = h /\ rows[work[h].act][r].status = "reserved")
  BY <1>1, <1>3 DEF Deleted
<1> QED BY <1>2, <1>3

\* The request writes to rows that are its own: it completes what is in the inbox, and
\* gives back what was not pushed.
LEMMA OwnRows ==
  ASSUME IInv, NEW h \in Handler, NEW w \in WorkRec, work' = [work EXCEPT ![h] = w],
         w.act = work[h].act, w.phase \notin {"insert", "idle"},
         rows' \in [Activity -> [Recipient -> RowRec]],
         UNCHANGED <<intent, asking, published, members, account, steady, others, pushed,
                     enabled>>,
         inbox \subseteq inbox', inbox' \subseteq Activity \X Recipient,
         \A a \in Activity, r \in Recipient :
           \/ rows'[a][r] = rows[a][r]
           \/ rows[a][r].by = h /\ Unsent(a, r) /\ rows'[a][r] = NoRow
           \/ /\ rows[a][r].by = h /\ rows'[a][r].by = h
              /\ rows'[a][r].status = "delivered" /\ <<a, r>> \in inbox',
         RequestOK(h)'
  PROVE  IInv'
<1>1. TypesOK'
  BY DEF IInv, TypesOK
<1>2. work'[h] = w /\ \A g \in Handler \ {h} : work'[g] = work[g]
  BY DEF IInv, TypesOK
<1>3. h # Nobody
  BY NotificationsAssumption
<1>4. \A a \in Activity, r \in Recipient : RowOK(a, r)
  BY DEF IInv
<1>5. \A a \in Activity, r \in Recipient :
        /\ rows[a][r].status = "none" => rows'[a][r].status = "none"
        /\ \A g \in Handler \ {h} :
             /\ rows'[a][r].by = g <=> rows[a][r].by = g
             /\ rows[a][r].by = g => rows'[a][r] = rows[a][r]
  <2> SUFFICES ASSUME NEW a \in Activity, NEW r \in Recipient
               PROVE  /\ rows[a][r].status = "none" => rows'[a][r].status = "none"
                      /\ \A g \in Handler \ {h} :
                           /\ rows'[a][r].by = g <=> rows[a][r].by = g
                           /\ rows[a][r].by = g => rows'[a][r] = rows[a][r]
    OBVIOUS
  <2>1. rows[a][r].status = "none" => rows[a][r].by = Nobody
    BY <1>4 DEF RowOK
  <2>2. \A g \in Handler \ {h} : g # Nobody /\ g # h
    BY NotificationsAssumption
  <2>3. NoRow.status = "none" /\ NoRow.by = Nobody
    BY RowFacts
  <2>4. CASE rows'[a][r] = rows[a][r]
    BY <2>4
  <2>5. CASE rows[a][r].by = h /\ rows'[a][r] = NoRow
    BY <2>2, <2>3, <2>5
  <2>6. CASE rows[a][r].by = h /\ rows'[a][r].by = h
    BY <1>3, <2>1, <2>2, <2>6
  <2> QED BY <2>4, <2>5, <2>6
<1>6. ASSUME NEW g \in Handler \ {h}
      PROVE  Leaves(g) /\ (At(g, "insert") => Alone(g)')
  <2>1. Leaves(g)
    BY <1>2, <1>5 DEF Leaves
  <2>2. ASSUME At(g, "insert")
        PROVE  Alone(g)'
    <3>1. Alone(g) /\ work[g].act \in Activity /\ Current(g) \in Recipient
      BY <2>2, Facts DEF At, RequestOK
    <3> QED BY <1>2, <1>5, <2>2, <3>1 DEF Alone, At, Current
  <2> QED BY <2>1, <2>2
<1>7. HandlerOK(h)'
  BY <1>2 DEF HandlerOK
<1>8. ASSUME NEW a \in Activity, NEW r \in Recipient
      PROVE  RowOK(a, r)'
  <2>1. RowOK(a, r) /\ rows[a][r].by \in Handler \cup {Nobody} /\ NoRow.status = "none"
        /\ NoRow.by = Nobody
    BY <1>4, RowFacts DEF IInv, TypesOK, RowRec
  <2>2. work'[h].act = work[h].act
    BY <1>2
  <2>3. CASE rows'[a][r] = rows[a][r]
    BY <1>2, <2>1, <2>2, <2>3 DEF RowOK, Unsent, Told
  <2>4. CASE rows'[a][r] = NoRow /\ Unsent(a, r)
    BY <2>1, <2>4 DEF RowOK, Unsent, Told
  <2>5. CASE /\ rows[a][r].by = h /\ rows'[a][r].by = h
             /\ rows'[a][r].status = "delivered" /\ <<a, r>> \in inbox'
    BY <1>3, <2>1, <2>2, <2>5 DEF RowOK, Told
  <2> QED BY <2>3, <2>4, <2>5
<1>9. NoSecondPush' /\ ForgottenMeansTold' /\ UnsentIsKept'
  BY DEF IInv, NoSecondPush, ForgottenMeansTold, UnsentIsKept
<1> QED BY <1>1, <1>6, <1>7, <1>8, <1>9, RequestMoves

\* What is left to push is for people the loop has been with.
LEMMA TodoIsEarlier ==
  ASSUME IInv, NEW h \in Handler, work[h].phase \in Round,
         NEW r \in Recipient, NEW d \in Device, <<r, d>> \in work[h].todo
  PROVE  /\ r # Current(h) /\ d \in DevicesOf[r] /\ Holds(h, r) /\ Told(work[h].act, r)
<1>1. RequestOK(h) /\ work[h].at \in DOMAIN People /\ DOMAIN People = 1..Len(People)
      /\ Len(People) \in Nat
  BY Facts, PeopleFacts DEF Round
<1>2. RoundOK(h) /\ TodoOK(h)
  BY <1>1 DEF RequestOK, Round
<1>3. PICK i \in 1..(work[h].at - 1) : People[i] = r
  BY <1>2 DEF RoundOK
<1>4. i \in DOMAIN People /\ i # work[h].at
  BY <1>1, <1>3
<1>5. r # Current(h)
  BY <1>1, <1>3, <1>4, NotificationsAssumption DEF Current
<1> QED BY <1>2, <1>5 DEF TodoOK

LEMMA NoLinkKeeps ==
  ASSUME IInv, NEW h \in Handler, NoLink(h)
  PROVE  IInv'
<1> DEFINE w == NextRecipient(work[h])
           a == work[h].act
<1>1. /\ work[h].phase = "link" /\ work' = [work EXCEPT ![h] = w]
      /\ rows' = Deleted(rows, h, Current(h)) \/ rows' = rows
      /\ UNCHANGED <<intent, asking, published, members, account, steady, others, inbox,
                     pushed, enabled>>
  BY DEF NoLink, At, Become, phone, event
<1>2. /\ work[h] \in WorkRec /\ RequestOK(h) /\ Current(h) \in Recipient /\ a \in Activity
  BY <1>1, Facts DEF RequestOK
<1>3. w \in WorkRec /\ w.act = a /\ w.phase \notin {"idle", "insert"}
  BY <1>2, NextFacts
<1> HIDE DEF w
<1>4. /\ rows \in [Activity -> [Recipient -> RowRec]] /\ inbox \subseteq Activity \X Recipient
      /\ rows' \in [Activity -> [Recipient -> RowRec]]
      /\ \A b \in Activity, s \in Recipient :
              \/ rows'[b][s] = rows[b][s]
              \/ b = a /\ s = Current(h) /\ rows[b][s].by = h /\ rows'[b][s] = NoRow
  BY <1>1, <1>2, DeletedFacts DEF IInv, TypesOK
<1>5. \A r \in Recipient : rows[a][r].by = h => Unsent(a, r)
  BY <1>1, <1>2 DEF RequestOK, BeforePushes, Round
<1>6. \A r \in Recipient : rows'[a][r].by = h => Unsent(a, r)
  BY <1>2, <1>4, <1>5, RowFacts, NotificationsAssumption
<1>7. \A r \in Recipient, d \in Device : <<r, d>> \in work[h].todo =>
        /\ d \in DevicesOf[r] /\ <<a, r>> \in inbox
        /\ rows'[a][r].status = "reserved" /\ rows'[a][r].by = h
  BY <1>1, <1>2, <1>4, TodoIsEarlier DEF Round, Told, Holds
<1>8. Excused(Current(h))
  BY <1>1, <1>2 DEF RequestOK, Excused
<1>9. RequestOK(h)'
  BY <1>1, <1>2, <1>6, <1>7, <1>8, NextOK DEF Unsent, Round, w
<1>10. \A b \in Activity, s \in Recipient :
          \/ rows'[b][s] = rows[b][s]
          \/ rows[b][s].by = h /\ Unsent(b, s) /\ rows'[b][s] = NoRow
          \/ /\ rows[b][s].by = h /\ rows'[b][s].by = h
             /\ rows'[b][s].status = "delivered" /\ <<b, s>> \in inbox'
  BY <1>4, <1>5
<1>11. inbox \subseteq inbox' /\ inbox' \subseteq Activity \X Recipient
  BY <1>1, <1>4
<1>12. UNCHANGED <<intent, asking, published, members, account, steady, others, pushed,
                   enabled>>
  BY <1>1
<1> QED BY <1>1, <1>3, <1>4, <1>9, <1>10, <1>11, <1>12, OwnRows

\* The inbox gets the activity, whether or not the request hears of it.
LEMMA StoreKeeps ==
  ASSUME IInv, NEW h \in Handler, Store(h)
  PROVE  IInv'
<1> DEFINE a == work[h].act
           stored == [work[h] EXCEPT !.stored = TRUE]
           w == IF stored.verdict = "allowed" THEN [stored EXCEPT !.phase = "devices"]
                ELSE NextRecipient(stored)
           f == [work[h] EXCEPT !.phase = "failed"]
<1>1. /\ work[h].phase = "store" /\ inbox' = inbox \cup {<<a, Current(h)>>}
      /\ UNCHANGED <<intent, asking, published, members, account, steady, rows, others,
                     pushed, enabled>>
      /\ work' = [work EXCEPT ![h] = w] \/ work' = [work EXCEPT ![h] = f]
  BY DEF Store, At, Become, Goto, phone, event
<1>2. /\ work[h] \in WorkRec /\ RequestOK(h) /\ Current(h) \in Recipient /\ a \in Activity
  BY <1>1, Facts DEF RequestOK
<1>3. /\ rows \in [Activity -> [Recipient -> RowRec]] /\ inbox \subseteq Activity \X Recipient
  BY DEF IInv, TypesOK
<1>4. inbox \subseteq inbox' /\ inbox' \subseteq Activity \X Recipient
  BY <1>1, <1>2, <1>3
<1>5. \A b \in Activity, s \in Recipient :
          \/ rows'[b][s] = rows[b][s]
          \/ rows[b][s].by = h /\ Unsent(b, s) /\ rows'[b][s] = NoRow
          \/ /\ rows[b][s].by = h /\ rows'[b][s].by = h
             /\ rows'[b][s].status = "delivered" /\ <<b, s>> \in inbox'
  BY <1>1
<1>6. Still
  BY <1>1, <1>4 DEF Still
<1>7. /\ stored \in WorkRec /\ stored.act = a /\ stored.at = work[h].at
      /\ stored.todo = work[h].todo /\ stored.list = work[h].list /\ stored.verdict = work[h].verdict
  BY <1>2 DEF WorkRec
<1> HIDE DEF stored
<1>8. CASE work' = [work EXCEPT ![h] = f]
  <2>1. /\ f \in WorkRec /\ f.act = a /\ f.at = work[h].at /\ f.todo = work[h].todo /\ f.list = work[h].list
        /\ f.phase = "failed"
    BY <1>2 DEF WorkRec, Phase
  <2> HIDE DEF f
  <2>2. RequestOK(h)'
    BY <1>1, <1>6, <1>8, <2>1, StaysOK DEF BeforePushes, Round
  <2> QED BY <1>1, <1>3, <1>4, <1>5, <1>8, <2>1, <2>2, OwnRows
<1>9. CASE work' = [work EXCEPT ![h] = w] /\ stored.verdict = "allowed"
  <2> DEFINE v == [stored EXCEPT !.phase = "devices"]
  <2>1. work' = [work EXCEPT ![h] = v]
    BY <1>9
  <2>2. /\ v \in WorkRec /\ v.act = a /\ v.at = work[h].at /\ v.todo = work[h].todo /\ v.list = work[h].list
        /\ v.phase = "devices" /\ v.verdict = "allowed"
    BY <1>7, <1>9 DEF WorkRec, Phase
  <2> HIDE DEF v
  <2>3. Holds(h, Current(h))
    BY <1>1, <1>2, <1>7, <1>9 DEF RequestOK
  <2>7. RequestOK(h)'
    <3>1. <<v.act, Current(h)>> \in inbox'
      BY <1>1, <2>2
    <3> QED
      BY <1>1, <1>6, <2>1, <2>2, <2>3, <3>1, StaysOK DEF BeforePushes, Round
  <2> QED BY <1>1, <1>3, <1>4, <1>5, <2>1, <2>2, <2>7, OwnRows
<1>10. CASE work' = [work EXCEPT ![h] = w] /\ stored.verdict # "allowed"
  <2> DEFINE n == NextRecipient(stored)
  <2>1. work' = [work EXCEPT ![h] = n]
    BY <1>10
  <2>2. n \in WorkRec /\ n.act = a /\ n.phase \notin {"idle", "insert"}
    BY <1>7, NextFacts
  <2> HIDE DEF n
  <2>3. \A r \in Recipient :
          rows'[stored.act][r].by = h => \A d \in DevicesOf[r] : pushed'[stored.act][d] = 0
    BY <1>1, <1>2, <1>7 DEF RequestOK, BeforePushes, Round, Unsent
  <2>4. \A r \in Recipient, d \in Device : <<r, d>> \in stored.todo =>
          /\ r = Current(h) \/ <<r, d>> \in work[h].todo
          /\ d \in DevicesOf[r] /\ <<stored.act, r>> \in inbox'
          /\ rows'[stored.act][r].status = "reserved" /\ rows'[stored.act][r].by = h
    BY <1>1, <1>2, <1>4, <1>7, TodoIsEarlier DEF Round, Told, Holds
  <2>5. <<stored.act, Current(h)>> \in inbox' /\ work[h].phase \in Round
        /\ UNCHANGED <<published, members, account, steady>>
    BY <1>1, <1>7 DEF Round
  <2>6. RequestOK(h)'
    BY <1>4, <1>7, <2>1, <2>3, <2>4, <2>5, NextOK DEF n
  <2> QED BY <1>1, <1>3, <1>4, <1>5, <2>1, <2>2, <2>6, OwnRows
<1> QED BY <1>1, <1>8, <1>9, <1>10

LEMMA LoadDevicesKeeps ==
  ASSUME IInv, NEW h \in Handler, LoadDevices(h)
  PROVE  IInv'
<1> DEFINE a == work[h].act
           r == Current(h)
           devices == {r} \X (DevicesOf[r] \cap enabled)
           v == [work[h] EXCEPT !.todo = @ \cup devices]
<1>1. /\ work[h].phase = "devices"
      /\ UNCHANGED <<intent, asking, published, members, account, steady, others, inbox,
                     pushed, enabled>>
      /\ \/ /\ rows' = Completed(rows, h, r) \/ rows' = rows
            /\ work' = [work EXCEPT ![h] = NextRecipient(work[h])]
         \/ /\ rows' = rows /\ work' = [work EXCEPT ![h] = NextRecipient(v)]
  BY DEF LoadDevices, At, Become, Writing, phone, event
<1>2. /\ work[h] \in WorkRec /\ RequestOK(h) /\ r \in Recipient /\ a \in Activity
  BY <1>1, Facts DEF RequestOK
<1>3. /\ rows \in [Activity -> [Recipient -> RowRec]] /\ inbox \subseteq Activity \X Recipient
      /\ enabled \subseteq Device
  BY DEF IInv, TypesOK
<1>4. inbox \subseteq inbox' /\ inbox' \subseteq Activity \X Recipient
  BY <1>1, <1>3
<1>5. Holds(h, r) /\ <<a, r>> \in inbox
  BY <1>1, <1>2 DEF RequestOK, Told
<1>6. \A s \in Recipient : rows[a][s].by = h => Unsent(a, s)
  BY <1>1, <1>2 DEF RequestOK, BeforePushes, Round
<1>7. /\ rows' \in [Activity -> [Recipient -> RowRec]]
      /\ \A b \in Activity, s \in Recipient :
           \/ rows'[b][s] = rows[b][s]
           \/ /\ b = a /\ s = r /\ rows[b][s].by = h
              /\ rows'[b][s].by = h /\ rows'[b][s].status = "delivered"
  BY <1>1, <1>2, <1>3, CompletedFacts
<1>8. \A s \in Recipient : rows'[a][s].by = h => \A d \in DevicesOf[s] : pushed'[a][d] = 0
  BY <1>1, <1>2, <1>6, <1>7 DEF Unsent
<1>9. \A s \in Recipient, d \in Device : <<s, d>> \in work[h].todo =>
          /\ d \in DevicesOf[s] /\ <<a, s>> \in inbox'
          /\ rows'[a][s].status = "reserved" /\ rows'[a][s].by = h
  BY <1>1, <1>2, <1>4, <1>7, TodoIsEarlier DEF Round, Told, Holds
<1>10. \A b \in Activity, s \in Recipient :
          \/ rows'[b][s] = rows[b][s]
          \/ rows[b][s].by = h /\ Unsent(b, s) /\ rows'[b][s] = NoRow
          \/ /\ rows[b][s].by = h /\ rows'[b][s].by = h
             /\ rows'[b][s].status = "delivered" /\ <<b, s>> \in inbox'
  BY <1>1, <1>5, <1>7
<1>11. CASE work' = [work EXCEPT ![h] = NextRecipient(work[h])]
  <2> DEFINE w == NextRecipient(work[h])
  <2>1. w \in WorkRec /\ w.act = a /\ w.phase \notin {"idle", "insert"}
    BY <1>2, NextFacts
  <2>2. work' = [work EXCEPT ![h] = w]
    BY <1>11
  <2> HIDE DEF w
  <2>3. RequestOK(h)'
    BY <1>1, <1>2, <1>4, <1>5, <1>8, <1>9, <2>2, NextOK DEF Round, w
  <2> QED BY <1>1, <1>4, <1>7, <1>10, <2>1, <2>2, <2>3, OwnRows
<1>12. CASE rows' = rows /\ work' = [work EXCEPT ![h] = NextRecipient(v)]
  <2> DEFINE w == NextRecipient(v)
  <2>1. devices \subseteq Recipient \X Device
    BY <1>2, <1>3
  <2>2. \A s \in Recipient, d \in Device : <<s, d>> \in devices => s = r /\ d \in DevicesOf[r]
    OBVIOUS
  <2> HIDE DEF devices
  <2>3. v \in WorkRec /\ v.act = a /\ v.at = work[h].at /\ v.todo = work[h].todo \cup devices
        /\ v.list = work[h].list
    BY <1>2, <2>1 DEF WorkRec
  <2> HIDE DEF v
  <2>4. w \in WorkRec /\ w.act = a /\ w.phase \notin {"idle", "insert"}
    BY <2>3, NextFacts
  <2>5. work' = [work EXCEPT ![h] = w]
    BY <1>12
  <2> HIDE DEF w
  <2>6. \A s \in Recipient, d \in Device : <<s, d>> \in v.todo =>
          /\ s = r \/ <<s, d>> \in work[h].todo
          /\ d \in DevicesOf[s] /\ <<v.act, s>> \in inbox'
          /\ rows'[v.act][s].status = "reserved" /\ rows'[v.act][s].by = h
    <3> SUFFICES ASSUME NEW s \in Recipient, NEW d \in Device, <<s, d>> \in v.todo
                 PROVE  /\ s = r \/ <<s, d>> \in work[h].todo
                        /\ d \in DevicesOf[s] /\ <<a, s>> \in inbox'
                        /\ rows'[a][s].status = "reserved" /\ rows'[a][s].by = h
      BY <2>3
    <3>1. CASE <<s, d>> \in work[h].todo
      BY <1>9, <3>1
    <3>2. CASE <<s, d>> \in devices
      BY <1>1, <1>5, <1>12, <2>2, <3>2 DEF Holds
    <3> QED BY <2>3, <3>1, <3>2
  <2>7. /\ work[h].phase \in Round /\ UNCHANGED <<published, members, account, steady>>
        /\ <<v.act, Current(h)>> \in inbox'
        /\ \A s \in Recipient :
             rows'[v.act][s].by = h => \A d \in DevicesOf[s] : pushed'[v.act][d] = 0
    BY <1>1, <1>4, <1>5, <1>8, <2>3 DEF Round
  <2>8. RequestOK(h)'
    BY <1>4, <2>3, <2>5, <2>6, <2>7, NextOK DEF w
  <2> QED BY <1>1, <1>4, <1>7, <1>10, <2>4, <2>5, <2>8, OwnRows
<1> QED BY <1>1, <1>11, <1>12

\* releaseReservations: the request has pushed nothing when it fails.
LEMMA ReleaseKeeps ==
  ASSUME IInv, NEW h \in Handler, Release(h)
  PROVE  IInv'
<1> DEFINE a == work[h].act
           w == [work[h] EXCEPT !.phase = "answer", !.answer = "retry"]
<1>1. /\ work[h].phase = "failed" /\ work' = [work EXCEPT ![h] = w]
      /\ UNCHANGED <<intent, asking, published, members, account, steady, others, inbox,
                     pushed, enabled>>
  BY DEF Release, At, Become, Answering, phone, event
<1>2. /\ work[h] \in WorkRec /\ RequestOK(h) /\ a \in Activity
  BY <1>1, Facts DEF RequestOK
<1>3. /\ rows \in [Activity -> [Recipient -> RowRec]] /\ inbox \subseteq Activity \X Recipient
  BY DEF IInv, TypesOK
<1>4. \A r \in Recipient : rows[a][r].by = h => Unsent(a, r)
  BY <1>1, <1>2 DEF RequestOK, BeforePushes
<1>5. PICK lost \in SUBSET work[h].mine :
        rows' = [rows EXCEPT ![a] = [r \in Recipient |->
            IF r \in work[h].mine \ lost THEN Deleted(rows, h, r)[a][r] ELSE @[r]]]
  BY DEF Release
<1>6. \A b \in Activity, r \in Recipient :
        /\ b # a => rows'[b] = rows[b]
        /\ rows'[a][r] \in {Deleted(rows, h, r)[a][r], rows[a][r]}
  BY <1>2, <1>3, <1>5
<1>7. \A r \in Recipient :
        /\ Deleted(rows, h, r)[a][r] \in RowRec
        /\ \/ Deleted(rows, h, r)[a][r] = rows[a][r]
           \/ rows[a][r].by = h /\ Deleted(rows, h, r)[a][r] = NoRow
  BY <1>2, DeletedFacts
<1>8. \A b \in Activity, r \in Recipient :
          \/ rows'[b][r] = rows[b][r]
          \/ rows[b][r].by = h /\ Unsent(b, r) /\ rows'[b][r] = NoRow
          \/ /\ rows[b][r].by = h /\ rows'[b][r].by = h
             /\ rows'[b][r].status = "delivered" /\ <<b, r>> \in inbox'
  BY <1>4, <1>6, <1>7
<1>9. rows' \in [Activity -> [Recipient -> RowRec]]
  <2>1. [r \in Recipient |->
           IF r \in work[h].mine \ lost THEN Deleted(rows, h, r)[a][r] ELSE rows[a][r]]
          \in [Recipient -> RowRec]
    BY <1>2, <1>3, <1>7
  <2> QED BY <1>2, <1>3, <1>5, <2>1
<1>10. w \in WorkRec /\ w.act = a /\ w.phase = "answer" /\ w.answer = "retry"
  BY <1>2 DEF WorkRec, Phase
<1> HIDE DEF w
<1>11. work'[h] = w
  BY <1>1 DEF IInv, TypesOK
<1>12. RequestOK(h)'
  BY <1>1, <1>2, <1>10, <1>11 DEF RequestOK, BeforePushes, Round
<1>13. inbox \subseteq inbox' /\ inbox' \subseteq Activity \X Recipient
  BY <1>1, <1>3
<1> QED BY <1>1, <1>8, <1>9, <1>10, <1>12, <1>13, OwnRows

\* A recipient's pushes are over: the row is completed if one may have got through, and
\* given back if none has.
LEMMA SettleKeeps ==
  ASSUME IInv, NEW h \in Handler, Settle(h)
  PROVE  IInv'
<1> DEFINE v == work[h]
           a == v.act
           r == Current(h)
           settled == [v EXCEPT !.delivered = @ \/ v.taken,
                                !.unconfirmed = @ \/ (v.unclear /\ ~v.taken)]
           answer == IF settled.delivered \/ (settled.unconfirmed /\ settled.stored)
                     THEN "ok" ELSE "retry"
           w == IF v.todo # {} THEN Pushing(settled) ELSE Answering(settled, answer)
<1>1. /\ v.phase = "push" /\ Left(v, r) = {} /\ work' = [work EXCEPT ![h] = w]
      /\ UNCHANGED <<intent, asking, published, members, account, steady, others, inbox,
                     pushed, enabled>>
  BY DEF Settle, At, Become, phone, event
<1>2. /\ v \in WorkRec /\ RequestOK(h) /\ a \in Activity /\ r \in Recipient
  BY <1>1, Facts DEF RequestOK
<1>3. /\ rows \in [Activity -> [Recipient -> RowRec]] /\ inbox \subseteq Activity \X Recipient
  BY DEF IInv, TypesOK
<1>4. /\ Holds(h, r) /\ Told(a, r) /\ (v.taken \/ v.unclear \/ Unsent(a, r))
      /\ TodoOK(h) /\ AllTold(h) /\ published[a] # "no"
  BY <1>1, <1>2 DEF RequestOK
<1>5. \/ rows' = rows
      \/ (v.taken \/ v.unclear) /\ rows' = Completed(rows, h, r)
      \/ Unsent(a, r) /\ rows' = Deleted(rows, h, r)
  BY <1>4 DEF Settle, Writing, Closes
<1>6. /\ rows' \in [Activity -> [Recipient -> RowRec]]
      /\ \A b \in Activity, s \in Recipient :
              \/ rows'[b][s] = rows[b][s]
              \/ /\ b = a /\ s = r /\ rows[b][s].by = h
                 /\ \/ Unsent(b, s) /\ rows'[b][s] = NoRow
                    \/ rows'[b][s].by = h /\ rows'[b][s].status = "delivered"
  <2>1. CASE rows' = rows
    BY <1>3, <2>1
  <2>2. CASE rows' = Completed(rows, h, r)
    BY <1>2, <2>2, CompletedFacts
  <2>3. CASE Unsent(a, r) /\ rows' = Deleted(rows, h, r)
    BY <1>2, <2>3, DeletedFacts
  <2> QED BY <1>5, <2>1, <2>2, <2>3
<1>7. \A b \in Activity, s \in Recipient :
          \/ rows'[b][s] = rows[b][s]
          \/ rows[b][s].by = h /\ Unsent(b, s) /\ rows'[b][s] = NoRow
          \/ /\ rows[b][s].by = h /\ rows'[b][s].by = h
             /\ rows'[b][s].status = "delivered" /\ <<b, s>> \in inbox'
  <2>1. <<a, r>> \in inbox'
    BY <1>1, <1>4 DEF Told
  <2> HIDE DEF v, a, r
  <2> QED BY <1>6, <2>1
<1>8. \A s \in Recipient, d \in Device : <<s, d>> \in v.todo =>
        /\ s # r /\ d \in DevicesOf[s] /\ rows'[a][s] = rows[a][s]
        /\ Holds(h, s) /\ Told(a, s) /\ pushed[a][d] = 0 /\ Unsent(a, s)
  <2> SUFFICES ASSUME NEW s \in Recipient, NEW d \in Device, <<s, d>> \in v.todo
               PROVE  /\ s # r /\ d \in DevicesOf[s] /\ rows'[a][s] = rows[a][s]
                      /\ Holds(h, s) /\ Told(a, s) /\ pushed[a][d] = 0 /\ Unsent(a, s)
    OBVIOUS
  <2>1. /\ d \in DevicesOf[s] /\ Holds(h, s) /\ Told(a, s) /\ pushed[a][d] = 0
        /\ Unsent(a, s) \/ s = r
    BY <1>4 DEF TodoOK
  <2>2. s # r
    BY <1>1, <2>1 DEF Left
  <2> QED BY <1>2, <1>6, <2>1, <2>2
<1>9. inbox \subseteq inbox' /\ inbox' \subseteq Activity \X Recipient
  BY <1>1, <1>3
<1>10. /\ settled \in WorkRec /\ settled.act = a /\ settled.todo = v.todo
  <2>1. (v.delivered \/ v.taken) \in BOOLEAN /\ (v.unconfirmed \/ (v.unclear /\ ~v.taken)) \in BOOLEAN
    BY Zenon
  <2> QED BY <1>2, <2>1 DEF WorkRec
<1>11. answer \in {"ok", "retry"}
  OBVIOUS
<1> HIDE DEF settled, answer
<1>12. CASE v.todo # {}
  <2> DEFINE n == Pushing(settled)
  <2>1. /\ n \in WorkRec /\ n.phase = "push" /\ n.act = a /\ n.todo = v.todo
        /\ n.taken = FALSE /\ n.unclear = FALSE
        /\ \E d \in Device : <<People[n.at], d>> \in n.todo
    BY <1>8, <1>10, <1>12, PushingFacts
  <2>2. work' = [work EXCEPT ![h] = n]
    BY <1>1, <1>12
  <2> HIDE DEF n
  <2>3. People[n.at] \in Recipient
    BY <2>1, PeopleFacts DEF WorkRec
  <2>4. work'[h] = n /\ Current(h)' = People[n.at]
    BY <2>2 DEF IInv, TypesOK, Current
  <2>5. TodoOK(h)'
    BY <1>1, <1>8, <2>1, <2>4 DEF TodoOK, Holds, Told, Unsent
  <2>6. (Holds(h, Current(h)) /\ Told(work[h].act, Current(h)) /\ Unsent(work[h].act, Current(h)))'
    <3>1. /\ Holds(h, People[n.at]) /\ Told(a, People[n.at]) /\ Unsent(a, People[n.at])
          /\ rows'[a][People[n.at]] = rows[a][People[n.at]]
      BY <1>8, <2>1, <2>3
    <3>2. rows'[a][People[n.at]] = rows[a][People[n.at]] /\ inbox \subseteq inbox'
      BY <1>9, <3>1
    <3>3. \A d \in DevicesOf[People[n.at]] : pushed'[a][d] = 0
      BY <1>1, <3>1 DEF Unsent
    <3> QED BY <2>1, <2>4, <3>1, <3>2, <3>3 DEF Holds, Told, Unsent
  <2>7. AllTold(h)'
    BY <1>1, <1>4, <2>1, <2>4 DEF AllTold, Told, Excused
  <2>8. RequestOK(h)'
    BY <1>1, <1>2, <1>4, <2>1, <2>4, <2>5, <2>6, <2>7 DEF RequestOK, BeforePushes, Round
  <2> QED BY <1>1, <1>6, <1>7, <1>9, <2>1, <2>2, <2>8, OwnRows
<1>13. CASE v.todo = {}
  <2> DEFINE n == [settled EXCEPT !.phase = "answer", !.answer = answer]
  <2>1. /\ n \in WorkRec /\ n.phase = "answer" /\ n.act = a /\ n.answer \in {"ok", "retry"}
    BY <1>10, <1>11 DEF WorkRec, Phase
  <2>2. work' = [work EXCEPT ![h] = n]
    BY <1>1, <1>13 DEF Answering
  <2> HIDE DEF n
  <2>3. work'[h] = n
    BY <2>2 DEF IInv, TypesOK
  <2>4. AllTold(h)'
    BY <1>1, <1>4, <2>1, <2>3 DEF AllTold, Told, Excused
  <2>5. RequestOK(h)'
    BY <1>1, <1>2, <1>4, <2>1, <2>3, <2>4 DEF RequestOK, BeforePushes, Round
  <2> QED BY <1>1, <1>6, <1>7, <1>9, <2>1, <2>2, <2>5, OwnRows
<1> QED BY <1>12, <1>13

\* The rest of the transaction: the row was not there, and nobody else is making it.
LEMMA InsertKeeps ==
  ASSUME IInv, NEW h \in Handler, Insert(h)
  PROVE  IInv'
<1> DEFINE a == work[h].act
           r == Current(h)
           allowed == work[h].verdict = "allowed"
           row == IF allowed THEN Row("reserved", h) ELSE Row("suppressed", Nobody)
           v == [Reserved(work[h]) EXCEPT !.mine = IF allowed THEN @ \cup {r} ELSE @]
           f == [work[h] EXCEPT !.phase = "failed"]
<1>1. /\ work[h].phase = "insert" /\ rows' = Set(rows, a, r, row)
      /\ UNCHANGED <<intent, asking, published, members, account, steady, others, inbox,
                     pushed, enabled>>
      /\ work' = [work EXCEPT ![h] = v] \/ work' = [work EXCEPT ![h] = f]
  BY DEF Insert, At, Become, Goto, phone, event
<1>2. /\ work[h] \in WorkRec /\ RequestOK(h) /\ a \in Activity /\ r \in Recipient
  BY <1>1, Facts DEF RequestOK
<1>3. Alone(h) /\ TodoOK(h) /\ RoundOK(h) /\ published[a] # "no"
  BY <1>1, <1>2 DEF RequestOK, Round
<1>4. /\ rows[a][r].status = "none" /\ rows[a][r].by = Nobody /\ Unsent(a, r)
  BY <1>2, <1>3 DEF IInv, RowOK, Alone
<1>5. /\ row \in RowRec /\ row.status \in {"reserved", "suppressed"}
      /\ row.by \in {h, Nobody}
      /\ allowed => row.status = "reserved" /\ row.by = h
  BY RowFacts
<1> HIDE DEF row
<1>6. /\ rows' \in [Activity -> [Recipient -> RowRec]] /\ rows'[a][r] = row
      /\ \A b \in Activity, s \in Recipient : b # a \/ s # r => rows'[b][s] = rows[b][s]
  BY <1>1, <1>2, <1>5 DEF Set, IInv, TypesOK
<1>7. PICK w \in WorkRec :
        /\ w.act = a /\ w.at = work[h].at /\ w.todo = work[h].todo /\ w.list = work[h].list
        /\ w.phase \in {"link", "store", "failed"}
        /\ w.phase = "link" => r \in Astray
        /\ w.phase # "failed" => w.verdict = work[h].verdict
        /\ work' = [work EXCEPT ![h] = w]
  <2>1. /\ v \in WorkRec /\ v.act = a /\ v.at = work[h].at /\ v.todo = work[h].todo /\ v.list = work[h].list
        /\ v.phase \in {"link", "store"}
        /\ v.phase = "link" => r \in Astray
        /\ v.verdict = work[h].verdict
    <3> DEFINE x == Reserved(work[h])
    <3>1. /\ x \in WorkRec /\ x.act = a /\ x.at = work[h].at /\ x.todo = work[h].todo
          /\ x.list = work[h].list /\ x.verdict = work[h].verdict
          /\ x.phase \in {"link", "store"} /\ (x.phase = "link" => r \in Astray)
      BY <1>2, ReservedFacts DEF Current
    <3> HIDE DEF x
    <3>2. x.mine \cup {r} \in SUBSET Recipient
      BY <1>2, <3>1 DEF WorkRec
    <3>3. v = [x EXCEPT !.mine = IF allowed THEN x.mine \cup {r} ELSE x.mine]
      BY DEF x
    <3> HIDE DEF v
    <3>4. CASE allowed
      BY <3>1, <3>2, <3>3, <3>4 DEF WorkRec
    <3>5. CASE ~allowed
      BY <3>1, <3>3, <3>5 DEF WorkRec
    <3> QED BY <3>4, <3>5
  <2>2. /\ f \in WorkRec /\ f.act = a /\ f.at = work[h].at /\ f.todo = work[h].todo /\ f.list = work[h].list
        /\ f.phase = "failed"
    BY <1>2 DEF WorkRec, Phase
  <2> HIDE DEF v, f
  <2>3. CASE work' = [work EXCEPT ![h] = v]
    BY <2>1, <2>3
  <2>4. CASE work' = [work EXCEPT ![h] = f]
    BY <2>2, <2>4
  <2> QED BY <1>1, <2>3, <2>4
<1>8. TypesOK'
  BY <1>1, <1>6, <1>7 DEF IInv, TypesOK
<1>9. /\ work'[h] = w
      /\ \A g \in Handler \ {h} : work'[g] = work[g] /\ g # Nobody
  BY <1>7, NotificationsAssumption DEF IInv, TypesOK
<1>10. ASSUME NEW g \in Handler \ {h}
       PROVE  Leaves(g) /\ (At(g, "insert") => Alone(g)')
  <2>1. \A b \in Activity, s \in Recipient :
          /\ rows'[b][s].by = g <=> rows[b][s].by = g
          /\ rows[b][s].by = g => rows'[b][s] = rows[b][s]
    BY <1>4, <1>5, <1>6, <1>9
  <2>2. Leaves(g)
    BY <1>1, <1>9, <2>1 DEF Leaves
  <2>3. ASSUME At(g, "insert")
        PROVE  Alone(g)'
    <3>1. Alone(g) /\ work[g].act \in Activity /\ Current(g) \in Recipient
      BY <2>3, Facts DEF At, RequestOK
    <3>2. work[g].act # a \/ Current(g) # r
      BY <1>3, <2>3 DEF Alone
    <3>3. rows'[work[g].act][Current(g)] = rows[work[g].act][Current(g)]
      BY <1>6, <3>1, <3>2
    <3>4. work'[h].phase # "insert"
      BY <1>7, <1>9
    <3> QED BY <1>9, <2>3, <3>1, <3>3, <3>4 DEF Alone, At, Current
  <2> QED BY <2>2, <2>3
<1>11. Current(h)' = r
  BY <1>7, <1>9 DEF Current
<1>12. TodoOK(h)'
  <2> SUFFICES ASSUME NEW s \in Recipient, NEW d \in Device, <<s, d>> \in work[h].todo
               PROVE  /\ d \in DevicesOf[s] /\ Holds(h, s)' /\ Told(a, s)'
                      /\ pushed'[a][d] = 0 /\ Unsent(a, s)'
    BY <1>7, <1>9 DEF TodoOK
  <2>1. /\ d \in DevicesOf[s] /\ Holds(h, s) /\ Told(a, s) /\ pushed[a][d] = 0 /\ Unsent(a, s)
    BY <1>1, <1>3 DEF TodoOK, At
  <2>2. s # r
    BY <1>4, <2>1 DEF Holds
  <2>3. rows'[a][s] = rows[a][s]
    BY <1>2, <1>6, <2>2
  <2> QED BY <1>1, <1>7, <1>9, <2>1, <2>3 DEF Holds, Told, Unsent
<1>13. RoundOK(h)'
  BY <1>1, <1>3, <1>7, <1>9 DEF RoundOK, Told, Excused
<1>14. (\A s \in Recipient : rows[work[h].act][s].by = h => Unsent(work[h].act, s))'
  <2>1. \A s \in Recipient : rows[a][s].by = h => Unsent(a, s)
    BY <1>1, <1>2 DEF RequestOK, BeforePushes, Round
  <2>2. \A s \in Recipient : rows'[a][s].by = h => Unsent(a, s)
    BY <1>2, <1>4, <1>6, <2>1
  <2> QED BY <1>1, <1>7, <1>9, <2>2 DEF Unsent
<1>15. w.phase # "failed" /\ w.verdict = "allowed" => Holds(h, Current(h))'
  BY <1>5, <1>6, <1>7, <1>9, <1>11 DEF Holds
<1>16. HandlerOK(h)'
  BY <1>1, <1>2, <1>3, <1>7, <1>9, <1>11, <1>12, <1>13, <1>14, <1>15 DEF HandlerOK, RequestOK
<1>17. ASSUME NEW b \in Activity, NEW s \in Recipient
       PROVE  RowOK(b, s)'
  <2>1. RowOK(b, s) /\ rows[b][s].by \in Handler \cup {Nobody}
    BY DEF IInv, TypesOK, RowRec
  <2>2. CASE b = a /\ s = r
    <3>1. \A d \in DevicesOf[s] : pushed'[b][d] = 0
      BY <1>1, <1>4, <2>2 DEF Unsent
    <3>2. rows'[b][s] = row
      BY <1>6, <2>2
    <3>3. row.status \notin {"none", "delivered"}
      BY <1>5
    <3>4. rows'[b][s].by # Nobody => work'[rows'[b][s].by].act = b
      BY <1>5, <1>7, <1>9, <2>2, <3>2
    <3> QED BY <3>1, <3>2, <3>3, <3>4 DEF RowOK, Unsent
  <2>3. CASE b # a \/ s # r
    <3>1. rows'[b][s] = rows[b][s]
      BY <1>6, <2>3
    <3>2. rows[b][s].by # Nobody => work'[rows[b][s].by].act = b
      BY <1>7, <1>9, <2>1 DEF RowOK
    <3> QED BY <1>1, <2>1, <3>1, <3>2 DEF RowOK, Unsent, Told
  <2> QED BY <2>2, <2>3
<1>18. NoSecondPush' /\ ForgottenMeansTold' /\ UnsentIsKept'
  BY <1>1 DEF IInv, NoSecondPush, ForgottenMeansTold, UnsentIsKept
<1> QED BY <1>1, <1>8, <1>10, <1>16, <1>17, <1>18, RequestMoves

\* Only the holder of the reservation pushes, and only to devices it has not pushed to.
LEMMA PushKeeps ==
  ASSUME IInv, NEW h \in Handler, Push(h)
  PROVE  IInv'
<1> DEFINE v == work[h]
           a == v.act
           r == Current(h)
<1>1. PICK d \in Left(v, r) :
        LET sent == [v EXCEPT !.todo = @ \ {<<r, d>>}] IN
        \/ Become(h, sent) /\ UNCHANGED pushed /\ enabled' \in {enabled, enabled \ {d}}
        \/ Become(h, [sent EXCEPT !.taken = TRUE]) /\ pushed' = Got(a, d) /\ UNCHANGED enabled
        \/ /\ Become(h, [sent EXCEPT !.unclear = TRUE])
           /\ pushed' \in {pushed, Got(a, d)} /\ UNCHANGED enabled
  BY DEF Push
<1>2. /\ v.phase = "push" /\ UNCHANGED <<intent, asking, published, members, account,
                                         steady, rows, others, inbox>>
  BY DEF Push, At, phone, event
<1>3. /\ v \in WorkRec /\ RequestOK(h) /\ a \in Activity /\ r \in Recipient
  BY <1>2, Facts DEF RequestOK
<1>4. /\ TodoOK(h) /\ AllTold(h) /\ published[a] # "no" /\ Holds(h, r) /\ Told(a, r)
      /\ (v.taken \/ v.unclear \/ Unsent(a, r))
  BY <1>2, <1>3 DEF RequestOK
<1>5. d \in DevicesOf[r] /\ d \in Device /\ <<r, d>> \in v.todo
  BY <1>3 DEF Left, Device
<1>6. pushed[a][d] = 0 /\ pushed \in [Activity -> [Device -> Nat]]
  BY <1>3, <1>4, <1>5 DEF TodoOK, IInv, TypesOK
<1>7. /\ pushed' \in [Activity -> [Device -> Nat]]
      /\ \A b \in Activity, e \in Device : b # a \/ e # d => pushed'[b][e] = pushed[b][e]
      /\ pushed'[a][d] <= 1
  BY <1>1, <1>3, <1>5, <1>6 DEF Got
<1>8. PICK w \in WorkRec :
        /\ w.act = a /\ w.at = v.at /\ w.phase = "push" /\ w.todo = v.todo \ {<<r, d>>}
        /\ w.taken \/ w.unclear \/ (pushed' = pushed /\ w.taken = v.taken /\ w.unclear = v.unclear)
        /\ work' = [work EXCEPT ![h] = w]
  <2> DEFINE sent == [v EXCEPT !.todo = @ \ {<<r, d>>}]
  <2>1. /\ sent \in WorkRec /\ sent.act = a /\ sent.at = v.at /\ sent.phase = "push"
        /\ sent.todo = v.todo \ {<<r, d>>} /\ sent.taken = v.taken /\ sent.unclear = v.unclear
    BY <1>2, <1>3 DEF WorkRec
  <2> HIDE DEF sent
  <2> DEFINE t == [sent EXCEPT !.taken = TRUE]
             u == [sent EXCEPT !.unclear = TRUE]
  <2>2. /\ t \in WorkRec /\ t.act = a /\ t.at = v.at /\ t.phase = "push"
        /\ t.todo = v.todo \ {<<r, d>>} /\ t.taken
    BY <2>1 DEF WorkRec
  <2>3. /\ u \in WorkRec /\ u.act = a /\ u.at = v.at /\ u.phase = "push"
        /\ u.todo = v.todo \ {<<r, d>>} /\ u.unclear
    BY <2>1 DEF WorkRec
  <2>4. \/ work' = [work EXCEPT ![h] = sent] /\ pushed' = pushed
        \/ work' = [work EXCEPT ![h] = t] \/ work' = [work EXCEPT ![h] = u]
    BY <1>1 DEF Become, sent
  <2> HIDE DEF t, u
  <2> QED BY <2>1, <2>2, <2>3, <2>4
<1>9. /\ work'[h] = w
      /\ \A g \in Handler \ {h} : work'[g] = work[g]
  BY <1>8 DEF IInv, TypesOK
<1>10. \A b \in Activity, s \in Recipient : b # a \/ s # r =>
         \A e \in DevicesOf[s] : e \in Device /\ pushed'[b][e] = pushed[b][e]
  <2> SUFFICES ASSUME NEW b \in Activity, NEW s \in Recipient, b # a \/ s # r,
                      NEW e \in DevicesOf[s]
               PROVE  e \in Device /\ pushed'[b][e] = pushed[b][e]
    OBVIOUS
  <2>1. e \in Device
    BY DEF Device
  <2>2. s # r => e # d
    BY <1>3, <1>5, NotificationsAssumption
  <2> QED BY <1>7, <2>1, <2>2
<1>11. TypesOK'
  BY <1>1, <1>2, <1>7, <1>8 DEF IInv, TypesOK
<1>12. ASSUME NEW g \in Handler \ {h}
       PROVE  Leaves(g) /\ (At(g, "insert") => Alone(g)')
  <2>1. \A b \in Activity, s \in Recipient : rows[b][s].by = g => b # a \/ s # r
    BY <1>4 DEF Holds
  <2>2. Leaves(g)
    BY <1>2, <1>9, <1>10, <2>1 DEF Leaves
  <2>3. ASSUME At(g, "insert")
        PROVE  Alone(g)'
    <3>1. Alone(g) /\ work'[h].phase # "insert"
      BY <1>8, <1>9, <2>3, Facts DEF At, RequestOK
    <3> QED BY <1>2, <1>9, <2>3, <3>1 DEF Alone, At, Current
  <2> QED BY <2>2, <2>3
<1>13. Current(h)' = r
  BY <1>8, <1>9 DEF Current
<1>14. TodoOK(h)'
  <2> SUFFICES ASSUME NEW s \in Recipient, NEW e \in Device, <<s, e>> \in v.todo,
                      <<s, e>> # <<r, d>>
               PROVE  /\ e \in DevicesOf[s] /\ Holds(h, s)' /\ Told(a, s)'
                      /\ pushed'[a][e] = 0
                      /\ Unsent(a, s)' \/ s = r
    BY <1>8, <1>9, <1>13 DEF TodoOK, At
  <2>1. /\ e \in DevicesOf[s] /\ Holds(h, s) /\ Told(a, s) /\ pushed[a][e] = 0
        /\ Unsent(a, s) \/ s = r
    BY <1>4 DEF TodoOK
  <2>2. Holds(h, s)' /\ Told(a, s)'
    BY <1>2, <1>8, <1>9, <2>1 DEF Holds, Told
  <2>3. pushed'[a][e] = 0
    BY <1>3, <1>7, <1>10, <2>1
  <2>4. s # r => Unsent(a, s)'
    BY <1>3, <1>8, <1>9, <1>10, <2>1 DEF Unsent
  <2> QED BY <2>1, <2>2, <2>3, <2>4
<1>15. AllTold(h)' /\ Holds(h, Current(h))' /\ Told(work[h].act, Current(h))'
  BY <1>2, <1>4, <1>8, <1>9, <1>13 DEF AllTold, Told, Excused, Holds
<1>16. (work[h].taken \/ work[h].unclear \/ Unsent(work[h].act, Current(h)))'
  BY <1>4, <1>8, <1>9, <1>13 DEF Unsent
<1>17. HandlerOK(h)'
  BY <1>2, <1>3, <1>4, <1>8, <1>9, <1>14, <1>15, <1>16
     DEF HandlerOK, RequestOK, BeforePushes, Round
<1>18. ASSUME NEW b \in Activity, NEW s \in Recipient
       PROVE  RowOK(b, s)'
  <2>1. RowOK(b, s) /\ rows[b][s].by \in Handler \cup {Nobody}
    BY DEF IInv, TypesOK, RowRec
  <2>2. rows[b][s].by # Nobody => work'[rows[b][s].by].act = b
    BY <1>8, <1>9, <2>1 DEF RowOK
  <2>3. CASE b = a /\ s = r
    BY <1>2, <1>4, <2>1, <2>2, <2>3 DEF RowOK, Holds, Told
  <2>4. CASE b # a \/ s # r
    <3>1. Unsent(b, s)' <=> Unsent(b, s)
      BY <1>10, <2>4 DEF Unsent
    <3> QED BY <1>2, <2>1, <2>2, <3>1 DEF RowOK, Told
  <2> QED BY <2>3, <2>4
<1>19. NoSecondPush'
  BY <1>7 DEF IInv, NoSecondPush
<1>20. ForgottenMeansTold' /\ UnsentIsKept'
  BY <1>2 DEF IInv, ForgottenMeansTold, UnsentIsKept
<1> QED BY <1>2, <1>11, <1>12, <1>17, <1>18, <1>19, <1>20, RequestMoves

\* The phone hears the answer, if it still waits for it.
LEMMA EndKeeps ==
  ASSUME IInv, NEW h \in Handler, work[h].phase # "idle", NEW answer, answer # "retry" =>
           (At(h, "answer") /\ answer = work[h].answer) \/ Sender \notin steady',
         Hear(work[h].act, h, answer), rows' = Released(h), Become(h, Idle),
         UNCHANGED <<published, members, account, others, inbox, pushed, enabled>>,
         steady' \subseteq steady
  PROVE  IInv'
<1> DEFINE a == work[h].act
<1>1. work[h] \in WorkRec /\ RequestOK(h) /\ a \in Activity /\ published[a] # "no"
  BY Facts DEF RequestOK
<1>2. \A b \in Activity, r \in Recipient :
        /\ rows[b][r] \in RowRec /\ rows'[b][r] \in RowRec
        /\ rows'[b][r].status = rows[b][r].status
        /\ rows'[b][r].by = IF rows[b][r].by = h THEN Nobody ELSE rows[b][r].by
  <2> SUFFICES ASSUME NEW b \in Activity, NEW r \in Recipient
               PROVE  /\ rows[b][r] \in RowRec /\ rows'[b][r] \in RowRec
                      /\ rows'[b][r].status = rows[b][r].status
                      /\ rows'[b][r].by = IF rows[b][r].by = h THEN Nobody ELSE rows[b][r].by
    OBVIOUS
  <2>1. rows[b][r] \in RowRec
    BY DEF IInv, TypesOK
  <2>2. rows'[b][r] = IF rows[b][r].by = h THEN [rows[b][r] EXCEPT !.by = Nobody] ELSE rows[b][r]
    BY DEF Released
  <2> QED BY <2>1, <2>2 DEF RowRec
<1>3. rows' \in [Activity -> [Recipient -> RowRec]]
  BY <1>2 DEF Released
<1>4. /\ asking' \in [Activity -> Handler \cup {Nobody}]
      /\ intent' \in [Activity -> {"saved", "listed", "unlisted", "forgotten"}]
      /\ \A b \in Activity : intent'[b] # intent[b] => b = a /\ answer # "retry"
  BY <1>1 DEF Hear, phone, Keeps, IInv, TypesOK
<1>5. /\ work'[h] = Idle /\ \A g \in Handler \ {h} : work'[g] = work[g] /\ g # Nobody
      /\ h # Nobody
  BY NotificationsAssumption DEF IInv, TypesOK, Become
<1>6. TypesOK'
  BY <1>3, <1>4, IdleFacts DEF IInv, TypesOK, Become
<1>7. ASSUME NEW g \in Handler \ {h}
      PROVE  Leaves(g) /\ (At(g, "insert") => Alone(g)')
  <2>1. Leaves(g)
    BY <1>2, <1>5 DEF Leaves
  <2>2. ASSUME At(g, "insert")
        PROVE  Alone(g)'
    <3>1. Alone(g) /\ work[g].act \in Activity /\ Current(g) \in Recipient
      BY <2>2, Facts DEF At, RequestOK
    <3>2. work'[h].phase # "insert"
      BY <1>5, IdleFacts
    <3>3. rows'[work[g].act][Current(g)].status = "none"
      BY <1>2, <3>1 DEF Alone
    <3> QED BY <1>5, <2>2, <3>1, <3>2, <3>3 DEF Alone, At, Current
  <2> QED BY <2>1, <2>2
<1>8. HandlerOK(h)'
  BY <1>2, <1>5, IdleFacts DEF HandlerOK, Resting
<1>9. ASSUME NEW b \in Activity, NEW r \in Recipient
      PROVE  RowOK(b, r)'
  <2>1. RowOK(b, r) /\ rows[b][r].by \in Handler \cup {Nobody}
    BY DEF IInv, TypesOK, RowRec
  <2>2. rows'[b][r].by # Nobody => work'[rows'[b][r].by].act = b
    BY <1>2, <1>5, <2>1 DEF RowOK
  <2> QED BY <1>2, <1>5, <2>1, <2>2 DEF RowOK, Unsent, Told
<1>10. NoSecondPush'
  BY DEF IInv, NoSecondPush
<1>11. UnsentIsKept'
  BY <1>1, <1>4 DEF IInv, UnsentIsKept
<1>12. ForgottenMeansTold'
  <2> SUFFICES ASSUME NEW b \in Activity, intent'[b] = "forgotten", published[b] = "yes",
                      Sender \in steady', NEW r \in steady' \ (Astray \cup {Sender})
               PROVE  <<b, r>> \in inbox
    BY DEF ForgottenMeansTold
  <2>1. CASE intent[b] = "forgotten"
    BY <2>1 DEF IInv, ForgottenMeansTold
  <2>2. CASE intent[b] # "forgotten"
    <3>1. b = a /\ answer # "retry"
      BY <1>4, <2>2
    <3>2. work[h].phase = "answer" /\ work[h].answer # "retry"
      BY <3>1 DEF At
    <3>3. work[h].answer \in {"ok", "no-eligible-recipients"}
      BY <1>1, <3>1, <3>2 DEF RequestOK, WorkRec
    <3>4. AllTold(h) /\ r \in Recipient
      BY <1>1, <3>2, <3>3 DEF RequestOK, IInv, TypesOK, Everybody
    <3> QED BY <3>1, <3>4 DEF AllTold, Excused, Told
  <2> QED BY <2>1, <2>2
<1> QED BY <1>6, <1>7, <1>8, <1>9, <1>10, <1>11, <1>12, RequestMoves

LEMMA FinishKeeps ==
  ASSUME IInv, NEW h \in Handler, Finish(h)
  PROVE  IInv'
BY EndKeeps DEF Finish, At, event

LEMMA CrashKeeps ==
  ASSUME IInv, NEW h \in Handler, Crash(h)
  PROVE  IInv'
BY EndKeeps DEF Crash, At, event

LEMMA UnauthorizedKeeps ==
  ASSUME IInv, NEW h \in Handler, Unauthorized(h)
  PROVE  IInv'
BY EndKeeps DEF Unauthorized, At
-----------------------------------------------------------------------------
LEMMA StepKeeps == IInv /\ [Next]_vars => IInv'
<1> SUFFICES ASSUME IInv, [Next]_vars
             PROVE  IInv'
  OBVIOUS
<1>1. CASE UNCHANGED vars
  <2>1. /\ UNCHANGED <<intent, asking, published, members, account, steady, rows, others,
                       inbox, pushed,
                       enabled, work>>
    BY <1>1 DEF vars, phone, event, server
  <2>2. TypesOK' /\ ForgottenMeansTold' /\ UnsentIsKept' /\ GoesOn
    BY <2>1 DEF IInv, TypesOK, ForgottenMeansTold, UnsentIsKept, GoesOn
  <2> QED BY <2>1, <2>2, OthersMove
<1>2. ASSUME NEW a \in Activity, Remember(a) \/ Publish(a) \/ GiveUp(a) \/ DeleteExpense(a)
      PROVE  IInv'
  BY <1>2, PhoneKeeps
<1>3. ASSUME NEW a \in Activity, NEW h \in Handler, Announce(a, h)
      PROVE  IInv'
  BY <1>3, AnnounceKeeps
<1>4. CASE (\E r \in Everybody : RemoveMember(r) \/ Join(r)) \/ LoseEvent \/ RegainEvent
  BY <1>4, MembersKeep
<1>5. ASSUME NEW h \in Handler, Serve(h) \/ Unauthorized(h) \/ DeadlinePasses(h) \/ Crash(h)
      PROVE  IInv'
  BY <1>5, CheckKeeps, VerifyKeeps, LookKeeps, InsertKeeps, ReadStatusKeeps, MakeLinkKeeps,
     NoLinkKeeps, StoreKeeps, LoadDevicesKeeps, FailKeeps, ReleaseKeeps, GetTokenKeeps,
     PushKeeps, SettleKeeps, FinishKeeps, UnauthorizedKeeps, DeadlinePassesKeeps, CrashKeeps
     DEF Serve
<1>6. CASE Reopen \/ IntervalPasses
  BY <1>6, ReopenKeeps, IntervalPassesKeeps
<1> QED BY <1>1, <1>2, <1>3, <1>4, <1>5, <1>6 DEF Next

\* The inductive invariant holds of every reachable state.
THEOREM Invariance == Spec => []IInv
BY InitHolds, StepKeeps, PTL DEF Spec
-----------------------------------------------------------------------------
(* The properties the run checks.                                          *)

\* Types; a row's reservation names a request for the row's activity, and no request
\* looks past the last recipient.
THEOREM TypeCorrect == Spec => []TypeOK
<1>1. IInv => TypeOK
  <2> SUFFICES ASSUME IInv
               PROVE  TypeOK
    OBVIOUS
  <2>1. TypesOK
    BY DEF IInv
  <2>2. \A a \in Activity, r \in Recipient :
          /\ rows[a][r].status \in {"none", "reserved", "delivered", "suppressed"}
          /\ rows[a][r].by = Nobody \/ work[rows[a][r].by].act = a
    BY <2>1 DEF IInv, TypesOK, RowRec, RowOK
  <2>3. \A h \in Handler :
          /\ work[h].act \in Activity \cup {Nobody}
          /\ work[h].at \in DOMAIN People
          /\ work[h].list \subseteq Recipient /\ work[h].mine \subseteq Recipient
          /\ work[h].todo \subseteq Recipient \X Device
    BY <2>1 DEF TypesOK, WorkRec
  <2> QED BY <2>1, <2>2, <2>3 DEF TypesOK, TypeOK
<1> QED BY <1>1, Invariance, PTL

\* However many requests run for an activity, after whatever lost answers, failures and
\* crashes, a device gets one push of it at most.
THEOREM NoSecondPushHolds == Spec => []NoSecondPush
<1>1. IInv => NoSecondPush
  BY DEF IInv
<1> QED BY <1>1, Invariance, PTL

\* What the phone has crossed off is in the inbox of everybody it concerns.
THEOREM ForgottenMeansToldHolds == Spec => []ForgottenMeansTold
<1>1. IInv => ForgottenMeansTold
  BY DEF IInv
<1> QED BY <1>1, Invariance, PTL

\* A push and a finished row stand for something that is in the inbox.
THEOREM InboxComesFirstHolds == Spec => []InboxComesFirst
<1>1. IInv => InboxComesFirst
  <2> SUFFICES ASSUME IInv, NEW a \in Activity, NEW r \in Recipient,
                      rows[a][r].status = "delivered" \/ (\E d \in DevicesOf[r] : pushed[a][d] > 0)
               PROVE  <<a, r>> \in inbox
    BY DEF InboxComesFirst
  <2>1. RowOK(a, r) /\ (\A d \in DevicesOf[r] : pushed[a][d] > 0 => pushed[a][d] # 0)
    BY DEF IInv, Device, TypesOK
  <2> QED BY <2>1 DEF RowOK, Unsent, Told
<1> QED BY <1>1, Invariance, PTL
=============================================================================
