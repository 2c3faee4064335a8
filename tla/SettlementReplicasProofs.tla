----------------------- MODULE SettlementReplicasProofs -----------------------
(***************************************************************************)
(* Proofs, for any number of devices, any amounts and every bound, that    *)
(* the transfers every device shows and the row holds settle the expenses, *)
(* that a payment stays one until somebody reverses it, and that the plan  *)
(* first remembered stays the one everybody goes back to.                  *)
(*                                                                         *)
(* What a copy of an event is: at most one update of each transfer, none   *)
(* in the future (History); rows with ids of their own, each paid by its   *)
(* update or owed with an update at least as recent (Listing); remembered  *)
(* plans of unpaid rows (Memory); and rows that settle (Balanced).         *)
(***************************************************************************)
EXTENDS SettlementReplicas, SettlementProofs

Fields == {"expenses", "deleted", "rows", "updates", "log", "closed", "statusAt", "rounded",
           "roundedAt", "direct", "directAt", "plans", "order"}
Modes == {"smart", "direct"}
Update == [id : Id, paid : BOOLEAN, at : Nat]

\* What the rest of an event is.
Facts(c) ==
  /\ Fields \subseteq DOMAIN c
  /\ c.expenses \in Seq(Expense) /\ ToSet(c.expenses) \cap c.deleted = {}
  /\ c.rounded \in BOOLEAN /\ c.direct \in BOOLEAN /\ c.order \in Order

\* At most one update of each transfer, and none later than n.
History(updates, n) ==
  /\ updates \in SUBSET Update
  /\ \A u \in updates : u.at <= n
  /\ \A u, v \in updates : u.id = v.id => u = v

\* later has an update of every transfer of updates, at least as recent.
Newer(updates, later) == \A u \in updates : \E v \in later : v.id = u.id /\ v.at >= u.at

\* A payment has its update; a row owed again has one at least as recent.
Dated(t, updates) ==
  IF t.paid THEN \E u \in updates : u.id = t.id /\ u.paid /\ u.at = t.at
  ELSE t.at = 0 \/ \E u \in updates : u.id = t.id /\ u.at >= t.at

\* The rows and the updates agree on what is paid.
Listing(rows, updates) ==
  /\ rows \in Named
  /\ \A i \in 1..Len(rows) : Dated(rows[i], updates)
  /\ \A u \in updates : u.paid => \E i \in 1..Len(rows) : rows[i].id = u.id /\ rows[i].paid

Unpaid(rows, updates) ==
  /\ rows \in Seq(Transfer)
  /\ \A i \in 1..Len(rows) : ~rows[i].paid /\ Dated(rows[i], updates)

\* The remembered plans are of what was owed.
Memory(plans, updates) ==
  /\ DOMAIN plans = Modes
  /\ \A mode \in Modes : plans[mode] # Nothing =>
       plans[mode].order \in Order /\ Unpaid(plans[mode].rows, updates)

Sound(c, n) ==
  /\ Facts(c) /\ History(c.updates, n)
  /\ Listing(c.rows, c.updates) /\ Memory(c.plans, c.updates)

Balanced(c) == Settled(Balances(c.expenses), c.rounded \/ c.rows = <<>>, c.rows)

Copy(c, n) == Sound(c, n) /\ Balanced(c)

\* What is shown while the outbox waits is in the outbox or the row.
IInv ==
  /\ now \in 1..MaxTime
  /\ Copy(canon, now)
  /\ DOMAIN copy = Device /\ DOMAIN outbox = Device
  /\ \A d \in Device : /\ Copy(copy[d], now)
                       /\ Unsent(d) => /\ Copy(outbox[d], now)
                                       /\ Newer(copy[d].updates, outbox[d].updates \cup canon.updates)
-----------------------------------------------------------------------------
(* The updates.                                                            *)

\* Being as recent is transitive.
LEMMA NewerTransitive ==
  ASSUME NEW a \in SUBSET Update, NEW b \in SUBSET Update, NEW c \in SUBSET Update,
         Newer(a, b), Newer(b, c)
  PROVE  Newer(a, c)
<1> SUFFICES ASSUME NEW u \in a PROVE \E w \in c : w.id = u.id /\ w.at >= u.at
  BY DEF Newer
<1>1. PICK v \in b : v.id = u.id /\ v.at >= u.at
  BY DEF Newer
<1>2. PICK w \in c : w.id = v.id /\ w.at >= v.at
  BY DEF Newer
<1>3. u.at \in Nat /\ v.at \in Nat /\ w.at \in Nat
  BY DEF Update
<1> QED BY <1>1, <1>2, <1>3

LEMMA NewerIncludes ==
  ASSUME NEW a \in SUBSET Update, NEW b, a \subseteq b
  PROVE  Newer(a, b)
BY DEF Newer, Update

\* Of some updates one is the latest.
LEMMA Latest ==
  ASSUME NEW n \in Nat, NEW S \in SUBSET Update, S # {}, \A u \in S : u.at <= n
  PROVE  \E u \in S : \A v \in S : v.at <= u.at
<1>0. \A u \in S : u.at \in 0..n
  BY DEF Update
<1> DEFINE N == {n - u.at : u \in S}
<1>2. N \in SUBSET Nat /\ N # {}
  BY <1>0
<1> HIDE DEF N
<1>3. PICK k \in N : \A m \in N : ~(<<m, k>> \in OpToRel(<, Nat))
  BY <1>2, NatLessThanWellFounded, WFMin
<1>4. k \in N /\ \A m \in N : ~(m < k)
  BY <1>2, <1>3 DEF OpToRel
<1>5. \A m \in N : k <= m
  BY <1>2, <1>4
<1> USE DEF N
<1>6. PICK u \in S : k = n - u.at
  BY <1>4
<1>7. ASSUME NEW v \in S
      PROVE  v.at <= u.at
  <2>1. n - v.at \in N
    OBVIOUS
  <2>2. u.at \in Nat /\ v.at \in Nat /\ n - u.at <= n - v.at
    BY <1>0, <1>5, <1>6, <2>1
  <2> QED BY <2>2
<1> QED BY <1>7

\* The merge of the updates keeps one status of a transfer, the newest.
LEMMA NewestUpdates ==
  ASSUME NEW remote, NEW local, NEW n \in Nat, History(remote.updates, n), History(local.updates, n)
  PROVE  /\ History(MergedUpdates(remote, local), n)
         /\ MergedUpdates(remote, local) \subseteq remote.updates \cup local.updates
         /\ Newer(remote.updates, MergedUpdates(remote, local))
         /\ Newer(local.updates, MergedUpdates(remote, local))
<1> DEFINE all == remote.updates \cup local.updates
           merged == MergedUpdates(remote, local)
<1>1. all \in SUBSET Update /\ \A u \in all : u.at <= n
  BY DEF History
<1>2. merged = {u \in all : \A v \in all : v.id = u.id => v.at < u.at \/ (v.at = u.at /\ (u.paid => v.paid))}
  BY DEF MergedUpdates
<1>3. \A u \in all : u.at \in Nat /\ u.paid \in BOOLEAN /\ u = [id |-> u.id, paid |-> u.paid, at |-> u.at]
  BY <1>1 DEF Update
<1> HIDE DEF all, merged
<1>4. ASSUME NEW u \in all
      PROVE  \E v \in merged : v.id = u.id /\ v.at >= u.at
  <2> DEFINE mine == {v \in all : v.id = u.id}
  <2>1. PICK w \in mine : \A v \in mine : v.at <= w.at
    <3>1. mine # {} /\ mine \in SUBSET Update /\ \A v \in mine : v.at <= n
      BY <1>1
    <3> HIDE DEF mine
    <3> QED BY <3>1, Latest
  <2>2. PICK x \in mine : x.at = w.at /\ \A v \in mine : v.at = w.at /\ x.paid => v.paid
    <3>1. CASE \E v \in mine : v.at = w.at /\ ~v.paid
      BY <3>1
    <3>2. CASE \A v \in mine : v.at = w.at => v.paid
      BY <2>1, <3>2
    <3> QED BY <3>1, <3>2
  <2>3. x \in merged
    BY <1>2, <1>3, <2>1, <2>2
  <2> QED BY <1>3, <2>1, <2>2, <2>3
<1>5. ASSUME NEW u \in merged, NEW v \in merged, u.id = v.id
      PROVE  u = v
  <2>1. u \in all /\ v \in all /\ u.at \in Int /\ v.at \in Int
    BY <1>2, <1>3
  <2>2. u.at = v.at
    BY <1>2, <1>5, <2>1
  <2>3. u.paid => v.paid
    BY <1>2, <1>5, <2>1
  <2>4. v.paid => u.paid
    BY <1>2, <1>5, <2>1
  <2>5. u.paid = v.paid
    BY <1>3, <2>1, <2>3, <2>4
  <2> QED BY <1>3, <1>5, <2>1, <2>2, <2>5
<1>6. merged \subseteq all
  BY <1>2
<1>7. History(merged, n)
  BY <1>1, <1>5, <1>6 DEF History
<1> QED BY <1>4, <1>6, <1>7 DEF Newer, all, merged

-----------------------------------------------------------------------------
(* Planning.                                                               *)

\* What is dated by some updates is dated by later ones.
LEMMA DatedLater ==
  ASSUME NEW t, ~t.paid, NEW a \in SUBSET Update, NEW b \in SUBSET Update, Newer(a, b), t.at \in Nat, Dated(t, a)
  PROVE  Dated(t, b)
<1>1. CASE t.at = 0
  BY <1>1 DEF Dated
<1>2. CASE t.at # 0
  <2>1. PICK u \in a : u.id = t.id /\ u.at >= t.at
    BY <1>2 DEF Dated
  <2>2. PICK v \in b : v.id = u.id /\ v.at >= u.at
    BY DEF Newer
  <2>3. u.at \in Nat /\ v.at \in Nat
    BY DEF Update
  <2> QED BY <2>1, <2>2, <2>3 DEF Dated
<1> QED BY <1>1, <1>2

LEMMA UnpaidLater ==
  ASSUME NEW rows, NEW a \in SUBSET Update, NEW b \in SUBSET Update, Newer(a, b), Unpaid(rows, a)
  PROVE  Unpaid(rows, b)
<1> SUFFICES ASSUME NEW i \in 1..Len(rows) PROVE Dated(rows[i], b)
  BY DEF Unpaid
<1>1. ~rows[i].paid /\ Dated(rows[i], a) /\ rows[i] \in Transfer
  BY DEF Unpaid
<1>2. rows[i].at \in Nat
  BY <1>1 DEF Transfer
<1> QED BY <1>1, <1>2, DatedLater

LEMMA MemoryLater ==
  ASSUME NEW plans, NEW a \in SUBSET Update, NEW b \in SUBSET Update, Newer(a, b), Memory(plans, a)
  PROVE  Memory(plans, b)
BY UnpaidLater DEF Memory

\* Joining a plan to the payments keeps the payments, and the list agrees with the updates if the plan does.
LEMMA PlanListing ==
  ASSUME NEW rows, NEW updates, Listing(rows, updates), NEW plan \in Seq(Transfer),
         \A i \in 1..Len(plan) : ~plan[i].paid,
         NEW r, Follows(r, Paid(rows), plan, Len(Paid(rows)), Len(plan))
  PROVE  /\ ToSet(Paid(r)) = ToSet(Paid(rows))
         /\ (\A i \in 1..Len(r) : ~r[i].paid => Dated(r[i], updates)) => Listing(r, updates)
<1>1. rows \in Named
  BY DEF Listing
<1>2. PICK p \in Named : p = Paid(rows) /\ Sifted(p, rows, TRUE)
  <2>1. PICK p : p = Paid(rows)
    OBVIOUS
  <2>2. Sifted(p, rows, TRUE)
    BY <1>1, <2>1, Sifts
  <2>3. p \in Named
    BY <2>2 DEF Sifted
  <2> QED BY <2>1, <2>2, <2>3
<1>3. PICK m \in Nat, n \in Nat : m = Len(p) /\ n = Len(plan)
  BY <1>2 DEF Named
<1>4. /\ r \in Named /\ Len(r) = m + n
      /\ \A i \in 1..m : r[i] = p[i]
      /\ \A i \in 1..n : r[m + i].paid = plan[i].paid
  BY <1>2, <1>3 DEF Follows, Alike
<1>5. PICK q \in Named : q = Paid(r) /\ Sifted(q, r, TRUE)
  <2>1. PICK q : q = Paid(r)
    OBVIOUS
  <2>2. Sifted(q, r, TRUE)
    BY <1>4, <2>1, Sifts
  <2>3. q \in Named
    BY <2>2 DEF Sifted
  <2> QED BY <2>1, <2>2, <2>3
<1>6. \A i \in 1..(m + n) : r[i].paid => i \in 1..m
  <2> SUFFICES ASSUME NEW i \in 1..(m + n), r[i].paid, i \notin 1..m PROVE FALSE
    OBVIOUS
  <2>1. PICK j \in 1..n : i = m + j
    <3>1. i - m \in 1..n /\ i = m + (i - m)
      OBVIOUS
    <3> QED BY <3>1
  <2> QED BY <1>3, <1>4, <2>1
<1>7. \A i \in 1..m : p[i].paid /\ \E j \in 1..Len(rows) : p[i] = rows[j]
  BY <1>2, <1>3 DEF Sifted
<1>8. ToSet(q) = ToSet(p)
  <2>1. q \in Seq(Transfer) /\ p \in Seq(Transfer)
    BY DEF Named
  <2>2. PICK k \in Nat : k = Len(q)
    BY <2>1
  <2>3. DOMAIN q = 1..k /\ DOMAIN p = 1..m
    BY <1>3, <2>1, <2>2
  <2>4. \A i \in 1..k : \E j \in 1..m : q[i] = p[j]
    <3> SUFFICES ASSUME NEW i \in 1..k PROVE \E j \in 1..m : q[i] = p[j]
      OBVIOUS
    <3>1. PICK h \in 1..(m + n) : q[i] = r[h] /\ q[i].paid
      BY <1>4, <1>5, <2>2 DEF Sifted
    <3>2. h \in 1..m
      BY <1>6, <3>1
    <3> QED BY <1>4, <3>1, <3>2
  <2>5. \A j \in 1..m : \E i \in 1..k : q[i] = p[j]
    <3> SUFFICES ASSUME NEW j \in 1..m PROVE \E i \in 1..k : q[i] = p[j]
      OBVIOUS
    <3>1. r[j] = p[j] /\ r[j].paid /\ j \in 1..(m + n)
      BY <1>4, <1>7
    <3>2. p[j].paid = TRUE
      BY <1>2, <1>3 DEF Sifted
    <3>3. r[j].paid = TRUE
      BY <3>1, <3>2
    <3>4. \A i \in 1..(m + n) : r[i].paid = TRUE => \E h \in 1..k : q[h] = r[i]
      BY <1>4, <1>5, <2>2 DEF Sifted
    <3>5. PICK h \in 1..k : q[h] = r[j]
      BY <3>1, <3>3, <3>4
    <3> QED BY <3>1, <3>5
  <2>6. ToSet(q) \subseteq ToSet(p)
    BY <2>3, <2>4 DEF ToSet
  <2>7. ToSet(p) \subseteq ToSet(q)
    BY <2>3, <2>5 DEF ToSet
  <2> QED BY <2>6, <2>7
<1>9. ASSUME \A i \in 1..Len(r) : ~r[i].paid => Dated(r[i], updates)
      PROVE  Listing(r, updates)
  <2>1. ASSUME NEW i \in 1..Len(r) PROVE Dated(r[i], updates)
    <3>1. CASE r[i].paid
      <4>1. i \in 1..m
        BY <1>4, <1>6, <3>1
      <4>2. PICK j \in 1..Len(rows) : r[i] = rows[j]
        BY <1>4, <1>7, <4>1
      <4> QED BY <4>2 DEF Listing
    <3>2. CASE ~r[i].paid
      BY <1>9, <3>2
    <3> QED BY <3>1, <3>2
  <2>2. ASSUME NEW u \in updates, u.paid
        PROVE  \E i \in 1..Len(r) : r[i].id = u.id /\ r[i].paid
    <3>1. PICK j \in 1..Len(rows) : rows[j].id = u.id /\ rows[j].paid
      BY <2>2 DEF Listing
    <3>2. rows[j].paid = TRUE
      BY <1>1, <3>1 DEF Named, Transfer
    <3>3. PICK k \in 1..m : p[k] = rows[j]
      BY <1>2, <1>3, <3>2 DEF Sifted
    <3>4. r[k] = rows[j] /\ k \in 1..Len(r)
      BY <1>4, <3>3
    <3> QED BY <3>1, <3>4
  <2> QED BY <1>4, <2>1, <2>2 DEF Listing
<1> QED BY <1>2, <1>5, <1>8, <1>9

Pend(rows) == rows \in Seq(Transfer) /\ \A i \in 1..Len(rows) : ~rows[i].paid

LEMMA NewAreUnpaid ==
  ASSUME NEW t \in New
  PROVE  ~t.paid /\ t.at = 0
BY DEF New, Fresh

\* A plan of an event: it keeps the payments and settles the ledger.
LEMMA PlanOf ==
  ASSUME NEW c, NEW n, Sound(c, n), NEW order \in Order, NEW direct \in BOOLEAN, NEW previous, Pend(previous)
  PROVE  LET r == Plan(c, order, direct, previous) IN
         /\ Settled(Balances(c.expenses), c.rounded, r)
         /\ r \in Named
         /\ ToSet(Paid(r)) = ToSet(Paid(c.rows))
         /\ (\A i \in 1..Len(r) : ~r[i].paid => Dated(r[i], c.updates)) => Listing(r, c.updates)
         /\ \E plan \in Seq(Transfer) :
              /\ Follows(r, Paid(c.rows), plan, Len(Paid(c.rows)), Len(plan))
              /\ r = Joined(Paid(c.rows), plan)
              /\ plan = previous \/ plan \in Seq(New)
<1>1. /\ c.expenses \in Seq(Expense) /\ c.rounded \in BOOLEAN /\ Listing(c.rows, c.updates)
      /\ previous \in Seq(Transfer) /\ \A i \in 1..Len(previous) : ~previous[i].paid
  BY DEF Sound, Facts, Pend
<1>2. PICK paid \in Named : paid = Paid(c.rows)
  BY <1>1, Sifts DEF Listing, Sifted
<1>3. PICK r : r = Plan(c, order, direct, previous)
  OBVIOUS
<1>4. PICK expenses, rounded : expenses = c.expenses /\ rounded = c.rounded
  OBVIOUS
<1>5. r = Reconcile(order, expenses, rounded, direct, paid, previous)
  BY <1>2, <1>3, <1>4 DEF Plan
<1>6. /\ Settled(Balances(expenses), rounded, r)
      /\ \E plan \in Seq(Transfer) : /\ Follows(r, paid, plan, Len(paid), Len(plan))
                                     /\ r = Joined(paid, plan)
                                     /\ plan = previous \/ plan \in Seq(New)
  BY <1>1, <1>4, <1>5, ReconcileSettles
<1>7. PICK plan \in Seq(Transfer) : /\ Follows(r, paid, plan, Len(paid), Len(plan))
                                    /\ r = Joined(paid, plan)
                                    /\ plan = previous \/ plan \in Seq(New)
  BY <1>6
<1>8. \A i \in 1..Len(plan) : ~plan[i].paid
  <2>1. CASE plan = previous
    BY <1>1, <2>1
  <2>2. CASE plan \in Seq(New)
    BY <2>2, NewAreUnpaid
  <2> QED BY <1>7, <2>1, <2>2
<1>9. /\ ToSet(Paid(r)) = ToSet(Paid(c.rows))
      /\ (\A i \in 1..Len(r) : ~r[i].paid => Dated(r[i], c.updates)) => Listing(r, c.updates)
  BY <1>1, <1>2, <1>7, <1>8, PlanListing
<1>10. r \in Named
  BY <1>7 DEF Follows
<1> QED BY <1>2, <1>3, <1>4, <1>6, <1>9, <1>10

\* Whatever follows the payments is as old as the plan.
LEMMA FollowsDated ==
  ASSUME NEW r, NEW paid \in Seq(Transfer), NEW plan \in Seq(New), NEW updates,
         Follows(r, paid, plan, Len(paid), Len(plan)), \A i \in 1..Len(paid) : paid[i].paid
  PROVE  \A i \in 1..Len(r) : ~r[i].paid => Dated(r[i], updates)
<1>1. PICK m \in Nat, n \in Nat : m = Len(paid) /\ n = Len(plan)
  OBVIOUS
<1>2. /\ Len(r) = m + n /\ \A i \in 1..m : r[i] = paid[i]
      /\ \A i \in 1..n : r[m + i].at = plan[i].at
  BY <1>1 DEF Follows, Alike
<1> SUFFICES ASSUME NEW i \in 1..(m + n), ~r[i].paid PROVE Dated(r[i], updates)
  BY <1>2
<1>3. i \notin 1..m
  BY <1>1, <1>2
<1>4. PICK j \in 1..n : i = m + j
  <2>1. i - m \in 1..n /\ i = m + (i - m)
    BY <1>3
  <2> QED BY <2>1
<1>5. r[i].at = 0
  BY <1>1, <1>2, <1>4, NewAreUnpaid
<1> QED BY <1>5 DEF Dated

\* A plan that may replace the rows of c.
PlanFor(c, r) ==
  /\ Settled(Balances(c.expenses), c.rounded, r)
  /\ Listing(r, c.updates)
  /\ ToSet(Paid(r)) = ToSet(Paid(c.rows))

\* Payments first, then what is pending: the same rows.
LEMMA PaidThenPending ==
  ASSUME NEW rows \in Named
  PROVE  Paid(rows) \o Pending(rows) \in Named
<1>1. PICK p, q : p = Paid(rows) /\ q = Pending(rows)
  OBVIOUS
<1>2. Sifted(p, rows, TRUE) /\ Sifted(q, rows, FALSE)
  BY <1>1, Sifts
<1>3. p \in Named /\ q \in Named
  BY <1>2 DEF Sifted
<1>4. p \in Seq(Transfer) /\ q \in Seq(Transfer)
  BY <1>3 DEF Named
<1>5. PICK m \in Nat, n \in Nat : m = Len(p) /\ n = Len(q)
  BY <1>4
<1>6. PICK r \in Seq(Transfer) : r = p \o q
  BY <1>4, ConcatProperties
<1>7. /\ Len(r) = m + n
      /\ \A i \in 1..m : r[i] = p[i]
      /\ \A i \in 1..n : r[m + i] = q[i]
  BY <1>4, <1>5, <1>6
<1>8. \A i \in 1..m, j \in 1..n : p[i].id # q[j].id
  <2> SUFFICES ASSUME NEW i \in 1..m, NEW j \in 1..n, p[i].id = q[j].id PROVE FALSE
    OBVIOUS
  <2>1. PICK h \in 1..Len(rows) : p[i] = rows[h] /\ p[i].paid = TRUE
    BY <1>2, <1>5 DEF Sifted
  <2>2. PICK k \in 1..Len(rows) : q[j] = rows[k] /\ q[j].paid = FALSE
    BY <1>2, <1>5 DEF Sifted
  <2>3. h = k
    BY <2>1, <2>2 DEF Named
  <2> QED BY <2>1, <2>2, <2>3
<1>9. ASSUME NEW i \in 1..(m + n), NEW j \in 1..(m + n), r[i].id = r[j].id
      PROVE  i = j
  <2>0. \A h \in 1..(m + n) : h \in 1..m \/ (h - m \in 1..n /\ h = m + (h - m))
    OBVIOUS
  <2>1. CASE i \in 1..m /\ j \in 1..m
    <3>1. p[i].id = p[j].id
      BY <1>7, <1>9, <2>1
    <3> QED BY <1>3, <1>5, <2>1, <3>1 DEF Named
  <2>2. CASE i \notin 1..m /\ j \notin 1..m
    <3>1. PICK h \in 1..n, k \in 1..n : i = m + h /\ j = m + k
      BY <2>0, <2>2
    <3>2. q[h].id = q[k].id
      BY <1>7, <1>9, <3>1
    <3>3. h = k
      BY <1>3, <1>5, <3>2 DEF Named
    <3> QED BY <3>1, <3>3
  <2>3. CASE i \in 1..m /\ j \notin 1..m
    <3>1. PICK k \in 1..n : j = m + k
      BY <2>0, <2>3
    <3> QED BY <1>7, <1>8, <1>9, <2>3, <3>1
  <2>4. CASE i \notin 1..m /\ j \in 1..m
    <3>1. PICK k \in 1..n : i = m + k
      BY <2>0, <2>4
    <3> QED BY <1>7, <1>8, <1>9, <2>4, <3>1
  <2> QED BY <2>1, <2>2, <2>3, <2>4
<1> QED BY <1>1, <1>6, <1>7, <1>9 DEF Named

LEMMA PaidAre ==
  ASSUME NEW rows \in Named
  PROVE  /\ Paid(rows) \in Seq(Transfer) /\ \A i \in 1..Len(Paid(rows)) : Paid(rows)[i].paid
         /\ Pend(Pending(rows))
<1>1. PICK p, q : p = Paid(rows) /\ q = Pending(rows)
  OBVIOUS
<1>2. Sifted(p, rows, TRUE) /\ Sifted(q, rows, FALSE)
  BY <1>1, Sifts
<1>3. p \in Seq(Transfer) /\ q \in Seq(Transfer)
  BY <1>2 DEF Sifted, Named
<1>4. (\A i \in 1..Len(p) : p[i].paid) /\ \A i \in 1..Len(q) : ~q[i].paid
  BY <1>2 DEF Sifted
<1> QED BY <1>1, <1>3, <1>4 DEF Pend

\* A new plan.
LEMMA PlanAnew ==
  ASSUME NEW c, NEW n, Sound(c, n), NEW order \in Order, NEW direct \in BOOLEAN
  PROVE  PlanFor(c, Plan(c, order, direct, <<>>))
<1>1. Pend(<<>>) /\ <<>> \in Seq(New)
  BY EmptySeq DEF Pend
<1>2. PICK r : r = Plan(c, order, direct, <<>>)
  OBVIOUS
<1>3. PICK p : p = Paid(c.rows)
  OBVIOUS
<1>4. /\ Settled(Balances(c.expenses), c.rounded, r)
      /\ ToSet(Paid(r)) = ToSet(Paid(c.rows))
      /\ (\A i \in 1..Len(r) : ~r[i].paid => Dated(r[i], c.updates)) => Listing(r, c.updates)
      /\ \E plan \in Seq(Transfer) : Follows(r, p, plan, Len(p), Len(plan)) /\ (plan = <<>> \/ plan \in Seq(New))
  BY <1>1, <1>2, <1>3, PlanOf
<1>5. PICK plan \in Seq(New) : Follows(r, p, plan, Len(p), Len(plan))
  BY <1>1, <1>4
<1>6. c.rows \in Named
  BY DEF Sound, Listing
<1>7. p \in Seq(Transfer) /\ \A i \in 1..Len(p) : p[i].paid
  BY <1>3, <1>6, PaidAre
<1>8. \A i \in 1..Len(r) : ~r[i].paid => Dated(r[i], c.updates)
  BY <1>5, <1>7, FollowsDated
<1> QED BY <1>2, <1>4, <1>8 DEF PlanFor

\* A plan kept as close as possible to the one there was.
LEMMA PlanKept ==
  ASSUME NEW c, NEW n, Sound(c, n), NEW order \in Order, NEW direct \in BOOLEAN
  PROVE  PlanFor(c, Plan(c, order, direct, Pending(c.rows)))
<1>1. c.rows \in Named /\ \A i \in 1..Len(c.rows) : Dated(c.rows[i], c.updates)
  BY DEF Sound, Listing
<1>2. PICK p, q : p = Paid(c.rows) /\ q = Pending(c.rows)
  OBVIOUS
<1>3. Pend(q) /\ p \in Seq(Transfer) /\ q \in Seq(Transfer) /\ \A i \in 1..Len(p) : p[i].paid
  BY <1>1, <1>2, PaidAre DEF Pend
<1>4. PICK r : r = Plan(c, order, direct, q)
  OBVIOUS
<1>5. /\ Settled(Balances(c.expenses), c.rounded, r)
      /\ ToSet(Paid(r)) = ToSet(Paid(c.rows))
      /\ (\A i \in 1..Len(r) : ~r[i].paid => Dated(r[i], c.updates)) => Listing(r, c.updates)
      /\ \E plan \in Seq(Transfer) : /\ Follows(r, p, plan, Len(p), Len(plan)) /\ r = Joined(p, plan)
                                     /\ plan = q \/ plan \in Seq(New)
  BY <1>2, <1>3, <1>4, PlanOf
<1>6. PICK plan \in Seq(Transfer) : /\ Follows(r, p, plan, Len(p), Len(plan)) /\ r = Joined(p, plan)
                                    /\ plan = q \/ plan \in Seq(New)
  BY <1>5
<1>7. \A i \in 1..Len(r) : ~r[i].paid => Dated(r[i], c.updates)
  <2>1. CASE plan \in Seq(New)
    BY <1>3, <1>6, <2>1, FollowsDated
  <2>2. CASE plan = q
    <3>1. p \in Named /\ p \o q \in Named
      BY <1>1, <1>2, PaidThenPending, Sifts DEF Sifted
    <3>2. r = p \o q
      BY <1>3, <1>6, <2>2, <3>1, JoinedSame
    <3>0. Sifted(q, c.rows, FALSE)
      BY <1>1, <1>2, Sifts
    <3>3. \A i \in 1..Len(q) : \E j \in 1..Len(c.rows) : q[i] = c.rows[j]
      BY <3>0 DEF Sifted
    <3>4. PICK k \in Nat, l \in Nat : k = Len(p) /\ l = Len(q)
      BY <1>3
    <3>5. Len(r) = k + l /\ (\A i \in 1..k : r[i] = p[i]) /\ \A i \in 1..l : r[k + i] = q[i]
      BY <1>3, <3>2, <3>4
    <3> SUFFICES ASSUME NEW i \in 1..(k + l), ~r[i].paid PROVE Dated(r[i], c.updates)
      BY <3>5
    <3>6. i \notin 1..k
      BY <1>3, <3>4, <3>5
    <3>7. PICK j \in 1..l : i = k + j
      <4>1. i - k \in 1..l /\ i = k + (i - k)
        BY <3>6
      <4> QED BY <4>1
    <3>8. r[i] = q[j]
      BY <3>5, <3>7
    <3>9. PICK h \in 1..Len(c.rows) : q[j] = c.rows[h]
      BY <3>3, <3>4
    <3> QED BY <1>1, <3>8, <3>9
  <2> QED BY <1>6, <2>1, <2>2
<1> QED BY <1>2, <1>4, <1>5, <1>7 DEF PlanFor

\* The plan that was remembered.
LEMMA PlanRemembered ==
  ASSUME NEW c, NEW n, Sound(c, n), NEW order \in Order, NEW direct \in BOOLEAN,
         NEW rows, Unpaid(rows, c.updates), IsPlan(c, order, direct, rows)
  PROVE  PlanFor(c, Plan(c, order, direct, rows))
<1>1. Pend(rows) /\ \A i \in 1..Len(rows) : Dated(rows[i], c.updates)
  BY DEF Unpaid, Pend
<1>2. PICK r : r = Plan(c, order, direct, rows)
  OBVIOUS
<1>3. /\ Settled(Balances(c.expenses), c.rounded, r) /\ r \in Named
      /\ ToSet(Paid(r)) = ToSet(Paid(c.rows))
      /\ (\A i \in 1..Len(r) : ~r[i].paid => Dated(r[i], c.updates)) => Listing(r, c.updates)
  BY <1>1, <1>2, PlanOf
<1>4. Pending(r) = rows
  BY <1>2 DEF IsPlan
<1>5. Sifted(rows, r, FALSE)
  BY <1>3, <1>4, Sifts
<1>6. ASSUME NEW i \in 1..Len(r), ~r[i].paid PROVE Dated(r[i], c.updates)
  <2>1. r[i].paid = FALSE
    BY <1>3, <1>6 DEF Named, Transfer
  <2>2. PICK k \in 1..Len(rows) : rows[k] = r[i]
    BY <1>5, <2>1 DEF Sifted
  <2> QED BY <1>1, <2>2
<1> QED BY <1>2, <1>3, <1>6 DEF PlanFor

-----------------------------------------------------------------------------
(* What replaces the rows, the method and the remembered plans.            *)

LEMMA SettledLoosely ==
  ASSUME NEW b, NEW one \in BOOLEAN, NEW rows, Settled(b, one, rows), NEW two \in BOOLEAN, one => two
  PROVE  Settled(b, two, rows)
<1> SUFFICES ASSUME NEW p \in Participant, two, ~one PROVE After(b, rows)[p] \in 1 - Unit .. Unit - 1
  BY DEF Settled
<1>1. After(b, rows)[p] = 0
  BY DEF Settled
<1> QED BY <1>1, UnitType

\* Replacing the rows by a plan of the copy gives a copy.
LEMMA TakesPlan ==
  ASSUME NEW c, NEW n, Sound(c, n), NEW r, PlanFor(c, r)
  PROVE  /\ Copy([c EXCEPT !.rows = r], n)
         /\ \A direct \in BOOLEAN : Copy([c EXCEPT !.rows = r, !.direct = direct], n)
<1> SUFFICES ASSUME NEW direct \in BOOLEAN
             PROVE  /\ Copy([c EXCEPT !.rows = r], n)
                    /\ Copy([c EXCEPT !.rows = r, !.direct = direct], n)
  <2>1. TRUE \in BOOLEAN
    OBVIOUS
  <2> QED BY <2>1
<1>1. Fields \subseteq DOMAIN c /\ c.rounded \in BOOLEAN
  BY DEF Sound, Facts
<1>2. PICK d : d = [c EXCEPT !.rows = r, !.direct = direct]
  OBVIOUS
<1>3. PICK e : e = [c EXCEPT !.rows = r]
  OBVIOUS
<1>4. /\ Fields \subseteq DOMAIN d /\ d.rows = r /\ d.direct = direct /\ d.expenses = c.expenses
      /\ d.deleted = c.deleted /\ d.updates = c.updates /\ d.rounded = c.rounded
      /\ d.plans = c.plans /\ d.order = c.order
  BY <1>1, <1>2 DEF Fields
<1>5. /\ Fields \subseteq DOMAIN e /\ e.rows = r /\ e.direct = c.direct /\ e.expenses = c.expenses
      /\ e.deleted = c.deleted /\ e.updates = c.updates /\ e.rounded = c.rounded
      /\ e.plans = c.plans /\ e.order = c.order
  BY <1>1, <1>3 DEF Fields
<1>6. Settled(Balances(c.expenses), c.rounded \/ r = <<>>, r)
  BY <1>1, SettledLoosely DEF PlanFor
<1>7. Balanced(d) /\ Balanced(e)
  BY <1>4, <1>5, <1>6 DEF Balanced
<1>8. Sound(d, n) /\ Sound(e, n)
  BY <1>4, <1>5 DEF Sound, Facts, PlanFor
<1> QED BY <1>2, <1>3, <1>7, <1>8 DEF Copy

\* c keeps its expenses, updates and payments in d.
KeepsFacts(c, d) == /\ d.updates = c.updates /\ ToSet(Paid(d.rows)) = ToSet(Paid(c.rows))
                    /\ d.expenses = c.expenses /\ d.rounded = c.rounded

\* Reconciling makes a sound event a copy again.
LEMMA ReconciledCopy ==
  ASSUME NEW c, NEW n, Sound(c, n)
  PROVE  Copy(Reconciled(c), n) /\ KeepsFacts(c, Reconciled(c)) /\ Reconciled(c).plans = c.plans
                                /\ Reconciled(c).direct = c.direct /\ Reconciled(c).order = c.order
<1>1. Fields \subseteq DOMAIN c /\ c.order \in Order /\ c.direct \in BOOLEAN
  BY DEF Sound, Facts
<1>2. PICK r : r = Plan(c, c.order, c.direct, Pending(c.rows))
  OBVIOUS
<1>3. PlanFor(c, r)
  BY <1>1, <1>2, PlanKept
<1>4. PICK d : d = [c EXCEPT !.rows = r]
  OBVIOUS
<1>5. Reconciled(c) = d
  BY <1>2, <1>4 DEF Reconciled
<1>6. Copy(d, n)
  BY <1>3, <1>4, TakesPlan
<1> QED BY <1>1, <1>3, <1>4, <1>5, <1>6 DEF Fields, KeepsFacts, PlanFor

\* Remembering an unpaid plan changes nothing else.
LEMMA RememberSound ==
  ASSUME NEW c, NEW n, Sound(c, n), NEW direct \in BOOLEAN, NEW order \in Order, NEW rows,
         Unpaid(rows, c.updates)
  PROVE  /\ Sound(Remember(c, direct, order, rows), n)
         /\ KeepsFacts(c, Remember(c, direct, order, rows))
         /\ Remember(c, direct, order, rows).rows = c.rows
<1>1. Fields \subseteq DOMAIN c /\ DOMAIN c.plans = Modes
  BY DEF Sound, Facts, Memory
<1>2. PICK mode \in Modes : mode = Mode(direct)
  BY DEF Mode, Modes
<1>3. PICK entry : entry = [key |-> InputKey(c, direct), order |-> order, rows |-> rows]
  OBVIOUS
<1>4. entry.order = order /\ entry.rows = rows
  BY <1>3
<1>5. PICK d : d = [c EXCEPT !.plans[mode] = entry]
  OBVIOUS
<1>6. d = Remember(c, direct, order, rows)
  BY <1>2, <1>3, <1>5 DEF Remember
<1>7. /\ Fields \subseteq DOMAIN d /\ d.rows = c.rows /\ d.direct = c.direct /\ d.expenses = c.expenses
      /\ d.deleted = c.deleted /\ d.updates = c.updates /\ d.rounded = c.rounded /\ d.order = c.order
      /\ d.plans = [c.plans EXCEPT ![mode] = entry]
  BY <1>1, <1>5 DEF Fields
<1>8. Memory(d.plans, d.updates)
  <2>1. DOMAIN d.plans = Modes
    BY <1>1, <1>7
  <2>2. ASSUME NEW other \in Modes, d.plans[other] # Nothing
        PROVE  d.plans[other].order \in Order /\ Unpaid(d.plans[other].rows, d.updates)
    <3>1. CASE other = mode
      BY <1>1, <1>4, <1>7, <3>1
    <3>2. CASE other # mode
      <4>1. d.plans[other] = c.plans[other]
        BY <1>1, <1>7, <3>2
      <4> QED BY <1>7, <2>2, <4>1 DEF Sound, Memory
    <3> QED BY <3>1, <3>2
  <2> QED BY <2>1, <2>2 DEF Memory
<1>9. Sound(d, n)
  BY <1>7, <1>8 DEF Sound, Facts
<1> QED BY <1>6, <1>7, <1>9 DEF KeepsFacts

\* The pending rows of a listing can be remembered.
LEMMA PendingUnpaid ==
  ASSUME NEW rows, NEW updates, Listing(rows, updates)
  PROVE  Unpaid(Pending(rows), updates)
<1>1. rows \in Named /\ \A i \in 1..Len(rows) : Dated(rows[i], updates)
  BY DEF Listing
<1>2. PICK q : q = Pending(rows)
  OBVIOUS
<1>3. Sifted(q, rows, FALSE) /\ q \in Seq(Transfer)
  BY <1>1, <1>2, Sifts, PaidAre DEF Pend
<1>4. \A i \in 1..Len(q) : ~q[i].paid /\ Dated(q[i], updates)
  BY <1>1, <1>3 DEF Sifted
<1> QED BY <1>2, <1>3, <1>4 DEF Unpaid

LEMMA CurrentPlanSound ==
  ASSUME NEW c, NEW n, Copy(c, n)
  PROVE  Copy(WithCurrentPlan(c), n) /\ KeepsFacts(c, WithCurrentPlan(c)) /\ WithCurrentPlan(c).rows = c.rows
<1>1. Sound(c, n) /\ c.direct \in BOOLEAN /\ c.order \in Order /\ Balanced(c)
  BY DEF Copy, Sound, Facts
<1>2. Unpaid(Pending(c.rows), c.updates)
  BY <1>1, PendingUnpaid DEF Sound
<1>3. PICK d : d = Remember(c, c.direct, c.order, Pending(c.rows))
  OBVIOUS
<1>4. Sound(d, n) /\ KeepsFacts(c, d) /\ d.rows = c.rows
  BY <1>1, <1>2, <1>3, RememberSound
<1>5. Balanced(d)
  BY <1>1, <1>4 DEF Balanced, KeepsFacts
<1>6. WithCurrentPlan(c) = d \/ WithCurrentPlan(c) = c
  BY <1>3 DEF WithCurrentPlan
<1> QED BY <1>1, <1>4, <1>5, <1>6 DEF Copy, KeepsFacts

\* Adopting a plan, under either method.
LEMMA AdoptedCopy ==
  ASSUME NEW c, NEW n, Sound(c, n), NEW direct \in BOOLEAN, NEW order \in Order, NEW rows, PlanFor(c, rows)
  PROVE  Copy(Adopted(c, direct, order, rows), n) /\ KeepsFacts(c, Adopted(c, direct, order, rows))
<1>1. PICK d : d = [c EXCEPT !.rows = rows, !.direct = direct]
  OBVIOUS
<1>2. Copy(d, n)
  BY <1>1, TakesPlan
<1>3. Fields \subseteq DOMAIN c
  BY DEF Sound, Facts
<1>4. KeepsFacts(c, d) /\ d.rows = rows
  BY <1>1, <1>3 DEF Fields, KeepsFacts, PlanFor
<1>5. Unpaid(Pending(d.rows), d.updates)
  BY <1>2, PendingUnpaid DEF Copy, Sound
<1>6. PICK e : e = Remember(d, direct, order, Pending(rows))
  OBVIOUS
<1>7. Sound(e, n) /\ KeepsFacts(d, e) /\ e.rows = d.rows
  BY <1>2, <1>4, <1>5, <1>6, RememberSound DEF Copy
<1>8. Balanced(e)
  BY <1>2, <1>7 DEF Copy, Balanced, KeepsFacts
<1>9. e = Adopted(c, direct, order, rows)
  BY <1>1, <1>6 DEF Adopted
<1> QED BY <1>4, <1>7, <1>8, <1>9 DEF Copy, KeepsFacts

\* A remembered plan that applies can be used.
LEMMA EntryPlan ==
  ASSUME NEW c, NEW n, Sound(c, n), NEW direct \in BOOLEAN, NEW mode \in Modes,
         Applies(c, direct, c.plans[mode])
  PROVE  /\ c.plans[mode].order \in Order
         /\ PlanFor(c, Plan(c, c.plans[mode].order, direct, c.plans[mode].rows))
<1>1. PICK entry : entry = c.plans[mode]
  OBVIOUS
<1>2. entry # Nothing /\ IsPlan(c, entry.order, direct, entry.rows)
  BY <1>1 DEF Applies
<1>3. entry.order \in Order /\ Unpaid(entry.rows, c.updates)
  BY <1>1, <1>2 DEF Sound, Memory
<1>4. PlanFor(c, Plan(c, entry.order, direct, entry.rows))
  BY <1>2, <1>3, PlanRemembered
<1> QED BY <1>1, <1>3, <1>4

\* Changing the method takes the remembered plan or a new one.
LEMMA SelectedCopy ==
  ASSUME NEW c, NEW n, Copy(c, n), NEW direct \in BOOLEAN
  PROVE  Copy(Selected(c, direct), n) /\ KeepsFacts(c, Selected(c, direct))
<1>1. PICK d : d = WithCurrentPlan(c)
  OBVIOUS
<1>2. Copy(d, n) /\ KeepsFacts(c, d)
  BY <1>1, CurrentPlanSound
<1>3. PICK mode \in Modes : mode = Mode(direct)
  BY DEF Mode, Modes
<1>4. PICK entry : entry = d.plans[mode]
  OBVIOUS
<1>5. Sound(d, n) /\ d.order \in Order
  BY <1>2 DEF Copy, Sound, Facts
<1>6. Selected(c, direct) = Chosen(d, direct, entry)
  BY <1>1, <1>3, <1>4 DEF Selected, SelectedIn
<1>7. Copy(Chosen(d, direct, entry), n) /\ KeepsFacts(d, Chosen(d, direct, entry))
  <2>1. CASE Applies(d, direct, entry)
    <3>1. PICK r : r = Plan(d, entry.order, direct, entry.rows)
      OBVIOUS
    <3>2. entry.order \in Order /\ PlanFor(d, r)
      BY <1>4, <1>5, <2>1, <3>1, EntryPlan
    <3>3. Chosen(d, direct, entry) = Adopted(d, direct, entry.order, r)
      BY <2>1, <3>1 DEF Chosen
    <3> QED BY <1>5, <3>2, <3>3, AdoptedCopy
  <2>2. CASE ~Applies(d, direct, entry)
    <3>1. PICK r : r = Plan(d, d.order, direct, <<>>)
      OBVIOUS
    <3>2. PlanFor(d, r)
      BY <1>5, <3>1, PlanAnew
    <3>3. Chosen(d, direct, entry) = Adopted(d, direct, d.order, r)
      BY <2>2, <3>1 DEF Chosen
    <3> QED BY <1>5, <3>2, <3>3, AdoptedCopy
  <2> QED BY <2>1, <2>2
<1> QED BY <1>2, <1>6, <1>7 DEF KeepsFacts

\* Restoring the remembered plan.
LEMMA RestoredCopy ==
  ASSUME NEW c, NEW n, Sound(c, n)
  PROVE  Copy(Restored(c), n) /\ KeepsFacts(c, Restored(c)) /\ Restored(c).plans = c.plans
<1>1. c.direct \in BOOLEAN /\ Fields \subseteq DOMAIN c
  BY DEF Sound, Facts
<1>2. PICK mode \in Modes : mode = Mode(c.direct)
  BY DEF Mode, Modes
<1>3. PICK entry : entry = c.plans[mode]
  OBVIOUS
<1>4. CASE Applies(c, c.direct, entry)
  <2>1. PICK r : r = Plan(c, entry.order, c.direct, entry.rows)
    OBVIOUS
  <2>2. PlanFor(c, r)
    BY <1>1, <1>3, <1>4, <2>1, EntryPlan
  <2>3. PICK d : d = [c EXCEPT !.rows = r]
    OBVIOUS
  <2>4. Restored(c) = d
    BY <1>2, <1>3, <1>4, <2>1, <2>3 DEF Restored, Replanned
  <2>5. Copy(d, n)
    BY <2>2, <2>3, TakesPlan
  <2> QED BY <1>1, <2>2, <2>3, <2>4, <2>5 DEF Fields, KeepsFacts, PlanFor
<1>5. CASE ~Applies(c, c.direct, entry)
  <2>1. Restored(c) = Reconciled(c)
    BY <1>2, <1>3, <1>5 DEF Restored
  <2> QED BY <2>1, ReconciledCopy
<1> QED BY <1>4, <1>5

-----------------------------------------------------------------------------
(* The merge.                                                              *)

\* t has the name and the status of a row of rows.
LikeOneOf(t, rows) == \E i \in 1..Len(rows) : t.id = rows[i].id /\ t.paid = rows[i].paid /\ t.at = rows[i].at

\* l with the status of r or its own.
LEMMA MergedRowType ==
  ASSUME NEW r \in Transfer, NEW l \in Transfer, r.id = l.id
  PROVE  /\ MergedRow(r, l) \in Transfer /\ MergedRow(r, l).id = l.id
         /\ \/ MergedRow(r, l).paid = l.paid /\ MergedRow(r, l).at = l.at
            \/ MergedRow(r, l).paid = r.paid /\ MergedRow(r, l).at = r.at
BY DEF MergedRow, Transfer

PlaceNamed(rows, l) == SelectInSeq(rows, LAMBDA r : r.id = l.id)

LEMMA PlaceNamedIs ==
  ASSUME NEW rows, NEW l, PlaceNamed(rows, l) # 0
  PROVE  PlaceNamed(rows, l) \in 1..Len(rows) /\ rows[PlaceNamed(rows, l)].id = l.id
<1> DEFINE I == {i \in 1..Len(rows) : rows[i].id = l.id}
<1>1. PlaceNamed(rows, l) = IF I # {} THEN Min(I) ELSE 0
  BY DEF PlaceNamed, SelectInSeq
<1>2. I \in SUBSET Nat
  OBVIOUS
<1>3. I # {} => Min(I) \in I
  BY <1>2, MinIsMember
<1> QED BY <1>1, <1>3

\* One after another.
LEMMA NamedConcat ==
  ASSUME NEW p \in Named, NEW q \in Named,
         \A i \in 1..Len(p), j \in 1..Len(q) : p[i].id # q[j].id
  PROVE  p \o q \in Named
<1>1. p \in Seq(Transfer) /\ q \in Seq(Transfer)
  BY DEF Named
<1>2. PICK m \in Nat, n \in Nat : m = Len(p) /\ n = Len(q)
  BY <1>1
<1>3. PICK r \in Seq(Transfer) : r = p \o q
  BY <1>1, ConcatProperties
<1>4. /\ Len(r) = m + n
      /\ \A i \in 1..m : r[i] = p[i]
      /\ \A i \in 1..n : r[m + i] = q[i]
  BY <1>1, <1>2, <1>3
<1>5. ASSUME NEW i \in 1..(m + n), NEW j \in 1..(m + n), r[i].id = r[j].id
      PROVE  i = j
  <2>0. \A h \in 1..(m + n) : h \in 1..m \/ (h - m \in 1..n /\ h = m + (h - m))
    OBVIOUS
  <2>1. CASE i \in 1..m /\ j \in 1..m
    <3>1. p[i].id = p[j].id
      BY <1>4, <1>5, <2>1
    <3> QED BY <1>2, <2>1, <3>1 DEF Named
  <2>2. CASE i \notin 1..m /\ j \notin 1..m
    <3>1. PICK h \in 1..n, k \in 1..n : i = m + h /\ j = m + k
      BY <2>0, <2>2
    <3>2. q[h].id = q[k].id
      BY <1>4, <1>5, <3>1
    <3>3. h = k
      BY <1>2, <3>2 DEF Named
    <3> QED BY <3>1, <3>3
  <2>3. CASE i \in 1..m /\ j \notin 1..m
    <3>1. PICK k \in 1..n : j = m + k
      BY <2>0, <2>3
    <3> QED BY <1>2, <1>4, <1>5, <2>3, <3>1
  <2>4. CASE i \notin 1..m /\ j \in 1..m
    <3>1. PICK k \in 1..n : i = m + k
      BY <2>0, <2>4
    <3> QED BY <1>2, <1>4, <1>5, <2>4, <3>1
  <2> QED BY <2>1, <2>2, <2>3, <2>4
<1> QED BY <1>3, <1>4, <1>5 DEF Named

\* Every row is one of a copy with a status of a copy, and no payment is lost.
Merges(rows, remote, local) ==
  /\ rows \in Named
  /\ \A i \in 1..Len(rows) : LikeOneOf(rows[i], remote) \/ LikeOneOf(rows[i], local)
  /\ \A i \in 1..Len(remote) : remote[i].paid => \E k \in 1..Len(rows) : rows[k].id = remote[i].id
  /\ \A i \in 1..Len(local) : local[i].paid => \E k \in 1..Len(rows) : rows[k].id = local[i].id

Both(remote, local) ==
  [i \in DOMAIN local |-> IF PlaceNamed(remote, local[i]) = 0 THEN local[i]
                          ELSE MergedRow(remote[PlaceNamed(remote, local[i])], local[i])]

Others(remote, local) == Among(remote, {i \in DOMAIN remote : remote[i].id \notin Ids(local)})

\* Two lists of rows merge to rows of both, one for each transfer.
LEMMA AllRowsMerge ==
  ASSUME NEW remote \in Named, NEW local \in Named
  PROVE  Merges(Both(remote, local) \o Others(remote, local), remote, local)
<1>1. remote \in Seq(Transfer) /\ local \in Seq(Transfer)
  BY DEF Named
<1>2. PICK m \in Nat, n \in Nat : m = Len(local) /\ n = Len(remote)
  BY <1>1
<1>3. DOMAIN local = 1..m /\ DOMAIN remote = 1..n
  BY <1>1, <1>2
<1>4. PICK p : p = Both(remote, local)
  OBVIOUS
<1>5. ASSUME NEW i \in 1..m
      PROVE  /\ p[i] \in Transfer /\ p[i].id = local[i].id
             /\ LikeOneOf(p[i], remote) \/ LikeOneOf(p[i], local)
  <2>1. PICK h : h = PlaceNamed(remote, local[i])
    OBVIOUS
  <2>2. p[i] = IF h = 0 THEN local[i] ELSE MergedRow(remote[h], local[i])
    BY <1>3, <1>4, <2>1 DEF Both
  <2>3. local[i] \in Transfer
    BY <1>1, <1>2
  <2>4. CASE h = 0
    BY <1>2, <2>2, <2>3, <2>4 DEF LikeOneOf
  <2>5. CASE h # 0
    <3>1. h \in 1..Len(remote) /\ remote[h].id = local[i].id
      BY <2>1, <2>5, PlaceNamedIs
    <3>2. PICK r \in Transfer : r = remote[h]
      BY <1>1, <3>1
    <3>3. PICK l \in Transfer : l = local[i]
      BY <2>3
    <3>4. r.id = l.id
      BY <3>1, <3>2, <3>3
    <3>5. PICK t : t = MergedRow(r, l)
      OBVIOUS
    <3>6. t \in Transfer /\ t.id = l.id /\ ((t.paid = l.paid /\ t.at = l.at) \/ (t.paid = r.paid /\ t.at = r.at))
      BY <3>4, <3>5, MergedRowType
    <3>7. p[i] = t
      BY <2>2, <2>5, <3>2, <3>3, <3>5
    <3> QED BY <1>2, <3>1, <3>2, <3>3, <3>4, <3>6, <3>7 DEF LikeOneOf
  <2> QED BY <2>4, <2>5
<1>6. p \in Seq(Transfer) /\ Len(p) = m
  <2>1. DOMAIN p = 1..m /\ p = [i \in 1..m |-> p[i]]
    BY <1>3, <1>4 DEF Both
  <2> QED BY <1>5, <2>1
<1>7. p \in Named
  <2> SUFFICES ASSUME NEW i \in 1..m, NEW j \in 1..m, p[i].id = p[j].id PROVE i = j
    BY <1>6 DEF Named
  <2>1. local[i].id = local[j].id
    BY <1>5
  <2> QED BY <1>2, <2>1 DEF Named
<1>8. PICK places : places = {i \in 1..n : remote[i].id \notin Ids(local)}
  OBVIOUS
<1>9. PICK q \in Named : q = Among(remote, places) /\ Consists(q, remote, places)
  <2>1. PICK q : q = Among(remote, places)
    OBVIOUS
  <2>2. q \in Named /\ Consists(q, remote, places)
    BY <1>1, <2>1, AmongNamed, AmongElements
  <2> QED BY <2>1, <2>2
<1>10. q = Others(remote, local)
  BY <1>3, <1>8, <1>9 DEF Others
<1>11. \A id : id \in Ids(local) <=> \E i \in 1..m : local[i].id = id
  BY <1>1, <1>2, IdsOf
<1>12. \A k \in 1..Len(q) : \E i \in 1..n : i \in places /\ q[k] = remote[i]
  BY <1>2, <1>9 DEF Consists
<1>13. \A i \in 1..Len(p), j \in 1..Len(q) : p[i].id # q[j].id
  <2> SUFFICES ASSUME NEW i \in 1..m, NEW j \in 1..Len(q), p[i].id = q[j].id PROVE FALSE
    BY <1>6
  <2>1. PICK h \in 1..n : h \in places /\ q[j] = remote[h]
    BY <1>12
  <2>2. remote[h].id \notin Ids(local)
    BY <1>8, <2>1
  <2>3. local[i].id = remote[h].id
    BY <1>5, <2>1
  <2> QED BY <1>11, <2>2, <2>3
<1>14. PICK r \in Named : r = p \o q
  BY <1>7, <1>9, <1>13, NamedConcat
<1>15. PICK k \in Nat : k = Len(q) /\ q \in Seq(Transfer)
  BY DEF Named
<1>16. /\ Len(r) = m + k
       /\ \A i \in 1..m : r[i] = p[i]
       /\ \A i \in 1..k : r[m + i] = q[i]
  <2>1. PICK s \in Seq(Transfer) : s = p \o q
    BY <1>6, <1>15, ConcatProperties
  <2>0. /\ Len(s) = m + k
        /\ \A i \in 1..(m + k) : s[i] = IF i <= m THEN p[i] ELSE q[i - m]
    BY <1>6, <1>15, <2>1, ConcatProperties
  <2>2. /\ Len(s) = m + k
        /\ \A i \in 1..m : s[i] = p[i]
        /\ \A i \in 1..k : s[m + i] = q[i]
    <3>1. \A i \in 1..k : m + i \in 1..(m + k) /\ ~(m + i <= m) /\ (m + i) - m = i
      OBVIOUS
    <3>2. \A i \in 1..m : i \in 1..(m + k) /\ i <= m
      OBVIOUS
    <3> QED BY <2>0, <3>1, <3>2
  <2> QED BY <1>14, <2>1, <2>2
<1>17. ASSUME NEW i \in 1..(m + k)
       PROVE  LikeOneOf(r[i], remote) \/ LikeOneOf(r[i], local)
  <2>1. CASE i \in 1..m
    BY <1>5, <1>16, <2>1
  <2>2. CASE i \notin 1..m
    <3>1. PICK j \in 1..k : i = m + j
      <4>1. i - m \in 1..k /\ i = m + (i - m)
        BY <2>2
      <4> QED BY <4>1
    <3>2. PICK h \in 1..n : q[j] = remote[h]
      BY <1>12, <1>15
    <3>3. r[i] = remote[h]
      BY <1>16, <3>1, <3>2
    <3> QED BY <1>2, <3>3 DEF LikeOneOf
  <2> QED BY <2>1, <2>2
<1>18. ASSUME NEW i \in 1..m
       PROVE  \E j \in 1..(m + k) : r[j].id = local[i].id
  <2>1. i \in 1..(m + k) /\ r[i].id = local[i].id
    BY <1>5, <1>16
  <2> QED BY <2>1
<1>19. ASSUME NEW i \in 1..n
       PROVE  \E j \in 1..(m + k) : r[j].id = remote[i].id
  <2>1. CASE remote[i].id \in Ids(local)
    <3>1. PICK h \in 1..m : local[h].id = remote[i].id
      BY <1>11, <2>1
    <3> QED BY <1>18, <3>1
  <2>2. CASE remote[i].id \notin Ids(local)
    <3>1. i \in places
      BY <1>8, <2>2
    <3>2. PICK h \in 1..k : q[h] = remote[i]
      BY <1>2, <1>9, <1>15, <3>1 DEF Consists
    <3>3. m + h \in 1..(m + k) /\ r[m + h] = remote[i]
      BY <1>16, <3>2
    <3> QED BY <3>3
  <2> QED BY <2>1, <2>2
<1>20. Both(remote, local) \o Others(remote, local) = r
  BY <1>4, <1>10, <1>14
<1>21. Merges(r, remote, local)
  BY <1>2, <1>16, <1>17, <1>18, <1>19 DEF Merges
<1> QED BY <1>20, <1>21

\* So does the merge that, when the methods differ, keeps the newer choice's pending rows only.
LEMMA RowsMerge ==
  ASSUME NEW remote, NEW local, remote.rows \in Named, local.rows \in Named
  PROVE  Merges(MergedRows(remote, local), remote.rows, local.rows)
<1>1. PICK r, l : r = remote.rows /\ l = local.rows
  OBVIOUS
<1>2. PICK rows : rows = Both(r, l) \o Others(r, l)
  OBVIOUS
<1>3. Merges(rows, r, l)
  BY <1>1, <1>2, AllRowsMerge
<1>4. PICK source : source = IF remote.directAt > local.directAt THEN remote ELSE local
  OBVIOUS
<1>5. PICK kept : kept = Ids(source.rows) \cup Ids(Paid(r)) \cup Ids(Paid(l))
  OBVIOUS
<1>6. PICK places : places = {i \in DOMAIN rows : rows[i].id \in kept}
  OBVIOUS
<1>7. MergedRows(remote, local) = IF remote.directAt = local.directAt /\ remote.direct = local.direct
                                  THEN rows ELSE Among(rows, places)
  <2> DEFINE all == Both(remote.rows, local.rows) \o Others(remote.rows, local.rows)
             from == IF remote.directAt > local.directAt THEN remote ELSE local
             ids == Ids(from.rows) \cup Ids(Paid(remote.rows)) \cup Ids(Paid(local.rows))
  <2>1. MergedRows(remote, local) = IF remote.directAt = local.directAt /\ remote.direct = local.direct
                                    THEN all ELSE Among(all, {i \in DOMAIN all : all[i].id \in ids})
    BY DEF MergedRows, Both, Others, PlaceNamed
  <2> QED BY <1>1, <1>2, <1>4, <1>5, <1>6, <2>1
<1>8. rows \in Named /\ rows \in Seq(Transfer)
  BY <1>3 DEF Merges, Named
<1>9. PICK n \in Nat : n = Len(rows) /\ DOMAIN rows = 1..n
  BY <1>8
<1>10. PICK q : q = Among(rows, places)
  OBVIOUS
<1>11. q \in Named /\ Consists(q, rows, places)
  BY <1>8, <1>10, AmongNamed, AmongElements
<1>12. \A k \in 1..Len(q) : \E i \in 1..n : q[k] = rows[i]
  BY <1>9, <1>11 DEF Consists
<1>13. ASSUME NEW s, s \in {r, l}, NEW i \in 1..Len(s), s[i].paid
       PROVE  \E k \in 1..Len(q) : q[k].id = s[i].id
  <2>1. s \in Named /\ Ids(Paid(s)) \subseteq kept
    BY <1>1, <1>5, <1>13
  <2>2. PICK p : p = Paid(s)
    OBVIOUS
  <2>3. Sifted(p, s, TRUE)
    BY <2>1, <2>2, Sifts
  <2>4. s[i].paid = TRUE
    BY <1>13, <2>1 DEF Named, Transfer
  <2>5. PICK h \in 1..Len(p) : p[h] = s[i]
    BY <2>3, <2>4 DEF Sifted
  <2>6. p \in Seq(Transfer)
    BY <2>3 DEF Sifted, Named
  <2>7. s[i].id \in kept
    BY <2>1, <2>2, <2>5, <2>6, IdsOf
  <2>8. PICK k \in 1..n : rows[k].id = s[i].id
    BY <1>3, <1>9, <1>13 DEF Merges
  <2>9. k \in places
    BY <1>6, <1>9, <2>7, <2>8
  <2>10. PICK j \in 1..Len(q) : q[j] = rows[k]
    BY <1>9, <1>11, <2>9 DEF Consists
  <2> QED BY <2>8, <2>10
<1>14. \A k \in 1..Len(q) : LikeOneOf(q[k], r) \/ LikeOneOf(q[k], l)
  <2> SUFFICES ASSUME NEW k \in 1..Len(q) PROVE LikeOneOf(q[k], r) \/ LikeOneOf(q[k], l)
    OBVIOUS
  <2>1. PICK i \in 1..n : q[k] = rows[i]
    BY <1>12
  <2> QED BY <1>3, <1>9, <2>1 DEF Merges
<1>15. Merges(q, r, l)
  BY <1>11, <1>13, <1>14 DEF Merges
<1> QED BY <1>1, <1>3, <1>7, <1>10, <1>15

\* The rows of a merge, before the updates set their status.
Rough(rows, us) ==
  /\ rows \in Named
  /\ \A i \in 1..Len(rows) : \/ ~rows[i].paid /\ rows[i].at = 0
                             \/ \E u \in us : u.id = rows[i].id /\ u.at >= rows[i].at
  /\ \A u \in us : u.paid => \E i \in 1..Len(rows) : rows[i].id = u.id

\* Before the updates are applied, each merged row has an update at least as recent.
LEMMA RoughStatuses ==
  ASSUME NEW rows, NEW remote, NEW local, Merges(rows, remote.rows, local.rows),
         NEW us \in SUBSET Update,
         NEW n, History(remote.updates, n), History(local.updates, n),
         Listing(remote.rows, remote.updates), Listing(local.rows, local.updates),
         Newer(remote.updates, us), Newer(local.updates, us), us \subseteq remote.updates \cup local.updates
  PROVE  Rough(rows, us)
<1>1. ASSUME NEW c, c \in {remote, local}, NEW t, LikeOneOf(t, c.rows)
      PROVE  (~t.paid /\ t.at = 0) \/ \E u \in us : u.id = t.id /\ u.at >= t.at
  <2>1. PICK i \in 1..Len(c.rows) : t.id = c.rows[i].id /\ t.paid = c.rows[i].paid /\ t.at = c.rows[i].at
    BY <1>1 DEF LikeOneOf
  <2>2. PICK s \in Transfer : s = c.rows[i]
    BY <1>1, <2>1 DEF Listing, Named
  <2>3. Dated(s, c.updates)
    BY <1>1, <2>2 DEF Listing
  <2>4. c.updates \in SUBSET Update /\ Newer(c.updates, us)
    BY <1>1 DEF History
  <2>5. CASE ~s.paid /\ s.at = 0
    BY <2>1, <2>2, <2>5
  <2>6. CASE s.paid \/ s.at # 0
    <3>1. PICK u \in c.updates : u.id = s.id /\ u.at >= s.at
      <4>1. s.at \in Nat
        BY <2>2 DEF Transfer
      <4> QED BY <2>3, <2>6, <4>1 DEF Dated
    <3>2. PICK v \in us : v.id = u.id /\ v.at >= u.at
      BY <2>4, <3>1 DEF Newer
    <3>3. u.at \in Nat /\ v.at \in Nat /\ s.at \in Nat
      BY <2>2, <2>4, <3>1, <3>2 DEF Update, Transfer
    <3> QED BY <2>1, <2>2, <3>1, <3>2, <3>3
  <2> QED BY <2>5, <2>6
<1>2. ASSUME NEW i \in 1..Len(rows)
      PROVE  (~rows[i].paid /\ rows[i].at = 0) \/ \E u \in us : u.id = rows[i].id /\ u.at >= rows[i].at
  <2>1. LikeOneOf(rows[i], remote.rows) \/ LikeOneOf(rows[i], local.rows)
    BY DEF Merges
  <2> QED BY <1>1, <2>1
<1>3. ASSUME NEW u \in us, u.paid
      PROVE  \E i \in 1..Len(rows) : rows[i].id = u.id
  <2>1. CASE u \in remote.updates
    <3>1. PICK j \in 1..Len(remote.rows) : remote.rows[j].id = u.id /\ remote.rows[j].paid
      BY <1>3, <2>1 DEF Listing
    <3> QED BY <3>1 DEF Merges
  <2>2. CASE u \in local.updates
    <3>1. PICK j \in 1..Len(local.rows) : local.rows[j].id = u.id /\ local.rows[j].paid
      BY <1>3, <2>2 DEF Listing
    <3> QED BY <3>1 DEF Merges
  <2> QED BY <2>1, <2>2
<1> QED BY <1>2, <1>3 DEF Rough, Merges

\* Applying the newest updates makes rows and updates agree.
LEMMA AppliedListing ==
  ASSUME NEW rows, NEW us, NEW n, History(us, n), Rough(rows, us)
  PROVE  Listing(Applied(rows, us), us)
<1>1. rows \in Named /\ rows \in Seq(Transfer)
  BY DEF Rough, Named
<1>2. PICK m \in Nat : m = Len(rows) /\ DOMAIN rows = 1..m
  BY <1>1
<1>3. PICK r : r = Applied(rows, us)
  OBVIOUS
<1>4. ASSUME NEW i \in 1..m
      PROVE  /\ r[i] \in Transfer /\ r[i].id = rows[i].id /\ Dated(r[i], us)
             /\ \A u \in us : u.id = rows[i].id /\ u.paid => r[i].paid
  <2>1. PICK news : news = {u \in us : u.id = rows[i].id /\ u.at >= rows[i].at}
    OBVIOUS
  <2>2. r[i] = IF news = {} THEN rows[i]
               ELSE [rows[i] EXCEPT !.paid = (CHOOSE u \in news : TRUE).paid, !.at = (CHOOSE u \in news : TRUE).at]
    BY <1>2, <1>3, <2>1 DEF Applied
  <2>3. PICK t \in Transfer : t = rows[i]
    BY <1>1, <1>2
  <2>4. (~t.paid /\ t.at = 0) \/ \E u \in us : u.id = t.id /\ u.at >= t.at
    BY <1>2, <2>3 DEF Rough
  <2>5. \A u \in us : u.at \in Nat /\ u.paid \in BOOLEAN
    BY DEF History, Update
  <2>6. t.at \in Nat
    BY <2>3 DEF Transfer
  <2>7. CASE news = {}
    <3>1. ~t.paid /\ t.at = 0
      BY <2>1, <2>3, <2>4, <2>7
    <3>2. \A u \in us : u.id # t.id
      BY <2>1, <2>3, <2>5, <2>7, <3>1
    <3> QED BY <2>2, <2>3, <2>7, <3>1, <3>2 DEF Dated
  <2>8. CASE news # {}
    <3>1. PICK u \in news : u = CHOOSE v \in news : TRUE
      BY <2>8
    <3>2. u \in us /\ u.id = t.id /\ u.at >= t.at
      BY <2>1, <2>3
    <3>3. PICK s : s = [t EXCEPT !.paid = u.paid, !.at = u.at]
      OBVIOUS
    <3>4. s \in Transfer /\ s.id = t.id /\ s.paid = u.paid /\ s.at = u.at
      BY <2>5, <3>2, <3>3 DEF Transfer
    <3>5. r[i] = s
      BY <2>2, <2>3, <2>8, <3>1, <3>3
    <3>6. \A v \in us : v.id = u.id => v = u
      BY <3>2 DEF History
    <3>7. Dated(s, us)
      BY <2>5, <3>2, <3>4 DEF Dated
    <3> QED BY <2>3, <3>2, <3>4, <3>5, <3>6, <3>7
  <2> QED BY <2>7, <2>8
<1>5. r \in Seq(Transfer) /\ Len(r) = m
  <2>1. r = [i \in 1..m |-> r[i]]
    BY <1>2, <1>3 DEF Applied
  <2> QED BY <1>4, <2>1
<1>6. r \in Named
  <2> SUFFICES ASSUME NEW i \in 1..m, NEW j \in 1..m, r[i].id = r[j].id PROVE i = j
    BY <1>5 DEF Named
  <2>1. rows[i].id = rows[j].id
    BY <1>4
  <2> QED BY <1>1, <1>2, <2>1 DEF Named
<1>7. ASSUME NEW u \in us, u.paid PROVE \E i \in 1..Len(r) : r[i].id = u.id /\ r[i].paid
  <2>1. PICK i \in 1..m : rows[i].id = u.id
    BY <1>2, <1>7 DEF Rough
  <2> QED BY <1>4, <1>5, <1>7, <2>1
<1> QED BY <1>3, <1>4, <1>5, <1>6, <1>7 DEF Listing

\* The remembered plans of either side are dated by the merged updates.
LEMMA MergedPlansMemory ==
  ASSUME NEW first, NEW second, NEW c, NEW us \in SUBSET Update,
         first.updates \in SUBSET Update, second.updates \in SUBSET Update,
         Newer(first.updates, us), Newer(second.updates, us),
         Memory(first.plans, first.updates), Memory(second.plans, second.updates)
  PROVE  Memory(MergedPlans(first, second, c), us)
<1>1. PICK p : p = MergedPlans(first, second, c)
  OBVIOUS
<1>2. Memory(first.plans, us) /\ Memory(second.plans, us)
  BY MemoryLater
<1>3. DOMAIN p = Modes
  BY <1>1 DEF MergedPlans, Modes
<1>4. ASSUME NEW mode \in Modes
      PROVE  p[mode] = first.plans[mode] \/ p[mode] = second.plans[mode]
  <2>1. p[mode] = IF first.plans[mode] = second.plans[mode] THEN first.plans[mode]
                  ELSE Owner(first.plans[mode], second.plans[mode], InputKey(c, mode = "direct"))
    BY <1>1 DEF MergedPlans, Modes
  <2> QED BY <2>1 DEF Owner
<1> QED BY <1>1, <1>2, <1>3, <1>4 DEF Memory

LEMMA RememberingIs ==
  ASSUME NEW first, NEW second, NEW c, Facts(c)
  PROVE  /\ Facts(Remembering(first, second, c))
         /\ KeepsFacts(c, Remembering(first, second, c))
         /\ Remembering(first, second, c).rows = c.rows
         /\ Remembering(first, second, c).direct = c.direct
         /\ Remembering(first, second, c).plans = MergedPlans(first, second, c)
<1>1. PICK d : d = Remembering(first, second, c)
  OBVIOUS
<1>2. d = [c EXCEPT !.plans = MergedPlans(first, second, c)]
  BY <1>1 DEF Remembering
<1>3. Fields \subseteq DOMAIN c
  BY DEF Facts
<1>4. /\ Fields \subseteq DOMAIN d /\ d.rows = c.rows /\ d.direct = c.direct /\ d.expenses = c.expenses
      /\ d.deleted = c.deleted /\ d.updates = c.updates /\ d.rounded = c.rounded /\ d.order = c.order
      /\ d.plans = MergedPlans(first, second, c)
  BY <1>2, <1>3 DEF Fields
<1> QED BY <1>1, <1>4 DEF Facts, KeepsFacts

\* The expenses that neither copy has deleted.
LEMMA UnitedFacts ==
  ASSUME NEW remote, NEW local, Facts(remote), Facts(local)
  PROVE  /\ Facts(United(remote, local))
         /\ United(remote, local).rows = MergedRows(remote, local)
         /\ United(remote, local).updates = MergedUpdates(remote, local)
<1>1. PICK deleted : deleted = remote.deleted \cup local.deleted
  OBVIOUS
<1>2. remote.expenses \in Seq(Expense) /\ local.expenses \in Seq(Expense)
  BY DEF Facts
<1>3. PICK all : all = MergedList(remote.expenses, local.expenses)
  OBVIOUS
<1>4. all \in Seq(Expense)
  <2>1. PICK q : q = Among(remote.expenses, {i \in DOMAIN remote.expenses : ~Contains(local.expenses, remote.expenses[i])})
    OBVIOUS
  <2>2. q \in Seq(Expense)
    BY <1>2, <2>1, AmongElements
  <2>3. all = local.expenses \o q
    BY <1>3, <2>1 DEF MergedList
  <2> QED BY <1>2, <2>2, <2>3, ConcatProperties
<1>5. PICK places : places = {i \in DOMAIN all : all[i] \notin deleted}
  OBVIOUS
<1>6. PICK left : left = Among(all, places)
  OBVIOUS
<1>7. left \in Seq(Expense) /\ Consists(left, all, places)
  BY <1>4, <1>6, AmongElements
<1>8. ToSet(left) \cap deleted = {}
  <2>1. \A k \in 1..Len(left) : left[k] \notin deleted
    BY <1>5, <1>7 DEF Consists
  <2>2. DOMAIN left = 1..Len(left)
    BY <1>7
  <2> QED BY <2>1, <2>2 DEF ToSet
<1>9. PICK rounder, chooser, status :
        /\ rounder = IF remote.roundedAt > local.roundedAt THEN remote ELSE local
        /\ chooser = IF remote.directAt > local.directAt THEN remote ELSE local
        /\ status = IF remote.statusAt = local.statusAt /\ remote.closed THEN remote
                    ELSE IF remote.statusAt > local.statusAt THEN remote ELSE local
  <2>1. \E a, b, c : /\ a = IF remote.roundedAt > local.roundedAt THEN remote ELSE local
                     /\ b = IF remote.directAt > local.directAt THEN remote ELSE local
                     /\ c = IF remote.statusAt = local.statusAt /\ remote.closed THEN remote
                            ELSE IF remote.statusAt > local.statusAt THEN remote ELSE local
    OBVIOUS
  <2> QED BY <2>1
<1>10. PICK d : d = United(remote, local)
  OBVIOUS
<1>11. d = [local EXCEPT
              !.expenses = left, !.deleted = deleted,
              !.rows = MergedRows(remote, local), !.updates = MergedUpdates(remote, local),
              !.log = remote.log \cup local.log,
              !.closed = status.closed, !.statusAt = status.statusAt,
              !.rounded = rounder.rounded, !.roundedAt = rounder.roundedAt,
              !.direct = chooser.direct, !.directAt = chooser.directAt]
  BY <1>1, <1>3, <1>5, <1>6, <1>9, <1>10 DEF United
<1>12. Fields \subseteq DOMAIN local
  BY DEF Facts
<1>13. /\ DOMAIN d = DOMAIN local /\ d.expenses = left /\ d.deleted = deleted
       /\ d.rows = MergedRows(remote, local) /\ d.updates = MergedUpdates(remote, local)
       /\ d.rounded = rounder.rounded /\ d.direct = chooser.direct /\ d.order = local.order
  BY <1>11, <1>12 DEF Fields
<1>14. rounder.rounded \in BOOLEAN /\ chooser.direct \in BOOLEAN /\ local.order \in Order
  BY <1>9 DEF Facts
<1> QED BY <1>7, <1>8, <1>10, <1>12, <1>13, <1>14 DEF Facts

LEMMA StatusesListing ==
  ASSUME NEW c, NEW n, Facts(c), History(c.updates, n), Rough(c.rows, c.updates), Memory(c.plans, c.updates)
  PROVE  Sound(WithStatuses(c), n) /\ WithStatuses(c).updates = c.updates
<1>1. PICK r : r = Applied(c.rows, c.updates)
  OBVIOUS
<1>2. Listing(r, c.updates)
  BY <1>1, AppliedListing
<1>3. PICK d : d = [c EXCEPT !.rows = r]
  OBVIOUS
<1>4. d = WithStatuses(c)
  BY <1>1, <1>3 DEF WithStatuses
<1>5. Fields \subseteq DOMAIN c
  BY DEF Facts
<1>6. /\ Fields \subseteq DOMAIN d /\ d.rows = r /\ d.direct = c.direct /\ d.expenses = c.expenses
      /\ d.deleted = c.deleted /\ d.updates = c.updates /\ d.rounded = c.rounded /\ d.order = c.order
      /\ d.plans = c.plans
  BY <1>3, <1>5 DEF Fields
<1> QED BY <1>2, <1>4, <1>6 DEF Sound, Facts

\* Merging keeps the newest updates and settles the ledger again.
THEOREM MergeCopy ==
  ASSUME NEW remote, NEW local, NEW n \in Nat, Sound(remote, n), Sound(local, n)
  PROVE  /\ Copy(Merge(remote, local), n)
         /\ Merge(remote, local).updates = MergedUpdates(remote, local)
<1>1. /\ Facts(remote) /\ History(remote.updates, n)
      /\ Listing(remote.rows, remote.updates) /\ Memory(remote.plans, remote.updates)
  BY DEF Sound
<1>2. /\ Facts(local) /\ History(local.updates, n)
      /\ Listing(local.rows, local.updates) /\ Memory(local.plans, local.updates)
  BY DEF Sound
<1>3. PICK us : us = MergedUpdates(remote, local)
  OBVIOUS
<1>4. /\ History(us, n) /\ us \subseteq remote.updates \cup local.updates
      /\ Newer(remote.updates, us) /\ Newer(local.updates, us)
  BY <1>1, <1>2, <1>3, NewestUpdates
<1>5. /\ us \in SUBSET Update /\ remote.updates \in SUBSET Update /\ local.updates \in SUBSET Update
  BY <1>1, <1>2, <1>4 DEF History
<1>6. PICK c : c = United(remote, local)
  OBVIOUS
<1>7. Facts(c) /\ c.rows = MergedRows(remote, local) /\ c.updates = us
  BY <1>1, <1>2, <1>3, <1>6, UnitedFacts
<1>8. Rough(c.rows, us)
  <2>1. remote.rows \in Named /\ local.rows \in Named
    BY <1>1, <1>2 DEF Listing
  <2>2. Merges(c.rows, remote.rows, local.rows)
    BY <1>7, <2>1, RowsMerge
  <2> QED BY <1>1, <1>2, <1>4, <1>5, <2>2, RoughStatuses
<1>9. PICK d : d = Remembering(remote, local, c)
  OBVIOUS
<1>10. Facts(d) /\ d.rows = c.rows /\ d.updates = us /\ d.plans = MergedPlans(remote, local, c)
  BY <1>7, <1>9, RememberingIs DEF KeepsFacts
<1>11. Memory(d.plans, us)
  BY <1>1, <1>2, <1>4, <1>5, <1>10, MergedPlansMemory
<1>12. PICK e : e = WithStatuses(d)
  OBVIOUS
<1>13. Sound(e, n) /\ e.updates = us
  BY <1>4, <1>8, <1>10, <1>11, <1>12, StatusesListing
<1>14. Merge(remote, local) = Restored(e)
  BY <1>6, <1>9, <1>12 DEF Merge
<1>15. Copy(Restored(e), n) /\ Restored(e).updates = us
  BY <1>13, RestoredCopy DEF KeepsFacts
<1> QED BY <1>3, <1>14, <1>15

\* The row's plan, where the copy differs from the row in nothing it depends on.
LEMMA PreservedInCopy ==
  ASSUME NEW c, NEW shared, NEW n, Copy(c, n), Sound(shared, n)
  PROVE  Copy(PreservedIn(c, shared), n) /\ KeepsFacts(c, PreservedIn(c, shared))
         /\ PreservedIn(c, shared).plans = c.plans
<1>1. Sound(c, n) /\ c.direct \in BOOLEAN /\ Fields \subseteq DOMAIN c
  BY DEF Copy, Sound, Facts
<1>2. PICK mode \in Modes : mode = Mode(c.direct)
  BY DEF Mode, Modes
<1>3. PICK entry : entry = c.plans[mode]
  OBVIOUS
<1>4. PICK r : r = IF Applies(c, c.direct, entry) THEN Plan(c, entry.order, c.direct, entry.rows)
                   ELSE Reconciled(shared).rows
  OBVIOUS
<1>5. PICK d : d = [c EXCEPT !.rows = r]
  OBVIOUS
<1>6. ASSUME PlanFor(c, r)
      PROVE  Copy(d, n) /\ KeepsFacts(c, d) /\ d.plans = c.plans
  <2>1. Copy(d, n)
    BY <1>1, <1>5, <1>6, TakesPlan
  <2> QED BY <1>1, <1>5, <1>6, <2>1 DEF Fields, KeepsFacts, PlanFor
<1>7. CASE Applies(c, c.direct, entry)
  <2>1. PlanFor(c, r)
    BY <1>1, <1>3, <1>4, <1>7, EntryPlan
  <2>2. PreservedIn(c, shared) = d
    BY <1>2, <1>3, <1>4, <1>5, <1>7 DEF PreservedIn, Replanned
  <2> QED BY <1>6, <2>1, <2>2
<1>8. CASE ~Applies(c, c.direct, entry) /\ c.rows # shared.rows /\ SameInputs(c, shared)
  <2>1. shared.order \in Order /\ shared.direct \in BOOLEAN /\ Fields \subseteq DOMAIN shared
    BY DEF Sound, Facts
  <2>2. PICK p : p = Plan(shared, shared.order, shared.direct, Pending(shared.rows))
    OBVIOUS
  <2>3. PlanFor(shared, p)
    BY <2>1, <2>2, PlanKept
  <2>4. Reconciled(shared).rows = p
    BY <2>1, <2>2 DEF Reconciled, Fields
  <2>5. Balances(c.expenses) = Balances(shared.expenses) /\ c.rounded = shared.rounded
        /\ c.updates = shared.updates /\ ToSet(Paid(c.rows)) = ToSet(Paid(shared.rows))
    BY <1>8 DEF SameInputs, Balances
  <2>6. r = p
    BY <1>4, <1>8, <2>4
  <2>7. PlanFor(c, r)
    BY <2>3, <2>5, <2>6 DEF PlanFor
  <2>8. PreservedIn(c, shared) = d
    BY <1>2, <1>3, <1>4, <1>5, <1>8 DEF PreservedIn
  <2> QED BY <1>6, <2>7, <2>8
<1>9. CASE ~Applies(c, c.direct, entry) /\ ~(c.rows # shared.rows /\ SameInputs(c, shared))
  <2>1. PreservedIn(c, shared) = c
    BY <1>2, <1>3, <1>9 DEF PreservedIn
  <2> QED BY <2>1 DEF KeepsFacts
<1> QED BY <1>7, <1>8, <1>9

\* Keeping the shared row's plan, where the inputs agree, gives a copy.
LEMMA PreservedCopy ==
  ASSUME NEW c, NEW shared, NEW n, Copy(c, n), Sound(shared, n), Newer(shared.updates, c.updates)
  PROVE  Copy(Preserved(c, shared), n) /\ Preserved(c, shared).updates = c.updates
<1>1. PICK d : d = Remembering(shared, c, c)
  OBVIOUS
<1>2. Facts(c) /\ Sound(c, n) /\ Balanced(c)
  BY DEF Copy, Sound
<1>3. /\ Facts(d) /\ KeepsFacts(c, d) /\ d.rows = c.rows /\ d.plans = MergedPlans(shared, c, c)
  BY <1>1, <1>2, RememberingIs
<1>4. Memory(d.plans, d.updates)
  <2>1. c.updates \in SUBSET Update /\ shared.updates \in SUBSET Update
    BY <1>2 DEF Sound, History
  <2>2. Newer(c.updates, c.updates)
    BY <2>1, NewerIncludes
  <2>3. Memory(c.plans, c.updates) /\ Memory(shared.plans, shared.updates)
    BY <1>2 DEF Sound
  <2>4. Memory(d.plans, c.updates)
    BY <1>3, <2>1, <2>2, <2>3, MergedPlansMemory
  <2> QED BY <1>3, <2>4 DEF KeepsFacts
<1>5. Copy(d, n)
  BY <1>2, <1>3, <1>4 DEF Copy, Sound, Balanced, KeepsFacts
<1>6. Preserved(c, shared) = PreservedIn(d, shared)
  BY <1>1 DEF Preserved
<1> QED BY <1>3, <1>5, <1>6, PreservedInCopy DEF KeepsFacts

\* What a read makes of a copy.
LEMMA ReadCopy ==
  ASSUME NEW c, NEW shared, NEW n \in Nat, Sound(c, n), Sound(shared, n)
  PROVE  Copy(Read(c, shared), n) /\ Read(c, shared).updates = MergedUpdates(c, shared)
<1>1. PICK m : m = Merge(c, shared)
  OBVIOUS
<1>2. Copy(m, n) /\ m.updates = MergedUpdates(c, shared)
  BY <1>1, MergeCopy
<1>3. Newer(shared.updates, m.updates)
  BY <1>2, NewestUpdates DEF Sound
<1>4. Read(c, shared) = Preserved(m, shared)
  BY <1>1 DEF Read
<1> QED BY <1>2, <1>3, <1>4, PreservedCopy

\* What a write makes of the row.
LEMMA CandidateCopy ==
  ASSUME NEW d, NEW payload, NEW n \in Nat, Sound(canon, n), Sound(payload, n)
  PROVE  /\ Copy(Candidate(d, payload), n)
         /\ Candidate(d, payload).updates = MergedUpdates(canon, payload)
<1>1. PICK m : m = Merge(canon, payload)
  OBVIOUS
<1>2. Copy(m, n) /\ m.updates = MergedUpdates(canon, payload)
  BY <1>1, MergeCopy
<1>3. Newer(canon.updates, m.updates)
  BY <1>2, NewestUpdates DEF Sound
<1>4. PICK p : p = Preserved(m, canon)
  OBVIOUS
<1>5. Copy(p, n) /\ p.updates = m.updates
  BY <1>2, <1>3, <1>4, PreservedCopy
<1>6. PICK q : q = [p EXCEPT !.plans = canon.plans]
  OBVIOUS
<1>7. Candidate(d, payload) = IF IsAdmin(d) THEN p ELSE q
  BY <1>1, <1>4, <1>6 DEF Candidate, AsWritten
<1>8. Copy(q, n) /\ q.updates = p.updates
  <2>1. Fields \subseteq DOMAIN p
    BY <1>5 DEF Copy, Sound, Facts
  <2>2. /\ Fields \subseteq DOMAIN q /\ q.rows = p.rows /\ q.direct = p.direct /\ q.expenses = p.expenses
        /\ q.deleted = p.deleted /\ q.updates = p.updates /\ q.rounded = p.rounded /\ q.order = p.order
        /\ q.plans = canon.plans
    BY <1>6, <2>1 DEF Fields
  <2>3. p.updates \in SUBSET Update /\ canon.updates \in SUBSET Update
    BY <1>5 DEF Copy, Sound, History
  <2>4. Memory(q.plans, q.updates)
    BY <1>3, <1>5, <2>2, <2>3, MemoryLater DEF Sound
  <2> QED BY <1>5, <2>2, <2>4 DEF Copy, Sound, Facts, Balanced
<1> QED BY <1>2, <1>5, <1>7, <1>8

-----------------------------------------------------------------------------
(* What the person using a device does.                                    *)

Held == {"expenses", "deleted", "rows", "updates", "rounded", "direct", "plans", "order"}

\* The activity log and the like have no part in it.
LEMMA CopyLike ==
  ASSUME NEW c, NEW d, NEW n, Copy(c, n), Fields \subseteq DOMAIN d, \A f \in Held : d[f] = c[f]
  PROVE  Copy(d, n)
<1>1. /\ d.rows = c.rows /\ d.direct = c.direct /\ d.expenses = c.expenses
      /\ d.deleted = c.deleted /\ d.updates = c.updates /\ d.rounded = c.rounded /\ d.order = c.order
      /\ d.plans = c.plans
  BY DEF Held
<1> QED BY <1>1 DEF Copy, Sound, Facts, Balanced

\* A change: what it makes of c is an event, and no update is older than it was.
Changes(c, d, n) == Copy(d, n) /\ Newer(c.updates, d.updates)

LEMMA LoggedChanges ==
  ASSUME NEW c, NEW d, NEW n, Changes(c, d, n), NEW id, NEW paid, NEW at
  PROVE  Changes(c, Logged(d, id, paid, at), n)
<1>1. PICK e : e = Logged(d, id, paid, at)
  OBVIOUS
<1>2. Fields \subseteq DOMAIN d /\ Copy(d, n)
  BY DEF Changes, Copy, Sound, Facts
<1>3. Fields \subseteq DOMAIN e /\ \A f \in Held : e[f] = d[f]
  BY <1>1, <1>2 DEF Logged, Fields, Held
<1>4. Copy(e, n)
  BY <1>2, <1>3, CopyLike
<1>5. e.updates = d.updates
  BY <1>3 DEF Held
<1> QED BY <1>1, <1>4, <1>5 DEF Changes

\* Adding an expense.
LEMMA AddChanges ==
  ASSUME NEW c, NEW n, Copy(c, n), NEW e \in Expense, e \notin c.deleted
  PROVE  Changes(c, Reconciled([c EXCEPT !.expenses = <<e>> \o @]), n)
<1>1. PICK all : all = <<e>> \o c.expenses
  OBVIOUS
<1>2. Facts(c)
  BY DEF Copy, Sound
<1>3. c.expenses \in Seq(Expense) /\ Fields \subseteq DOMAIN c /\ ToSet(c.expenses) \cap c.deleted = {}
  BY <1>2 DEF Facts
<1>4. all \in Seq(Expense) /\ ToSet(all) \subseteq {e} \cup ToSet(c.expenses)
  <2>0. PICK s \in Seq(Expense) : s = c.expenses
    BY <1>3
  <2>1. PICK k \in Nat : k = Len(s)
    OBVIOUS
  <2>9. PICK one : one = <<e>>
    OBVIOUS
  <2>2. one \in Seq(Expense) /\ Len(one) = 1 /\ one[1] = e
    BY <2>9
  <2>10. all = one \o s
    BY <1>1, <2>0, <2>9
  <2>11. /\ all \in Seq(Expense) /\ Len(all) = Len(one) + Len(s)
         /\ \A i \in 1..(Len(one) + Len(s)) : all[i] = IF i <= Len(one) THEN one[i] ELSE s[i - Len(one)]
    BY <2>10, <2>2, ConcatProperties
  <2>12. Len(one) + Len(s) = k + 1
    BY <2>1, <2>2
  <2>3. all \in Seq(Expense) /\ Len(all) = k + 1
    BY <2>11, <2>12
  <2>4. \A i \in 1..(k + 1) : all[i] = IF i <= 1 THEN one[i] ELSE s[i - 1]
    BY <2>2, <2>11, <2>12
  <2>5. DOMAIN all = 1..(k + 1) /\ DOMAIN s = 1..k
    BY <2>1, <2>3
  <2>6. \A i \in 1..(k + 1) : i <= 1 => i = 1
    OBVIOUS
  <2>7. \A i \in 1..(k + 1) : ~(i <= 1) => i - 1 \in 1..k
    OBVIOUS
  <2>8. \A i \in 1..(k + 1) : all[i] = e \/ all[i] \in ToSet(s)
    BY <2>2, <2>4, <2>5, <2>6, <2>7 DEF ToSet
  <2> QED BY <2>0, <2>3, <2>5, <2>8 DEF ToSet
<1>5. PICK d : d = [c EXCEPT !.expenses = all]
  OBVIOUS
<1>6. /\ Fields \subseteq DOMAIN d /\ d.expenses = all /\ d.rows = c.rows /\ d.direct = c.direct
      /\ d.deleted = c.deleted /\ d.updates = c.updates /\ d.rounded = c.rounded /\ d.order = c.order
      /\ d.plans = c.plans
  BY <1>3, <1>5 DEF Fields
<1>7. Facts(d)
  BY <1>2, <1>3, <1>4, <1>6 DEF Facts
<1>8. Sound(d, n)
  BY <1>6, <1>7 DEF Copy, Sound
<1>9. Copy(Reconciled(d), n) /\ Reconciled(d).updates = c.updates
  BY <1>6, <1>8, ReconciledCopy DEF KeepsFacts
<1>10. Newer(c.updates, c.updates)
  BY NewerIncludes DEF Copy, Sound, History
<1> QED BY <1>1, <1>5, <1>9, <1>10 DEF Changes

\* Removing one.
LEMMA RemoveChanges ==
  ASSUME NEW c, NEW n, Copy(c, n), NEW e
  PROVE  Changes(c, Reconciled([c EXCEPT !.expenses = Among(@, {i \in DOMAIN @ : @[i] # e}),
                                         !.deleted = @ \cup {e}]), n)
<1>1. PICK s, places : s = c.expenses /\ places = {i \in DOMAIN s : s[i] # e}
  <2>1. \E a, b : a = c.expenses /\ b = {i \in DOMAIN a : a[i] # e}
    OBVIOUS
  <2> QED BY <2>1
<1>2. Facts(c)
  BY DEF Copy, Sound
<1>3. s \in Seq(Expense) /\ Fields \subseteq DOMAIN c /\ ToSet(s) \cap c.deleted = {}
  BY <1>1, <1>2 DEF Facts
<1>4. PICK left : left = Among(s, places)
  OBVIOUS
<1>5. left \in Seq(Expense) /\ Consists(left, s, places)
  BY <1>3, <1>4, AmongElements
<1>6. ToSet(left) \cap (c.deleted \cup {e}) = {}
  <2>1. \A k \in 1..Len(left) : left[k] # e /\ left[k] \in ToSet(s)
    BY <1>1, <1>3, <1>5 DEF Consists, ToSet
  <2>2. DOMAIN left = 1..Len(left)
    BY <1>5
  <2> QED BY <1>3, <2>1, <2>2 DEF ToSet
<1>7. PICK d : d = [c EXCEPT !.expenses = left, !.deleted = c.deleted \cup {e}]
  OBVIOUS
<1>8. /\ Fields \subseteq DOMAIN d /\ d.expenses = left /\ d.rows = c.rows /\ d.direct = c.direct
      /\ d.deleted = c.deleted \cup {e} /\ d.updates = c.updates /\ d.rounded = c.rounded /\ d.order = c.order
      /\ d.plans = c.plans
  BY <1>3, <1>7 DEF Fields
<1>9. Facts(d)
  BY <1>2, <1>5, <1>6, <1>8 DEF Facts
<1>10. Sound(d, n)
  BY <1>8, <1>9 DEF Copy, Sound
<1>11. Copy(Reconciled(d), n) /\ Reconciled(d).updates = c.updates
  BY <1>8, <1>10, ReconciledCopy DEF KeepsFacts
<1>12. Newer(c.updates, c.updates)
  BY NewerIncludes DEF Copy, Sound, History
<1>13. d = [c EXCEPT !.expenses = Among(@, {i \in DOMAIN @ : @[i] # e}), !.deleted = @ \cup {e}]
  BY <1>1, <1>4, <1>7
<1> QED BY <1>11, <1>12, <1>13 DEF Changes

\* Some transfers are marked as paid, or as owed again.
LEMMA MarkedChanges ==
  ASSUME NEW c, NEW n \in Nat, Copy(c, n), NEW ids, ids \subseteq Ids(c.rows), NEW paid \in BOOLEAN
  PROVE  Changes(c, Marked(c, ids, paid, n), n)
<1>1. /\ Facts(c) /\ History(c.updates, n) /\ Listing(c.rows, c.updates) /\ Memory(c.plans, c.updates)
      /\ Balanced(c)
  BY DEF Copy, Sound
<1>2. PICK rows, us : rows = c.rows /\ us = c.updates
  OBVIOUS
<1>3. rows \in Named /\ rows \in Seq(Transfer) /\ us \in SUBSET Update /\ \A u \in us : u.at <= n
  BY <1>1, <1>2 DEF Listing, History, Named
<1>4. PICK m \in Nat : m = Len(rows) /\ DOMAIN rows = 1..m
  BY <1>3
<1>5. PICK r : r = [i \in 1..m |-> IF rows[i].id \in ids THEN [rows[i] EXCEPT !.paid = paid, !.at = n] ELSE rows[i]]
  OBVIOUS
<1>6. PICK new : new = {u \in us : u.id \notin ids} \cup [id : ids, paid : {paid}, at : {n}]
  OBVIOUS
<1>7. PICK d : d = [c EXCEPT !.rows = r, !.updates = new]
  OBVIOUS
<1>8. d = Marked(c, ids, paid, n)
  BY <1>2, <1>4, <1>5, <1>6, <1>7 DEF Marked
<1>9. Fields \subseteq DOMAIN c
  BY <1>1 DEF Facts
<1>10. /\ Fields \subseteq DOMAIN d /\ d.expenses = c.expenses /\ d.rows = r /\ d.direct = c.direct
       /\ d.deleted = c.deleted /\ d.updates = new /\ d.rounded = c.rounded /\ d.order = c.order
       /\ d.plans = c.plans
  BY <1>7, <1>9 DEF Fields
<1>11. \A id \in ids : id \in Id /\ \E i \in 1..m : rows[i].id = id
  <2>1. \A id \in ids : \E i \in 1..m : rows[i].id = id
    BY <1>2, <1>3, <1>4, IdsOf
  <2>2. \A i \in 1..m : rows[i].id \in Id
    BY <1>3, <1>4 DEF Transfer
  <2> QED BY <2>1, <2>2
<1>12. new \in SUBSET Update
  BY <1>3, <1>6, <1>11 DEF Update
<1>13. \A u \in new : (u.id \in ids /\ u.paid = paid /\ u.at = n) \/ (u \in us /\ u.id \notin ids)
  BY <1>6
<1>14. \A id \in ids : \E u \in new : u.id = id /\ u.paid = paid /\ u.at = n
  <2> SUFFICES ASSUME NEW id \in ids PROVE \E u \in new : u.id = id /\ u.paid = paid /\ u.at = n
    OBVIOUS
  <2>1. [id |-> id, paid |-> paid, at |-> n] \in new
    BY <1>6
  <2> QED BY <2>1
<1>15. History(new, n)
  <2>1. \A u \in new : u.at <= n
    BY <1>3, <1>13
  <2>2. ASSUME NEW u \in new, NEW v \in new, u.id = v.id PROVE u = v
    <3>1. u \in Update /\ v \in Update
      BY <1>12
    <3>2. CASE u.id \in ids
      <4>1. u.paid = v.paid /\ u.at = v.at
        BY <1>13, <2>2, <3>2
      <4> QED BY <2>2, <3>1, <4>1 DEF Update
    <3>3. CASE u.id \notin ids
      <4>1. u \in us /\ v \in us
        BY <1>13, <2>2, <3>3
      <4> QED BY <1>1, <1>2, <2>2, <4>1 DEF History
    <3> QED BY <3>2, <3>3
  <2> QED BY <1>12, <2>1, <2>2 DEF History
<1>16. Newer(us, new)
  <2> SUFFICES ASSUME NEW u \in us PROVE \E v \in new : v.id = u.id /\ v.at >= u.at
    BY DEF Newer
  <2>1. CASE u.id \in ids
    BY <1>3, <1>14, <2>1 DEF Update
  <2>2. CASE u.id \notin ids
    <3>1. u \in new
      BY <1>6, <2>2
    <3>2. u.at \in Nat
      BY <1>3 DEF Update
    <3> QED BY <3>1, <3>2
  <2> QED BY <2>1, <2>2
<1>17. ASSUME NEW i \in 1..m
       PROVE  /\ r[i] \in Transfer /\ r[i].id = rows[i].id
              /\ r[i].from = rows[i].from /\ r[i].to = rows[i].to /\ r[i].amount = rows[i].amount
              /\ rows[i].id \in ids => r[i].paid = paid /\ r[i].at = n
              /\ rows[i].id \notin ids => r[i] = rows[i]
  <2>1. PICK t \in Transfer : t = rows[i]
    BY <1>3, <1>4
  <2>2. r[i] = IF t.id \in ids THEN [t EXCEPT !.paid = paid, !.at = n] ELSE t
    BY <1>5, <2>1
  <2> QED BY <2>1, <2>2 DEF Transfer
<1>18. r \in Seq(Transfer) /\ Len(r) = m
  <2>1. r = [i \in 1..m |-> r[i]]
    BY <1>5
  <2>2. \A i \in 1..m : r[i] \in Transfer
    BY <1>17
  <2> QED BY <2>1, <2>2
<1>19. r \in Named
  <2> SUFFICES ASSUME NEW i \in 1..m, NEW j \in 1..m, r[i].id = r[j].id PROVE i = j
    BY <1>18 DEF Named
  <2>1. rows[i].id = rows[j].id
    BY <1>17
  <2> QED BY <1>3, <1>4, <2>1 DEF Named
<1>20. ASSUME NEW i \in 1..m PROVE Dated(r[i], new)
  <2>1. CASE rows[i].id \in ids
    <3>1. PICK u \in new : u.id = r[i].id /\ u.paid = r[i].paid /\ u.at = r[i].at
      BY <1>14, <1>17, <2>1
    <3>2. u.at >= r[i].at
      BY <1>12, <3>1 DEF Update
    <3> QED BY <3>1, <3>2 DEF Dated
  <2>2. CASE rows[i].id \notin ids
    <3>1. PICK t : t = rows[i]
      OBVIOUS
    <3>2. Dated(t, us)
      BY <1>1, <1>2, <1>4, <3>1 DEF Listing
    <3>3. \A u \in us : u.id = t.id => u \in new
      BY <1>6, <2>2, <3>1
    <3>4. Dated(t, new)
      BY <3>2, <3>3 DEF Dated
    <3> QED BY <1>17, <2>2, <3>1, <3>4
  <2> QED BY <2>1, <2>2
<1>21. ASSUME NEW u \in new, u.paid PROVE \E i \in 1..m : r[i].id = u.id /\ r[i].paid
  <2>1. CASE u.id \in ids
    <3>1. PICK i \in 1..m : rows[i].id = u.id
      BY <1>11, <2>1
    <3> QED BY <1>13, <1>17, <1>21, <2>1, <3>1
  <2>2. CASE u.id \notin ids
    <3>1. u \in us
      BY <1>13, <2>2
    <3>2. PICK i \in 1..m : rows[i].id = u.id /\ rows[i].paid
      BY <1>1, <1>2, <1>4, <1>21, <3>1 DEF Listing
    <3> QED BY <1>17, <2>2, <3>2
  <2> QED BY <2>1, <2>2
<1>22. Listing(r, new)
  BY <1>18, <1>19, <1>20, <1>21 DEF Listing
<1>23. Memory(d.plans, new)
  BY <1>1, <1>2, <1>3, <1>10, <1>12, <1>16, MemoryLater
<1>24. Sound(d, n)
  BY <1>1, <1>10, <1>15, <1>22, <1>23 DEF Sound, Facts
<1>25. Balanced(d)
  <2>1. PICK b \in Balance : b = Balances(c.expenses)
    BY <1>1, BalancesEven DEF Facts
  <2>2. SameMoves(r, rows)
    BY <1>4, <1>17, <1>18 DEF SameMoves
  <2>3. After(b, r) = After(b, rows)
    BY <1>3, <1>18, <2>2, AfterSameMoves
  <2>4. r = <<>> <=> rows = <<>>
    BY <1>3, <1>4, <1>18, EmptySeq
  <2> QED BY <1>1, <1>2, <1>10, <2>1, <2>3, <2>4 DEF Balanced, Settled
<1> QED BY <1>2, <1>8, <1>10, <1>16, <1>24, <1>25 DEF Changes, Copy

\* Undoing a payment.
LEMMA UndoneChanges ==
  ASSUME NEW c, now \in Nat, Copy(c, now), NEW id \in Ids(c.rows)
  PROVE  Changes(c, Undone(c, id), now)
<1>1. PICK ids : ids = {id} /\ ids \subseteq Ids(c.rows)
  <2>1. {id} \subseteq Ids(c.rows)
    OBVIOUS
  <2> QED BY <2>1
<1>2. PICK d : d = Marked(c, ids, FALSE, now)
  OBVIOUS
<1>3. FALSE \in BOOLEAN
  OBVIOUS
<1>4. Changes(c, d, now)
  BY <1>1, <1>2, <1>3, MarkedChanges
<1>5. PICK e : e = Reconciled(d)
  OBVIOUS
<1>6. Copy(e, now) /\ e.updates = d.updates
  BY <1>4, <1>5, ReconciledCopy DEF Changes, Copy, KeepsFacts
<1>7. Changes(c, e, now)
  BY <1>4, <1>6 DEF Changes
<1>8. Undone(c, id) = Logged(e, id, FALSE, now)
  BY <1>1, <1>2, <1>5 DEF Undone
<1> QED BY <1>7, <1>8, LoggedChanges

\* A person's change of an event is an event, and forgets no update.
LEMMA PersonChanges ==
  ASSUME IInv, NEW d \in Device, Act(d), ~ReadAnotherEvent(d)
  PROVE  \E c : Change(d, c) /\ Changes(copy[d], c, now)
<1> DEFINE Goal == \E c : Change(d, c) /\ Changes(copy[d], c, now)
<1>1. PICK x : x = copy[d]
  OBVIOUS
<1>2. Copy(x, now) /\ now \in Nat
  <2>1. now \in 1..MaxTime /\ Copy(copy[d], now)
    BY DEF IInv
  <2>2. now \in Nat
    BY <2>1
  <2> QED BY <1>1, <2>1, <2>2
<1>3. Facts(x) /\ Fields \subseteq DOMAIN x /\ x.rows \in Named /\ x.updates \in SUBSET Update
  BY <1>2 DEF Copy, Sound, Facts, Listing, History
<1>4. PICK n \in Nat : n = Len(x.rows) /\ DOMAIN x.rows = 1..n
  BY <1>3 DEF Named
<1>5. \A i \in 1..n : x.rows[i].id \in Ids(x.rows)
  BY <1>3, <1>4, IdsOf DEF Named
<1>6. Newer(x.updates, x.updates)
  BY <1>3, NewerIncludes
<1>7. ASSUME NEW e \in Expense, AddExpense(d, e) PROVE Goal
  <2>1. PICK c : c = Reconciled([x EXCEPT !.expenses = <<e>> \o @])
    OBVIOUS
  <2>2. e \notin x.deleted /\ Change(d, c)
    BY <1>1, <1>7, <2>1 DEF AddExpense
  <2>3. Changes(x, c, now)
    BY <1>2, <2>1, <2>2, AddChanges
  <2> QED BY <1>1, <2>2, <2>3
<1>8. ASSUME NEW e \in Expense, RemoveExpense(d, e) PROVE Goal
  <2>1. PICK c : c = Reconciled([x EXCEPT !.expenses = Among(@, {i \in DOMAIN @ : @[i] # e}),
                                          !.deleted = @ \cup {e}])
    OBVIOUS
  <2>2. Change(d, c)
    BY <1>1, <1>8, <2>1 DEF RemoveExpense
  <2>3. Changes(x, c, now)
    BY <1>2, <2>1, RemoveChanges
  <2> QED BY <1>1, <2>2, <2>3
<1>9. ASSUME NEW i \in DOMAIN x.rows, MarkPaid(d, i) PROVE Goal
  <2>1. PICK id \in Ids(x.rows) : id = x.rows[i].id
    BY <1>4, <1>5
  <2>2. PICK ids : ids = {id} /\ ids \subseteq Ids(x.rows)
    <3>1. {id} \subseteq Ids(x.rows)
      OBVIOUS
    <3> QED BY <3>1
  <2>3. PICK y : y = Marked(x, ids, TRUE, now)
    OBVIOUS
  <2>4. TRUE \in BOOLEAN
    OBVIOUS
  <2>5. Changes(x, y, now)
    BY <1>2, <2>2, <2>3, <2>4, MarkedChanges
  <2>6. PICK c : c = Logged(y, id, TRUE, now)
    OBVIOUS
  <2>7. Changes(x, c, now)
    BY <2>5, <2>6, LoggedChanges
  <2>8. Change(d, c)
    BY <1>1, <1>9, <2>1, <2>2, <2>3, <2>6 DEF MarkPaid
  <2> QED BY <1>1, <2>7, <2>8
<1>10. ASSUME NEW i \in DOMAIN x.rows, MarkPending(d, i) PROVE Goal
  <2>1. PICK id \in Ids(x.rows) : id = x.rows[i].id
    BY <1>4, <1>5
  <2>2. PICK c : c = Undone(x, id)
    OBVIOUS
  <2>3. Changes(x, c, now)
    BY <1>2, <2>2, UndoneChanges
  <2>4. Change(d, c)
    BY <1>1, <1>10, <2>1, <2>2 DEF MarkPending
  <2> QED BY <1>1, <2>3, <2>4
<1>11. ASSUME NEW reset \in BOOLEAN, Reopen(d, reset) PROVE Goal
  <2>1. PICK y : y = [x EXCEPT !.closed = FALSE, !.statusAt = now]
    OBVIOUS
  <2>2. Fields \subseteq DOMAIN y /\ \A f \in Held : y[f] = x[f]
    BY <1>3, <2>1 DEF Fields, Held
  <2>3. Copy(y, now)
    BY <1>2, <2>2, CopyLike
  <2>4. y.rows = x.rows /\ y.updates = x.updates
    BY <2>2 DEF Held
  <2>5. CASE reset
    <3>1. PICK ids : ids = Ids(Paid(y.rows))
      OBVIOUS
    <3>2. ids \subseteq Ids(y.rows)
      <4>1. PICK p : p = Paid(y.rows)
        OBVIOUS
      <4>2. Sifted(p, x.rows, TRUE)
        BY <1>3, <2>4, <4>1, Sifts
      <4>3. p \in Seq(Transfer)
        BY <4>2 DEF Sifted, Named
      <4>4. \A id \in ids : \E k \in 1..Len(p) : p[k].id = id
        BY <3>1, <4>1, <4>3, IdsOf
      <4>5. \A k \in 1..Len(p) : \E i \in 1..n : p[k] = x.rows[i]
        BY <1>4, <4>2 DEF Sifted
      <4>6. \A k \in 1..Len(p) : p[k].id \in Ids(x.rows)
        BY <1>5, <4>5
      <4> QED BY <2>4, <4>4, <4>6
    <3>3. FALSE \in BOOLEAN
      OBVIOUS
    <3>4. PICK c : c = Marked(y, ids, FALSE, now)
      OBVIOUS
    <3>5. Changes(y, c, now)
      BY <1>2, <2>3, <3>2, <3>3, <3>4, MarkedChanges
    <3>6. Change(d, c)
      BY <1>1, <1>11, <2>1, <2>5, <3>1, <3>4 DEF Reopen
    <3> QED BY <1>1, <2>4, <3>5, <3>6 DEF Changes
  <2>6. CASE ~reset
    <3>1. Change(d, y)
      BY <1>1, <1>11, <2>1, <2>6 DEF Reopen
    <3> QED BY <1>1, <1>6, <2>3, <2>4, <3>1 DEF Changes
  <2> QED BY <2>5, <2>6
<1>12. ASSUME SetRounding(d) PROVE Goal
  <2>1. PICK y : y = [x EXCEPT !.rounded = ~@, !.roundedAt = Later(now, @ + 1)]
    OBVIOUS
  <2>2. /\ Fields \subseteq DOMAIN y /\ y.rounded = ~x.rounded /\ y.expenses = x.expenses /\ y.rows = x.rows
        /\ y.direct = x.direct /\ y.deleted = x.deleted /\ y.updates = x.updates /\ y.order = x.order
        /\ y.plans = x.plans
    BY <1>3, <2>1 DEF Fields
  <2>3. Sound(y, now)
    BY <1>2, <2>2 DEF Copy, Sound, Facts
  <2>4. CASE y.rows = <<>>
    <3>1. Balanced(y)
      <4>1. Balanced(x) /\ x.rounded \in BOOLEAN
        BY <1>2, <1>3 DEF Copy, Facts
      <4>2. (x.rounded \/ x.rows = <<>>) = (y.rounded \/ y.rows = <<>>)
        BY <2>2, <2>4
      <4> QED BY <2>2, <4>1, <4>2 DEF Balanced
    <3>2. Change(d, y)
      BY <1>1, <1>12, <2>1, <2>4 DEF SetRounding
    <3> QED BY <1>1, <1>6, <2>2, <2>3, <3>1, <3>2 DEF Changes, Copy
  <2>5. CASE y.rows # <<>>
    <3>1. PICK c : c = Reconciled(y)
      OBVIOUS
    <3>2. Copy(c, now) /\ c.updates = y.updates
      BY <2>3, <3>1, ReconciledCopy DEF KeepsFacts
    <3>3. Change(d, c)
      BY <1>1, <1>12, <2>1, <2>5, <3>1 DEF SetRounding
    <3> QED BY <1>1, <1>6, <2>2, <3>2, <3>3 DEF Changes
  <2> QED BY <2>4, <2>5
<1>13. ASSUME NEW direct \in BOOLEAN, SetDirect(d, direct) PROVE Goal
  <2>1. PICK y : y = Selected(x, direct)
    OBVIOUS
  <2>2. Copy(y, now) /\ y.updates = x.updates
    BY <1>2, <2>1, SelectedCopy DEF KeepsFacts
  <2>3. PICK c : c = [y EXCEPT !.directAt = Later(now, @ + 1)]
    OBVIOUS
  <2>4. Fields \subseteq DOMAIN y
    BY <2>2 DEF Copy, Sound, Facts
  <2>5. Fields \subseteq DOMAIN c /\ \A f \in Held : c[f] = y[f]
    BY <2>3, <2>4 DEF Fields, Held
  <2>6. Copy(c, now)
    BY <2>2, <2>5, CopyLike
  <2>7. c.updates = y.updates
    BY <2>5 DEF Held
  <2>8. Change(d, c)
    BY <1>1, <1>13, <2>1, <2>3 DEF SetDirect
  <2> QED BY <1>1, <1>6, <2>2, <2>6, <2>7, <2>8 DEF Changes
<1>14. ASSUME OpenSettlement(d) PROVE Goal
  <2>1. PICK c : c = Reconciled(x)
    OBVIOUS
  <2>2. Copy(c, now) /\ c.updates = x.updates
    BY <1>2, <2>1, ReconciledCopy DEF Copy, KeepsFacts
  <2>3. Change(d, c)
    BY <1>1, <1>14, <2>1 DEF OpenSettlement
  <2> QED BY <1>1, <1>6, <2>2, <2>3 DEF Changes
<1> HIDE DEF Goal
<1>15. Goal
  BY <1>1, <1>7, <1>8, <1>9, <1>10, <1>11, <1>12, <1>13, <1>14 DEF Act
<1> QED BY <1>15 DEF Goal

-----------------------------------------------------------------------------
(* The invariant.                                                          *)

\* The event as created, with the plan of its first expenses.
LEMMA CreatedCopy ==
  ASSUME NEW closed
  PROVE  Copy(Created(closed), 1) /\ Created(closed).updates = {}
<1>1. PICK plans : plans = [mode \in {"smart", "direct"} |-> Nothing]
  OBVIOUS
<1>2. PICK c : c = [expenses |-> FirstExpenses, deleted |-> {}, rows |-> <<>>, updates |-> {}, log |-> {},
                    closed |-> closed, statusAt |-> 1, rounded |-> FirstRounded, roundedAt |-> 1,
                    direct |-> FALSE, directAt |-> 1, plans |-> plans, order |-> ListOrder]
  OBVIOUS
<1>3. /\ Fields \subseteq DOMAIN c /\ c.expenses = FirstExpenses /\ c.deleted = {} /\ c.rows = <<>>
      /\ c.updates = {} /\ c.rounded = FirstRounded /\ c.direct = FALSE /\ c.plans = plans /\ c.order = ListOrder
  BY <1>2 DEF Fields
<1>4. Facts(c)
  BY <1>3, ReplicasAssumption DEF Facts
<1>5. History(c.updates, 1)
  BY <1>3 DEF History
<1>6. Listing(c.rows, c.updates)
  BY <1>3, EmptySeq DEF Listing, Named
<1>7. Memory(c.plans, c.updates)
  BY <1>1, <1>3 DEF Memory, Modes
<1>8. Sound(c, 1)
  BY <1>4, <1>5, <1>6, <1>7 DEF Sound
<1>9. Created(closed) = Reconciled(c)
  BY <1>1, <1>2 DEF Created
<1> QED BY <1>3, <1>8, <1>9, ReconciledCopy DEF KeepsFacts

LEMMA FirstPaidCopy ==
  ASSUME NEW c, Copy(c, 1)
  PROVE  Copy(FirstPaid(c), 1)
<1>1. CASE c.rows = <<>>
  BY <1>1 DEF FirstPaid
<1>2. CASE c.rows # <<>>
  <2>1. c.rows \in Seq(Transfer)
    BY DEF Copy, Sound, Listing, Named
  <2>2. Head(c.rows) = c.rows[1] /\ 1 \in 1..Len(c.rows)
    BY <1>2, <2>1
  <2>3. PICK id : id = Head(c.rows).id
    OBVIOUS
  <2>4. id \in Ids(c.rows)
    BY <2>1, <2>2, <2>3, IdsOf
  <2>5. PICK ids : ids = {id} /\ ids \subseteq Ids(c.rows)
    <3>1. {id} \subseteq Ids(c.rows)
      BY <2>4
    <3> QED BY <3>1
  <2>6. PICK d : d = Marked(c, ids, TRUE, 1)
    OBVIOUS
  <2>7. TRUE \in BOOLEAN /\ 1 \in Nat
    OBVIOUS
  <2>8. Changes(c, d, 1)
    BY <2>5, <2>6, <2>7, MarkedChanges
  <2>9. Changes(c, Logged(d, id, TRUE, 1), 1)
    BY <2>8, LoggedChanges
  <2>10. FirstPaid(c) = Logged(d, id, TRUE, 1)
    BY <1>2, <2>3, <2>5, <2>6 DEF FirstPaid
  <2> QED BY <2>9, <2>10 DEF Changes
<1> QED BY <1>1, <1>2

\* The initial states.
LEMMA Initially == Init => IInv
<1> SUFFICES ASSUME Init PROVE IInv
  OBVIOUS
<1>1. now = 1 /\ copy = [d \in Device |-> canon] /\ outbox = [d \in Device |-> Nothing]
  BY DEF Init
<1>2. Copy(canon, 1)
  <2>1. PICK closed \in BOOLEAN : canon \in {Created(closed), FirstPaid(Created(closed))}
    BY DEF Init
  <2>2. PICK c : c = Created(closed)
    OBVIOUS
  <2>3. Copy(c, 1)
    BY <2>2, CreatedCopy
  <2>4. Copy(FirstPaid(c), 1)
    BY <2>3, FirstPaidCopy
  <2> QED BY <2>1, <2>2, <2>3, <2>4
<1>3. now \in 1..MaxTime
  BY <1>1, ReplicasAssumption
<1>4. \A d \in Device : copy[d] = canon /\ ~Unsent(d)
  BY <1>1 DEF Unsent
<1> QED BY <1>1, <1>2, <1>3, <1>4 DEF IInv

\* No update of the row or of a copy is lost or older than it was.
Onward == /\ Newer(canon.updates, canon'.updates)
          /\ \A d \in Device : Newer(copy[d].updates, copy'[d].updates)

LEMMA NewerSelf ==
  ASSUME NEW c, NEW n, Copy(c, n)
  PROVE  Newer(c.updates, c.updates) /\ c.updates \in SUBSET Update
<1>1. c.updates \in SUBSET Update
  BY DEF Copy, Sound, History
<1> QED BY <1>1, NewerIncludes

\* A person's change.
LEMMA ChangeKeeps ==
  ASSUME IInv, NEW d \in Device, NEW c, Change(d, c), Changes(copy[d], c, now)
  PROVE  IInv' /\ Onward
<1>1. canon' = canon /\ now' = now /\ copy' = [copy EXCEPT ![d] = c] /\ outbox' = [outbox EXCEPT ![d] = c]
  BY DEF Change
<1>2. DOMAIN copy = Device /\ DOMAIN outbox = Device /\ now \in 1..MaxTime /\ Copy(canon, now)
  BY DEF IInv
<1>3. Copy(c, now) /\ Newer(copy[d].updates, c.updates)
  BY DEF Changes
<1>4. copy'[d] = c /\ outbox'[d] = c /\ \A e \in Device : e # d => copy'[e] = copy[e] /\ outbox'[e] = outbox[e]
  BY <1>1, <1>2
<1>5. Newer(c.updates, c.updates \cup canon.updates)
  <2>1. c.updates \in SUBSET Update
    BY <1>3, NewerSelf
  <2> QED BY <2>1, NewerIncludes
<1>6. ASSUME NEW e \in Device
      PROVE  /\ Copy(copy'[e], now)
             /\ outbox'[e] # Nothing => /\ Copy(outbox'[e], now)
                                        /\ Newer(copy'[e].updates, outbox'[e].updates \cup canon.updates)
             /\ Newer(copy[e].updates, copy'[e].updates)
  <2>1. CASE e = d
    BY <1>3, <1>4, <1>5, <2>1
  <2>2. CASE e # d
    <3>1. Copy(copy[e], now) /\ (outbox[e] # Nothing => /\ Copy(outbox[e], now)
                                                        /\ Newer(copy[e].updates, outbox[e].updates \cup canon.updates))
      BY DEF IInv, Unsent
    <3>2. Newer(copy[e].updates, copy[e].updates)
      BY <3>1, NewerSelf
    <3> QED BY <1>4, <2>2, <3>1, <3>2
  <2> QED BY <2>1, <2>2
<1>7. Newer(canon.updates, canon.updates)
  BY <1>2, NewerSelf
<1>8. DOMAIN copy' = Device /\ DOMAIN outbox' = Device
  BY <1>1, <1>2
<1>9. IInv'
  BY <1>1, <1>2, <1>6, <1>8 DEF IInv, Unsent
<1> QED BY <1>1, <1>6, <1>7, <1>9 DEF Onward

\* Reading another event, which changes the order of the device's list.
LEMMA ReorderKeeps ==
  ASSUME IInv, NEW d \in Device, ReadAnotherEvent(d)
  PROVE  IInv' /\ Onward
<1>1. /\ canon' = canon /\ now' = now /\ outbox' = outbox
      /\ copy' = [copy EXCEPT ![d].order = OtherOrder[d]]
  BY DEF ReadAnotherEvent
<1>2. DOMAIN copy = Device /\ DOMAIN outbox = Device /\ now \in 1..MaxTime /\ Copy(canon, now)
  BY DEF IInv
<1>3. PICK c, x : x = copy[d] /\ c = [x EXCEPT !.order = OtherOrder[d]]
  <2>1. \E a, b : b = copy[d] /\ a = [b EXCEPT !.order = OtherOrder[d]]
    OBVIOUS
  <2> QED BY <2>1
<1>4. copy' = [copy EXCEPT ![d] = c]
  BY <1>1, <1>3
<1>5. Copy(x, now)
  BY <1>3 DEF IInv
<1>6. Copy(c, now) /\ c.updates = x.updates
  <2>1. Fields \subseteq DOMAIN x
    BY <1>5 DEF Copy, Sound, Facts
  <2>2. /\ Fields \subseteq DOMAIN c /\ c.rows = x.rows /\ c.direct = x.direct /\ c.expenses = x.expenses
        /\ c.deleted = x.deleted /\ c.updates = x.updates /\ c.rounded = x.rounded
        /\ c.plans = x.plans /\ c.order = OtherOrder[d]
    BY <1>3, <2>1 DEF Fields
  <2>3. c.order \in Order
    BY <2>2, ReplicasAssumption
  <2> QED BY <1>5, <2>2, <2>3 DEF Copy, Sound, Facts, Balanced
<1>7. copy'[d] = c /\ \A e \in Device : e # d => copy'[e] = copy[e]
  BY <1>2, <1>4
<1>8. \A e \in Device : copy'[e].updates = copy[e].updates /\ Copy(copy'[e], now)
  <2> SUFFICES ASSUME NEW e \in Device PROVE copy'[e].updates = copy[e].updates /\ Copy(copy'[e], now)
    OBVIOUS
  <2>1. Copy(copy[e], now)
    BY DEF IInv
  <2> QED BY <1>3, <1>6, <1>7, <2>1
<1>9. ASSUME NEW e \in Device
      PROVE  outbox[e] # Nothing => /\ Copy(outbox[e], now)
                                    /\ Newer(copy[e].updates, outbox[e].updates \cup canon.updates)
  BY DEF IInv, Unsent
<1>10. DOMAIN copy' = Device
  BY <1>2, <1>4
<1>11. IInv'
  BY <1>1, <1>2, <1>8, <1>9, <1>10 DEF IInv, Unsent
<1>12. \A e \in Device : Newer(copy[e].updates, copy'[e].updates)
  <2> SUFFICES ASSUME NEW e \in Device PROVE Newer(copy[e].updates, copy'[e].updates)
    OBVIOUS
  <2>1. Copy(copy[e], now)
    BY DEF IInv
  <2>2. Newer(copy[e].updates, copy[e].updates)
    BY <2>1, NewerSelf
  <2> QED BY <1>8, <2>2
<1>13. Newer(canon.updates, canon.updates)
  BY <1>2, NewerSelf
<1> QED BY <1>1, <1>11, <1>12, <1>13 DEF Onward

LEMMA NewerOfEither ==
  ASSUME NEW a, NEW b, NEW c, Newer(a, c), Newer(b, c)
  PROVE  Newer(a \cup b, c)
BY DEF Newer

\* A delivery, accepted or refused.
LEMMA DeliverKeeps ==
  ASSUME IInv, NEW d \in Device, Deliver(d)
  PROVE  IInv' /\ Onward
<1>1. PICK payload : payload = outbox[d]
  OBVIOUS
<1>2. PICK new : new = Candidate(d, payload)
  OBVIOUS
<1>3. PICK read : read = Read(payload, new)
  OBVIOUS
<1>4. /\ canon' = new /\ now' = now /\ Unsent(d)
      /\ copy' = [copy EXCEPT ![d] = read] /\ outbox' = [outbox EXCEPT ![d] = Nothing]
  BY <1>1, <1>2, <1>3 DEF Deliver, Saved
<1>5. DOMAIN copy = Device /\ DOMAIN outbox = Device /\ now \in 1..MaxTime /\ Copy(canon, now)
  BY DEF IInv
<1>6. now \in Nat
  BY <1>5
<1>7. Copy(payload, now) /\ Newer(copy[d].updates, payload.updates \cup canon.updates)
  BY <1>1, <1>4 DEF IInv
<1>8. Sound(canon, now) /\ Sound(payload, now) /\ History(canon.updates, now) /\ History(payload.updates, now)
  BY <1>5, <1>7 DEF Copy, Sound
<1>9. Copy(new, now) /\ new.updates = MergedUpdates(canon, payload)
  BY <1>2, <1>6, <1>8, CandidateCopy
<1>10. /\ Newer(canon.updates, new.updates) /\ Newer(payload.updates, new.updates)
  BY <1>6, <1>8, <1>9, NewestUpdates
<1>11. Sound(new, now) /\ History(new.updates, now)
  BY <1>9 DEF Copy, Sound
<1>12. Copy(read, now) /\ read.updates = MergedUpdates(payload, new)
  BY <1>3, <1>6, <1>8, <1>11, ReadCopy
<1>13. Newer(new.updates, read.updates)
  BY <1>6, <1>8, <1>11, <1>12, NewestUpdates
<1>14. /\ canon.updates \in SUBSET Update /\ payload.updates \in SUBSET Update /\ new.updates \in SUBSET Update
       /\ read.updates \in SUBSET Update
  BY <1>5, <1>7, <1>9, <1>12, NewerSelf
<1>15. /\ copy'[d] = read /\ outbox'[d] = Nothing
       /\ \A e \in Device : e # d => copy'[e] = copy[e] /\ outbox'[e] = outbox[e]
  BY <1>4, <1>5
<1>16. ASSUME NEW e \in Device
       PROVE  /\ Copy(copy'[e], now)
              /\ outbox'[e] # Nothing => /\ Copy(outbox'[e], now)
                                         /\ Newer(copy'[e].updates, outbox'[e].updates \cup new.updates)
              /\ Newer(copy[e].updates, copy'[e].updates)
  <2>1. CASE e = d
    <3>1. PICK u : u = payload.updates \cup canon.updates
      OBVIOUS
    <3>2. Newer(u, new.updates) /\ u \in SUBSET Update
      BY <1>10, <1>14, <3>1, NewerOfEither
    <3>3. copy[d].updates \in SUBSET Update
      <4>1. Copy(copy[d], now)
        BY DEF IInv
      <4> QED BY <4>1, NewerSelf
    <3>4. Newer(copy[d].updates, new.updates)
      BY <1>7, <1>14, <3>1, <3>2, <3>3, NewerTransitive
    <3>5. Newer(copy[d].updates, read.updates)
      BY <1>13, <1>14, <3>3, <3>4, NewerTransitive
    <3> QED BY <1>12, <1>15, <2>1, <3>5
  <2>2. CASE e # d
    <3>1. Copy(copy[e], now)
      BY DEF IInv
    <3>2. Newer(copy[e].updates, copy[e].updates) /\ copy[e].updates \in SUBSET Update
      BY <3>1, NewerSelf
    <3>3. ASSUME outbox[e] # Nothing
          PROVE  Copy(outbox[e], now) /\ Newer(copy[e].updates, outbox[e].updates \cup new.updates)
      <4>1. PICK u : u = outbox[e].updates
        OBVIOUS
      <4>2. Copy(outbox[e], now) /\ Newer(copy[e].updates, u \cup canon.updates)
        BY <3>3, <4>1 DEF IInv, Unsent
      <4>3. u \in SUBSET Update /\ Newer(u, u)
        BY <4>1, <4>2, NewerSelf
      <4>4. PICK v, w : v = u \cup canon.updates /\ w = u \cup new.updates
        <5>1. \E a, b : a = u \cup canon.updates /\ b = u \cup new.updates
          OBVIOUS
        <5> QED BY <5>1
      <4>5. v \in SUBSET Update /\ w \in SUBSET Update
        BY <1>14, <4>3, <4>4
      <4>6. Newer(u, w) /\ Newer(canon.updates, w)
        <5>1. Newer(new.updates, w)
          BY <1>14, <4>4, NewerIncludes
        <5>2. Newer(canon.updates, w)
          BY <1>10, <1>14, <4>5, <5>1, NewerTransitive
        <5>3. Newer(u, w)
          BY <4>3, <4>4, NewerIncludes
        <5> QED BY <5>2, <5>3
      <4>7. Newer(v, w)
        BY <4>4, <4>6, NewerOfEither
      <4>8. Newer(copy[e].updates, w)
        BY <3>2, <4>2, <4>4, <4>5, <4>7, NewerTransitive
      <4> QED BY <4>1, <4>2, <4>4, <4>8
    <3> QED BY <1>15, <2>2, <3>1, <3>2, <3>3
  <2> QED BY <2>1, <2>2
<1>17. DOMAIN copy' = Device /\ DOMAIN outbox' = Device
  BY <1>4, <1>5
<1>18. IInv'
  BY <1>4, <1>5, <1>9, <1>16, <1>17 DEF IInv, Unsent
<1> QED BY <1>4, <1>10, <1>16, <1>18 DEF Onward

\* A read.
LEMMA RefreshKeeps ==
  ASSUME IInv, NEW d \in Device, Refresh(d)
  PROVE  IInv' /\ Onward
<1>1. PICK x : x = IF Unsent(d) THEN outbox[d] ELSE copy[d]
  OBVIOUS
<1>2. PICK read : read = Read(x, canon)
  OBVIOUS
<1>3. canon' = canon /\ now' = now /\ outbox' = outbox /\ copy' = [copy EXCEPT ![d] = read]
  BY <1>1, <1>2 DEF Refresh
<1>4. DOMAIN copy = Device /\ DOMAIN outbox = Device /\ now \in 1..MaxTime /\ Copy(canon, now)
  BY DEF IInv
<1>5. now \in Nat
  BY <1>4
<1>6. Copy(copy[d], now)
  BY DEF IInv
<1>7. Copy(x, now)
  BY <1>1, <1>6 DEF IInv
<1>8. /\ Sound(canon, now) /\ Sound(x, now) /\ History(canon.updates, now) /\ History(x.updates, now)
  BY <1>4, <1>7 DEF Copy, Sound
<1>9. Copy(read, now) /\ read.updates = MergedUpdates(x, canon)
  BY <1>2, <1>5, <1>8, ReadCopy
<1>10. /\ Newer(x.updates, read.updates) /\ Newer(canon.updates, read.updates)
       /\ read.updates \subseteq x.updates \cup canon.updates
  BY <1>5, <1>8, <1>9, NewestUpdates
<1>11. /\ canon.updates \in SUBSET Update /\ x.updates \in SUBSET Update /\ read.updates \in SUBSET Update
       /\ copy[d].updates \in SUBSET Update
  BY <1>4, <1>6, <1>7, <1>9, NewerSelf
<1>12. Newer(copy[d].updates, read.updates)
  <2>1. CASE Unsent(d)
    <3>1. PICK u : u = x.updates \cup canon.updates
      OBVIOUS
    <3>2. Newer(copy[d].updates, u)
      BY <1>1, <2>1, <3>1 DEF IInv
    <3>3. Newer(u, read.updates) /\ u \in SUBSET Update
      BY <1>10, <1>11, <3>1, NewerOfEither
    <3> QED BY <1>11, <3>2, <3>3, NewerTransitive
  <2>2. CASE ~Unsent(d)
    BY <1>1, <1>10, <2>2
  <2> QED BY <2>1, <2>2
<1>13. copy'[d] = read /\ \A e \in Device : e # d => copy'[e] = copy[e]
  BY <1>3, <1>4
<1>14. ASSUME NEW e \in Device
       PROVE  /\ Copy(copy'[e], now)
              /\ outbox[e] # Nothing => /\ Copy(outbox[e], now)
                                        /\ Newer(copy'[e].updates, outbox[e].updates \cup canon.updates)
              /\ Newer(copy[e].updates, copy'[e].updates)
  <2>0. Copy(copy[e], now) /\ (outbox[e] # Nothing => /\ Copy(outbox[e], now)
                                                      /\ Newer(copy[e].updates, outbox[e].updates \cup canon.updates))
    BY DEF IInv, Unsent
  <2>1. CASE e = d
    <3>1. ASSUME outbox[d] # Nothing PROVE Newer(read.updates, outbox[d].updates \cup canon.updates)
      <4>1. x = outbox[d]
        BY <1>1, <3>1 DEF Unsent
      <4> QED BY <1>10, <1>11, <4>1, NewerIncludes
    <3> QED BY <1>9, <1>12, <1>13, <2>0, <2>1, <3>1
  <2>2. CASE e # d
    <3>1. Newer(copy[e].updates, copy[e].updates)
      BY <2>0, NewerSelf
    <3> QED BY <1>13, <2>0, <2>2, <3>1
  <2> QED BY <2>1, <2>2
<1>15. DOMAIN copy' = Device
  BY <1>3, <1>4
<1>16. IInv'
  BY <1>3, <1>4, <1>14, <1>15 DEF IInv, Unsent
<1>17. Newer(canon.updates, canon.updates)
  BY <1>4, NewerSelf
<1> QED BY <1>3, <1>14, <1>16, <1>17 DEF Onward

LEMMA LaterCopy ==
  ASSUME NEW c, NEW n \in Nat, Copy(c, n)
  PROVE  Copy(c, n + 1)
<1>1. PICK m : m = n + 1
  OBVIOUS
<1>2. History(c.updates, n) /\ c.updates \in SUBSET Update
  BY DEF Copy, Sound, History
<1>3. ASSUME NEW u \in c.updates PROVE u.at <= m
  <2>1. u.at \in Nat /\ u.at <= n
    BY <1>2 DEF History, Update
  <2> QED BY <1>1, <2>1
<1>4. History(c.updates, m)
  BY <1>2, <1>3 DEF History
<1> QED BY <1>1, <1>4 DEF Copy, Sound

\* Time passing.
LEMMA TickKeeps ==
  ASSUME IInv, Tick
  PROVE  IInv' /\ Onward
<1>1. now < MaxTime /\ now' = now + 1 /\ canon' = canon /\ copy' = copy /\ outbox' = outbox
  BY DEF Tick
<1>2. DOMAIN copy = Device /\ DOMAIN outbox = Device /\ now \in 1..MaxTime /\ Copy(canon, now)
  BY DEF IInv
<1>3. now \in Nat /\ now' \in 1..MaxTime
  BY <1>1, <1>2, ReplicasAssumption
<1>4. Copy(canon, now')
  BY <1>1, <1>2, <1>3, LaterCopy
<1>5. \A d \in Device :
        /\ Copy(copy[d], now') /\ Newer(copy[d].updates, copy[d].updates)
        /\ outbox[d] # Nothing => Copy(outbox[d], now') /\ Newer(copy[d].updates, outbox[d].updates \cup canon.updates)
  <2> SUFFICES ASSUME NEW d \in Device
               PROVE  /\ Copy(copy[d], now') /\ Newer(copy[d].updates, copy[d].updates)
                      /\ outbox[d] # Nothing => /\ Copy(outbox[d], now')
                                                /\ Newer(copy[d].updates, outbox[d].updates \cup canon.updates)
    OBVIOUS
  <2>1. Copy(copy[d], now) /\ (outbox[d] # Nothing => /\ Copy(outbox[d], now)
                                                      /\ Newer(copy[d].updates, outbox[d].updates \cup canon.updates))
    BY DEF IInv, Unsent
  <2> QED BY <1>1, <1>3, <2>1, LaterCopy, NewerSelf
<1>6. Newer(canon.updates, canon.updates)
  BY <1>2, NewerSelf
<1>7. IInv'
  BY <1>1, <1>2, <1>3, <1>4, <1>5 DEF IInv, Unsent
<1> QED BY <1>1, <1>5, <1>6, <1>7 DEF Onward

\* Every step keeps the invariant, and forgets no update nor puts an older one in its place.
LEMMA Step ==
  ASSUME IInv, [Next]_vars
  PROVE  IInv' /\ Onward
<1>1. ASSUME NEW d \in Device, Act(d) PROVE IInv' /\ Onward
  <2>1. CASE ReadAnotherEvent(d)
    BY <2>1, ReorderKeeps
  <2>2. CASE ~ReadAnotherEvent(d)
    <3>1. PICK c : Change(d, c) /\ Changes(copy[d], c, now)
      BY <1>1, <2>2, PersonChanges
    <3> QED BY <3>1, ChangeKeeps
  <2> QED BY <2>1, <2>2
<1>2. ASSUME NEW d \in Device, Deliver(d) PROVE IInv' /\ Onward
  BY <1>2, DeliverKeeps
<1>3. ASSUME NEW d \in Device, Refresh(d) PROVE IInv' /\ Onward
  BY <1>3, RefreshKeeps
<1>4. CASE Tick
  BY <1>4, TickKeeps
<1>5. CASE UNCHANGED vars
  <2>1. canon' = canon /\ now' = now /\ copy' = copy /\ outbox' = outbox
    BY <1>5 DEF vars
  <2>2. IInv'
    BY <2>1 DEF IInv, Unsent
  <2>3. Copy(canon, now) /\ \A d \in Device : Copy(copy[d], now)
    BY DEF IInv
  <2>4. Onward
    BY <2>1, <2>3, NewerSelf DEF Onward
  <2> QED BY <2>2, <2>4
<1> QED BY <1>1, <1>2, <1>3, <1>4, <1>5 DEF Next

\* The row, the copies and the waiting outboxes are events whose rows settle and
\* agree with their updates, and no update a device shows is missing from both its
\* outbox and the row, whatever people do, whatever is merged and in whatever order.
THEOREM Invariance == Spec => []IInv
<1>1. IInv /\ [Next]_vars => IInv'
  BY Step
<1> QED BY <1>1, Initially, PTL DEF Spec

-----------------------------------------------------------------------------
(* What follows from it.                                                   *)

LEMMA EveryCopy ==
  ASSUME IInv, NEW c \in Copies
  PROVE  Copy(c, now)
BY DEF IInv, Copies

LEMMA CopyType ==
  ASSUME NEW c, NEW n, n \in 1..MaxTime, Copy(c, n)
  PROVE  /\ ToSet(c.expenses) \subseteq Expense \ c.deleted
         /\ \A t \in ToSet(c.rows) : /\ {t.from, t.to} \subseteq Participant /\ t.from # t.to
                                    /\ t.amount \in Nat \ {0} /\ t.paid \in BOOLEAN /\ t.at \in 0..MaxTime
         /\ Cardinality(Ids(c.rows)) = Len(c.rows)
<1>1. Facts(c) /\ History(c.updates, n) /\ Listing(c.rows, c.updates)
  BY DEF Copy, Sound
<1>2. ToSet(c.expenses) \subseteq Expense \ c.deleted
  BY <1>1 DEF Facts, ToSet
<1>3. c.rows \in Named /\ c.rows \in Seq(Transfer)
  BY <1>1 DEF Listing, Named
<1>4. Cardinality(Ids(c.rows)) = Len(c.rows)
  BY <1>3, IdsOf
<1>5. ASSUME NEW t \in ToSet(c.rows)
      PROVE  /\ {t.from, t.to} \subseteq Participant /\ t.from # t.to
             /\ t.amount \in Nat \ {0} /\ t.paid \in BOOLEAN /\ t.at \in 0..MaxTime
  <2>1. PICK i \in 1..Len(c.rows) : t = c.rows[i]
    BY <1>3 DEF ToSet
  <2>2. t \in Transfer /\ Dated(t, c.updates)
    BY <1>1, <1>3, <2>1 DEF Listing
  <2>3. t.at \in Nat /\ t.paid \in BOOLEAN
    BY <2>2 DEF Transfer
  <2>4. t.at = 0 \/ \E u \in c.updates : u.at >= t.at
    BY <2>2, <2>3 DEF Dated
  <2>5. \A u \in c.updates : u.at \in Nat /\ u.at <= n
    BY <1>1 DEF History, Update
  <2>6. t.at \in 0..MaxTime
    BY <2>3, <2>4, <2>5, ReplicasAssumption
  <2> QED BY <2>2, <2>6 DEF Transfer
<1> QED BY <1>2, <1>4, <1>5

\* In the row and on every device, amounts are positive, nobody pays
\* themselves and no two rows share an id, so that the merge can match them.
THEOREM TypeCorrect == Spec => []TypeOK
<1>1. IInv => TypeOK
  <2> SUFFICES ASSUME IInv PROVE TypeOK
    OBVIOUS
  <2>1. now \in 1..MaxTime
    BY DEF IInv
  <2>2. ASSUME NEW c \in Copies
        PROVE  /\ ToSet(c.expenses) \subseteq Expense \ c.deleted
               /\ \A t \in ToSet(c.rows) : /\ {t.from, t.to} \subseteq Participant /\ t.from # t.to
                                          /\ t.amount \in Nat \ {0} /\ t.paid \in BOOLEAN /\ t.at \in 0..MaxTime
               /\ Cardinality(Ids(c.rows)) = Len(c.rows)
    BY <2>1, EveryCopy, CopyType
  <2> QED BY <2>2 DEF TypeOK
<1> QED BY <1>1, Invariance, PTL

\* Whatever is paid, reversed, added, removed, rounded or merged, in whatever
\* order, the transfers of every copy settle its expenses.
THEOREM LedgerSettled == Spec => []PlansSettleTheLedger
<1>1. IInv => PlansSettleTheLedger
  <2> SUFFICES ASSUME IInv, NEW c \in Copies, NEW p \in Participant
               PROVE  After(Balances(c.expenses), c.rows)[p]
                        \in IF c.rounded \/ c.rows = <<>> THEN 1 - Unit .. Unit - 1 ELSE {0}
    BY DEF PlansSettleTheLedger
  <2>1. Balanced(c)
    BY EveryCopy DEF Copy
  <2> QED BY <2>1 DEF Balanced, Settled
<1> QED BY <1>1, Invariance, PTL

\* A payment stays one, or has a reversal at least as recent.
LEMMA PaymentStands ==
  ASSUME NEW c, NEW d, NEW n, NEW m, Copy(c, n), Copy(d, m), Newer(c.updates, d.updates),
         NEW t \in ToSet(c.rows), t.paid
  PROVE  StillPaid(t, d)
<1>1. /\ History(c.updates, n) /\ Listing(c.rows, c.updates) /\ Listing(d.rows, d.updates)
      /\ d.rows \in Seq(Transfer) /\ c.rows \in Seq(Transfer)
  BY DEF Copy, Sound, Listing, Named
<1>2. PICK i \in 1..Len(c.rows) : t = c.rows[i]
  BY <1>1 DEF ToSet
<1>3. Dated(t, c.updates)
  BY <1>1, <1>2 DEF Listing
<1>4. PICK u \in c.updates : u.id = t.id /\ u.at = t.at
  BY <1>3 DEF Dated
<1>5. PICK v \in d.updates : v.id = u.id /\ v.at >= u.at
  BY DEF Newer
<1>6. CASE ~v.paid
  BY <1>4, <1>5, <1>6 DEF StillPaid
<1>7. CASE v.paid
  <2>1. PICK k \in 1..Len(d.rows) : d.rows[k].id = v.id /\ d.rows[k].paid
    BY <1>1, <1>7 DEF Listing
  <2>2. d.rows[k] \in ToSet(d.rows)
    BY <1>1 DEF ToSet
  <2> QED BY <1>4, <1>5, <2>1, <2>2 DEF StillPaid
<1> QED BY <1>6, <1>7

\* A payment the row or a device shows stays one until a reversal at least as
\* recent, whatever older copies arrive and whatever is planned again.
THEOREM PaymentsHold == Spec => PaymentsStand
<1>1. ASSUME IInv, [Next]_vars
      PROVE  /\ RowKeepsPayments
             /\ \A d \in Device : \A t \in ToSet(copy[d].rows) : t.paid => StillPaid(t, copy'[d])
  <2>1. IInv' /\ Onward
    BY <1>1, Step
  <2>2. Copy(canon, now) /\ \A d \in Device : Copy(copy[d], now)
    BY <1>1 DEF IInv
  <2>3. Copy(canon', now') /\ \A d \in Device : Copy(copy'[d], now')
    BY <2>1 DEF IInv
  <2>4. RowKeepsPayments
    BY <2>1, <2>2, <2>3, PaymentStands DEF RowKeepsPayments, Onward
  <2>5. ASSUME NEW d \in Device, NEW t \in ToSet(copy[d].rows), t.paid PROVE StillPaid(t, copy'[d])
    BY <2>1, <2>2, <2>3, <2>5, PaymentStands DEF Onward
  <2> QED BY <2>4, <2>5
<1> QED BY <1>1, Invariance, PTL DEF Spec, PaymentsStand

\* What plans are looked up by depends on the facts of the event.
LEMMA SameKey ==
  ASSUME NEW c, NEW d, KeepsFacts(c, d), NEW direct
  PROVE  InputKey(d, direct) = InputKey(c, direct)
BY DEF KeepsFacts, InputKey

\* The entry of the row survives a write that leaves its key as it is.
LEMMA EntryStands ==
  ASSUME IInv, NEW d \in Device, Deliver(d), NEW direct \in BOOLEAN,
         Applies(canon, direct, canon.plans[Mode(direct)]),
         InputKey(canon', direct) = canon.plans[Mode(direct)].key
  PROVE  canon'.plans[Mode(direct)] = canon.plans[Mode(direct)]
<1>1. PICK payload : payload = outbox[d]
  OBVIOUS
<1>2. PICK m : m = Merge(canon, payload)
  OBVIOUS
<1>3. PICK r : r = Remembering(canon, m, m)
  OBVIOUS
<1>4. PICK p : p = PreservedIn(r, canon)
  OBVIOUS
<1>5. canon' = IF IsAdmin(d) THEN p ELSE [p EXCEPT !.plans = canon.plans]
  BY <1>1, <1>2, <1>3, <1>4 DEF Deliver, Saved, Candidate, AsWritten, Preserved
<1>6. now \in Nat /\ Copy(canon, now) /\ Copy(payload, now)
  <2>1. now \in 1..MaxTime
    BY DEF IInv
  <2>2. now \in Nat
    BY <2>1
  <2> QED BY <1>1, <2>2 DEF IInv, Deliver
<1>7. Copy(m, now) /\ m.updates = MergedUpdates(canon, payload)
  BY <1>2, <1>6, MergeCopy DEF Copy
<1>8. Newer(canon.updates, m.updates)
  BY <1>6, <1>7, NewestUpdates DEF Copy, Sound
<1>9. Facts(m)
  BY <1>7 DEF Copy, Sound
<1>10. KeepsFacts(m, r) /\ r.plans = MergedPlans(canon, m, m)
  BY <1>3, <1>9, RememberingIs
<1>11. Copy(r, now)
  <2>1. Sound(m, now) /\ Sound(canon, now) /\ Balanced(m)
    BY <1>6, <1>7 DEF Copy
  <2>2. canon.updates \in SUBSET Update /\ m.updates \in SUBSET Update /\ Newer(m.updates, m.updates)
    BY <1>6, <1>7, NewerSelf
  <2>3. Memory(canon.plans, canon.updates) /\ Memory(m.plans, m.updates)
    BY <2>1 DEF Sound
  <2>4. Memory(r.plans, m.updates)
    BY <1>8, <1>10, <2>2, <2>3, MergedPlansMemory
  <2>5. Facts(r) /\ r.rows = m.rows
    BY <1>3, <1>9, RememberingIs
  <2> QED BY <1>10, <2>1, <2>4, <2>5 DEF Copy, Sound, Balanced, KeepsFacts
<1>12. Copy(p, now) /\ KeepsFacts(r, p) /\ p.plans = r.plans
  BY <1>4, <1>6, <1>11, PreservedInCopy DEF Copy
<1>13. PICK mode \in Modes : mode = Mode(direct) /\ (mode = "direct") = direct
  <2>1. Mode(direct) \in Modes /\ (Mode(direct) = "direct") = direct
    BY DEF Mode, Modes
  <2> QED BY <2>1
<1>14. CASE IsAdmin(d)
  <2>1. canon' = p
    BY <1>5, <1>14
  <2>2. InputKey(p, direct) = InputKey(r, direct) /\ InputKey(r, direct) = InputKey(m, direct)
    BY <1>10, <1>12, SameKey
  <2>3. PICK entry : entry = canon.plans[mode]
    OBVIOUS
  <2>4. entry.key = InputKey(m, mode = "direct") /\ entry # Nothing
    BY <1>13, <2>1, <2>2, <2>3 DEF Applies
  <2>5. r.plans[mode] = IF entry = m.plans[mode] THEN entry
                        ELSE Owner(entry, m.plans[mode], InputKey(m, mode = "direct"))
    BY <1>10, <2>3 DEF MergedPlans, Modes
  <2>6. r.plans[mode] = entry
    BY <2>4, <2>5 DEF Owner
  <2> QED BY <1>12, <1>13, <2>1, <2>3, <2>6
<1>15. CASE ~IsAdmin(d)
  <2>1. Fields \subseteq DOMAIN p
    BY <1>12 DEF Copy, Sound, Facts
  <2> QED BY <1>5, <1>15, <2>1 DEF Fields
<1> QED BY <1>14, <1>15

\* The plan first remembered in the row for a method and a state of the
\* accounts stays the one everybody goes back to.
THEOREM FirstPlanHolds == Spec => FirstPlanStands
<1>1. ASSUME IInv, [Next]_vars, NEW direct \in BOOLEAN,
             Applies(canon, direct, canon.plans[Mode(direct)]),
             InputKey(canon', direct) = canon.plans[Mode(direct)].key
      PROVE  canon'.plans[Mode(direct)].rows = canon.plans[Mode(direct)].rows
  <2>1. CASE \E d \in Device : Deliver(d)
    <3>1. PICK d \in Device : Deliver(d)
      BY <2>1
    <3>2. canon'.plans[Mode(direct)] = canon.plans[Mode(direct)]
      BY <1>1, <3>1, EntryStands
    <3> QED BY <3>2
  <2>2. CASE ~\E d \in Device : Deliver(d)
    <3>1. canon' = canon
      BY <1>1, <2>2 DEF Next, vars, Act, AddExpense, RemoveExpense, MarkPaid, MarkPending, Reopen,
                        SetDirect, SetRounding, OpenSettlement, ReadAnotherEvent, Change, Refresh, Tick
    <3> QED BY <3>1
  <2> QED BY <2>1, <2>2
<1>2. ASSUME IInv, [Next]_vars
      PROVE  \A direct \in BOOLEAN :
               LET entry == canon.plans[Mode(direct)] IN
               Applies(canon, direct, entry) /\ InputKey(canon', direct) = entry.key =>
                 canon'.plans[Mode(direct)].rows = entry.rows
  BY <1>1, <1>2
<1> QED BY <1>2, Invariance, PTL DEF Spec, FirstPlanStands
=============================================================================
