------------------------------ MODULE Settlement ------------------------------
(***************************************************************************)
(* Who owes whom (domain/settlement.mjs): the balances of an event's       *)
(* expenses, their rounding to whole units of currency, and the transfers  *)
(* that settle them, given those already paid and the pending plan there   *)
(* was before.                                                             *)
(*                                                                         *)
(* The code walks the participants in the order of the device's list, and  *)
(* that order breaks every tie; here it is a numbering of the people.  A   *)
(* transfer's id is made of its route and amount, with a number added when *)
(* that id is taken.  Saved expenses and transfers are valid, so none of   *)
(* the code's "issues" arises.                                             *)
(***************************************************************************)
EXTENDS Integers, SequencesExt

CONSTANTS
  Participant,     \* the people of the event
  Expense,         \* expense identifiers
  Content,         \* the total, the payer and the sharers of each expense
  Unit             \* the smallest amounts in a whole unit (100)

Order == {r \in [Participant -> 1..Cardinality(Participant)] :
            \A p, q \in Participant : r[p] = r[q] => p = q}

ASSUME SettlementAssumption ==
  /\ IsFiniteSet(Participant)
  /\ \A e \in Expense : /\ Content[e].total \in Nat \ {0}
                        /\ Content[e].payer \in Participant
                        /\ Content[e].shared \in Seq(Participant) \ {<<>>}
                        /\ IsInjective(Content[e].shared)
  /\ Unit \in Nat \ {0}

Lower(m, n) == IF m < n THEN m ELSE n
Positive(n) == IF n > 0 THEN n ELSE 0

\* The elements of a set in a strict order: ahead[x] is what comes before x.
InOrder(ahead) ==
  LET first[k \in 0..Cardinality(DOMAIN ahead)] ==
        IF k = 0 THEN <<>>
        ELSE Append(first[k - 1], CHOOSE x \in DOMAIN ahead : Cardinality(ahead[x]) = k - 1)
  IN first[Cardinality(DOMAIN ahead)]

\* The elements of s at some of its places, in the order of s.
Among(s, places) ==
  LET kept[i \in 0..Len(s)] == IF i = 0 THEN <<>>
                               ELSE IF i \in places THEN Append(kept[i - 1], s[i]) ELSE kept[i - 1]
  IN kept[Len(s)]
-----------------------------------------------------------------------------
(* Balances: what everybody has paid less what it was for. *)

\* The remainder of an even split goes to the first sharers, one each.
SplitEvenly(total, shared) ==
  [i \in DOMAIN shared |-> total \div Len(shared) + (IF i <= total % Len(shared) THEN 1 ELSE 0)]

ExpenseBalance == [e \in Expense |-> [p \in Participant |->
  LET c == Content[e]
      shares == SplitEvenly(c.total, c.shared)
  IN (IF p = c.payer THEN c.total ELSE 0)
     - (IF Contains(c.shared, p) THEN shares[CHOOSE i \in DOMAIN c.shared : c.shared[i] = p] ELSE 0)]]

LedgerBalances == [ledger \in SUBSET Expense |->
  [p \in Participant |-> MapThenSumSet(LAMBDA e : ExpenseBalance[e][p], ledger)]]

Balances(expenses) == LedgerBalances[ToSet(expenses)]

\* Everybody's whole units, and one more for the largest remainders.
RoundBalances(order, balance) ==
  LET floor == [p \in Participant |-> balance[p] \div Unit]
      rest == [p \in Participant |-> balance[p] % Unit]
      spare == -MapThenSumSet(LAMBDA p : floor[p], Participant)
      ahead == [p \in Participant |->
                  {q \in Participant : rest[q] > rest[p] \/ (rest[q] = rest[p] /\ order[q] < order[p])}]
      incremented == {p \in Participant : Cardinality(ahead[p]) < spare}
  IN [p \in Participant |-> Unit * (floor[p] + (IF p \in incremented THEN 1 ELSE 0))]
-----------------------------------------------------------------------------
(* Transfers, and lists of transfers. *)

Fresh(from, to, amount) ==
  [id |-> <<from, to, amount>>, from |-> from, to |-> to, amount |-> amount, paid |-> FALSE, at |-> 0]

Route(t) == <<t.from, t.to>>
Reversed(t) == <<t.to, t.from>>
Ids(rows) == {t.id : t \in ToSet(rows)}
Paid(rows) == Among(rows, {i \in DOMAIN rows : rows[i].paid})
Pending(rows) == Among(rows, {i \in DOMAIN rows : ~rows[i].paid})

\* amountOnRoutes
AmountOn(rows, routes) ==
  FoldLeft(LAMBDA sum, t : IF Route(t) \in routes THEN sum + t.amount ELSE sum, 0, rows)

\* The balances that remain when the transfers are made.
After(balance, rows) ==
  FoldLeft(LAMBDA b, t : [b EXCEPT ![t.from] = @ + t.amount, ![t.to] = @ - t.amount], balance, rows)

Settles(balance, rows) == \A p \in Participant : After(balance, rows)[p] = 0

\* A JavaScript Map from routes to amounts, kept in insertion order.
Put(rows, from, to, amount) ==
  LET here == SelectInSeq(rows, LAMBDA t : Route(t) = <<from, to>>) IN
  IF here = 0 THEN IF amount = 0 THEN rows ELSE Append(rows, Fresh(from, to, amount))
  ELSE IF amount = 0 THEN RemoveAt(rows, here) ELSE [rows EXCEPT ![here] = Fresh(from, to, amount)]

\* Mutant: what is owed the other way is forgotten instead of cancelled.
NettedAway(rows, t) ==
  Put(Put(rows, t.to, t.from, 0), t.from, t.to, AmountOn(rows, {Route(t)}) + t.amount)

\* addNettedRoutePreference: what is owed the other way is cancelled first.
Added(rows, t, amount) ==
  IF amount = 0 THEN rows ELSE Put(rows, t.from, t.to, AmountOn(rows, {Route(t)}) + amount)

Cancelled(rows, t, back) ==
  Added(IF back = 0 THEN rows ELSE Put(rows, t.to, t.from, Positive(back - t.amount)),
        t, Positive(t.amount - back))

Netted(rows, t) == Cancelled(rows, t, AmountOn(rows, {Reversed(t)}))

\* combineTransfersByRoute
Combined(rows) ==
  FoldLeft(LAMBDA sum, t : Added(sum, t, t.amount), <<>>, rows)
-----------------------------------------------------------------------------
(* Plans: transfers that settle given balances. *)

\* buildGreedyTransfers: the largest debtor pays the largest creditor as much
\* as both allow, again and again.  The sort is stable, so whoever was reduced
\* stays ahead of equals.
Entry == [who : Participant, amount : Nat]

Queue(order, due) ==
  LET who == InOrder([p \in {q \in Participant : due[q] > 0} |->
               {q \in Participant : due[q] > due[p] \/ (due[q] = due[p] /\ order[q] < order[p])}])
  IN [k \in DOMAIN who |-> [who |-> who[k], amount |-> due[who[k]]]]

Reduced(queue, n) ==
  LET left == Head(queue).amount - n
      rest == Tail(queue)
      larger == {i \in DOMAIN rest : rest[i].amount > left}
  IN IF left = 0 THEN rest
     ELSE InsertAt(rest, Cardinality(larger) + 1, [Head(queue) EXCEPT !.amount = left])

Matched(sides) == Lower(Head(sides.debtors).amount, Head(sides.creditors).amount)

Rematched(sides) == [debtors |-> Reduced(sides.debtors, Matched(sides)),
                     creditors |-> Reduced(sides.creditors, Matched(sides))]

Matches[sides \in [debtors : Seq(Entry), creditors : Seq(Entry)]] ==
  IF sides.debtors = <<>> \/ sides.creditors = <<>> THEN <<>>
  ELSE <<Fresh(Head(sides.debtors).who, Head(sides.creditors).who, Matched(sides))>>
       \o Matches[Rematched(sides)]

Greedy(order, balance) ==
  Matches[[debtors |-> Queue(order, [p \in Participant |-> -balance[p]]),
           creditors |-> Queue(order, balance)]]

\* findMaximumZeroSumPartition: the people with a balance in as many groups as
\* possible that settle among themselves.
Owing(balance) == {p \in Participant : balance[p] # 0}
Within(balance, group) == [p \in Participant |-> IF p \in group THEN balance[p] ELSE 0]

Partitions(balance) ==
  LET even == {g \in (SUBSET Owing(balance)) \ {{}} :
                 MapThenSumSet(LAMBDA p : balance[p], g) = 0}
  IN {groups \in SUBSET even : /\ UNION groups = Owing(balance)
                              /\ \A g, h \in groups : g = h \/ g \cap h = {}}

\* The groups are made from the first person on, and larger bit masks are tried
\* first: in the partition found first, the first person whose group differs is
\* with somebody later in the list.
Together(groups) == UNION {g \X g : g \in groups}

FoundSooner(order, one, two) ==
  \E x \in Together(one) \ Together(two) : \A y \in Together(two) \ Together(one) :
    order[x[1]] < order[y[1]] \/ (x[1] = y[1] /\ order[x[2]] > order[y[2]])

MostGroups(all) == {one \in all : \A two \in all : Cardinality(two) <= Cardinality(one)}

FirstFound(order, all) == CHOOSE one \in all : \A two \in all : ~FoundSooner(order, two, one)

Groups(order, balance) == FirstFound(order, MostGroups(Partitions(balance)))

GroupPlans(order, balance, groups) ==
  LET listed == InOrder([g \in groups |->
                  {h \in groups : \E p \in h : \A q \in g : order[p] < order[q]}])
  IN FoldLeft(LAMBDA rows, g : rows \o Greedy(order, Within(balance, g)), <<>>, listed)

\* buildTransfersFromBalances: the groups are looked for among four to twelve
\* people, and used when that makes fewer transfers.
Shorter(order, balance, greedy, groups) ==
  IF Len(greedy) > Cardinality(Owing(balance)) - Cardinality(groups)
  THEN GroupPlans(order, balance, groups) ELSE greedy

SmartPlan(order, balance) ==
  IF Cardinality(Owing(balance)) \in 4..12
  THEN Shorter(order, balance, Greedy(order, balance), Groups(order, balance))
  ELSE Greedy(order, balance)

\* buildDirectRoutePreferencesFromLedger: what each expense's sharers owe its
\* payer, netted between every two people.
ExpenseRoutes == [e \in Expense |->
  LET shared == Content[e].shared
      position == [p \in Participant |-> IF Contains(shared, p)
                                         THEN CHOOSE i \in DOMAIN shared : shared[i] = p
                                         ELSE Len(shared) + 1]
  IN Greedy(position, ExpenseBalance[e])]

DirectRoutes(expenses) ==
  FoldLeft(LAMBDA rows, e : FoldLeft(Netted, rows, ExpenseRoutes[e]), <<>>, expenses)

\* remainingDirectRoutePreferences
RemainingRoutes(routes, paid) ==
  FoldLeft(LAMBDA rows, t : Put(rows, t.from, t.to, Positive(AmountOn(rows, {Route(t)}) - t.amount)),
           routes, paid)

\* buildDirectTransfersFromBalances: the preferred routes, the largest first
\* and in whole units, and then whatever is missing.
LargestFirst(routes) ==
  LET order == InOrder([i \in DOMAIN routes |->
                 {j \in DOMAIN routes : \/ routes[j].amount > routes[i].amount
                                        \/ routes[j].amount = routes[i].amount /\ j < i}])
  IN [k \in DOMAIN order |-> routes[order[k]]]

InUnits(rows, unit) ==
  LET whole == [i \in DOMAIN rows |-> Fresh(rows[i].from, rows[i].to, (rows[i].amount \div unit) * unit)]
  IN Among(whole, {i \in DOMAIN whole : whole[i].amount > 0})

Completed(order, balance, preferred) ==
  FoldLeft(Netted, <<>>, preferred \o Greedy(order, After(balance, preferred)))

DirectPlan(order, balance, routes, unit) ==
  Completed(order, balance, InUnits(LargestFirst(routes), unit))

\* A method m is an order, a mode, the preferred routes and their unit.
Build(m, balance) == IF m.direct THEN DirectPlan(m.order, balance, m.routes, m.unit)
                     ELSE SmartPlan(m.order, balance)

\* buildTransfersAvoidingRoutes: as much as possible (runMaximumFlow) off the
\* blocked routes, and then whatever is missing.
Debts(balance) == {p \in Participant : balance[p] < 0} \X {p \in Participant : balance[p] > 0}

\* runMaximumFlow sends as much as it can along the first of the shortest paths,
\* until there is none: over a route, back over one that is used, over a route...
\* On a shortest path nobody is met twice, so it has not more routes than half
\* the people; a route's own capacity, the less of the two balances, never binds.
Backs(path) == {<<path[i + 1][1], path[i][2]>> : i \in 1..(Len(path) - 1)}

Paths(routes, s) ==
  {path \in UNION {[1..k -> routes] : k \in 1..(Cardinality(Participant) \div 2)} :
     /\ s.left[path[1][1]] < 0 /\ s.left[path[Len(path)][2]] > 0
     /\ \A r \in Backs(path) : r \in routes /\ s.flow[r] > 0}

RouteBefore(order, x, y) ==
  order[x[1]] < order[y[1]] \/ (x[1] = y[1] /\ order[x[2]] < order[y[2]])

PathBefore(order, one, two) ==
  \/ Len(one) < Len(two)
  \/ Len(one) = Len(two) /\ \E i \in DOMAIN one : /\ RouteBefore(order, one[i], two[i])
                                                  /\ \A j \in 1..(i - 1) : one[j] = two[j]

FirstPath(order, paths) == CHOOSE one \in paths : \A two \in paths : ~PathBefore(order, two, one)

Sendable(s, path) ==
  Min({-s.left[path[1][1]], s.left[path[Len(path)][2]]} \cup {s.flow[r] : r \in Backs(path)})

Sent(s, path, n) ==
  [left |-> [s.left EXCEPT ![path[1][1]] = @ + n, ![path[Len(path)][2]] = @ - n],
   flow |-> [r \in DOMAIN s.flow |-> s.flow[r] + (IF r \in ToSet(path) THEN n ELSE 0)
                                              - (IF r \in Backs(path) THEN n ELSE 0)]]

SentAlong(s, path) == Sent(s, path, Sendable(s, path))

MaximumFlow(order, balance, routes) ==
  LET final[s \in [left : [Participant -> Int], flow : [routes -> Nat]]] ==
        LET paths == Paths(routes, s)
        IN IF paths = {} THEN s.flow ELSE final[SentAlong(s, FirstPath(order, paths))]
  IN final[[left |-> [p \in Participant |-> balance[p]], flow |-> [r \in routes |-> 0]]]

\* The routes that are used, in the order of the list.
Used(order, flow) ==
  LET used == {r \in DOMAIN flow : flow[r] > 0}
      inOrder == InOrder([x \in used |-> {y \in used : RouteBefore(order, y, x)}])
  IN [k \in DOMAIN inOrder |-> Fresh(inOrder[k][1], inOrder[k][2], flow[inOrder[k]])]

Flow(order, balance, routes) == Used(order, MaximumFlow(order, balance, routes))

Rest(m, balance, flow) == Combined(flow \o Build(m, After(balance, flow)))

AvoidingPlan(m, balance, blocked) ==
  IF Debts(balance) = {} THEN <<>>
  ELSE Rest(m, balance, Flow(m.order, balance, Debts(balance) \ blocked))

\* buildTransfersFavoringPreviousRoutes
Kept(balance, blocked, previous) ==
  LET step(s, t) ==
        LET amount == Lower(t.amount, Lower(Positive(-s.left[t.from]), Positive(s.left[t.to])))
        IN IF Route(t) \in blocked \/ amount = 0 THEN s
           ELSE [left |-> [s.left EXCEPT ![t.from] = @ + amount, ![t.to] = @ - amount],
                 rows |-> Append(s.rows, Fresh(t.from, t.to, amount))]
  IN FoldLeft(step, [left |-> balance, rows |-> <<>>], previous)

FavoringFrom(m, kept, blocked) ==
  Combined(kept.rows \o IF blocked = {} THEN Build(m, kept.left) ELSE AvoidingPlan(m, kept.left, blocked))

FavoringPlan(m, balance, blocked, previous) == FavoringFrom(m, Kept(balance, blocked, previous), blocked)

\* preserveExactPreviousPendingPlan: whether the pending plan can stay.
StillExact(balance, blocked, previous) ==
  /\ \A i \in DOMAIN previous :
       /\ Route(previous[i]) \notin blocked
       /\ \A j \in 1..(i - 1) : Route(previous[j]) \notin {Route(previous[i]), Reversed(previous[i])}
  /\ Settles(balance, previous)

\* buildOutstandingTransfers: the pending plan if it still settles everything;
\* otherwise the plan that pays least back over a route already paid, unless
\* staying on the previous routes costs at most one more transfer.
Back(paid) == {Reversed(t) : t \in ToSet(paid)}

LessBack(blocked, baseline, rerouted) ==
  IF AmountOn(rerouted, blocked) < AmountOn(baseline, blocked) THEN rerouted ELSE baseline

MoreStable(blocked, routes, preferred, stable) ==
  IF /\ AmountOn(stable, routes) > AmountOn(preferred, routes)
     /\ Len(stable) <= Len(preferred) + 1
     /\ AmountOn(stable, blocked) <= AmountOn(preferred, blocked)
  THEN stable ELSE preferred

Preferred(m, balance, blocked, baseline) ==
  IF AmountOn(baseline, blocked) = 0 THEN baseline
  ELSE LessBack(blocked, baseline, AvoidingPlan(m, balance, blocked))

NewPlan(m, balance, blocked) == Preferred(m, balance, blocked, Build(m, balance))

Replacing(m, balance, blocked, previous, new) ==
  IF m.direct \/ previous = <<>> THEN new
  ELSE MoreStable(blocked, {Route(t) : t \in ToSet(previous)}, new,
                  FavoringPlan(m, balance, blocked, previous))

OutstandingPlan(m, balance, blocked, previous) ==
  IF StillExact(balance, blocked, previous) THEN previous
  ELSE Replacing(m, balance, blocked, previous, NewPlan(m, balance, blocked))

\* Mutant: an id that is taken is used again.
SameId(id, used) == id

\* uniqueTransferId
UniqueId(id, used) ==
  IF id \notin used THEN id
  ELSE Append(id, CHOOSE k \in 1..(Cardinality(used) + 1) :
                    /\ Append(id, k) \notin used
                    /\ \A j \in 1..(k - 1) : Append(id, j) \in used)

\* reconcileSettlementTransfers: what was paid stays, and a plan for the rest.
\* previous is the pending plan to keep to, <<>> when a new one is wanted.
Method(order, expenses, rounded, direct, paid) ==
  [order |-> order, direct |-> direct, unit |-> IF rounded THEN Unit ELSE 1,
   routes |-> IF direct THEN RemainingRoutes(DirectRoutes(expenses), paid) ELSE <<>>]

Outstanding(order, rounded, left) == IF rounded THEN RoundBalances(order, left) ELSE left

Joined(paid, plan) ==
  FoldLeft(LAMBDA rows, t : Append(rows, [t EXCEPT !.id = UniqueId(@, Ids(rows))]), paid, plan)

Reconcile(order, expenses, rounded, direct, paid, previous) ==
  Joined(paid, OutstandingPlan(Method(order, expenses, rounded, direct, paid),
                               Outstanding(order, rounded, After(Balances(expenses), paid)),
                               Back(paid), previous))
=============================================================================
