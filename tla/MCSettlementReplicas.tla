------------------------ MODULE MCSettlementReplicas ------------------------
(***************************************************************************)
(* Small instances of SettlementReplicas: an event of five people, two of  *)
(* them administrators with a phone each.  e1 leaves a unit over and a tie *)
(* in rounding; with e2 two people owe each other, and the five fall into  *)
(* groups that settle among themselves.                                    *)
(***************************************************************************)
EXTENDS SettlementReplicas, TLC

CONSTANTS ann, ben, cat, dan, eve, d1, d2, e1, e2

Ledger == e1 :> [total |-> 13, payer |-> ann, shared |-> <<ben, cat>>]
       @@ e2 :> [total |-> 12, payer |-> ben, shared |-> <<ann, dan, eve>>]
Phones == d1 :> ann @@ d2 :> ben
Makers == e1 :> d1 @@ e2 :> d2
OneExpense == <<e1>>
FirstOrder == ann :> 2 @@ ben :> 1 @@ cat :> 3 @@ dan :> 4 @@ eve :> 5
LastOrder == ann :> 4 @@ ben :> 5 @@ cat :> 3 @@ dan :> 2 @@ eve :> 1

\* The second phone also shows an event that lists the people otherwise.
SecondReordered == d1 :> FirstOrder @@ d2 :> LastOrder
-----------------------------------------------------------------------------
(* The planners against their definitions, on small balances of the five. *)

EvenBalances(amounts) ==
  {balance \in [Participant -> amounts] : MapThenSumSet(LAMBDA p : balance[p], Participant) = 0}

Debtors(balance) == {p \in Participant : balance[p] < 0}

\* What a cut of the routes lets through: the debts of those on the near side
\* and the credits that the others' routes lead to.
Cut(balance, routes, beyond) ==
  MapThenSumSet(LAMBDA p : -balance[p], Debtors(balance) \ beyond)
  + MapThenSumSet(LAMBDA p : balance[p], {r[2] : r \in {x \in routes : x[1] \in beyond}})

\* runMaximumFlow sends as much as the smallest cut lets through.
ASSUME FlowIsMaximal ==
  \A balance \in EvenBalances(-2..2) : \A routes \in SUBSET Debts(balance) :
    LET flow == MaximumFlow(FirstOrder, balance, routes)
    IN MapThenSumSet(LAMBDA r : flow[r], routes)
         = Min({Cut(balance, routes, beyond) : beyond \in SUBSET Debtors(balance)})

\* buildTransfersFromBalances makes a transfer less than people for every group
\* that any partition has.
ASSUME PlanIsShortest ==
  \A balance \in EvenBalances({-4, -3, -2, 0, 4, 5}) : \A groups \in Partitions(balance) :
    Len(SmartPlan(FirstOrder, balance)) <= Cardinality(Owing(balance)) - Cardinality(groups)
=============================================================================
