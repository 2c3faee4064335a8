--------------------------- MODULE MCEventReplicas ---------------------------
(***************************************************************************)
(* Small instances of EventReplicas: two administrators with a phone each, *)
(* and a third person who has none; or an administrator and a member.      *)
(***************************************************************************)
EXTENDS EventReplicas, TLC

CONSTANTS ann, ben, cat, d1, d2, e1

Order == ann :> 1 @@ ben :> 2 @@ cat :> 3
OrderOfTwo == ann :> 1 @@ ben :> 2
Phones == d1 :> ann @@ d2 :> ben
NoExpenses == [e \in {} |-> d1]
MadeByBen == e1 :> d2
\* Clocks agree, or the second phone's is one unit ahead.
TrueClocks == d1 :> 0 @@ d2 :> 0
FastSecond == d1 :> 0 @@ d2 :> 1
=============================================================================
