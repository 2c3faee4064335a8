-------------------------- MODULE MCSharedEventSave --------------------------
(***************************************************************************)
(* Small instances of SharedEventSave: the creator's phone and a member's  *)
(* phone, where one of them makes two edits.                               *)
(***************************************************************************)
EXTENDS SharedEventSave, TLC

CONSTANTS d1, d2, creator, member, e1, e2, e3

\* Two accounts, one device each; the member is an administrator too.
TwoAccounts == d1 :> creator @@ d2 :> member
CreatorHasTwo == e1 :> d1 @@ e2 :> d2 @@ e3 :> d1
MemberHasTwo == e1 :> d1 @@ e2 :> d2 @@ e3 :> d2
==============================================================================
