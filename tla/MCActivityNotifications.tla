------------------------ MODULE MCActivityNotifications ------------------------
(* Small instances of ActivityNotifications: ben has a phone and a tablet or   *)
(* only a phone, cat has no device, or lost the event.                         *)
EXTENDS ActivityNotifications

CONSTANTS ben, cat, dana, phone1, phone2, tablet, expense1, expense2, request1, request2

BenThenCat == <<ben, cat>>
OnePhoneEach == ben :> {phone1} @@ cat :> {phone2}
TwoAndNone == ben :> {phone1, tablet} @@ cat :> {}
=============================================================================
