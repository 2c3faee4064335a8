------------------------- MODULE MCPendingSyncOutbox -------------------------
(***************************************************************************)
(* Small instances of PendingSyncOutbox: own edits in one or two events,   *)
(* and a peer's edit in the first.                                         *)
(***************************************************************************)
EXTENDS PendingSyncOutbox, TLC

CONSTANTS t1, t2, ev1, ev2, own1, own2, peer1

AcrossEvents == own1 :> ev1 @@ own2 :> ev2 @@ peer1 :> ev1
OneEvent == [e \in {own1, own2, peer1} |-> ev1]
=============================================================================
