-------------------------- MODULE SharedEventRecord --------------------------
(***************************************************************************)
(* What the members of a shared event are promised about its canonical     *)
(* record, with no clients, versions or messages: the record only ever     *)
(* gains edits until an administrator deletes it for good, and an edit is  *)
(* acknowledged only once the record holds it (or the record is gone).     *)
(***************************************************************************)
EXTENDS FiniteSets

CONSTANT Edit           \* the edits members make to one shared event

VARIABLES committed,    \* edits held by the canonical record
          deleted,      \* whether the record is a tombstone
          acknowledged  \* edits some device was told are saved

recordVars == <<committed, deleted, acknowledged>>

TypeOK == /\ committed \in SUBSET Edit
          /\ deleted \in BOOLEAN
          /\ acknowledged \in SUBSET Edit

Init == /\ committed = {}
        /\ deleted = FALSE
        /\ acknowledged = {}

\* One accepted write: what the record held stays, new edits join it.
Commit == /\ ~deleted
          /\ committed' \in SUBSET Edit
          /\ committed \subseteq committed'
          /\ UNCHANGED <<deleted, acknowledged>>

Delete == /\ ~deleted
          /\ deleted' = TRUE
          /\ committed' = {}
          /\ UNCHANGED acknowledged

Acknowledge == /\ acknowledged' \in SUBSET Edit
               /\ acknowledged \subseteq acknowledged'
               /\ deleted \/ acknowledged' \ acknowledged \subseteq committed
               /\ UNCHANGED <<committed, deleted>>

Next == Commit \/ Delete \/ Acknowledge

Spec == Init /\ [][Next]_recordVars
==============================================================================
