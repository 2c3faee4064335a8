---------------------------- MODULE MCEventInvites ----------------------------
(* Small instances of EventInvites: an administrator, a member, a stranger. *)
EXTENDS EventInvites

CONSTANTS ann, ben, cat
=============================================================================
