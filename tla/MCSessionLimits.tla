-------------------------- MODULE MCSessionLimits --------------------------
(* Usernames of which none starts another one.                             *)
EXTENDS SessionLimits

Unrelated == [u \in Users |-> {u}]
=============================================================================
