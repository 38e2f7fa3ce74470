------------------------------- MODULE MCPatrol -------------------------------
(* Short paths for Patrol. *)
EXTENDS Patrol
=============================================================================
