------------------------------- MODULE MCHitl -------------------------------
(* Hitl for TLC, which needs nothing but the values of its configuration. *)
EXTENDS Hitl
=============================================================================
