-------------------------- MODULE MCBadEventContext --------------------------
(* Instances of BadEventContext for TLC. *)
EXTENDS BadEventContext
=============================================================================
