---------------------------- MODULE MCRuiThreads -----------------------------
(* Instances of RuiThreads for TLC. *)
EXTENDS RuiThreads
=============================================================================
