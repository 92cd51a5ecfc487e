---------------------------- MODULE MCIRQThreads -----------------------------
(* Instances of IRQThreads for TLC. *)
EXTENDS IRQThreads, TLC

Symmetry == Permutations(Crates)
=============================================================================
