----------------------------- MODULE MCI2OServer -----------------------------
(* Instances of I2OServer for TLC. *)
EXTENDS I2OServer
=============================================================================
