--------------------------- MODULE MCSuperFragment ---------------------------
(* Instances of SuperFragment for TLC. *)
EXTENDS SuperFragment
=============================================================================
