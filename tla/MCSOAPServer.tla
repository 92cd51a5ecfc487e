----------------------------- MODULE MCSOAPServer ----------------------------
(***************************************************************************)
(* Instances of SOAPServer for TLC.                                        *)
(***************************************************************************)
EXTENDS SOAPServer
=============================================================================
