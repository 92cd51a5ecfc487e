----------------------------- MODULE DataServer ------------------------------
(***************************************************************************)
(* What emu::daq::server::Base promises to a client of the RUI, whichever  *)
(* protocol carries the data: the client grants credits for events; on     *)
(* request only, "as many events as credits held" are transmitted, each    *)
(* for one credit, and no credit is lost but by the start of a run.        *)
(***************************************************************************)
EXTENDS Integers

CONSTANT CreditGrants   \* credits a credit message may carry

VARIABLES onRequest,    \* sendDataOnRequestOnly_
          granted,      \* credits granted in this run
          credits,      \* nEventCreditsHeld_
          transmitted   \* events transmitted in this run

vars == <<onRequest, granted, credits, transmitted>>

Init ==
  /\ onRequest \in BOOLEAN
  /\ granted = 0
  /\ credits = 0
  /\ transmitted = 0

StartRun ==
  /\ granted' = 0
  /\ credits' = 0
  /\ transmitted' = 0
  /\ UNCHANGED onRequest

\* An event goes to a client that holds the given credits.
TransmitFor(held) ==
  /\ onRequest => held > 0
  /\ credits' = IF held > 0 THEN held - 1 ELSE 0
  /\ transmitted' = transmitted + 1
  /\ UNCHANGED onRequest

Transmit == TransmitFor(credits) /\ UNCHANGED granted

\* A credit message.
AddCredits(nCredits) ==
  /\ granted' = granted + nCredits
  /\ credits' = credits + nCredits
  /\ UNCHANGED <<onRequest, transmitted>>

\* A credit message that is answered with an event.
AddCreditsAndGet(nCredits) ==
  /\ granted' = granted + nCredits
  /\ TransmitFor(credits + nCredits)

Next ==
  \/ StartRun
  \/ Transmit
  \/ \E n \in CreditGrants : AddCredits(n) \/ AddCreditsAndGet(n)

Spec == Init /\ [][Next]_vars
=============================================================================
