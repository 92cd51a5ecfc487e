----------------------------- MODULE SOAPServer ------------------------------
(***************************************************************************)
(* One SOAP data server of the RUI (emu::daq::server::SOAP and its Base):  *)
(* each message carries one event, its blocks as attachments.  Blocks are  *)
(* added to the message under construction; the block that ends the event, *)
(* or the header of the next one, completes it and puts it in a queue.     *)
(*                                                                         *)
(* A client that is a XDAQ application is sent the oldest message by the   *)
(* server's own work loop (serverLoopAction); any other client gets it as  *)
(* the reply to its credit message.  All of this is done with the RUI's    *)
(* applicationBSem_ taken, so that each handler is one step.  The client   *)
(* is external: it accepts a message, answers with a fault, or cannot be   *)
(* reached.                                                                *)
(***************************************************************************)
EXTENDS Integers, Sequences, SequencesExt

CONSTANTS MaxMessages,   \* maxMessagesPendingTransmission_, 10 in the code
          CreditGrants,  \* credits a credit message may carry
          Prescalings,   \* prescaling factors a credit message may carry
          MaxReads,      \* bound on the blocks read in a run
          MaxGranted,    \* bound on the credits granted in a run
          MaxRuns        \* bound on the number of runs

ASSUME SOAPServerAssumption ==
  /\ MaxMessages \in Nat \ {0}
  /\ CreditGrants \subseteq Nat
  /\ Prescalings \subseteq Nat
  /\ MaxReads \in Nat /\ MaxGranted \in Nat /\ MaxRuns \in Nat

VARIABLES enabled,      \* the RUI is in state Enabled
          isXdaqClient, \* clientDescriptor_ is not NULL
          onRequest,    \* sendDataOnRequestOnly_
          insideEvent,
          nEventsRead,
          messages,     \* complete messages, each the sequence of its blocks' events
          message,      \* the one under construction; none if empty
          credits, prescaling,
          event,        \* ordinal of the event the last block read belongs to
          granted,      \* credits granted in this run
          sent,         \* messages the client has got in this run
          refused,      \* how many of them it answered with a fault
          taken,        \* whether the last block read was taken
          parted,       \* events of this run that the prescaling has parted: of which a
                        \* block was taken and a later one refused
          nReads, nRuns

vars == <<enabled, isXdaqClient, onRequest, insideEvent, nEventsRead, messages,
          message, credits, prescaling, event, granted, sent, refused, taken,
          parted, nReads, nRuns>>

clientVars  == <<isXdaqClient, onRequest>>
readoutVars == <<insideEvent, nEventsRead, event, taken, parted, nReads>>

Decremented(n) == IF n > 0 THEN n - 1 ELSE 0

\* Mutated form: the messages that wait are not held against the credits.
HasRoomForAnyCredit(nMessages) == nMessages < MaxMessages

\* Mutated form: one message more than allowed.
HasRoomForOneMore(nMessages) == nMessages <= MaxMessages /\ nMessages < credits

\* addData refuses what would be one message too many.
HasRoom(nMessages) == nMessages < MaxMessages /\ nMessages < credits

\* Prescaling: what is handed on while the count of events is a multiple of it.
IsSelected(nEvents) == prescaling > 0 /\ nEvents % prescaling = 0

\* The decision of addData, taken for each block.  It tests sendDataOnRequestOnly_, the
\* pointer, which is never NULL, so that the branch of those who need not ask is never
\* taken.
IsToBeSent(nMessages, nEvents) ==
  /\ credits > 0
  /\ IsSelected(nEvents)
  /\ HasRoom(nMessages)

Init ==
  /\ enabled = FALSE
  /\ isXdaqClient \in BOOLEAN
  /\ onRequest \in BOOLEAN
  /\ insideEvent = FALSE
  /\ nEventsRead = 0
  /\ messages = <<>>
  /\ message = <<>>
  /\ credits = 0
  /\ prescaling \in Prescalings
  /\ event = 0
  /\ granted = 0
  /\ sent = <<>>
  /\ refused = 0
  /\ taken = TRUE
  /\ parted = {}
  /\ nReads = 0
  /\ nRuns = 0

\* destroyServers and createServers in configureAction, then Enable.
StartRun ==
  /\ ~enabled
  /\ nRuns < MaxRuns
  /\ nRuns' = nRuns + 1
  /\ enabled' = TRUE
  /\ insideEvent' = FALSE
  /\ nEventsRead' = 0
  /\ messages' = <<>>
  /\ message' = <<>>
  /\ credits' = 0
  /\ event' = 0
  /\ granted' = 0
  /\ sent' = <<>>
  /\ refused' = 0
  /\ taken' = TRUE
  /\ parted' = {}
  /\ nReads' = 0
  /\ UNCHANGED <<clientVars, prescaling>>

\* Halt, or a failure.
StopRun ==
  /\ enabled
  /\ enabled' = FALSE
  /\ UNCHANGED <<clientVars, readoutVars, messages, message, credits, prescaling,
                 granted, sent, refused, nRuns>>

\* Mutated form: an event without trailer is left open.
LeaveMessageOpen(closing) == [queue |-> messages, current |-> message]

\* makeLastBlockEndEvent, when a header is found inside an event.
Closed(closing) ==
  IF closing /\ message # <<>>
  THEN [queue |-> Append(messages, message), current |-> <<>>]
  ELSE [queue |-> messages, current |-> message]

\* One block read by the RUI and handed on by addData, with appendData.  A trailer
\* counts the event before the block is handed on.
ReadBlock(header, trailer) ==
  LET unfinished == insideEvent /\ header
      nEvents == nEventsRead + (IF unfinished THEN 1 ELSE 0)
                             + (IF trailer THEN 1 ELSE 0)
      closed  == Closed(unfinished)
      number  == IF header \/ ~insideEvent THEN event + 1 ELSE event
      extended == Append(closed.current, number)
  IN  /\ enabled
      /\ nReads < MaxReads
      /\ nReads' = nReads + 1
      /\ event' = number
      /\ nEventsRead' = nEvents
      /\ insideEvent' = ~trailer
      /\ taken' = IsToBeSent(Len(closed.queue), nEvents)
      /\ parted' = IF closed.current # <<>> /\ ~IsSelected(nEvents)
                   THEN parted \cup {Last(closed.current)} ELSE parted
      /\ messages' = IF taken' /\ trailer THEN Append(closed.queue, extended)
                                          ELSE closed.queue
      /\ message' = CASE ~taken'            -> closed.current
                      [] taken' /\ trailer  -> <<>>
                      [] taken' /\ ~trailer -> extended
      /\ UNCHANGED <<enabled, clientVars, credits, prescaling, granted, sent,
                     refused, nRuns>>

\* Mutated form: the message stays in the queue.
DeliverKeeping ==
  /\ sent' = Append(sent, Head(messages))
  /\ UNCHANGED messages

\* The client has got the oldest message.
Deliver ==
  /\ sent' = Append(sent, Head(messages))
  /\ messages' = Tail(messages)

\* onSOAPClientCreditMsg of a XDAQ client: addCredits.
AddCredits(nCredits, p) ==
  /\ enabled
  /\ granted + nCredits <= MaxGranted
  /\ isXdaqClient
  /\ credits' = credits + nCredits
  /\ prescaling' = p
  /\ granted' = granted + nCredits
  /\ UNCHANGED <<enabled, clientVars, readoutVars, messages, message, sent,
                 refused, nRuns>>

\* The same of any other client, not a persistent one: addCredits, and then
\* getOldestMessagePendingTransmission, which costs a credit.
AddCreditsAndGet(nCredits, p) ==
  /\ enabled
  /\ granted + nCredits <= MaxGranted
  /\ ~isXdaqClient
  /\ prescaling' = p
  /\ granted' = granted + nCredits
  /\ IF messages = <<>>
     THEN credits' = credits + nCredits /\ UNCHANGED <<messages, sent>>
     ELSE credits' = Decremented(credits + nCredits) /\ Deliver
  /\ UNCHANGED <<enabled, clientVars, readoutVars, message, refused, nRuns>>

\* Mutated form: nothing is sent while a message is under construction.
SendDataBetweenEvents ==
  /\ enabled
  /\ isXdaqClient
  /\ messages # <<>> /\ message = <<>>
  /\ Deliver
  /\ credits' = Decremented(credits)
  /\ UNCHANGED <<enabled, clientVars, readoutVars, message, prescaling, granted,
                 refused, nRuns>>

\* sendData, called by serverLoopAction, when a reply comes.  A fault costs no
\* credit, but the message is gone as well.
SendData ==
  /\ enabled
  /\ isXdaqClient
  /\ messages # <<>>
  /\ Deliver
  /\ \/ credits' = Decremented(credits) /\ UNCHANGED refused
     \/ refused' = refused + 1 /\ UNCHANGED credits
  /\ UNCHANGED <<enabled, clientVars, readoutVars, message, prescaling, granted,
                 nRuns>>

Next ==
  \/ StartRun \/ StopRun
  \/ \E header, trailer \in BOOLEAN : ReadBlock(header, trailer)
  \/ \E n \in CreditGrants, p \in Prescalings :
       AddCredits(n, p) \/ AddCreditsAndGet(n, p)
  \/ SendData

Spec == Init /\ [][Next]_vars

\* serverLoopAction reschedules itself for ever, and a client that cannot be reached
\* is tried again until it can.
FairSpec == Spec /\ WF_vars(SendData)
-----------------------------------------------------------------------------
\* Every variable has its type.
TypeOK ==
  /\ enabled \in BOOLEAN /\ isXdaqClient \in BOOLEAN /\ onRequest \in BOOLEAN
  /\ insideEvent \in BOOLEAN /\ taken \in BOOLEAN
  /\ nEventsRead \in Nat /\ event \in Nat
  /\ messages \in Seq(Seq(Nat)) /\ message \in Seq(Nat)
  /\ Len(messages) <= MaxMessages
  /\ credits \in Nat /\ prescaling \in Nat /\ granted \in Nat
  /\ parted \in SUBSET Nat
  /\ sent \in Seq(Seq(Nat)) /\ refused \in Nat
  /\ nReads \in Nat /\ nRuns \in Nat

\* How many messages are under construction.
Unfinished(current) == IF current = <<>> THEN 0 ELSE 1

\* The credits are spent one by one on the messages the client has got without a
\* fault, and there is one for each message that waits, also for one completed by the
\* header of the next event (which is not checked against them).
CreditsBalance ==
  /\ credits + Len(sent) - refused = granted
  /\ Len(messages) + Unfinished(message) <= credits

\* A message holds blocks of one event only, also if the event had no trailer, or if
\* credits came, or room was made, in its middle; and of earlier events only what there
\* was before the prescaling refused their rest: addData decides block by block, and the
\* block with the trailer comes with a count one higher than the others of its event.
EventsNotMixed ==
  \A i \in 1..Len(sent) : \A j, k \in 1..Len(sent[i]) :
    sent[i][j] < sent[i][k] => sent[i][j] \in parted

\* No event is delivered twice, or out of order, or in two messages, however it is
\* prescaled.
EventsInOrder ==
  \A i, j \in 1..Len(sent) : i < j =>
    \A k \in 1..Len(sent[i]), l \in 1..Len(sent[j]) : sent[i][k] < sent[j][l]

\* Base.h: "if sendDataOnRequestOnly_ is TRUE, transmits as many events as credits
\* held, otherwise keeps transmitting events".
KeepsTransmitting ==
  [][~onRequest /\ nReads' = nReads + 1 /\ prescaling = 1
       /\ Len(messages) < MaxMessages - 1 => taken']_vars

\* Whatever is complete is delivered to a XDAQ client in the end, unless the run is
\* stopped.
CompleteEventsAreSent ==
  isXdaqClient /\ enabled /\ messages # <<>> ~> ~enabled \/ messages = <<>>

Promise == INSTANCE DataServer WITH transmitted <- Len(sent) - refused

\* The SOAP server keeps what Base promises to a client, be it a XDAQ application or
\* not: it has a credit for whatever it delivers, and a fault costs none.
ImplementsDataServer == Promise!Spec
=============================================================================
