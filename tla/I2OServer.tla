------------------------------ MODULE I2OServer ------------------------------
(***************************************************************************)
(* One I2O data server of the RUI (emu::daq::server::I2O and its Base):    *)
(* blocks of data read by the RUI are queued for a client, which grants    *)
(* event credits and a prescaling factor; each pass of the readout loop    *)
(* ends in sendData, which merges the blocks of an event into one message  *)
(* and posts it, until no complete event is left.                          *)
(*                                                                         *)
(* Blocks come from the RUI's readout (continueConstructionOfSuperFrag),   *)
(* of which only the position of a block in its event and the count of     *)
(* events matter here.  A pass holds the RUI's applicationBSem_ from start *)
(* to end, so that reading and the loop of sendData exclude the other      *)
(* handlers: "sending" says that sendData has been entered.  Memory is     *)
(* counted in blocks.  The client and the peer transport are external: a   *)
(* post fails or not, and a posted message's memory is freed later.        *)
(***************************************************************************)
EXTENDS Integers, Sequences, FiniteSets, SequencesExt, FiniteSetsExt

CONSTANTS PoolSize,      \* size of the server's memory pool
          HighThreshold, \* 70% of it
          CreditGrants,  \* credits a credit message may carry
          Prescalings,   \* prescaling factors a credit message may carry
          MaxReads,      \* bound on the blocks read in a run
          MaxGranted,    \* bound on the credits granted in a run
          MaxRuns        \* bound on the number of runs

ASSUME I2OServerAssumption ==
  /\ PoolSize \in Nat /\ HighThreshold \in 0..PoolSize
  /\ CreditGrants \subseteq Nat
  /\ Prescalings \subseteq Nat
  /\ MaxReads \in Nat /\ MaxGranted \in Nat /\ MaxRuns \in Nat

VARIABLES enabled,      \* the RUI is in state Enabled
          insideEvent,
          nEventsRead,
          server,       \* the server's queue, counters and parameters
          onRequest,    \* sendDataOnRequestOnly_
          sending,      \* sendData is in its loop
          heldByClient, \* memory of the messages posted and not yet freed
          leaked,       \* memory of the merged messages that could not be posted
          event,        \* ordinal of the event the last block read belongs to
          granted,      \* credits granted in this run
          sent,         \* messages posted in this run
          parted,       \* events of this run that the pool or the prescaling has
                        \* parted: of which a block was queued and a later one refused
          nReads, nRuns

vars == <<enabled, insideEvent, nEventsRead, server, onRequest, sending,
          heldByClient, leaked, event, granted, sent, parted, nReads, nRuns>>

runVars == <<insideEvent, nEventsRead, event, nReads, nRuns>>

\* A block in the queue: the event it belongs to and its position in that event.
Block == [event : Nat, starts : BOOLEAN, ends : BOOLEAN]

NewServer(prescaling) ==
  [queue |-> <<>>, nEventsInQueue |-> 0, credits |-> 0,
   prescaling |-> prescaling]

\* Memory of the pool in use.
InUse == Len(server.queue) + heldByClient + leaked

Ends(queue) == {i \in 1..Len(queue) : queue[i].ends}

\* Mutated form: only the oldest block is looked at.
IsEventEndAtFront(queue) == queue # <<>> /\ queue[1].ends

IsEventEndInQueue(queue) == Ends(queue) # {}

\* Prescaling: what is handed on while the count of events is a multiple of it.
IsSelected(s, nEvents) == s.prescaling > 0 /\ nEvents % s.prescaling = 0

\* Mutated form: any credit will do for any number of events in the queue.
WantsDataForAnyCredit(s, nEvents) ==
  /\ onRequest => s.credits > 0
  /\ IsSelected(s, nEvents)

\* The decision of addData, taken for each block, but for the memory: credits left
\* over by the events already queued, and prescaling.
WantsData(s, nEvents) ==
  /\ onRequest => s.credits > s.nEventsInQueue
  /\ IsSelected(s, nEvents)

\* addData and createMessage.
AddData(s, nEvents, block, room) ==
  IF WantsData(s, nEvents) /\ room
  THEN [s EXCEPT !.queue = Append(@, block),
                 !.nEventsInQueue = IF block.ends THEN @ + 1 ELSE @]
  ELSE s

\* The events whose last block queued is no end, and which are not to get the next one
\* because of prescaling or for want of memory.
Parted(s, nEvents, room) ==
  IF s.queue # <<>> /\ ~Last(s.queue).ends /\ ~(IsSelected(s, nEvents) /\ room)
  THEN {Last(s.queue).event}
  ELSE {}

\* Mutated form: the block is marked but its event is not counted.
MakeLastBlockEndEventUncounted(s) ==
  IF s.queue = <<>> THEN s
  ELSE [s EXCEPT !.queue[Len(s.queue)].ends = TRUE]

\* Mutated form: an event without trailer is left open.
LeaveLastBlockOpen(s) == s

\* makeLastBlockEndEvent: the last block queued becomes an end, be it one already.
MakeLastBlockEndEvent(s) ==
  IF s.queue = <<>> THEN s
  ELSE [s EXCEPT !.queue[Len(s.queue)].ends = TRUE, !.nEventsInQueue = @ + 1]

Decremented(n) == IF n > 0 THEN n - 1 ELSE 0

\* Mutated form: the credit spent on this message is still reported.
CreditsInWholeMessage(s) == s.credits

\* insertNumberOfCreditsHeld for a message that ends its event.
CreditsInMessage(s) == Decremented(s.credits)

\* Mutated form: the counters may go below zero.
EventSentUnguarded(s, queue) ==
  [s EXCEPT !.queue = queue, !.nEventsInQueue = @ - 1, !.credits = @ - 1]

\* The counters after a post that succeeded.
EventSent(s, queue) ==
  [s EXCEPT !.queue = queue,
            !.nEventsInQueue = Decremented(@),
            !.credits = Decremented(@)]

\* Mutated form: the block that ends the event is not removed with the others.
RemainingWithEnd(queue, n) == SubSeq(queue, n, Len(queue))

\* The queue without the n blocks that make up the next message.
Remaining(queue, n) == SubSeq(queue, n + 1, Len(queue))

Init ==
  /\ enabled = FALSE
  /\ insideEvent = FALSE
  /\ nEventsRead = 0
  /\ server \in {NewServer(p) : p \in Prescalings}
  /\ onRequest \in BOOLEAN
  /\ sending = FALSE
  /\ heldByClient = 0
  /\ leaked = 0
  /\ event = 0
  /\ granted = 0
  /\ sent = <<>>
  /\ parted = {}
  /\ nReads = 0
  /\ nRuns = 0

\* destroyServers and createServers in configureAction, then Enable.  Credits are
\* forgotten; the prescaling factor of the client stays.
StartRun ==
  /\ ~enabled
  /\ nRuns < MaxRuns
  /\ nRuns' = nRuns + 1
  /\ enabled' = TRUE
  /\ insideEvent' = FALSE
  /\ nEventsRead' = 0
  /\ server' = NewServer(server.prescaling)
  /\ heldByClient' = 0
  /\ leaked' = 0
  /\ event' = 0
  /\ granted' = 0
  /\ sent' = <<>>
  /\ parted' = {}
  /\ nReads' = 0
  /\ UNCHANGED <<onRequest, sending>>

\* Halt, or a failure: the queue is left as it is.
StopRun ==
  /\ enabled
  /\ ~sending
  /\ enabled' = FALSE
  /\ UNCHANGED <<server, onRequest, sending, heldByClient, leaked, granted, sent,
                 parted, runVars>>

\* onI2OClientCreditMsg and addCredits.
AddCredits(nCredits, prescaling) ==
  /\ enabled
  /\ ~sending
  /\ granted + nCredits <= MaxGranted
  /\ server' = [server EXCEPT !.credits = @ + nCredits,
                              !.prescaling = prescaling]
  /\ granted' = granted + nCredits
  /\ UNCHANGED <<enabled, onRequest, sending, heldByClient, leaked, sent, parted,
                 runVars>>

\* A pass of the readout loop that reads one block.  A header inside an event closes
\* that event for the clients, and a trailer counts the event before the block is
\* handed on.
ReadBlock(header, trailer) ==
  LET unfinished == insideEvent /\ header
      nEvents == nEventsRead + (IF unfinished THEN 1 ELSE 0)
                             + (IF trailer THEN 1 ELSE 0)
      closed  == IF unfinished THEN MakeLastBlockEndEvent(server) ELSE server
      number  == IF header \/ ~insideEvent THEN event + 1 ELSE event
      block   == [event |-> number, starts |-> header, ends |-> trailer]
      room    == InUse <= HighThreshold /\ InUse < PoolSize
  IN  /\ enabled
      /\ ~sending
      /\ nReads < MaxReads
      /\ nReads' = nReads + 1
      /\ event' = number
      /\ nEventsRead' = nEvents
      /\ insideEvent' = ~trailer
      /\ server' = AddData(closed, nEvents, block, room)
      /\ parted' = parted \cup Parted(closed, nEvents, room)
      /\ sending' = TRUE
      /\ UNCHANGED <<enabled, onRequest, heldByClient, leaked, granted, sent,
                     nRuns>>

\* A pass that reads nothing, or sends a block to the RU: only sendData is left.
StartSending ==
  /\ enabled
  /\ ~sending
  /\ IsEventEndInQueue(server.queue)
  /\ sending' = TRUE
  /\ UNCHANGED <<enabled, server, onRequest, heldByClient, leaked, granted, sent,
                 parted, runVars>>

StopSending ==
  /\ sending
  /\ ~IsEventEndInQueue(server.queue)
  /\ sending' = FALSE
  /\ UNCHANGED <<enabled, server, onRequest, heldByClient, leaked, granted, sent,
                 parted, runVars>>

\* The number of blocks the next message is made of: one that both starts and ends
\* its event goes alone, otherwise all up to the first end are merged.
NextMessageLength ==
  IF Head(server.queue).starts /\ Head(server.queue).ends THEN 1
  ELSE Min(Ends(server.queue))

SendingMessage == sending /\ IsEventEndInQueue(server.queue)

NeedsMerging == ~(Head(server.queue).starts /\ Head(server.queue).ends)

\* sendNextMessageInQueue or sendMergedEventMessage.  To merge, a frame for the
\* whole message is taken from the pool while its blocks still hold theirs.
SendMessage ==
  LET n       == NextMessageLength
      message == [events  |-> {server.queue[i].event : i \in 1..n},
                  credits |-> CreditsInMessage(server)]
  IN  /\ SendingMessage
      /\ NeedsMerging => InUse + n <= PoolSize
      /\ server' = EventSent(server, Remaining(server.queue, n))
      /\ sent' = Append(sent, message)
      /\ heldByClient' = heldByClient + n
      /\ UNCHANGED <<enabled, onRequest, sending, leaked, granted, parted, runVars>>

\* The same, but the post throws: a block sent alone stays in the queue, a merged
\* message is gone, its blocks too, and its frame is not given back to the pool.
\* The exception ends sendData.
FailToSendMessage ==
  LET n == NextMessageLength
  IN  /\ SendingMessage
      /\ NeedsMerging => InUse + n <= PoolSize
      /\ IF NeedsMerging
         THEN /\ server' = [server EXCEPT !.queue = Remaining(@, n)]
              /\ leaked' = leaked + n
         ELSE UNCHANGED <<server, leaked>>
      /\ sending' = FALSE
      /\ UNCHANGED <<enabled, onRequest, heldByClient, granted, sent, parted, runVars>>

\* No frame for the merged message: getFrame throws, which ends sendData.
FailToMerge ==
  /\ SendingMessage
  /\ NeedsMerging
  /\ InUse + NextMessageLength > PoolSize
  /\ sending' = FALSE
  /\ UNCHANGED <<enabled, server, onRequest, heldByClient, leaked, granted, sent,
                 parted, runVars>>

\* The peer transport has delivered a message, or part of them, and frees memory.
Release ==
  /\ heldByClient > 0
  /\ heldByClient' = heldByClient - 1
  /\ UNCHANGED <<enabled, server, onRequest, sending, leaked, granted, sent,
                 parted, runVars>>

Next ==
  \/ StartRun \/ StopRun
  \/ \E n \in CreditGrants, p \in Prescalings : AddCredits(n, p)
  \/ \E header, trailer \in BOOLEAN : ReadBlock(header, trailer)
  \/ StartSending \/ StopSending
  \/ SendMessage \/ FailToSendMessage \/ FailToMerge
  \/ Release

Spec == Init /\ [][Next]_vars

\* The readout loop reschedules itself while the run wants events, a post that may
\* succeed again and again does so in the end, and posted memory is freed in the end.
FairSpec ==
  /\ Spec
  /\ WF_vars(StartSending) /\ WF_vars(StopSending) /\ WF_vars(FailToMerge)
  /\ SF_vars(SendMessage)
  /\ WF_vars(Release)
-----------------------------------------------------------------------------
\* Every variable has its type.
TypeOK ==
  /\ enabled \in BOOLEAN /\ insideEvent \in BOOLEAN
  /\ nEventsRead \in Nat
  /\ server \in [queue : Seq(Block), nEventsInQueue : Nat, credits : Nat,
                 prescaling : Nat]
  /\ onRequest \in BOOLEAN
  /\ sending \in BOOLEAN
  /\ heldByClient \in 0..PoolSize /\ leaked \in 0..PoolSize
  /\ event \in Nat /\ granted \in Nat
  /\ sent \in Seq([events : SUBSET Nat, credits : Nat])
  /\ parted \in SUBSET Nat
  /\ nReads \in Nat /\ nRuns \in Nat

\* An event queued as complete is always in the counter, so that addData never
\* takes on more events than there are credits for.
EndsAreCounted == Cardinality(Ends(server.queue)) <= server.nEventsInQueue

\* On request only, the server never overdraws: each message sent, merged or not,
\* has cost one of the credits granted, and no credit is lost.  This relates the
\* credits, checked per block, to the ends of events set later by a header or by
\* makeLastBlockEndEvent.
CreditsBalance ==
  onRequest => server.credits + Len(sent) = granted

\* The client is told the number of credits it really has left at that moment: no
\* more than granted less the messages up to this one.
CreditsReported ==
  onRequest => \A i \in 1..Len(sent) : sent[i].credits + i <= granted

\* A message holds the blocks of a single event ("Loop over the messages that make up
\* this event", I2O.cc), and of earlier ones only what there was before the prescaling
\* or the pool refused their rest: addData decides block by block, and the block with
\* the trailer comes with a count one higher than the others of its event.  Credits never
\* part an event, nor does a header found in it, or a post that fails.
EventsNotMixed ==
  \A i \in 1..Len(sent) : \A e, f \in sent[i].events : e < f => e \in parted

\* Events leave in the order in which they were read, and none leaves in two messages,
\* whatever is prescaled, refused by the pool, or lost in a post.
EventsInOrder ==
  \A i, j \in 1..Len(sent) : i < j =>
    \A e \in sent[i].events, f \in sent[j].events : e < f

\* Every event in the queue leaves room to be merged when the pool has been filled up
\* to its threshold: at 70% of the pool, no event takes more than 30% of it.
EventsFit ==
  /\ leaked = 0
  /\ \A i \in Ends(server.queue) :
       i - Max({0} \cup {j \in Ends(server.queue) : j < i})
         <= PoolSize - HighThreshold - 1

\* If events are small enough and no post of a merged message fails, a complete one
\* does not stay in the queue for ever while the run goes on.  (A larger one does: its
\* blocks fill the pool that is to give the frame they are merged into.)
CompleteEventsAreSent ==
  []EventsFit =>
     ((enabled /\ Ends(server.queue) # {}) ~>
        (~enabled \/ Ends(server.queue) = {}))

Promise == INSTANCE DataServer
             WITH credits <- server.credits, transmitted <- Len(sent)

\* The I2O server keeps what Base promises to a client, whatever is queued, merged,
\* lost or prescaled: it never transmits an event to a client that asks for data and
\* has no credit left, and a failed post costs none.
ImplementsDataServer == Promise!Spec
=============================================================================
