---------------------------- MODULE SuperFragment ----------------------------
(***************************************************************************)
(* How the RUI turns the data blocks delivered by its device reader into   *)
(* super-fragments for the event builder's readout unit (RU):              *)
(* continueConstructionOfSuperFrag, ensureContiguousEventNumber,           *)
(* finalizeSuperFragment and sendNextPendingBlock of                       *)
(* emu::daq::rui::Application, with passDataOnToRUBuilder_ set.            *)
(*                                                                         *)
(* The event number (L1A) wraps around after MaxL1A.  A read block has a   *)
(* header, a trailer, both or neither, as the hardware sent it; only a     *)
(* header brings a new event number.  The RU keeps the memory of a posted  *)
(* block until it is done with it.                                         *)
(*                                                                         *)
(* Only haltAction discards what is held and starts the numbers anew.  A   *)
(* run that ends by a failure or by Reset leaves blocks, flag and numbers  *)
(* to the next one, whose first blocks continue what the RU has got.       *)
(***************************************************************************)
EXTENDS Integers, Sequences, FiniteSets, SequencesExt

CONSTANTS MaxL1A,        \* 2^24 - 1 in the code
          HighThreshold, \* threshold of the RUI-to-RU memory pool, in blocks
          FirstL1A,      \* event numbers a run may start with
          MaxGap,        \* bound on the step between event numbers
          MaxReads,      \* bound on the blocks read
          MaxRuns        \* bound on the number of runs

ASSUME SuperFragmentAssumption ==
  /\ MaxL1A \in Nat \ {0}
  /\ HighThreshold \in Nat
  /\ FirstL1A \subseteq 0..MaxL1A /\ FirstL1A # {}
  /\ MaxGap \in 0..MaxL1A
  /\ MaxReads \in Nat
  /\ MaxRuns \in Nat

VARIABLES fsm,                          \* "Halted", "Ready", "Enabled", "Failed",
                                        \* "Crashed"
          eventNumber,
          previousEventNumber,
          insideEvent,
          nEventsRead,
          superFragBlocks,
          blocksArePendingTransmission,
          heldByRU,                     \* posted blocks the RU has not released
          sent,                         \* blocks posted since the last haltAction
          l1a,                          \* event number of the last header
          nReads,                       \* blocks read
          nRuns,                        \* runs configured so far
          dropped,                      \* whether, since the last haltAction, the pool
                                        \* made the readout lose a block
          recurred,                     \* ... a number came back among blocks held,
                                        \* others in between
          torn                          \* ... a run left an event cut off to the next

vars == <<fsm, eventNumber, previousEventNumber, insideEvent, nEventsRead,
          superFragBlocks, blocksArePendingTransmission, heldByRU, sent, l1a,
          nReads, nRuns, dropped, recurred, torn>>

readerVars == <<l1a, nReads, nRuns>>
history    == <<dropped, recurred, torn>>

\* fillBlock: an empty super-fragment is numbered at once, a block with data
\* carries zeros until finalizeSuperFragment.
DataBlock(number)  == [event |-> number, blockNb |-> 0, nbBlocks |-> 0]
EmptyBlock(number) == [event |-> number, blockNb |-> 0, nbBlocks |-> 1]

\* Mutated form: blocks already given to an earlier event are counted too.
FinalizeAll(blocks, number) ==
  [i \in 1..Len(blocks) |->
     [blocks[i] EXCEPT !.blockNb = i - 1, !.nbBlocks = Len(blocks)]]

\* finalizeSuperFragment: numbers and counts the blocks of the current event.
Finalize(blocks, number) ==
  LET ofEvent == {i \in 1..Len(blocks) : blocks[i].event = number}
  IN  [i \in 1..Len(blocks) |->
         IF i \in ofEvent
         THEN [event    |-> number,
               blockNb  |-> Cardinality({j \in ofEvent : j < i}),
               nbBlocks |-> Cardinality(ofEvent)]
         ELSE blocks[i]]

\* Mutated form: the numbers after the wrap-around go on above MaxL1A.
MissingEventsBeyondMax(previous, number) ==
  IF previous = 0 THEN <<>>
  ELSE [i \in 1..(number + (IF previous > number THEN MaxL1A + 1 ELSE 0)) - previous - 1
          |-> previous + i]

\* Mutated form: the wrap-around of the event number is not foreseen.
MissingEventsWithoutWrap(previous, number) ==
  IF previous = 0 \/ previous >= number THEN <<>>
  ELSE [i \in 1..number - previous - 1 |-> previous + i]

\* ensureContiguousEventNumber: the event numbers skipped between two headers.
\* A previous event number of zero stands for "no event has been read".
MissingEvents(previous, number) ==
  CASE previous \in {0, number} -> <<>>
    [] 0 < previous /\ previous < number ->
         [i \in 1..number - previous - 1 |-> previous + i]
    [] previous > number -> [i \in 1..MaxL1A - previous |-> previous + i]
                              \o [i \in 1..number |-> i - 1]

\* The blocks of an event lie together: none of another event is between them.
Together(blocks, number) ==
  \A i, j, k \in 1..Len(blocks) :
    i < k /\ k < j /\ blocks[i].event = number /\ blocks[j].event = number
      => blocks[k].event = number

\* Memory in use in the RUI-to-RU pool, in blocks.
InUse(blocks) == Len(blocks) + heldByRU

Init ==
  /\ fsm = "Halted"
  /\ eventNumber = 1
  /\ previousEventNumber = 0
  /\ insideEvent = FALSE
  /\ nEventsRead = 0
  /\ superFragBlocks = <<>>
  /\ blocksArePendingTransmission = FALSE
  /\ heldByRU = 0
  /\ sent = <<>>
  /\ l1a \in FirstL1A
  /\ nReads = 0
  /\ nRuns = 0
  /\ dropped = FALSE
  /\ recurred = FALSE
  /\ torn = FALSE

\* configureAction, as far as it concerns super-fragments: it neither releases the
\* blocks held, nor clears the flag, nor sets the numbers back.
Configure ==
  /\ fsm = "Halted"
  /\ nRuns < MaxRuns
  /\ nRuns' = nRuns + 1
  /\ fsm' = "Ready"
  /\ insideEvent' = FALSE
  /\ nEventsRead' = 0
  /\ l1a' \in FirstL1A
  /\ torn' = (torn \/ (superFragBlocks # <<>> /\ ~blocksArePendingTransmission))
  /\ UNCHANGED <<eventNumber, previousEventNumber, superFragBlocks,
                 blocksArePendingTransmission, heldByRU, sent, nReads, dropped,
                 recurred>>

Enable ==
  /\ fsm = "Ready"
  /\ fsm' = "Enabled"
  /\ UNCHANGED <<eventNumber, previousEventNumber, insideEvent, nEventsRead,
                 superFragBlocks, blocksArePendingTransmission, heldByRU, sent,
                 readerVars, history>>

\* Mutated form: the blocks are released but the flag is left as it was.
HaltKeepingFlag ==
  /\ fsm \in {"Ready", "Enabled"}
  /\ fsm' = "Halted"
  /\ superFragBlocks' = <<>>
  /\ eventNumber' = 1
  /\ previousEventNumber' = 0
  /\ sent' = <<>>
  /\ dropped' = FALSE /\ recurred' = FALSE /\ torn' = FALSE
  /\ UNCHANGED <<insideEvent, nEventsRead, heldByRU, readerVars,
                 blocksArePendingTransmission>>

\* haltAction: the blocks not yet sent are released and the numbers set back, so that
\* what is sent from then on is a sequence of its own.
Halt ==
  /\ fsm \in {"Ready", "Enabled"}
  /\ fsm' = "Halted"
  /\ superFragBlocks' = <<>>
  /\ blocksArePendingTransmission' = FALSE
  /\ eventNumber' = 1
  /\ previousEventNumber' = 0
  /\ sent' = <<>>
  /\ dropped' = FALSE /\ recurred' = FALSE /\ torn' = FALSE
  /\ UNCHANGED <<insideEvent, nEventsRead, heldByRU, readerVars>>

buffers == <<eventNumber, previousEventNumber, insideEvent, nEventsRead,
             superFragBlocks, blocksArePendingTransmission, heldByRU, sent>>

\* failAction and moveToFailedState, from a transition that fails or from the work
\* loop.  A pass that fails half-way still handles the block it has read.
Fail ==
  /\ fsm \in {"Halted", "Ready", "Enabled"}
  /\ fsm' = "Failed"
  /\ UNCHANGED <<buffers, readerVars, history>>

\* onReset: the FSM is put into its initial state, where "Halt" does nothing.
Reset ==
  /\ fsm \in {"Ready", "Enabled", "Failed"}
  /\ fsm' = "Halted"
  /\ UNCHANGED <<buffers, readerVars, history>>

\* One pass of the readout loop that finds nothing pending: the next block is
\* read.  A header while inside an event means that the event has no trailer.
\* The pool allocates from the heap and never runs out; a data block, but not an
\* empty one, is dropped when the pool's high threshold is exceeded.
ReadBlock(header, trailer, number) ==
  LET unfinished == insideEvent /\ header
      closed   == IF unfinished THEN Finalize(superFragBlocks, eventNumber)
                                ELSE superFragBlocks
      previous == IF unfinished THEN eventNumber ELSE previousEventNumber
      current  == IF header THEN number ELSE eventNumber
      missing  == IF header THEN MissingEvents(previous, number) ELSE <<>>
      filled   == closed \o [i \in 1..Len(missing) |-> EmptyBlock(missing[i])]
      drop     == InUse(filled) > HighThreshold
      extended == IF drop THEN filled ELSE Append(filled, DataBlock(current))
  IN  /\ fsm = "Enabled"
      /\ ~blocksArePendingTransmission
      /\ nReads < MaxReads
      /\ nReads' = nReads + 1
      /\ l1a' = IF header THEN number ELSE l1a
      /\ dropped' = (dropped \/ drop)
      /\ eventNumber' = current
      /\ insideEvent' = ~trailer
      /\ superFragBlocks' = IF trailer THEN Finalize(extended, current)
                                       ELSE extended
      /\ recurred' = (recurred \/ ~Together(superFragBlocks', current))
      /\ previousEventNumber' = IF trailer THEN current
                                ELSE IF missing # <<>> THEN Last(missing)
                                ELSE previous
      /\ nEventsRead' = nEventsRead + Len(missing)
                          + (IF unfinished THEN 1 ELSE 0)
                          + (IF trailer THEN 1 ELSE 0)
      /\ blocksArePendingTransmission' = trailer
      /\ UNCHANGED <<fsm, heldByRU, sent, nRuns, torn>>

\* Mutated form: the rest of the super-fragment is forgotten.
SendOneBlock ==
  /\ fsm = "Enabled"
  /\ blocksArePendingTransmission
  /\ superFragBlocks # <<>>
  /\ sent' = Append(sent, Head(superFragBlocks))
  /\ heldByRU' = heldByRU + 1
  /\ superFragBlocks' = Tail(superFragBlocks)
  /\ blocksArePendingTransmission' = FALSE
  /\ UNCHANGED <<fsm, eventNumber, previousEventNumber, insideEvent,
                 nEventsRead, readerVars, history>>

\* sendNextPendingBlock, the post succeeds.
SendNextPendingBlock ==
  /\ fsm = "Enabled"
  /\ blocksArePendingTransmission
  /\ superFragBlocks # <<>>
  /\ sent' = Append(sent, Head(superFragBlocks))
  /\ heldByRU' = heldByRU + 1
  /\ superFragBlocks' = Tail(superFragBlocks)
  /\ blocksArePendingTransmission' = (superFragBlocks' # <<>>)
  /\ UNCHANGED <<fsm, eventNumber, previousEventNumber, insideEvent,
                 nEventsRead, readerVars, history>>

\* sendNextPendingBlock when the deque is empty: front() of an empty deque is
\* undefined; dereferencing what it yields ends the process.
SendFromEmptyDeque ==
  /\ fsm = "Enabled"
  /\ blocksArePendingTransmission
  /\ superFragBlocks = <<>>
  /\ fsm' = "Crashed"
  /\ UNCHANGED <<eventNumber, previousEventNumber, insideEvent, nEventsRead,
                 superFragBlocks, blocksArePendingTransmission, heldByRU, sent,
                 readerVars, history>>

\* The RU (external) is done with a block.
ReleaseByRU ==
  /\ heldByRU > 0
  /\ heldByRU' = heldByRU - 1
  /\ UNCHANGED <<fsm, eventNumber, previousEventNumber, insideEvent,
                 nEventsRead, superFragBlocks, blocksArePendingTransmission,
                 sent, readerVars, history>>

Read ==
  \E header, trailer \in BOOLEAN, gap \in 0..MaxGap :
    /\ header \/ gap = 0
    /\ ReadBlock(header, trailer, (l1a + gap) % (MaxL1A + 1))

Next ==
  \/ Configure \/ Enable \/ Halt \/ Fail \/ Reset
  \/ Read
  \/ SendNextPendingBlock \/ SendFromEmptyDeque
  \/ ReleaseByRU

Spec == Init /\ [][Next]_vars

\* The work loop reschedules itself, and a post that fails is tried again until
\* it succeeds.
FairSpec == Spec /\ WF_vars(SendNextPendingBlock \/ SendFromEmptyDeque)
-----------------------------------------------------------------------------
SuperFragmentBlock ==
  [event : 0..MaxL1A, blockNb : Nat, nbBlocks : Nat]

\* Every variable has its type.
TypeOK ==
  /\ fsm \in {"Halted", "Ready", "Enabled", "Failed", "Crashed"}
  /\ eventNumber \in 0..MaxL1A
  /\ previousEventNumber \in 0..MaxL1A
  /\ insideEvent \in BOOLEAN
  /\ nEventsRead \in Nat
  /\ superFragBlocks \in Seq(SuperFragmentBlock)
  /\ blocksArePendingTransmission \in BOOLEAN
  /\ heldByRU \in Nat
  /\ sent \in Seq(SuperFragmentBlock)
  /\ l1a \in 0..MaxL1A
  /\ nReads \in Nat
  /\ nRuns \in Nat
  /\ dropped \in BOOLEAN
  /\ recurred \in BOOLEAN
  /\ torn \in BOOLEAN

\* The RU gets whole super-fragments: the blocks of one follow each other,
\* numbered from 0, and all carry the right count, also when the readout saw an
\* event without a trailer or inserted empty super-fragments in between, and also when
\* a run fails or is reset amid the sending: the next run sends the rest first.
\* It goes wrong in two cases.  finalizeSuperFragment knows an event's blocks by their
\* number, so it takes those of two events for one's when a number comes back before
\* the blocks of the first are sent.  And configureAction forgets that the readout was
\* inside an event but keeps its blocks: those of an event that a failure or Reset cut
\* off are sent without number and count among those of the next run.
SentWhole ==
  recurred \/ torn \/
  \A i \in 1..Len(sent) :
    /\ sent[i].blockNb < sent[i].nbBlocks
    /\ i = 1 => sent[i].blockNb = 0
    /\ i > 1 => IF sent[i].blockNb = 0
                THEN sent[i - 1].blockNb = sent[i - 1].nbBlocks - 1
                ELSE sent[i] = [sent[i - 1] EXCEPT !.blockNb = @ + 1]

Follows(number, next) ==
  next \in {number, IF number = MaxL1A THEN 0 ELSE number + 1}

\* Application.cc: ensureContiguousEventNumber fills "the gap with empty events
\* (super fragments) to make the event builder happy", "tak[ing] into account
\* that the max possible L1A value (eventNumber_) is 2^24-1".
\* It does not behind the event whose number is zero, which is what the code takes for
\* "no event read".  A failure or Reset does not break the sequence: the next run starts
\* from the old numbers and fills the gap up to its own first one, round the wrap-around
\* if that is lower.  Only an event that was cut off breaks it (see SentWhole), and a
\* block dropped.
ContiguousButForZero ==
  \A i \in 1..Len(sent) - 1 :
    \/ dropped
    \/ torn
    \/ sent[i].event = 0
    \/ Follows(sent[i].event, sent[i + 1].event)

\* Application.h: blocksArePendingTransmission_ is "true if there are one or more
\* super-fragment blocks waiting to be sent to the RU".  So there are, and the deque's
\* front is defined, unless the memory pool made the readout drop a block: the flag is
\* set at the end of an event whose only block was dropped, too, and like the blocks it
\* is left to the run that follows a failure or Reset.
PendingBlocksExistUnlessDropped ==
  blocksArePendingTransmission /\ superFragBlocks = <<>> => dropped

\* When sending is due, all the blocks held are sent, or discarded by Halt, if the RUI
\* stays Enabled in the end: a whole super-fragment never stays behind, also when the
\* readout failed, was reset and enabled again in between.
PendingIsSent ==
  <>[](fsm = "Enabled") => (blocksArePendingTransmission ~> superFragBlocks = <<>>)
=============================================================================
