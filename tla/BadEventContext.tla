--------------------------- MODULE BadEventContext ---------------------------
(***************************************************************************)
(* How the RUI writes bad events only, with a limited context              *)
(* (Application::writeDataWithContextToFile), for the data blocks that the *)
(* device reader delivers to the readout loop one after the other.         *)
(*                                                                         *)
(* Blocks are numbered in the order in which they are read.  Each carries  *)
(* the number of event headers seen up to it.  A block may have a header,  *)
(* a trailer, both or neither, as the reader delivers what the hardware    *)
(* sent.  "file" is the sequence of blocks put to the current run's data   *)
(* file, the vetoed ones marked; writing to it succeeds.                   *)
(***************************************************************************)
EXTENDS EventBufferRing

CONSTANTS BeforeChoices,   \* values of the parameter nToWriteBeforeBadEvent_
          NToWriteAfterBadEvent,
          Verdicts,        \* what RateLimiter::acceptEvent may answer
          PrescaleBase,    \* 10 in BadEventCount::passesPrescaling
          MaxBlocks,       \* bound on the blocks read in a run
          MaxRuns          \* bound on the number of Configure commands

ASSUME BadEventAssumption ==
  /\ BeforeChoices \subseteq Nat
  /\ NToWriteAfterBadEvent \in Nat
  /\ Verdicts \subseteq BOOLEAN /\ Verdicts # {}
  /\ PrescaleBase \in Nat \ {0, 1}

VARIABLES nToWriteBeforeBadEvent,
          eventBufferRing,
          countSinceBadEvent,
          badEventCount,
          insideEvent,
          fileWritingVetoed,
          file,      \* blocks put to the file of this run
          nBlocks,   \* blocks read in this run
          nHeaders,  \* headers read in this run
          run        \* number of Configure commands so far

vars == <<nToWriteBeforeBadEvent, eventBufferRing, countSinceBadEvent,
          badEventCount, insideEvent, fileWritingVetoed, file, nBlocks,
          nHeaders, run>>

\* BadEventCount::passesPrescaling: the first PrescaleBase - 1 bad events, then
\* one in every largest power (up to the 7th) not above the count.
PassesPrescaling(value) ==
  LET powers == {PrescaleBase ^ k : k \in 1..7}
  IN  \A p \in powers :
        (p <= value /\ \A q \in powers : q <= value => q <= p) => value % p = 0

\* Blocks put to the file: "starts" marks the first one of what is written as an event,
\* "window" is the bad event count at writing.
Written(blocks, newEvent, window, accepted) ==
  [i \in 1..Len(blocks) |->
     [n |-> blocks[i].n, event |-> blocks[i].event, starts |-> newEvent /\ i = 1,
      window |-> window, vetoed |-> ~accepted]]

WriteBlockToFile(block, newEvent, asked) ==
  \E accepted \in Verdicts :
    /\ fileWritingVetoed' = IF asked THEN ~accepted ELSE fileWritingVetoed
    /\ file' = file \o Written(<<block>>, newEvent, badEventCount,
                               ~fileWritingVetoed')

\* Mutated form: the rate limiter is asked about each block.
WriteDataToFileAskingAlways(block, newEvent) ==
  WriteBlockToFile(block, newEvent, TRUE)

\* writeDataToFile: a new event is put to the rate limiter, whose verdict then
\* holds for the rest of the event.
WriteDataToFile(block, newEvent) == WriteBlockToFile(block, newEvent, newEvent)

\* The loop over getEventBuffers: each buffer is written as an event of its own.
WriteBuffersToFile(buffers, window) ==
  \E accepted \in [1..Len(buffers) -> Verdicts] :
    /\ fileWritingVetoed' = ~accepted[Len(buffers)]
    /\ file' = file \o FlattenSeq([i \in 1..Len(buffers) |->
                             Written(buffers[i], TRUE, window, accepted[i])])

Init ==
  /\ nToWriteBeforeBadEvent \in BeforeChoices
  /\ eventBufferRing = SetSize(NewRing, nToWriteBeforeBadEvent)
  /\ countSinceBadEvent = NToWriteAfterBadEvent + 1
  /\ badEventCount = 0
  /\ insideEvent = FALSE
  /\ fileWritingVetoed = FALSE
  /\ file = <<>>
  /\ nBlocks = 0
  /\ nHeaders = 0
  /\ run = 1

\* The parts of configureAction that concern bad events; the file of the new
\* run is created when its first event arrives.
Configure ==
  /\ run < MaxRuns
  /\ run' = run + 1
  /\ nToWriteBeforeBadEvent' \in BeforeChoices
  /\ eventBufferRing' =
       EmptyEventBuffers(SetSize(eventBufferRing, nToWriteBeforeBadEvent'))
  /\ countSinceBadEvent' = NToWriteAfterBadEvent + 1
  /\ badEventCount' = 0
  /\ insideEvent' = FALSE
  /\ fileWritingVetoed' = FALSE
  /\ file' = <<>>
  /\ nBlocks' = 0
  /\ nHeaders' = 0

\* Still writing the trailing context of the last selected bad event.
WriteTrailingContext(block, newEvent) ==
  /\ countSinceBadEvent <= NToWriteAfterBadEvent
  /\ WriteDataToFile(block, newEvent)
  /\ countSinceBadEvent' = countSinceBadEvent + (IF newEvent THEN 1 ELSE 0)
  /\ UNCHANGED <<eventBufferRing, badEventCount>>

\* A block that may become leading context, and no bad event ends with it.
BufferBlock(block, newEvent) ==
  /\ countSinceBadEvent > NToWriteAfterBadEvent
  /\ eventBufferRing' = AddData(eventBufferRing, block, newEvent)
  /\ UNCHANGED <<countSinceBadEvent, badEventCount, file, fileWritingVetoed>>

\* A bad event ends with this block and passes the prescaling.
SelectBadEvent(block, newEvent) ==
  LET ring    == AddData(eventBufferRing, block, newEvent)
      buffers == GetEventBuffers(ring)
  IN  /\ countSinceBadEvent > NToWriteAfterBadEvent
      /\ badEventCount' = badEventCount + 1
      /\ PassesPrescaling(badEventCount')
      /\ WriteBuffersToFile(buffers, badEventCount')
      /\ countSinceBadEvent' = 0
      /\ eventBufferRing' = EmptyEventBuffers(ring)

\* A bad event ends with this block and is prescaled away.
DropBadEvent(block, newEvent) ==
  /\ countSinceBadEvent > NToWriteAfterBadEvent
  /\ badEventCount' = badEventCount + 1
  /\ ~PassesPrescaling(badEventCount')
  /\ eventBufferRing' =
       EmptyEventBuffers(AddData(eventBufferRing, block, newEvent))
  /\ UNCHANGED <<countSinceBadEvent, file, fileWritingVetoed>>

\* One pass of the readout loop: continueConstructionOfSuperFrag as far as the
\* data file is concerned.  isBadEvent_ is only ever set by a trailer.
ReadBlock(header, trailer, isBadEvent) ==
  LET block    == [n |-> nBlocks + 1,
                   event |-> nHeaders + (IF header THEN 1 ELSE 0)]
      newEvent == IF insideEvent THEN header ELSE header \/ trailer
  IN  /\ nBlocks < MaxBlocks
      /\ isBadEvent => trailer
      /\ nBlocks' = block.n
      /\ nHeaders' = block.event
      /\ insideEvent' = ~trailer
      /\ \/ WriteTrailingContext(block, newEvent)
         \/ ~isBadEvent /\ BufferBlock(block, newEvent)
         \/ isBadEvent /\ SelectBadEvent(block, newEvent)
         \/ isBadEvent /\ DropBadEvent(block, newEvent)
      /\ UNCHANGED <<nToWriteBeforeBadEvent, run>>

Next ==
  \/ Configure
  \/ \E header, trailer, isBadEvent \in BOOLEAN :
       ReadBlock(header, trailer, isBadEvent)

Spec == Init /\ [][Next]_vars
-----------------------------------------------------------------------------
\* Every variable has its type; the ring has at least the requested size.
TypeOK ==
  /\ nToWriteBeforeBadEvent \in BeforeChoices
  /\ IsRing(eventBufferRing)
  /\ Size(eventBufferRing) >= nToWriteBeforeBadEvent
  /\ countSinceBadEvent \in 0..NToWriteAfterBadEvent + 1
  /\ badEventCount \in Nat
  /\ insideEvent \in BOOLEAN
  /\ fileWritingVetoed \in BOOLEAN
  /\ file \in Seq([n : Nat, event : Nat, starts : BOOLEAN, window : Nat,
                 vetoed : BOOLEAN])
  /\ nBlocks \in Nat
  /\ nHeaders \in Nat
  /\ run \in Nat

\* What getEventBuffers hands out as leading context is in the order in which it
\* was read, for any two buffers and within a buffer, also after the ring was
\* enlarged while its write position was in the middle (setSize appends at the
\* end of the list).
RingInOrder == InOrder(eventBufferRing)

\* The data file never holds a block twice or out of order, however the writing
\* of buffered leading context and the direct writing of trailing context
\* alternate.
FileInOrder ==
  \A i \in 1..Len(file) - 1 : file[i].n < file[i + 1].n

\* Around a selected bad event there is no hole: leading context, bad event and trailing
\* context are consecutive blocks of the readout, but where an event was longer than its
\* buffer.
WindowContiguous ==
  \A i \in 1..Len(file) - 1 :
    file[i].window = file[i + 1].window =>
      \/ file[i + 1].n = file[i].n + 1
      \/ i >= Capacity /\ file[i - Capacity + 1].starts

\* The rate limiter's verdict holds for whole events: what continues an event is in the
\* file only behind an earlier block of that event, also where the trailing context
\* follows the buffered one in the middle of an event, and when buffers overflow.
NoTailWithoutHead ==
  \A i \in 1..Len(file) :
    ~file[i].starts /\ ~file[i].vetoed =>
       i > 1 /\ file[i - 1].event = file[i].event /\ ~file[i - 1].vetoed
=============================================================================
