--------------------------- MODULE EventBufferRing ---------------------------
(***************************************************************************)
(* The circular list of event buffers of the readout unit interface (RUI): *)
(* emu::daq::rui::EventBufferRing over emu::daq::rui::Ring and             *)
(* emu::daq::rui::EventBuffer.                                             *)
(*                                                                         *)
(* A ring is a record: "buf" maps each position of the underlying          *)
(* std::list to the data blocks of the event kept there (a sequence, empty *)
(* when eventSize_ is 0) and "cur" is the position of the iterator         *)
(* current_.  A data block counts as one unit of size, and Capacity stands *)
(* for EventBuffer::maxBufferSize_: what does not fit is cut off.  The     *)
(* doubling of a buffer that is still below its maximum size cannot be     *)
(* observed from outside and is left out.                                  *)
(***************************************************************************)
EXTENDS Integers, Sequences, SequencesExt

CONSTANT Capacity   \* EventBuffer::maxBufferSize_, in data blocks

ASSUME CapacityAssumption == Capacity \in Nat \ {0}

Size(ring) == Len(ring.buf)

\* EventBufferRing(): a ring of a single empty buffer.
NewRing == [buf |-> <<<<>>>>, cur |-> 1]

\* Ring::iterator::operator++: past the end of the list comes its beginning.
NextPos(ring, i) == IF i = Size(ring) THEN 1 ELSE i + 1

\* The number of steps by which position i lags behind the write position.
Behind(ring, i) == IF i <= ring.cur THEN ring.cur - i
                                    ELSE ring.cur - i + Size(ring)

\* Mutated form: the list is resized to exactly the requested size, and the
\* iterator current_ may be left pointing outside it.
SetSizeExactly(ring, size) ==
  [ring EXCEPT !.buf = [i \in 1..size |->
                          IF i <= Size(ring) THEN ring.buf[i] ELSE <<>>]]

\* EventBufferRing::setSize: new empty buffers go to the end of the list; the
\* ring never shrinks.
SetSize(ring, size) ==
  LET newSize == IF size > Size(ring) THEN size ELSE Size(ring)
  IN  [buf |-> [i \in 1..newSize |-> IF i <= Size(ring) THEN ring.buf[i] ELSE <<>>],
       cur |-> ring.cur]

\* Mutated form: only the buffer at the write position is emptied.
EmptyCurrentBuffer(ring) == [ring EXCEPT !.buf[ring.cur] = <<>>]

\* EventBufferRing::emptyEventBuffers
EmptyEventBuffers(ring) ==
  [buf |-> [i \in 1..Size(ring) |-> <<>>], cur |-> ring.cur]

\* EventBuffer::appendData: copies no more than what fits.
AppendData(buffer, block) ==
  IF Len(buffer) < Capacity THEN Append(buffer, block) ELSE buffer

\* Mutated form: the buffer moved to keeps its old event.
AddDataWithoutEmptying(ring, block, startsEvent) ==
  LET pos == IF startsEvent THEN NextPos(ring, ring.cur) ELSE ring.cur
  IN  [buf |-> [ring.buf EXCEPT ![pos] = AppendData(@, block)], cur |-> pos]

\* EventBufferRing::addData: a block that starts an event first moves on to the
\* next buffer, the oldest one, and empties it.
AddData(ring, block, startsEvent) ==
  LET pos  == IF startsEvent THEN NextPos(ring, ring.cur) ELSE ring.cur
      kept == IF startsEvent THEN <<>> ELSE ring.buf[pos]
  IN  [buf |-> [ring.buf EXCEPT ![pos] = AppendData(kept, block)], cur |-> pos]

\* The position that is k steps after the write position.
PosAfterCurrent(ring, k) == ((ring.cur - 1 + k) % Size(ring)) + 1

\* What the loop of getEventBuffers pushes back for a buffer.
IfNotEmpty(buffer) == IF buffer = <<>> THEN <<>> ELSE <<buffer>>

\* Mutated form: the collection starts at the write position.
GetEventBuffersFromCurrent(ring) ==
  FlattenSeq([k \in 1..Size(ring) |->
                IfNotEmpty(ring.buf[PosAfterCurrent(ring, k - 1)])])

\* EventBufferRing::getEventBuffers: the non-empty buffers, the oldest (the one
\* after the write position) first and the one being filled last.
GetEventBuffers(ring) ==
  FlattenSeq([k \in 1..Size(ring) |->
                IfNotEmpty(ring.buf[PosAfterCurrent(ring, k)])])
-----------------------------------------------------------------------------
Block == [n : Nat, event : Nat]   \* n: the block's number in the readout

IsRing(ring) ==
  /\ ring \in [buf : Seq(Seq(Block)), cur : Nat]
  /\ ring.cur \in 1..Size(ring)

\* All the blocks in the ring are among the first n that were read.
UpTo(ring, n) ==
  \A i \in 1..Size(ring) : \A k \in 1..Len(ring.buf[i]) : ring.buf[i][k].n <= n

\* The farther a buffer lags behind the write position the older its blocks.
InOrder(ring) ==
  \A i, j \in 1..Size(ring) :
    \A k \in 1..Len(ring.buf[i]), l \in 1..Len(ring.buf[j]) :
      (Behind(ring, i) > Behind(ring, j) \/ (i = j /\ k < l))
        => ring.buf[i][k].n < ring.buf[j][l].n
=============================================================================
