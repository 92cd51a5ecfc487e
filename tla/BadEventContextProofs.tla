------------------------ MODULE BadEventContextProofs ------------------------
(***************************************************************************)
(* Proofs about the bad events' context: the ring hands it out in the      *)
(* order in which it was read, and the file holds it in that order,        *)
(* without holes and without tails of vetoed events, whatever the sizes    *)
(* of ring and buffers and however the ring is enlarged between runs.      *)
(*                                                                         *)
(* The invariant says that the filled buffers, by age, are a chain of      *)
(* consecutive blocks, broken only where an event filled its buffer, and   *)
(* that the file ends before the chain begins.  What a collection of       *)
(* buffers comes to in the file follows by induction over the buffers.     *)
(***************************************************************************)
EXTENDS BadEventContext, SequenceTheorems, FiniteSetTheorems, WellFoundedInduction,
        TLAPS

\* A function on 1..m is a sequence.
LEMMA SeqOfFunction ==
  ASSUME NEW T, NEW m \in Nat, NEW f \in [1..m -> T]
  PROVE  f \in Seq(T)
BY SeqDef

\* A ring of one empty buffer is a ring in order.
LEMMA NewRingLemma ==
  /\ IsRing(NewRing)
  /\ InOrder(NewRing)
  /\ \A n \in Nat : UpTo(NewRing, n)
BY DEF NewRing, IsRing, InOrder, UpTo, Size, Behind

\* setSize keeps the ring's content, its write position and its order.
LEMMA SetSizeLemma ==
  ASSUME NEW ring, NEW size \in Nat, NEW n \in Nat,
         IsRing(ring), InOrder(ring), UpTo(ring, n)
  PROVE  LET new == SetSize(ring, size)
         IN  IsRing(new) /\ InOrder(new) /\ UpTo(new, n)
<1> DEFINE new == SetSize(ring, size)
           N   == IF size > Size(ring) THEN size ELSE Size(ring)
<1>1. N \in Nat /\ Size(ring) \in Nat /\ N >= Size(ring)
  BY DEF IsRing, Size
<1>2. new.buf = [i \in 1..N |-> IF i <= Size(ring) THEN ring.buf[i] ELSE <<>>]
  BY DEF SetSize
<1>3. new.cur = ring.cur /\ new = [buf |-> new.buf, cur |-> new.cur]
  BY DEF SetSize
<1>4. \A i \in 1..Size(ring) : ring.buf[i] \in Seq(Block)
  BY DEF IsRing, Size
<1>5. new.buf \in Seq(Seq(Block)) /\ Size(new) = N
  <2>1. \A i \in 1..N : new.buf[i] \in Seq(Block)
    BY <1>1, <1>2, <1>4
  <2>2. new.buf \in [1..N -> Seq(Block)]
    BY <1>2, <2>1
  <2>3. new.buf \in Seq(Seq(Block))
    BY <1>1, <2>2, SeqOfFunction
  <2>4. Len(new.buf) = N
    BY <1>1, <2>2, <2>3, LenProperties
  <2> QED
    BY <2>3, <2>4 DEF Size
<1>6. IsRing(new)
  BY <1>1, <1>3, <1>5 DEF IsRing
<1>7. \A i \in 1..N : \A k \in 1..Len(new.buf[i]) :
        i \in 1..Size(ring) /\ new.buf[i] = ring.buf[i]
  BY <1>1, <1>2
<1>8. UpTo(new, n)
  BY <1>5, <1>7 DEF UpTo
<1>9. \A i, j \in 1..Size(ring) :
        Behind(new, i) > Behind(new, j) => Behind(ring, i) > Behind(ring, j)
  BY <1>1, <1>3, <1>5 DEF Behind, IsRing
<1>10. InOrder(new)
  BY <1>5, <1>7, <1>9 DEF InOrder
<1> QED
  BY <1>6, <1>8, <1>10

\* An emptied ring is in order.
LEMMA EmptyLemma ==
  ASSUME NEW ring, IsRing(ring), NEW n \in Nat
  PROVE  LET new == EmptyEventBuffers(ring)
         IN  IsRing(new) /\ InOrder(new) /\ UpTo(new, n)
<1> DEFINE new == EmptyEventBuffers(ring)
<1>1. new = [buf |-> [i \in 1..Size(ring) |-> <<>>], cur |-> ring.cur]
  BY DEF EmptyEventBuffers
<1>2. Size(ring) \in Nat /\ ring.cur \in 1..Size(ring)
  BY DEF Size, IsRing
<1>3. new.buf \in [1..Size(ring) -> Seq(Block)]
  BY <1>1
<1>4. new.buf \in Seq(Seq(Block))
  <2>1. ASSUME NEW f \in [1..Size(ring) -> Seq(Block)] PROVE f \in Seq(Seq(Block))
    BY <1>2, SeqOfFunction
  <2> QED
    BY <1>3, <2>1
<1>5. Size(new) = Size(ring)
  BY <1>2, <1>3, <1>4, LenProperties DEF Size
<1>6. IsRing(new)
  BY <1>1, <1>2, <1>4, <1>5 DEF IsRing
<1>7. \A i \in 1..Size(new) : new.buf[i] = <<>> /\ Len(new.buf[i]) = 0
  BY <1>1, <1>5
<1> QED
  BY <1>6, <1>7 DEF InOrder, UpTo

\* A block newer than all the others goes to the write position and the order is
\* kept, whether or not it starts an event.
LEMMA AddDataLemma ==
  ASSUME NEW ring, NEW block \in Block, NEW startsEvent \in BOOLEAN, NEW n \in Nat,
         IsRing(ring), InOrder(ring), UpTo(ring, n), block.n = n + 1
  PROVE  LET new == AddData(ring, block, startsEvent)
         IN  IsRing(new) /\ InOrder(new) /\ UpTo(new, n + 1)
<1> DEFINE new  == AddData(ring, block, startsEvent)
           pos  == IF startsEvent THEN NextPos(ring, ring.cur) ELSE ring.cur
           kept == IF startsEvent THEN <<>> ELSE ring.buf[pos]
           N    == Size(ring)
<1>1. N \in Nat /\ ring.cur \in 1..N /\ pos \in 1..N /\ ring.buf \in Seq(Seq(Block))
  BY DEF IsRing, NextPos, Size
<1>2. kept \in Seq(Block) /\ \A i \in 1..N : ring.buf[i] \in Seq(Block)
  BY <1>1 DEF Size
<1>3. new = [buf |-> [ring.buf EXCEPT ![pos] = AppendData(kept, block)], cur |-> pos]
  BY DEF AddData
<1>4. /\ AppendData(kept, block) \in Seq(Block)
      /\ \A k \in 1..Len(AppendData(kept, block)) :
           \/ k \in 1..Len(kept) /\ AppendData(kept, block)[k] = kept[k]
           \/ k = Len(kept) + 1 /\ AppendData(kept, block)[k] = block
  BY <1>2 DEF AppendData
<1>5. new.buf \in Seq(Seq(Block)) /\ Size(new) = N /\ new.cur = pos
  BY <1>1, <1>3, <1>4 DEF Size
<1>6. new.buf[pos] = AppendData(kept, block)
  BY <1>1, <1>3 DEF Size
<1>7. \A i \in 1..N : i # pos => new.buf[i] = ring.buf[i]
  BY <1>1, <1>3 DEF Size
<1>8. IsRing(new)
  BY <1>1, <1>3, <1>5 DEF IsRing
<1>9. \A k \in 1..Len(kept) : kept[k].n <= n /\ kept = ring.buf[pos] /\ pos = ring.cur
  BY <1>1 DEF UpTo
<1>10. \A k \in 1..Len(new.buf[pos]) : new.buf[pos][k].n <= n + 1
  <2> HIDE DEF new, kept, pos
  <2>1. \A k \in 1..Len(kept) : kept[k] \in Block /\ kept[k].n \in Nat /\ kept[k].n <= n
    <3>1. \A k \in 1..Len(kept) : kept[k] \in Block
      BY <1>2, ElementOfSeq
    <3> QED
      BY <3>1, <1>9 DEF Block
  <2>2. \A k \in 1..Len(AppendData(kept, block)) :
          AppendData(kept, block)[k].n <= n + 1
    BY <1>4, <2>1
  <2> QED
    BY <1>6, <2>2
<1>11. \A i \in 1..N : i # pos =>
         \A k \in 1..Len(new.buf[i]) : new.buf[i][k].n <= n
  BY <1>7 DEF UpTo
<1>12. UpTo(new, n + 1)
  <2> SUFFICES ASSUME NEW i \in 1..N, NEW k \in 1..Len(new.buf[i])
               PROVE  new.buf[i][k].n <= n + 1
    BY <1>5 DEF UpTo
  <2>1. CASE i = pos
    BY <2>1, <1>10
  <2>2. CASE i # pos
    <3>1. new.buf[i][k].n <= n /\ new.buf[i][k] \in Block
      BY <2>2, <1>2, <1>7, <1>11
    <3> QED
      BY <3>1 DEF Block
  <2> QED
    BY <2>1, <2>2
<1>13. Behind(new, pos) = 0
  BY <1>1, <1>5 DEF Behind
<1>14. \A i, j \in 1..N : (i # pos /\ j # pos /\ Behind(new, i) > Behind(new, j))
         => Behind(ring, i) > Behind(ring, j)
  <2>1. \A i \in 1..N : i # pos => Behind(new, i) =
          Behind(ring, i) + (IF startsEvent THEN 1 ELSE 0)
    <3>1. \A i \in 1..N : Behind(new, i) = IF i <= pos THEN pos - i ELSE pos - i + N
      BY <1>5 DEF Behind
    <3>2. \A i \in 1..N : Behind(ring, i) =
            IF i <= ring.cur THEN ring.cur - i ELSE ring.cur - i + N
      BY DEF Behind
    <3>3. pos = IF startsEvent THEN (IF ring.cur = N THEN 1 ELSE ring.cur + 1)
                               ELSE ring.cur
      BY DEF NextPos
    <3>4. ring.cur \in 1..N /\ N \in Nat
      BY <1>1
    <3> HIDE DEF new, N, pos
    <3> QED
      BY <3>1, <3>2, <3>3, <3>4
  <2>2. \A i \in 1..N : Behind(ring, i) \in Int
    BY <1>1 DEF Behind
  <2> QED
    BY <2>1, <2>2
<1>15. \A i \in 1..N : Behind(new, i) >= 0 /\ (~startsEvent => Behind(new, i) = Behind(ring, i))
  BY <1>1, <1>5 DEF Behind
<1>16. InOrder(new)
  <2> SUFFICES ASSUME NEW i \in 1..N, NEW j \in 1..N,
                      NEW k \in 1..Len(new.buf[i]), NEW l \in 1..Len(new.buf[j]),
                      Behind(new, i) > Behind(new, j) \/ (i = j /\ k < l)
               PROVE  new.buf[i][k].n < new.buf[j][l].n
    BY <1>5 DEF InOrder
  <2>1. CASE i # pos /\ j # pos
    BY <2>1, <1>7, <1>14 DEF InOrder
  <2>2. CASE i = pos /\ j = pos
    <3>1. k < l
      BY <2>2, <1>13
    <3>2. k \in 1..Len(kept) /\ new.buf[i][k] = kept[k]
      BY <3>1, <2>2, <1>2, <1>4, <1>6
    <3>3. kept[k].n <= n /\ kept[k] \in Block
      BY <3>2, <1>2, <1>9
    <3>4. CASE l \in 1..Len(kept) /\ new.buf[j][l] = kept[l]
      BY <3>1, <3>2, <3>4, <1>1, <1>9, <2>2, SMTT(30) DEF InOrder
    <3>5. CASE new.buf[j][l] = block
      BY <3>2, <3>3, <3>5, SMTT(30) DEF Block
    <3> QED
      BY <3>4, <3>5, <2>2, <1>4, <1>6
  <2>3. CASE i = pos /\ j # pos
    <3>1. Behind(new, i) = 0 /\ Behind(new, j) >= 0 /\ Behind(new, j) \in Int
      BY <2>3, <1>1, <1>5, <1>13, <1>15 DEF Behind
    <3> QED
      BY <2>3, <3>1
  <2>4. CASE i # pos /\ j = pos
    <3>1. new.buf[i][k].n <= n /\ new.buf[i] = ring.buf[i] /\ new.buf[i][k] \in Block
      BY <2>4, <1>2, <1>7, <1>11
    <3>2. CASE new.buf[j][l] = block
      BY <3>1, <3>2 DEF Block
    <3>3. CASE l \in 1..Len(kept) /\ new.buf[j][l] = kept[l]
      <4>1. ~startsEvent /\ kept = ring.buf[pos] /\ pos = ring.cur
        BY <3>3
      <4>2. Behind(ring, i) > Behind(ring, j)
        BY <2>4, <4>1, <1>15
      <4> QED
        BY <2>4, <3>1, <3>3, <4>1, <4>2 DEF InOrder
    <3> QED
      BY <2>4, <3>2, <3>3, <1>4, <1>6
  <2> QED
    BY <2>1, <2>2, <2>3, <2>4
<1> QED
  BY <1>8, <1>12, <1>16
-----------------------------------------------------------------------------
\* The strengthening that makes the order of the ring inductive: a block about to
\* be read is newer than all the blocks in the ring.
RingInv ==
  /\ nToWriteBeforeBadEvent \in BeforeChoices
  /\ nBlocks \in Nat
  /\ nHeaders \in Nat
  /\ IsRing(eventBufferRing)
  /\ UpTo(eventBufferRing, nBlocks)
  /\ InOrder(eventBufferRing)

LEMMA InitRingInv == Init => RingInv
<1> SUFFICES ASSUME Init PROVE RingInv
  OBVIOUS
<1>1. nToWriteBeforeBadEvent \in Nat /\ nBlocks = 0 /\ nHeaders = 0
  BY BadEventAssumption DEF Init
<1>2. /\ IsRing(eventBufferRing)
      /\ InOrder(eventBufferRing)
      /\ UpTo(eventBufferRing, 0)
  BY <1>1, NewRingLemma, SetSizeLemma DEF Init
<1> QED
  BY <1>1, <1>2 DEF Init, RingInv

LEMMA NextRingInv == RingInv /\ [Next]_vars => RingInv'
<1> SUFFICES ASSUME RingInv, [Next]_vars PROVE RingInv'
  OBVIOUS
<1>1. CASE Configure
  <2>1. /\ nToWriteBeforeBadEvent' \in BeforeChoices
        /\ nToWriteBeforeBadEvent' \in Nat
        /\ nBlocks' = 0 /\ nHeaders' = 0
    BY <1>1, BadEventAssumption DEF Configure
  <2> DEFINE grown == SetSize(eventBufferRing, nToWriteBeforeBadEvent')
  <2>2. IsRing(grown)
    BY <2>1, SetSizeLemma DEF RingInv
  <2>3. eventBufferRing' = EmptyEventBuffers(grown)
    BY <1>1 DEF Configure
  <2> HIDE DEF grown
  <2>4. /\ IsRing(eventBufferRing') /\ InOrder(eventBufferRing')
        /\ UpTo(eventBufferRing', nBlocks')
    BY <2>1, <2>2, <2>3, EmptyLemma
  <2> QED
    BY <2>1, <2>4 DEF RingInv, IsRing, InOrder, UpTo, Size, Behind
<1>2. ASSUME NEW header \in BOOLEAN, NEW trailer \in BOOLEAN,
             NEW isBadEvent \in BOOLEAN, ReadBlock(header, trailer, isBadEvent)
      PROVE  RingInv'
  <2> DEFINE block    == [n |-> nBlocks + 1,
                          event |-> nHeaders + (IF header THEN 1 ELSE 0)]
             newEvent == IF insideEvent THEN header ELSE header \/ trailer
             added    == AddData(eventBufferRing, block, newEvent)
  <2>1. /\ nBlocks' = nBlocks + 1 /\ nHeaders' = block.event
        /\ nToWriteBeforeBadEvent' = nToWriteBeforeBadEvent
        /\ block \in Block /\ block.n = nBlocks + 1
        /\ nBlocks' \in Nat /\ nHeaders' \in Nat /\ nBlocks \in Nat
    BY <1>2 DEF ReadBlock, RingInv, Block
  <2>2. IsRing(added) /\ InOrder(added) /\ UpTo(added, nBlocks')
    <3>1. CASE newEvent
      <4>1. added = AddData(eventBufferRing, block, TRUE)
        BY <3>1 DEF AddData
      <4> HIDE DEF added, block
      <4> QED
        BY <2>1, <4>1, AddDataLemma DEF RingInv
    <3>2. CASE ~newEvent
      <4>1. added = AddData(eventBufferRing, block, FALSE)
        BY <3>2 DEF AddData
      <4> HIDE DEF added, block
      <4> QED
        BY <2>1, <4>1, AddDataLemma DEF RingInv
    <3> QED
      BY <3>1, <3>2
  <2>3. \/ eventBufferRing' = eventBufferRing
        \/ eventBufferRing' = added
        \/ eventBufferRing' = EmptyEventBuffers(added)
    BY <1>2 DEF ReadBlock, WriteTrailingContext, BufferBlock, SelectBadEvent,
                DropBadEvent
  <2>4. /\ IsRing(eventBufferRing')
        /\ InOrder(eventBufferRing')
        /\ UpTo(eventBufferRing', nBlocks')
    <3> HIDE DEF added, block
    <3>1. CASE eventBufferRing' = eventBufferRing
      <4>1. IsRing(eventBufferRing) /\ UpTo(eventBufferRing, nBlocks)
        BY DEF RingInv
      <4>2. UpTo(eventBufferRing, nBlocks')
        <5> SUFFICES ASSUME NEW i \in 1..Size(eventBufferRing),
                            NEW k \in 1..Len(eventBufferRing.buf[i])
                     PROVE  eventBufferRing.buf[i][k].n <= nBlocks'
          BY DEF UpTo
        <5>1. eventBufferRing.buf[i] \in Seq(Block)
          BY <4>1, ElementOfSeq DEF IsRing, Size
        <5>2. eventBufferRing.buf[i][k] \in Block
          BY <5>1, ElementOfSeq
        <5> QED
          BY <2>1, <4>1, <5>2 DEF UpTo, Block
      <4> QED
        BY <3>1, <4>2 DEF RingInv
    <3>2. CASE eventBufferRing' = added
      BY <2>2, <3>2
    <3>3. CASE eventBufferRing' = EmptyEventBuffers(added)
      BY <2>1, <2>2, <3>3, EmptyLemma
    <3> QED
      BY <2>3, <3>1, <3>2, <3>3
  <2> QED
    BY <2>1, <2>4 DEF RingInv, IsRing, InOrder, UpTo, Size, Behind
<1>3. CASE UNCHANGED vars
  <2>1. /\ nToWriteBeforeBadEvent' = nToWriteBeforeBadEvent
        /\ nBlocks' = nBlocks /\ nHeaders' = nHeaders
        /\ eventBufferRing' = eventBufferRing
    BY <1>3 DEF vars
  <2> QED
    BY <2>1 DEF RingInv
<1> QED
  BY <1>1, <1>2, <1>3 DEF Next

\* For every ring size, context length, capacity and prescaling, and however many
\* runs are configured, the leading context comes out of the ring in the order in
\* which it was read (EventBufferRing::addData, setSize, getEventBuffers).
THEOREM RingStaysInOrder == Spec => []RingInOrder
<1>1. RingInv => RingInOrder
  BY DEF RingInv, RingInOrder
<1> QED
  BY <1>1, InitRingInv, NextRingInv, PTL DEF Spec
-----------------------------------------------------------------------------
\* The blocks put to the file, as they are marked there.
Entry == [n : Nat, event : Nat, starts : BOOLEAN, window : Nat, vetoed : BOOLEAN]

\* The buffers of a ring by age: the first is the oldest, the last is the current one.
Aged(ring, k) == ring.buf[PosAfterCurrent(ring, k)]

\* A buffer holds consecutive blocks of one event, no more than fit.
HoldsOneEvent(buffer) ==
  /\ Len(buffer) <= Capacity
  /\ \A i \in 1..Len(buffer) : /\ buffer[i].n = buffer[1].n + i - 1
                               /\ buffer[i].event = buffer[1].event

\* Block number n is the next one behind a buffer, unless the buffer is full.
Follows(n, buffer) ==
  LET last == buffer[Len(buffer)].n
  IN  last < n /\ (n = last + 1 \/ Len(buffer) = Capacity)

\* The youngest q buffers are the filled ones, and one follows the other.
Chained(ring, q) ==
  /\ \A k \in 1..Size(ring) : /\ HoldsOneEvent(Aged(ring, k))
                              /\ Aged(ring, k) # <<>> <=> k > Size(ring) - q
  /\ \A k \in Size(ring) - q + 1..Size(ring) - 1 :
       Follows(Aged(ring, k + 1)[1].n, Aged(ring, k))

\* The current buffer, of the filled ones, is where block n and header h go on.
Current(ring, q, n, h) ==
  q > 0 => LET buffer == Aged(ring, Size(ring))
           IN  Follows(n + 1, buffer) /\ buffer[Len(buffer)].event = h

\* What the ring holds is newer than what is in the file, and so is the next block.
NotYetIn(f, ring, q, n) ==
  f # <<>> => /\ f[Len(f)].n <= n
              /\ q > 0 => f[Len(f)].n < Aged(ring, Size(ring) - q + 1)[1].n

\* A file of blocks in order, windows without holes and no tails without heads.
Proper(f) ==
  /\ \A i \in 1..Len(f) - 1 : f[i].n < f[i + 1].n
  /\ \A i \in 1..Len(f) - 1 :
       f[i].window = f[i + 1].window =>
         f[i + 1].n = f[i].n + 1 \/ (i >= Capacity /\ f[i - Capacity + 1].starts)
  /\ \A i \in 1..Len(f) :
       ~f[i].starts /\ ~f[i].vetoed =>
         i > 1 /\ f[i - 1].event = f[i].event /\ ~f[i - 1].vetoed

\* Block number n is the next one of the file, unless its last event overflowed.
Continues(f, n) ==
  LET last == f[Len(f)].n
  IN  last < n /\ (n = last + 1 \/ (Len(f) >= Capacity /\ f[Len(f) - Capacity + 1].starts))

\* While trailing context is written the ring is empty and the file ends with what
\* was read last, under the latest verdict.
Trailing(q) ==
  countSinceBadEvent <= NToWriteAfterBadEvent =>
    /\ q = 0 /\ file # <<>>
    /\ Continues(file, nBlocks + 1)
    /\ file[Len(file)].event = nHeaders
    /\ file[Len(file)].vetoed = fileWritingVetoed

\* The invariant of the ring and the file together.
ContextInv ==
  /\ file # <<>> => file[Len(file)].window <= badEventCount
  /\ Proper(file)
  /\ \E q \in 0..Size(eventBufferRing) :
       /\ Chained(eventBufferRing, q)
       /\ Current(eventBufferRing, q, nBlocks, nHeaders)
       /\ NotYetIn(file, eventBufferRing, q, nBlocks)
       /\ Trailing(q)

-----------------------------------------------------------------------------
\* Induction on natural numbers, as a set that is closed.
LEMMA NumbersByInduction ==
  ASSUME NEW A, 0 \in A, \A n \in Nat : n \in A => n + 1 \in A
  PROVE  \A n \in Nat : n \in A
<1> DEFINE Segments == {1..x : x \in {n \in Nat : n \notin A}}
<1>1. SUFFICES ASSUME Segments # {} PROVE FALSE
  OBVIOUS
<1>2. Segments \subseteq FiniteSubsetsOf(Nat)
  <2>1. \A x \in Nat : 1..x \in SUBSET Nat /\ IsFiniteSet(1..x)
    BY FS_Interval
  <2> QED
    BY <2>1 DEF FiniteSubsetsOf
<1>3. PICK T \in Segments : \A U \in Segments : ~(<<U, T>> \in StrictSubsetOrdering(Nat))
  <2> HIDE DEF Segments
  <2> QED
    BY <1>1, <1>2, WFMin, FS_StrictSubsetOrderingWellFounded
<1>4. PICK x \in Nat : x \notin A /\ T = 1..x
  OBVIOUS
<1>5. x # 0 /\ x - 1 \in Nat
  BY <1>4
<1>6. x - 1 \notin A
  BY <1>4, <1>5
<1>7. 1..(x - 1) \in Segments
  BY <1>5, <1>6
<1>8. <<1..(x - 1), 1..x>> \in StrictSubsetOrdering(Nat)
  <2>1. 1..(x - 1) \subseteq 1..x /\ x \in 1..x /\ x \notin 1..(x - 1)
    BY <1>5
  <2> QED
    BY <2>1 DEF StrictSubsetOrdering
<1> QED
  BY <1>3, <1>4, <1>7, <1>8

\* The recursion by which FlattenSeq is defined.
IsFlatten(g, seqs, n) ==
  g = [i \in 1..n |-> IF i = 1 THEN seqs[i] ELSE g[i - 1] \o seqs[i]]

\* It has a solution.
LEMMA FlattenExists ==
  ASSUME NEW seqs
  PROVE  \A n \in Nat : \E g : IsFlatten(g, seqs, n)
<1> DEFINE A == {n \in Nat : \E g : IsFlatten(g, seqs, n)}
<1>1. 0 \in A
  <2> DEFINE g == [i \in 1..0 |-> <<>>]
  <2>1. IsFlatten(g, seqs, 0)
    BY DEF IsFlatten
  <2> QED
    BY <2>1
<1>2. ASSUME NEW n \in Nat, n \in A PROVE n + 1 \in A
  <2>1. PICK g : IsFlatten(g, seqs, n)
    BY <1>2
  <2> DEFINE h == [i \in 1..n + 1 |-> IF i = 1 THEN seqs[i] ELSE g[i - 1] \o seqs[i]]
  <2>2. \A i \in 1..n : h[i] = g[i]
    <3>1. \A i \in 1..n : g[i] = IF i = 1 THEN seqs[i] ELSE g[i - 1] \o seqs[i]
      BY <2>1 DEF IsFlatten
    <3> QED
      BY <3>1
  <2>3. \A i \in 1..n + 1 : i # 1 => h[i - 1] = g[i - 1]
    <3>1. \A i \in 1..n + 1 : i # 1 => i - 1 \in 1..n
      OBVIOUS
    <3> HIDE DEF h
    <3> QED
      BY <3>1, <2>2
  <2>4. h = [i \in 1..n + 1 |-> IF i = 1 THEN seqs[i] ELSE h[i - 1] \o seqs[i]]
    <3>1. h = [i \in 1..n + 1 |-> IF i = 1 THEN seqs[i] ELSE g[i - 1] \o seqs[i]]
      OBVIOUS
    <3> HIDE DEF h
    <3>2. \A i \in 1..n + 1 : (IF i = 1 THEN seqs[i] ELSE g[i - 1] \o seqs[i])
                            = IF i = 1 THEN seqs[i] ELSE h[i - 1] \o seqs[i]
      BY <2>3
    <3> QED
      BY <3>1, <3>2
  <2> HIDE DEF h
  <2>5. \E u : IsFlatten(u, seqs, n + 1)
    BY <2>4 DEF IsFlatten
  <2> QED
    BY <2>5
<1> HIDE DEF A
<1>3. \A n \in Nat : n \in A
  BY <1>1, <1>2, NumbersByInduction
<1> QED
  BY <1>3 DEF A

\* What FlattenSeq comes to, sequence by sequence.
LEMMA FlattenIs ==
  ASSUME NEW seqs, Len(seqs) \in Nat \ {0}
  PROVE  \E g : /\ FlattenSeq(seqs) = g[Len(seqs)]
                /\ g[1] = seqs[1]
                /\ \A i \in 2..Len(seqs) : g[i] = g[i - 1] \o seqs[i]
<1> DEFINE it == CHOOSE g : IsFlatten(g, seqs, Len(seqs))
<1>1. IsFlatten(it, seqs, Len(seqs))
  BY FlattenExists
<1>2. FlattenSeq(seqs) = it[Len(seqs)]
  BY DEF FlattenSeq, IsFlatten
<1> HIDE DEF it
<1>3. it[1] = seqs[1]
  BY <1>1 DEF IsFlatten
<1>4. \A i \in 2..Len(seqs) : it[i] = it[i - 1] \o seqs[i]
  <2>1. \A i \in 1..Len(seqs) :
          it[i] = IF i = 1 THEN seqs[i] ELSE it[i - 1] \o seqs[i]
    BY <1>1 DEF IsFlatten
  <2>2. \A i \in 2..Len(seqs) : i \in 1..Len(seqs) /\ i # 1
    OBVIOUS
  <2> QED
    BY <2>1, <2>2
<1> QED
  BY <1>2, <1>3, <1>4
-----------------------------------------------------------------------------
\* The ring by age.

\* The remainder of what is less than twice the divisor.
LEMMA Remainder ==
  \A x \in Nat, n \in Nat \ {0} :
    x < 2 * n => x % n = IF x < n THEN x ELSE x - n
OBVIOUS

\* Position by age, without the division.
LEMMA PositionIs ==
  ASSUME NEW ring, IsRing(ring), NEW k \in 1..Size(ring)
  PROVE  /\ PosAfterCurrent(ring, k) \in 1..Size(ring)
         /\ PosAfterCurrent(ring, k) = IF ring.cur + k <= Size(ring)
                                       THEN ring.cur + k
                                       ELSE ring.cur + k - Size(ring)
<1> DEFINE N == Size(ring)
           x == ring.cur - 1 + k
<1>1. N \in Nat \ {0} /\ ring.cur \in 1..N /\ k \in 1..N /\ x \in 1..2 * N - 1
  BY DEF IsRing, Size
<1>2. x % N = IF x < N THEN x ELSE x - N
  <2> HIDE DEF N, x
  <2>1. x \in Nat /\ x < 2 * N
    BY <1>1
  <2> QED
    BY <1>1, <2>1, Remainder
<1>3. PosAfterCurrent(ring, k) = (x % N) + 1
  BY DEF PosAfterCurrent
<1> HIDE DEF N
<1>4. PosAfterCurrent(ring, k) = IF ring.cur + k <= N THEN ring.cur + k ELSE ring.cur + k - N
  BY <1>1, <1>2, <1>3
<1>5. PosAfterCurrent(ring, k) \in 1..N
  BY <1>1, <1>4
<1> QED
  BY <1>4, <1>5 DEF N

\* The current buffer is the last by age, and the buffers are sequences of blocks.
LEMMA AgedType ==
  ASSUME NEW ring, IsRing(ring)
  PROVE  /\ Size(ring) \in Nat \ {0}
         /\ Aged(ring, Size(ring)) = ring.buf[ring.cur]
         /\ \A k \in 1..Size(ring) : Aged(ring, k) \in Seq(Block)
<1>1. Size(ring) \in Nat \ {0} /\ ring.cur \in 1..Size(ring)
  BY DEF IsRing, Size
<1>2. PosAfterCurrent(ring, Size(ring)) = ring.cur
  BY <1>1, PositionIs
<1>3. \A i \in 1..Size(ring) : ring.buf[i] \in Seq(Block)
  BY DEF IsRing, Size
<1>4. \A k \in 1..Size(ring) : PosAfterCurrent(ring, k) \in 1..Size(ring)
  BY PositionIs
<1> QED
  BY <1>1, <1>2, <1>3, <1>4 DEF Aged

\* addData makes the buffers older by one where the block starts an event.
LEMMA AddDataByAge ==
  ASSUME NEW ring, IsRing(ring), NEW block \in Block, NEW startsEvent \in BOOLEAN
  PROVE  LET new == AddData(ring, block, startsEvent)
             N   == Size(ring)
         IN  /\ IsRing(new) /\ Size(new) = N
             /\ startsEvent =>
                  /\ Aged(new, N) = <<block>>
                  /\ \A k \in 1..N - 1 : Aged(new, k) = Aged(ring, k + 1)
             /\ ~startsEvent =>
                  /\ Aged(new, N) = AppendData(Aged(ring, N), block)
                  /\ \A k \in 1..N - 1 : Aged(new, k) = Aged(ring, k)
<1> DEFINE new  == AddData(ring, block, startsEvent)
           pos  == IF startsEvent THEN NextPos(ring, ring.cur) ELSE ring.cur
           kept == IF startsEvent THEN <<>> ELSE ring.buf[pos]
           N    == Size(ring)
<1>0. ring.buf \in Seq(Seq(Block)) /\ N = Len(ring.buf)
  BY DEF IsRing, Size
<1>1. N \in Nat \ {0} /\ ring.cur \in 1..N /\ pos \in 1..N
  BY DEF IsRing, NextPos, Size
<1>2. new = [buf |-> [ring.buf EXCEPT ![pos] = AppendData(kept, block)], cur |-> pos]
  BY DEF AddData
<1>3. AppendData(kept, block) \in Seq(Block)
  BY <1>0, <1>1 DEF AppendData
<1>4. new.buf \in Seq(Seq(Block)) /\ Size(new) = N /\ new.cur = pos
  BY <1>0, <1>1, <1>2, <1>3 DEF Size
<1>5. IsRing(new)
  BY <1>0, <1>1, <1>2, <1>4 DEF IsRing
<1>6. new.buf[pos] = AppendData(kept, block)
      /\ \A i \in 1..N : i # pos => new.buf[i] = ring.buf[i]
  BY <1>0, <1>1, <1>2
<1>7. \A k \in 1..N : PosAfterCurrent(new, k) =
        IF pos + k <= N THEN pos + k ELSE pos + k - N
  BY <1>4, <1>5, PositionIs
<1>8. \A k \in 1..N : PosAfterCurrent(ring, k) =
        IF ring.cur + k <= N THEN ring.cur + k ELSE ring.cur + k - N
  BY PositionIs
<1>9. Aged(new, N) = AppendData(kept, block)
  BY <1>4, <1>5, <1>6, AgedType
<1>10. \A k \in 1..N - 1 : PosAfterCurrent(new, k) \in 1..N /\ PosAfterCurrent(new, k) # pos
  <2> HIDE DEF N, pos, new, kept
  <2> QED
    BY <1>1, <1>7
<1>11. \A k \in 1..N - 1 : Aged(new, k) = ring.buf[PosAfterCurrent(new, k)]
  BY <1>6, <1>10 DEF Aged
<1>12. CASE startsEvent
  <2>1. pos = IF ring.cur = N THEN 1 ELSE ring.cur + 1
    BY <1>12 DEF NextPos
  <2>2. \A k \in 1..N - 1 : PosAfterCurrent(new, k) = PosAfterCurrent(ring, k + 1)
    <3> HIDE DEF N, pos, new, kept
    <3>1. \A k \in 1..N - 1 : PosAfterCurrent(new, k) =
            IF pos + k <= N THEN pos + k ELSE pos + k - N
      BY <1>1, <1>7
    <3>2. \A k \in 1..N - 1 : PosAfterCurrent(ring, k + 1) =
            IF ring.cur + (k + 1) <= N THEN ring.cur + (k + 1) ELSE ring.cur + (k + 1) - N
      BY <1>1, <1>8
    <3> QED
      BY <1>1, <2>1, <3>1, <3>2
  <2>3. \A k \in 1..N - 1 : Aged(new, k) = Aged(ring, k + 1)
    BY <1>11, <2>2 DEF Aged
  <2>4. AppendData(kept, block) = <<block>>
    BY <1>12, CapacityAssumption DEF AppendData
  <2> HIDE DEF new
  <2> QED
    BY <1>4, <1>5, <1>9, <1>12, <2>3, <2>4 DEF new
<1>13. CASE ~startsEvent
  <2>1. pos = ring.cur /\ kept = Aged(ring, N)
    BY <1>13, AgedType
  <2>2. \A k \in 1..N - 1 : PosAfterCurrent(new, k) = PosAfterCurrent(ring, k)
    <3> HIDE DEF N, pos, new, kept
    <3> QED
      BY <1>1, <1>7, <1>8, <2>1
  <2>3. \A k \in 1..N - 1 : Aged(new, k) = Aged(ring, k)
    BY <1>11, <2>2 DEF Aged
  <2> HIDE DEF new, kept
  <2> QED
    BY <1>4, <1>5, <1>9, <1>13, <2>1, <2>3 DEF new
<1> QED
  BY <1>12, <1>13

\* An emptied ring keeps its size and has nothing at any age.
LEMMA EmptyByAge ==
  ASSUME NEW ring, IsRing(ring)
  PROVE  LET new == EmptyEventBuffers(ring)
         IN  /\ IsRing(new) /\ Size(new) = Size(ring)
             /\ \A k \in 1..Size(ring) : Aged(new, k) = <<>>
<1> DEFINE new == EmptyEventBuffers(ring)
<1>1. IsRing(new)
  BY EmptyLemma
<1>2. new.buf = [i \in 1..Size(ring) |-> <<>>]
  BY DEF EmptyEventBuffers
<1>3. Size(ring) \in Nat
  BY DEF IsRing, Size
<1>4. Size(new) = Size(ring)
  <2>1. new.buf \in Seq(Seq(Block))
    BY <1>1 DEF IsRing
  <2>2. new.buf \in [1..Size(ring) -> Seq(Block)]
    BY <1>2
  <2> QED
    BY <1>3, <2>1, <2>2, LenProperties DEF Size
<1> HIDE DEF new
<1>5. \A k \in 1..Size(ring) : PosAfterCurrent(new, k) \in 1..Size(ring)
  BY <1>1, <1>4, PositionIs
<1>6. \A k \in 1..Size(ring) : Aged(new, k) = <<>>
  BY <1>2, <1>5 DEF Aged
<1> QED
  BY <1>1, <1>4, <1>6 DEF new
\* What is in a sequence of blocks.
LEMMA BlocksAre ==
  ASSUME NEW b \in Seq(Block)
  PROVE  /\ Len(b) \in Nat
         /\ \A i \in 1..Len(b) : b[i] \in Block /\ b[i].n \in Nat /\ b[i].event \in Nat
         /\ b # <<>> => /\ 1 \in 1..Len(b) /\ Len(b) \in 1..Len(b)
                        /\ b[1].n \in Nat /\ b[Len(b)].n \in Nat
<1>1. \A i \in 1..Len(b) : b[i] \in Block
  BY ElementOfSeq
<1>2. \A x \in Block : x.n \in Nat /\ x.event \in Nat
  BY DEF Block
<1>3. Len(b) \in Nat /\ (b # <<>> => Len(b) > 0)
  OBVIOUS
<1>4. b # <<>> => 1 \in 1..Len(b) /\ Len(b) \in 1..Len(b)
  BY <1>3
<1> QED
  BY <1>1, <1>2, <1>3, <1>4

\* A buffer that is begun holds one event and can be followed.
LEMMA BufferBegun ==
  ASSUME NEW block \in Block
  PROVE  LET b == <<block>>
         IN  /\ b \in Seq(Block) /\ b # <<>> /\ b[1] = block
             /\ HoldsOneEvent(b) /\ Follows(block.n + 1, b)
             /\ b[Len(b)].event = block.event
<1> DEFINE b == <<block>>
<1>1. b \in Seq(Block) /\ Len(b) = 1 /\ b[1] = block /\ b # <<>>
  OBVIOUS
<1>2. block.n \in Nat
  BY DEF Block
<1> HIDE DEF b
<1>3. \A i \in 1..Len(b) : i = 1
  BY <1>1
<1>4. HoldsOneEvent(b)
  BY <1>1, <1>2, <1>3, CapacityAssumption DEF HoldsOneEvent
<1>5. Follows(block.n + 1, b)
  BY <1>1, <1>2 DEF Follows
<1> QED
  BY <1>1, <1>4, <1>5 DEF b

\* So does a buffer that is gone on with, whether or not the block still fits.
LEMMA BufferGoesOn ==
  ASSUME NEW b \in Seq(Block), b # <<>>, HoldsOneEvent(b),
         NEW block \in Block, Follows(block.n, b), b[Len(b)].event = block.event
  PROVE  LET c == AppendData(b, block)
         IN  /\ c \in Seq(Block) /\ c # <<>> /\ c[1] = b[1]
             /\ HoldsOneEvent(c) /\ Follows(block.n + 1, c)
             /\ c[Len(c)].event = block.event
<1>1. /\ Len(b) \in Nat \ {0} /\ block.n \in Nat /\ b[1].n \in Nat
      /\ \A i \in 1..Len(b) : b[i] \in Block /\ b[i].n \in Nat
  <2>1. block.n \in Nat
    BY DEF Block
  <2> QED
    BY <2>1, BlocksAre
<1>2. CASE Len(b) < Capacity
  <2> DEFINE c == Append(b, block)
  <2>1. /\ c \in Seq(Block) /\ Len(c) = Len(b) + 1 /\ c[Len(c)] = block
        /\ \A i \in 1..Len(b) : c[i] = b[i]
    OBVIOUS
  <2> HIDE DEF c
  <2>2. c # <<>> /\ c[1] = b[1]
    BY <1>1, <2>1
  <2>3. block.n = b[Len(b)].n + 1
    BY <1>1, <1>2, CapacityAssumption DEF Follows
  <2>4. ASSUME NEW i \in 1..Len(c)
        PROVE  c[i].n = c[1].n + i - 1 /\ c[i].event = c[1].event
    <3>1. CASE i \in 1..Len(b)
      BY <1>1, <2>1, <2>2, <3>1 DEF HoldsOneEvent
    <3>2. CASE i = Len(b) + 1
      <4>1. Len(b) \in 1..Len(b)
        BY <1>1
      <4>2. b[Len(b)].n = b[1].n + Len(b) - 1 /\ b[Len(b)].event = b[1].event
        BY <4>1 DEF HoldsOneEvent
      <4>3. c[i] = block
        BY <2>1, <3>2
      <4>4. c[i].event = c[1].event
        BY <2>2, <4>2, <4>3
      <4>5. c[i].n = b[1].n + Len(b) - 1 + 1
        BY <2>3, <4>2, <4>3
      <4>6. c[i].n = b[1].n + i - 1
        BY <1>1, <3>2, <4>5
      <4>7. c[i].n = c[1].n + i - 1
        BY <2>2, <4>6
      <4> QED
        BY <4>4, <4>7
    <3> QED
      BY <1>1, <2>1, <3>1, <3>2
  <2>5. HoldsOneEvent(c)
    BY <1>1, <1>2, <2>1, <2>4, CapacityAssumption DEF HoldsOneEvent
  <2>6. Follows(block.n + 1, c)
    BY <1>1, <2>1 DEF Follows
  <2> QED
    BY <1>2, <2>1, <2>2, <2>5, <2>6 DEF AppendData, c
<1>3. CASE ~(Len(b) < Capacity)
  <2>1. AppendData(b, block) = b
    BY <1>3 DEF AppendData
  <2>2. Len(b) = Capacity
    BY <1>1, <1>3, CapacityAssumption DEF HoldsOneEvent
  <2>3. Len(b) \in 1..Len(b)
    BY <1>1
  <2>4. Follows(block.n + 1, b)
    BY <1>1, <2>2, <2>3 DEF Follows
  <2> QED
    BY <2>1, <2>4
<1> QED
  BY <1>2, <1>3

\* How many buffers are filled after a block came to q filled ones.
FilledAfter(q, size, startsEvent) ==
  IF q = 0 THEN 1 ELSE IF startsEvent /\ q < size THEN q + 1 ELSE q

\* A block that comes to the ring becomes part of the chain of buffers.
LEMMA AddChained ==
  ASSUME NEW ring, IsRing(ring), NEW block \in Block, NEW startsEvent \in BOOLEAN,
         NEW q \in 0..Size(ring), NEW n \in Nat, NEW h \in Nat,
         Chained(ring, q), Current(ring, q, n, h),
         block.n = n + 1, ~startsEvent => block.event = h
  PROVE  LET new == AddData(ring, block, startsEvent)
             r   == FilledAfter(q, Size(ring), startsEvent)
         IN  /\ r \in 1..Size(ring)
             /\ Chained(new, r)
             /\ Current(new, r, block.n, block.event)
             /\ Aged(new, Size(ring) - r + 1)[1].n >=
                  IF q > 0 THEN Aged(ring, Size(ring) - q + 1)[1].n ELSE block.n
<1> DEFINE new == AddData(ring, block, startsEvent)
           N   == Size(ring)
           r   == FilledAfter(q, N, startsEvent)
           c   == Aged(new, N)
<1>1. /\ N \in Nat \ {0} /\ q \in 0..N /\ Size(new) = N /\ IsRing(new)
      /\ \A k \in 1..N : Aged(ring, k) \in Seq(Block)
  BY AgedType, AddDataByAge
<1>2. /\ startsEvent => /\ c = <<block>>
                        /\ \A k \in 1..N - 1 : Aged(new, k) = Aged(ring, k + 1)
      /\ ~startsEvent => /\ c = AppendData(Aged(ring, N), block)
                         /\ \A k \in 1..N - 1 : Aged(new, k) = Aged(ring, k)
  BY AddDataByAge
<1>3. N \in 1..N /\ r \in 1..N /\ block.n \in Nat
  BY <1>1 DEF FilledAfter, Block
<1>4. /\ \A k \in 1..N : HoldsOneEvent(Aged(ring, k))
      /\ \A k \in 1..N : Aged(ring, k) # <<>> <=> k > N - q
      /\ \A k \in N - q + 1..N - 1 : Follows(Aged(ring, k + 1)[1].n, Aged(ring, k))
  BY DEF Chained
<1> HIDE DEF new, N, r
<1>5. /\ c \in Seq(Block) /\ c # <<>>
      /\ HoldsOneEvent(c) /\ Follows(block.n + 1, c)
      /\ c[Len(c)].event = block.event
      /\ c[1] = IF startsEvent \/ q = 0 THEN block ELSE Aged(ring, N)[1]
  <2>1. CASE startsEvent
    BY <1>2, <2>1, BufferBegun
  <2>2. CASE ~startsEvent /\ q = 0
    <3>1. Aged(ring, N) = <<>>
      BY <1>1, <1>3, <1>4, <2>2
    <3>2. c = <<block>>
      BY <1>2, <2>2, <3>1, CapacityAssumption DEF AppendData
    <3> QED
      BY <2>2, <3>2, BufferBegun
  <2>3. CASE ~startsEvent /\ q > 0
    <3>1. Aged(ring, N) # <<>> /\ HoldsOneEvent(Aged(ring, N)) /\ Aged(ring, N) \in Seq(Block)
      BY <1>1, <1>3, <1>4, <2>3
    <3>2. Follows(block.n, Aged(ring, N))
          /\ Aged(ring, N)[Len(Aged(ring, N))].event = block.event
      BY <2>3 DEF Current, N
    <3> HIDE DEF c
    <3>3. LET d == AppendData(Aged(ring, N), block)
          IN  /\ d \in Seq(Block) /\ d # <<>> /\ d[1] = Aged(ring, N)[1]
              /\ HoldsOneEvent(d) /\ Follows(block.n + 1, d)
              /\ d[Len(d)].event = block.event
      BY <3>1, <3>2, BufferGoesOn
    <3> QED
      BY <1>2, <2>3, <3>3
  <2> QED
    BY <2>1, <2>2, <2>3
<1> HIDE DEF c
<1>6. \A k \in 1..N : HoldsOneEvent(Aged(new, k)) /\ (Aged(new, k) # <<>> <=> k > N - r)
  <2> SUFFICES ASSUME NEW k \in 1..N
               PROVE  HoldsOneEvent(Aged(new, k)) /\ (Aged(new, k) # <<>> <=> k > N - r)
    OBVIOUS
  <2>1. CASE k = N
    <3>1. N > N - r
      BY <1>1, <1>3
    <3> QED
      BY <1>5, <2>1, <3>1 DEF c
  <2>2. CASE k # N /\ startsEvent
    <3>1. k + 1 \in 1..N /\ Aged(new, k) = Aged(ring, k + 1)
      BY <1>1, <1>2, <2>2
    <3>2. k > N - r <=> k + 1 > N - q
      BY <1>1, <2>2 DEF FilledAfter, r
    <3> QED
      BY <1>4, <3>1, <3>2
  <2>3. CASE k # N /\ ~startsEvent
    <3>1. Aged(new, k) = Aged(ring, k)
      BY <1>1, <1>2, <2>3
    <3>2. k > N - r <=> k > N - q
      BY <1>1, <2>3 DEF FilledAfter, r
    <3> QED
      BY <1>4, <3>1, <3>2
  <2> QED
    BY <2>1, <2>2, <2>3
<1>7. \A k \in N - r + 1..N - 1 : Follows(Aged(new, k + 1)[1].n, Aged(new, k))
  <2> SUFFICES ASSUME NEW k \in N - r + 1..N - 1
               PROVE  Follows(Aged(new, k + 1)[1].n, Aged(new, k))
    OBVIOUS
  <2>1. k \in 1..N - 1 /\ q > 0 /\ k + 1 \in 1..N
    BY <1>1, <1>3 DEF FilledAfter, r
  <2>2. CASE k = N - 1 /\ startsEvent
    <3>1. Aged(new, k) = Aged(ring, N) /\ Aged(new, k + 1)[1] = block
      BY <1>1, <1>2, <1>5, <2>1, <2>2 DEF c
    <3> QED
      BY <2>1, <3>1 DEF Current, N
  <2>3. CASE k # N - 1 /\ startsEvent
    <3>1. k + 1 \in 1..N - 1 /\ k + 1 \in N - q + 1..N - 1
      BY <1>1, <2>1, <2>3 DEF FilledAfter, r
    <3>2. Aged(new, k) = Aged(ring, k + 1) /\ Aged(new, k + 1) = Aged(ring, (k + 1) + 1)
      BY <1>2, <2>1, <2>3, <3>1
    <3> QED
      BY <1>4, <3>1, <3>2
  <2>4. CASE ~startsEvent
    <3>1. k \in N - q + 1..N - 1 /\ Aged(new, k) = Aged(ring, k)
      BY <1>1, <1>2, <2>1, <2>4 DEF FilledAfter, r
    <3>2. Aged(new, k + 1)[1] = Aged(ring, k + 1)[1]
      <4>1. CASE k = N - 1
        <5>1. k + 1 = N
          BY <1>1, <4>1
        <5> QED
          BY <1>5, <2>1, <2>4, <5>1 DEF c
      <4>2. CASE k # N - 1
        <5>1. k + 1 \in 1..N - 1
          BY <1>1, <2>1, <4>2
        <5> QED
          BY <1>2, <2>4, <5>1
      <4> QED
        BY <4>1, <4>2
    <3> QED
      BY <1>4, <3>1, <3>2
  <2> QED
    BY <2>2, <2>3, <2>4
<1>8. Chained(new, r)
  BY <1>1, <1>6, <1>7 DEF Chained
<1>9. Current(new, r, block.n, block.event)
  BY <1>1, <1>5 DEF Current, c
<1>10. Aged(new, N - r + 1)[1].n >= IF q > 0 THEN Aged(ring, N - q + 1)[1].n ELSE block.n
  <2>1. CASE q = 0
    <3>1. N - r + 1 = N
      BY <1>1, <2>1 DEF FilledAfter, r
    <3>2. Aged(new, N - r + 1)[1] = block
      BY <1>5, <2>1, <3>1 DEF c
    <3> QED
      BY <1>3, <2>1, <3>2
  <2> DEFINE old == Aged(ring, N - q + 1)
  <2>2. q > 0 => /\ N - q + 1 \in 1..N /\ old \in Seq(Block) /\ old # <<>>
                 /\ HoldsOneEvent(old) /\ old[1].n \in Nat
    <3>1. q > 0 => N - q + 1 \in 1..N /\ N - q + 1 > N - q
      BY <1>1
    <3>2. q > 0 => old \in Seq(Block) /\ old # <<>> /\ HoldsOneEvent(old)
      BY <1>1, <1>4, <3>1
    <3> QED
      BY <3>1, <3>2, BlocksAre
  <2>3. CASE q > 0 /\ r = q /\ ~startsEvent
    <3>1. Aged(new, N - r + 1)[1] = Aged(ring, N - q + 1)[1]
      <4>1. CASE N - r + 1 = N
        BY <1>5, <2>3, <4>1 DEF c
      <4>2. CASE N - r + 1 # N
        <5>1. N - r + 1 \in 1..N - 1
          BY <1>1, <1>3, <4>2
        <5> QED
          BY <1>2, <2>3, <5>1
      <4> QED
        BY <4>1, <4>2
    <3> QED
      BY <2>2, <2>3, <3>1
  <2>4. CASE q > 0 /\ startsEvent /\ q < N
    <3>1. r = q + 1 /\ N - r + 1 \in 1..N - 1 /\ (N - r + 1) + 1 = N - q + 1
      BY <1>1, <2>4 DEF FilledAfter, r
    <3>2. Aged(new, N - r + 1) = Aged(ring, N - q + 1)
      BY <1>2, <2>4, <3>1
    <3> QED
      BY <2>2, <2>4, <3>2
  <2>5. CASE startsEvent /\ q = N
    <3> DEFINE last == old[Len(old)].n
    <3>1. r = N /\ N - r + 1 = 1 /\ N - q + 1 = 1
      BY <1>1, <2>5 DEF FilledAfter, r
    <3>2. last \in Nat /\ old[1].n <= last
      <4>1. ASSUME NEW b \in Seq(Block), b # <<>>, HoldsOneEvent(b)
            PROVE  b[Len(b)].n \in Nat /\ b[1].n <= b[Len(b)].n
        <5>1. Len(b) \in 1..Len(b) /\ b[1].n \in Nat /\ b[Len(b)].n \in Nat
          BY <4>1, BlocksAre
        <5>2. b[Len(b)].n = b[1].n + Len(b) - 1
          BY <4>1, <5>1 DEF HoldsOneEvent
        <5> QED
          BY <5>1, <5>2
      <4> QED
        BY <1>1, <2>2, <2>5, <4>1
    <3>3. CASE N = 1
      <4>1. last < block.n
        BY <1>1, <2>5, <3>1, <3>3 DEF Current, Follows, N
      <4>2. Aged(new, N - r + 1)[1] = block
        BY <1>5, <2>5, <3>1, <3>3 DEF c
      <4> QED
        BY <1>3, <2>2, <2>5, <3>2, <4>1, <4>2
    <3>4. CASE N > 1
      <4>1. 1 \in 1..N - 1 /\ 1 \in N - q + 1..N - 1
        BY <1>1, <2>5, <3>4
      <4>2. Aged(new, 1) = Aged(ring, 1 + 1)
        BY <1>2, <2>5, <4>1
      <4>3. Follows(Aged(ring, 1 + 1)[1].n, Aged(ring, 1))
        BY <1>4, <4>1
      <4>4. last < Aged(ring, 1 + 1)[1].n
        BY <3>1, <4>3 DEF Follows
      <4>5. 1 + 1 \in 1..N /\ 1 + 1 > N - q
        BY <1>1, <2>5, <3>4
      <4>6. Aged(ring, 1 + 1)[1].n \in Nat
        <5>1. Aged(ring, 1 + 1) \in Seq(Block) /\ Aged(ring, 1 + 1) # <<>>
          BY <1>1, <1>4, <4>5
        <5> QED
          BY <5>1, BlocksAre
      <4>7. q > 0 /\ Aged(new, N - r + 1)[1].n = Aged(ring, 1 + 1)[1].n
        BY <1>1, <2>5, <3>1, <4>2
      <4>8. old[1].n \in Nat
        BY <2>2, <4>7
      <4>9. Aged(new, N - r + 1)[1].n >= old[1].n
        BY <3>2, <4>4, <4>6, <4>7, <4>8
      <4> QED
        BY <4>7, <4>9
    <3> QED
      BY <1>1, <3>3, <3>4
  <2> QED
    BY <1>1, <2>1, <2>3, <2>4, <2>5 DEF FilledAfter, r
<1> QED
  BY <1>3, <1>8, <1>9, <1>10 DEF new, N, r
\* One more element of a sequence that is given by a function.
LEMMA OneMore ==
  ASSUME NEW T, NEW m \in Nat, NEW f \in [1..m + 1 -> T]
  PROVE  /\ [j \in 1..m |-> f[j]] \in Seq(T)
         /\ Len([j \in 1..m |-> f[j]]) = m
         /\ [j \in 1..m |-> f[j]] \o <<f[m + 1]>> = f
<1> DEFINE s == [j \in 1..m |-> f[j]]
           t == <<f[m + 1]>>
<1>1. s \in [1..m -> T] /\ f[m + 1] \in T
  OBVIOUS
<1>2. s \in Seq(T) /\ f \in Seq(T)
  BY <1>1, SeqOfFunction
<1>3. Len(s) = m /\ Len(f) = m + 1
  BY <1>1, <1>2, LenProperties
<1>4. t \in Seq(T) /\ Len(t) = 1 /\ t[1] = f[m + 1]
  BY <1>1
<1>5. \A j \in 1..m : s[j] = f[j]
  OBVIOUS
<1> HIDE DEF s, t
<1>6. /\ s \o t \in Seq(T) /\ Len(s \o t) = m + 1
      /\ \A i \in 1..m + 1 : (s \o t)[i] = IF i <= m THEN s[i] ELSE t[i - m]
  <2>1. /\ s \o t \in Seq(T) /\ Len(s \o t) = Len(s) + Len(t)
        /\ \A i \in 1..Len(s) + Len(t) :
             (s \o t)[i] = IF i <= Len(s) THEN s[i] ELSE t[i - Len(s)]
    BY <1>2, <1>4, ConcatProperties
  <2> QED
    BY <1>3, <1>4, <2>1
<1>7. \A i \in 1..m + 1 : (s \o t)[i] = f[i]
  <2> TAKE i \in 1..m + 1
  <2>1. CASE i <= m
    BY <1>5, <1>6, <2>1
  <2>2. CASE i = m + 1
    <3>1. ~(i <= m) /\ i - m = 1
      BY <2>2
    <3> QED
      BY <1>4, <1>6, <2>2, <3>1
  <2>3. i <= m \/ i = m + 1
    OBVIOUS
  <2> QED
    BY <2>1, <2>2, <2>3
<1>8. s \o t = f
  BY <1>2, <1>3, <1>6, <1>7, SeqEqual
<1> QED
  BY <1>2, <1>3, <1>8 DEF s, t

\* getEventBuffers hands out the filled buffers, the oldest first.
LEMMA GetEventBuffersIs ==
  ASSUME NEW ring, IsRing(ring), NEW q \in 1..Size(ring), Chained(ring, q)
  PROVE  GetEventBuffers(ring) = [i \in 1..q |-> Aged(ring, Size(ring) - q + i)]
<1> DEFINE N    == Size(ring)
           seqs == [k \in 1..N |-> IfNotEmpty(Aged(ring, k))]
           C(m) == [j \in 1..m |-> Aged(ring, N - q + j)]
<1>1. N \in Nat \ {0} /\ q \in 1..N /\ \A k \in 1..N : Aged(ring, k) \in Seq(Block)
  BY AgedType
<1>2. \A k \in 1..N : seqs[k] = IF k > N - q THEN <<Aged(ring, k)>> ELSE <<>>
  BY DEF Chained, IfNotEmpty
<1>3. Len(seqs) = N /\ \A k \in 1..N : seqs[k] \in Seq(Seq(Block))
  <2>1. seqs = [k \in 1..N |-> seqs[k]]
    OBVIOUS
  <2> HIDE DEF seqs, N
  <2>2. ASSUME NEW k \in 1..N PROVE seqs[k] \in Seq(Seq(Block))
    <3>1. Aged(ring, k) \in Seq(Block)
      BY <1>1
    <3>2. <<Aged(ring, k)>> \in Seq(Seq(Block)) /\ <<>> \in Seq(Seq(Block))
      BY <3>1
    <3> QED
      BY <1>2, <3>2
  <2>3. seqs \in [1..N -> Seq(Seq(Block))]
    BY <2>1, <2>2
  <2>4. seqs \in Seq(Seq(Seq(Block)))
    BY <1>1, <2>3, SeqOfFunction
  <2> QED
    BY <1>1, <2>2, <2>3, <2>4, LenProperties
<1>4. GetEventBuffers(ring) = FlattenSeq(seqs)
  BY DEF GetEventBuffers, Aged
<1> HIDE DEF N, seqs
<1>5. PICK g : /\ FlattenSeq(seqs) = g[N] /\ g[1] = seqs[1]
               /\ \A i \in 2..N : g[i] = g[i - 1] \o seqs[i]
  BY <1>1, <1>3, FlattenIs
<1>6. \A m \in 0..q - 1 : C(m) \o <<Aged(ring, N - q + m + 1)>> = C(m + 1)
  <2> TAKE m \in 0..q - 1
  <2> DEFINE f == C(m + 1)
  <2>1. f \in [1..m + 1 -> Seq(Block)]
    BY <1>1
  <2>2. f[m + 1] = Aged(ring, N - q + m + 1)
    <3>1. m + 1 \in 1..m + 1 /\ N - q + (m + 1) = N - q + m + 1
      BY <1>1
    <3> QED
      BY <3>1
  <2>3. [j \in 1..m |-> f[j]] = C(m)
    <3>1. \A j \in 1..m : j \in 1..m + 1
      BY <1>1
    <3> QED
      BY <3>1
  <2> HIDE DEF f, C
  <2>4. [j \in 1..m |-> f[j]] \o <<f[m + 1]>> = f
    BY <2>1, OneMore
  <2> QED
    BY <2>2, <2>3, <2>4 DEF f
<1>7. C(0) = <<>>
  OBVIOUS
<1> DEFINE M(i) == IF i > N - q THEN i - (N - q) ELSE 0
           A == {n \in Nat : n + 1 \in 1..N => g[n + 1] = C(M(n + 1))}
<1> HIDE DEF C
<1>8. \A i \in 1..N : C(M(i - 1)) \o seqs[i] = C(M(i))
  <2> TAKE i \in 1..N
  <2>1. CASE i > N - q
    <3>1. M(i - 1) \in 0..q - 1 /\ M(i) = M(i - 1) + 1 /\ N - q + M(i - 1) + 1 = i
      BY <1>1, <2>1
    <3> HIDE DEF M
    <3> QED
      BY <1>2, <1>6, <2>1, <3>1
  <2>2. CASE ~(i > N - q)
    <3>1. M(i - 1) = 0 /\ M(i) = 0
      BY <1>1, <2>2
    <3>2. seqs[i] = <<>>
      BY <1>2, <2>2
    <3> HIDE DEF M
    <3> QED
      BY <1>7, <3>1, <3>2
  <2> QED
    BY <2>1, <2>2
<1>9. 0 \in A
  <2>1. 1 \in 1..N /\ M(1 - 1) = 0
    BY <1>1
  <2>2. C(M(1 - 1)) \o seqs[1] = C(M(1))
    BY <1>8, <2>1
  <2> HIDE DEF M
  <2>3. <<>> \o seqs[1] = seqs[1]
    BY <1>3, <2>1, ConcatEmptySeq
  <2>4. seqs[1] = C(M(1))
    BY <1>7, <2>1, <2>2, <2>3
  <2>5. g[0 + 1] = C(M(0 + 1))
    BY <1>5, <2>4
  <2> QED
    BY <2>5
<1>10. ASSUME NEW n \in Nat, n \in A PROVE n + 1 \in A
  <2> SUFFICES ASSUME n + 1 + 1 \in 1..N PROVE g[n + 1 + 1] = C(M(n + 1 + 1))
    OBVIOUS
  <2>1. n + 1 \in 1..N /\ n + 1 + 1 \in 2..N /\ (n + 1 + 1) - 1 = n + 1
    BY <1>1
  <2> HIDE DEF M
  <2>2. g[n + 1] = C(M(n + 1))
    BY <1>10, <2>1
  <2>3. g[n + 1 + 1] = g[n + 1] \o seqs[n + 1 + 1]
    BY <1>5, <2>1
  <2>4. C(M(n + 1)) \o seqs[n + 1 + 1] = C(M(n + 1 + 1))
    BY <1>8, <2>1
  <2> QED
    BY <2>2, <2>3, <2>4
<1>11. \A n \in Nat : n \in A
  <2> HIDE DEF A
  <2> QED
    BY <1>9, <1>10, NumbersByInduction
<1>12. g[N] = C(M(N))
  <2>1. N - 1 \in Nat /\ (N - 1) + 1 = N /\ N \in 1..N
    BY <1>1
  <2> HIDE DEF M
  <2> QED
    BY <1>11, <2>1
<1>13. M(N) = q
  BY <1>1
<1> HIDE DEF M
<1> QED
  BY <1>4, <1>5, <1>12, <1>13 DEF C, N
-----------------------------------------------------------------------------
\* The file.

\* What is put to the file of a buffer.
LEMMA WrittenIs ==
  ASSUME NEW b \in Seq(Block), NEW starts \in BOOLEAN, NEW w \in Nat,
         NEW accepted \in BOOLEAN
  PROVE  LET s == Written(b, starts, w, accepted)
         IN  /\ s \in Seq(Entry) /\ Len(s) = Len(b)
             /\ \A i \in 1..Len(b) :
                  /\ s[i].n = b[i].n /\ s[i].event = b[i].event
                  /\ s[i].starts = (starts /\ i = 1)
                  /\ s[i].window = w /\ s[i].vetoed = ~accepted
<1> DEFINE s == Written(b, starts, w, accepted)
<1>1. s = [i \in 1..Len(b) |->
             [n |-> b[i].n, event |-> b[i].event, starts |-> starts /\ i = 1,
              window |-> w, vetoed |-> ~accepted]]
  BY DEF Written
<1>2. \A i \in 1..Len(b) : b[i].n \in Nat /\ b[i].event \in Nat
  BY BlocksAre
<1>3. s \in [1..Len(b) -> Entry]
  BY <1>1, <1>2 DEF Entry
<1>4. s \in Seq(Entry) /\ Len(s) = Len(b)
  <2>1. Len(b) \in Nat
    BY BlocksAre
  <2> HIDE DEF s
  <2>2. s \in Seq(Entry)
    BY <1>3, <2>1, SeqOfFunction
  <2> QED
    BY <1>3, <2>1, <2>2, LenProperties
<1>5. ASSUME NEW i \in 1..Len(b)
      PROVE  /\ s[i].n = b[i].n /\ s[i].event = b[i].event
             /\ s[i].starts = (starts /\ i = 1)
             /\ s[i].window = w /\ s[i].vetoed = ~accepted
  <2> DEFINE x == [n |-> b[i].n, event |-> b[i].event, starts |-> starts /\ i = 1,
                   window |-> w, vetoed |-> ~accepted]
  <2>1. s[i] = x
    BY <1>1
  <2>2. x.n = b[i].n /\ x.event = b[i].event /\ x.window = w
    OBVIOUS
  <2>3. x.starts = (starts /\ i = 1) /\ x.vetoed = ~accepted
    BY Zenon
  <2> HIDE DEF s, x
  <2> QED
    BY <2>1, <2>2, <2>3, Zenon
<1> HIDE DEF s
<1> QED
  BY <1>4, <1>5 DEF s

\* What is in a file.
LEMMA EntriesAre ==
  ASSUME NEW f \in Seq(Entry)
  PROVE  /\ Len(f) \in Nat
         /\ f # <<>> <=> Len(f) > 0
         /\ \A i \in 1..Len(f) : f[i] \in Entry /\ f[i].n \in Nat /\ f[i].window \in Nat
                                 /\ f[i].starts \in BOOLEAN /\ f[i].vetoed \in BOOLEAN
<1>1. \A i \in 1..Len(f) : f[i] \in Entry
  BY ElementOfSeq
<1>2. \A x \in Entry : x.n \in Nat /\ x.window \in Nat /\ x.starts \in BOOLEAN
                       /\ x.vetoed \in BOOLEAN
  BY DEF Entry
<1>3. Len(f) \in Nat /\ (f # <<>> <=> Len(f) > 0)
  OBVIOUS
<1> QED
  BY <1>1, <1>2, <1>3

\* File f, when it is extended, is proper and ends with buffer b.
ExtendedBy(f, b, starts, w, accepted) ==
  LET e == f \o Written(b, starts, w, accepted)
  IN  /\ e \in Seq(Entry) /\ Len(e) = Len(f) + Len(b)
      /\ Proper(e)
      /\ e[Len(e)].n = b[Len(b)].n /\ e[Len(e)].event = b[1].event
      /\ e[Len(e)].window = w /\ e[Len(e)].vetoed = ~accepted
      /\ e[Len(f) + 1].starts = starts

\* A file that a buffer of one event is put to stays proper, if the buffer is newer than
\* the file, goes on where the window does, and has its head in the file or with it.
LEMMA Extend ==
  ASSUME NEW f \in Seq(Entry), Proper(f),
         NEW b \in Seq(Block), b # <<>>, HoldsOneEvent(b),
         NEW starts \in BOOLEAN, NEW w \in Nat, NEW accepted \in BOOLEAN,
         f # <<>> => f[Len(f)].n < b[1].n,
         f # <<>> /\ f[Len(f)].window = w => Continues(f, b[1].n),
         ~starts /\ accepted =>
           f # <<>> /\ f[Len(f)].event = b[1].event /\ ~f[Len(f)].vetoed
  PROVE  ExtendedBy(f, b, starts, w, accepted)
<1> DEFINE s == Written(b, starts, w, accepted)
           e == f \o s
           L == Len(f)
           K == Len(b)
<1>1. /\ s \in Seq(Entry) /\ Len(s) = K
      /\ \A i \in 1..K :
           /\ s[i].n = b[i].n /\ s[i].event = b[i].event
           /\ s[i].starts = (starts /\ i = 1)
           /\ s[i].window = w /\ s[i].vetoed = ~accepted
  BY WrittenIs
<1>2. /\ L \in Nat /\ K \in Nat \ {0}
      /\ \A i \in 1..K : b[i].n \in Nat
      /\ \A i \in 1..L : f[i].n \in Nat
      /\ f # <<>> <=> L > 0
  <2>1. K \in Nat \ {0} /\ \A i \in 1..K : b[i].n \in Nat
    BY BlocksAre
  <2>2. L \in Nat /\ (f # <<>> <=> L > 0) /\ \A i \in 1..L : f[i].n \in Nat
    BY EntriesAre
  <2> QED
    BY <2>1, <2>2
<1> HIDE DEF s
<1>3. /\ e \in Seq(Entry) /\ Len(e) = L + K
      /\ \A i \in 1..L + K : e[i] = IF i <= L THEN f[i] ELSE s[i - L]
  <2>1. /\ e \in Seq(Entry) /\ Len(e) = Len(f) + Len(s)
        /\ \A i \in 1..Len(f) + Len(s) :
             e[i] = IF i <= Len(f) THEN f[i] ELSE s[i - Len(f)]
    <3>1. s \in Seq(Entry)
      BY <1>1
    <3> QED
      BY <3>1, ConcatProperties
  <2> HIDE DEF e
  <2> QED
    BY <1>1, <2>1
<1> HIDE DEF e, L, K
<1>4. \A i \in 1..L : i \in 1..L + K /\ e[i] = f[i]
  BY <1>2, <1>3
<1>5. \A j \in 1..K :
         /\ e[L + j] = s[j]
         /\ e[L + j].n = b[1].n + j - 1 /\ e[L + j].event = b[1].event
         /\ e[L + j].window = w /\ e[L + j].vetoed = ~accepted
  <2> TAKE j \in 1..K
  <2>1. L + j \in 1..L + K /\ ~(L + j <= L) /\ (L + j) - L = j
    BY <1>2
  <2>2. e[L + j] = s[j]
    BY <1>3, <2>1
  <2>3. b[j].n = b[1].n + j - 1 /\ b[j].event = b[1].event
    BY DEF HoldsOneEvent, K
  <2>4. e[L + j].n = b[1].n + j - 1 /\ e[L + j].event = b[1].event
        /\ e[L + j].window = w
    BY <1>1, <2>2, <2>3
  <2>5. e[L + j].vetoed = ~accepted
    BY <1>1, <2>2
  <2> QED
    BY <2>2, <2>4, <2>5
<1>6. \A i \in 1..L + K : i \in 1..L \/ \E j \in 1..K : i = L + j
  <2> TAKE i \in 1..L + K
  <2>1. CASE i <= L
    BY <1>2, <2>1
  <2>2. CASE i > L
    <3>1. i - L \in 1..K /\ i = L + (i - L)
      BY <1>2, <2>2
    <3> QED
      BY <3>1
  <2> QED
    BY <1>2, <2>1, <2>2
<1>7. b[1].n \in Nat /\ 1 \in 1..K /\ K \in 1..K
  BY <1>2
<1>8. \A i \in 1..Len(e) - 1 : e[i].n < e[i + 1].n
  <2> SUFFICES ASSUME NEW i \in 1..Len(e) - 1 PROVE e[i].n < e[i + 1].n
    OBVIOUS
  <2>1. CASE i \in 1..L - 1
    <3>1. e[i] = f[i] /\ e[i + 1] = f[i + 1]
      BY <1>2, <1>4, <2>1
    <3> QED
      BY <2>1, <3>1 DEF Proper, L
  <2>2. CASE i = L
    <3>1. L \in 1..L /\ e[i] = f[L] /\ f # <<>>
      BY <1>2, <1>4, <2>2
    <3>2. e[i + 1].n = b[1].n
      BY <1>5, <1>7, <2>2
    <3> QED
      BY <3>1, <3>2 DEF L
  <2>3. CASE i > L
    <3>1. PICK j \in 1..K - 1 : i = L + j
      <4>1. i - L \in 1..K - 1 /\ i = L + (i - L)
        BY <1>2, <1>3, <2>3
      <4> QED
        BY <4>1
    <3>2. j \in 1..K /\ j + 1 \in 1..K /\ i + 1 = L + (j + 1)
      BY <1>2, <3>1
    <3>3. e[i].n = b[1].n + j - 1 /\ e[i + 1].n = b[1].n + (j + 1) - 1
      BY <1>5, <3>1, <3>2
    <3> QED
      BY <1>7, <3>2, <3>3
  <2> QED
    BY <1>2, <1>3, <2>1, <2>2, <2>3
<1>9. \A i \in 1..Len(e) - 1 :
        e[i].window = e[i + 1].window =>
          e[i + 1].n = e[i].n + 1 \/ (i >= Capacity /\ e[i - Capacity + 1].starts)
  <2> SUFFICES ASSUME NEW i \in 1..Len(e) - 1, e[i].window = e[i + 1].window
               PROVE  e[i + 1].n = e[i].n + 1 \/ (i >= Capacity /\ e[i - Capacity + 1].starts)
    OBVIOUS
  <2>1. i \in 1..L /\ i >= Capacity => e[i - Capacity + 1] = f[i - Capacity + 1]
    <3>1. i \in 1..L /\ i >= Capacity => i - Capacity + 1 \in 1..L
      BY <1>2, CapacityAssumption
    <3> QED
      BY <1>4, <3>1
  <2>2. CASE i \in 1..L - 1
    <3>1. e[i] = f[i] /\ e[i + 1] = f[i + 1] /\ i \in 1..L
      BY <1>2, <1>4, <2>2
    <3>2. f[i].window = f[i + 1].window =>
            f[i + 1].n = f[i].n + 1 \/ (i >= Capacity /\ f[i - Capacity + 1].starts)
      BY <2>2 DEF Proper, L
    <3> QED
      BY <2>1, <3>1, <3>2
  <2>3. CASE i = L
    <3>1. L \in 1..L /\ e[i] = f[L] /\ f # <<>>
      BY <1>2, <1>4, <2>3
    <3>2. e[i + 1].n = b[1].n /\ e[i + 1].window = w
      <4>1. e[L + 1].n = b[1].n + 1 - 1 /\ e[L + 1].window = w
        BY <1>5, <1>7
      <4> QED
        BY <1>7, <2>3, <4>1
    <3>3. Continues(f, b[1].n)
      BY <3>1, <3>2 DEF L
    <3>4. b[1].n = f[L].n + 1 \/ (L >= Capacity /\ f[L - Capacity + 1].starts)
      BY <3>3 DEF Continues, L
    <3> QED
      BY <2>1, <2>3, <3>1, <3>2, <3>4
  <2>4. CASE i > L
    <3>1. PICK j \in 1..K - 1 : i = L + j
      <4>1. i - L \in 1..K - 1 /\ i = L + (i - L)
        BY <1>2, <1>3, <2>4
      <4> QED
        BY <4>1
    <3>2. j \in 1..K /\ j + 1 \in 1..K /\ i + 1 = L + (j + 1)
      BY <1>2, <3>1
    <3>3. e[i].n = b[1].n + j - 1 /\ e[i + 1].n = b[1].n + (j + 1) - 1
      BY <1>5, <3>1, <3>2
    <3>4. \A x, y \in Int : x + (y + 1) - 1 = (x + y - 1) + 1
      OBVIOUS
    <3>5. b[1].n \in Int /\ j \in Int
      BY <1>7, <3>2
    <3>6. e[i + 1].n = e[i].n + 1
      BY <3>3, <3>4, <3>5
    <3> QED
      BY <3>6
  <2> QED
    BY <1>2, <1>3, <2>2, <2>3, <2>4
<1>10. \A i \in 1..Len(e) :
         ~e[i].starts /\ ~e[i].vetoed =>
           i > 1 /\ e[i - 1].event = e[i].event /\ ~e[i - 1].vetoed
  <2> SUFFICES ASSUME NEW i \in 1..Len(e), ~e[i].starts, ~e[i].vetoed
               PROVE  i > 1 /\ e[i - 1].event = e[i].event /\ ~e[i - 1].vetoed
    OBVIOUS
  <2>1. CASE i \in 1..L
    <3>1. e[i] = f[i]
      BY <1>4, <2>1
    <3>2. i > 1 /\ f[i - 1].event = f[i].event /\ ~f[i - 1].vetoed
      BY <2>1, <3>1 DEF Proper, L
    <3>3. i - 1 \in 1..L
      BY <1>2, <2>1, <3>2
    <3> QED
      BY <1>4, <3>1, <3>2, <3>3
  <2>2. CASE i = L + 1
    <3>1. e[i] = s[1] /\ e[i].event = b[1].event /\ e[i].vetoed = ~accepted
      BY <1>5, <1>7, <2>2
    <3>2. ~starts /\ accepted
      <4>1. s[1].starts = (starts /\ 1 = 1)
        BY <1>1, <1>7
      <4> QED
        BY <3>1, <4>1
    <3>3. f # <<>> /\ f[L].event = b[1].event /\ ~f[L].vetoed
      BY <3>2 DEF L
    <3>4. L \in 1..L /\ i - 1 = L /\ i > 1
      BY <1>2, <2>2, <3>3
    <3>5. e[i - 1] = f[L]
      BY <1>4, <3>4
    <3> QED
      BY <3>1, <3>3, <3>4, <3>5
  <2>3. CASE i > L + 1
    <3>1. PICK j \in 1..K - 1 : i - 1 = L + j
      <4>1. i - 1 - L \in 1..K - 1 /\ i - 1 = L + (i - 1 - L)
        BY <1>2, <1>3, <2>3
      <4> QED
        BY <4>1
    <3>2. j \in 1..K /\ j + 1 \in 1..K /\ i = L + (j + 1) /\ i > 1
      BY <1>2, <1>3, <3>1
    <3>3. e[i - 1].event = b[1].event /\ e[i - 1].vetoed = ~accepted
      BY <1>5, <3>1, <3>2
    <3>4. e[i].event = b[1].event /\ e[i].vetoed = ~accepted
      BY <1>5, <3>2
    <3> QED
      BY <3>2, <3>3, <3>4
  <2> QED
    BY <1>2, <1>3, <2>1, <2>2, <2>3
<1>11. Proper(e)
  BY <1>8, <1>9, <1>10 DEF Proper
<1>12. e[Len(e)].n = b[Len(b)].n /\ e[Len(e)].event = b[1].event
       /\ e[Len(e)].window = w /\ e[Len(e)].vetoed = ~accepted
  <2>1. e[L + K] = s[K] /\ e[L + K].event = b[1].event
       /\ e[L + K].window = w /\ e[L + K].vetoed = ~accepted
    BY <1>5, <1>7
  <2>2. s[K].n = b[K].n
    BY <1>1, <1>7
  <2> QED
    BY <1>3, <2>1, <2>2 DEF K
<1>13. e[L + 1].starts = starts
  <2>1. e[L + 1] = s[1] /\ s[1].starts = (starts /\ 1 = 1)
    BY <1>1, <1>5, <1>7
  <2> QED
    BY <2>1
<1> QED
  BY <1>3, <1>11, <1>12, <1>13 DEF e, s, L, K, ExtendedBy
\* File e ends with buffer b, all of it if the buffer is full.
EndsWith(e, b, w, vetoed) ==
  /\ e # <<>>
  /\ e[Len(e)].n = b[Len(b)].n
  /\ e[Len(e)].event = b[Len(b)].event
  /\ e[Len(e)].window = w
  /\ e[Len(e)].vetoed = vetoed
  /\ Len(b) = Capacity => Len(e) >= Capacity /\ e[Len(e) - Capacity + 1].starts

\* A buffer that is put to the file as an event of its own is what the file ends with.
LEMMA ExtendByEvent ==
  ASSUME NEW f \in Seq(Entry), Proper(f),
         NEW b \in Seq(Block), b # <<>>, HoldsOneEvent(b),
         NEW w \in Nat, NEW accepted \in BOOLEAN,
         f # <<>> => f[Len(f)].n < b[1].n,
         f # <<>> /\ f[Len(f)].window = w => Continues(f, b[1].n)
  PROVE  LET e == f \o Written(b, TRUE, w, accepted)
         IN  e \in Seq(Entry) /\ Proper(e) /\ EndsWith(e, b, w, ~accepted)
<1> DEFINE e == f \o Written(b, TRUE, w, accepted)
<1>1. /\ e \in Seq(Entry) /\ Len(e) = Len(f) + Len(b)
      /\ Proper(e)
      /\ e[Len(e)].n = b[Len(b)].n /\ e[Len(e)].event = b[1].event
      /\ e[Len(e)].window = w /\ e[Len(e)].vetoed = ~accepted
      /\ e[Len(f) + 1].starts = TRUE
  <2>1. ASSUME NEW starts \in BOOLEAN, starts = TRUE
        PROVE  ExtendedBy(f, b, starts, w, accepted)
    <3>1. ~starts /\ accepted =>
            f # <<>> /\ f[Len(f)].event = b[1].event /\ ~f[Len(f)].vetoed
      BY <2>1
    <3> HIDE DEF e
    <3> QED
      BY <3>1, Extend
  <2>2. ExtendedBy(f, b, TRUE, w, accepted)
    BY <2>1
  <2> QED
    BY <2>2 DEF ExtendedBy
<1> HIDE DEF e
<1>2. Len(f) \in Nat /\ Len(b) \in Nat \ {0} /\ Len(b) \in 1..Len(b)
  BY EntriesAre, BlocksAre
<1>3. e # <<>>
  BY <1>1, <1>2, EntriesAre
<1>4. b[Len(b)].event = b[1].event
  BY <1>2 DEF HoldsOneEvent
<1>5. Len(b) = Capacity => Len(e) >= Capacity /\ Len(e) - Capacity + 1 = Len(f) + 1
  BY <1>1, <1>2
<1>6. EndsWith(e, b, w, ~accepted)
  BY <1>1, <1>3, <1>4, <1>5 DEF EndsWith
<1> QED
  BY <1>1, <1>6 DEF e

\* What follows a buffer continues a file that ends with it.
LEMMA FileGoesOn ==
  ASSUME NEW e, NEW b, NEW w, NEW vetoed, EndsWith(e, b, w, vetoed), NEW m,
         Follows(m, b)
  PROVE  Continues(e, m) /\ e[Len(e)].n < m
BY DEF EndsWith, Follows, Continues

\* It is all the same whether the file is put together from the front or the back.
LEMMA PutAfter ==
  \A s, t, u \in Seq(Entry) : (s \o t) \o u = s \o (t \o u)
<1> TAKE s, t, u \in Seq(Entry)
<1> QED
  BY ConcatAssociative

\* The buffers of the ring, put to the file one after the other.
LEMMA WriteAll ==
  ASSUME NEW ring, IsRing(ring), NEW q \in 1..Size(ring), Chained(ring, q),
         NEW f \in Seq(Entry), Proper(f),
         NEW w \in Nat, f # <<>> => f[Len(f)].window < w,
         f # <<>> => f[Len(f)].n < Aged(ring, Size(ring) - q + 1)[1].n,
         NEW accepted \in [1..q -> BOOLEAN]
  PROVE  LET buffers == GetEventBuffers(ring)
             e == f \o FlattenSeq([i \in 1..Len(buffers) |->
                                     Written(buffers[i], TRUE, w, accepted[i])])
         IN  /\ Len(buffers) = q
             /\ e \in Seq(Entry) /\ Proper(e)
             /\ EndsWith(e, Aged(ring, Size(ring)), w, ~accepted[q])
<1> DEFINE N    == Size(ring)
           B    == [i \in 1..q |-> Aged(ring, N - q + i)]
           seqs == [i \in 1..q |-> Written(B[i], TRUE, w, accepted[i])]
<1>1. N \in Nat \ {0} /\ q \in 1..N /\ q \in Nat /\ 1 \in 1..q /\ q \in 1..q
  BY AgedType
<1>2. \A k \in 1..N : Aged(ring, k) \in Seq(Block) /\ HoldsOneEvent(Aged(ring, k))
                      /\ (Aged(ring, k) # <<>> <=> k > N - q)
  BY AgedType DEF Chained
<1>3. GetEventBuffers(ring) = B
  BY GetEventBuffersIs
<1>4. \A i \in 1..q : B[i] = Aged(ring, N - q + i)
  OBVIOUS
<1>5. B = [i \in 1..q |-> B[i]] /\ seqs = [i \in 1..q |-> seqs[i]]
  OBVIOUS
<1>6. \A i \in 1..q : seqs[i] = Written(B[i], TRUE, w, accepted[i])
  OBVIOUS
<1> HIDE DEF N, B, seqs
<1>7. \A i \in 1..q : B[i] \in Seq(Block) /\ HoldsOneEvent(B[i]) /\ B[i] # <<>>
  <2> TAKE i \in 1..q
  <2>1. N - q + i \in 1..N /\ N - q + i > N - q
    BY <1>1
  <2> QED
    BY <1>2, <1>4, <2>1
<1>8. Len(B) = q
  <2>1. B \in [1..q -> Seq(Block)]
    BY <1>5, <1>7
  <2>2. B \in Seq(Seq(Block))
    BY <1>1, <2>1, SeqOfFunction
  <2> QED
    BY <1>1, <2>1, <2>2, LenProperties
<1>9. \A i \in 1..q : accepted[i] \in BOOLEAN /\ seqs[i] \in Seq(Entry)
  <2> TAKE i \in 1..q
  <2>1. accepted[i] \in BOOLEAN /\ TRUE \in BOOLEAN
    OBVIOUS
  <2>2. Written(B[i], TRUE, w, accepted[i]) \in Seq(Entry)
    BY <1>7, <2>1, WrittenIs
  <2> QED
    BY <1>6, <2>1, <2>2
<1>10. Len(seqs) = q
  <2>1. seqs \in [1..q -> Seq(Entry)]
    BY <1>5, <1>9
  <2>2. seqs \in Seq(Seq(Entry))
    BY <1>1, <2>1, SeqOfFunction
  <2> QED
    BY <1>1, <2>1, <2>2, LenProperties
<1>11. PICK g : /\ FlattenSeq(seqs) = g[q] /\ g[1] = seqs[1]
                /\ \A i \in 2..q : g[i] = g[i - 1] \o seqs[i]
  <2>1. Len(seqs) \in Nat \ {0}
    BY <1>1, <1>10
  <2>2. \E g : /\ FlattenSeq(seqs) = g[Len(seqs)] /\ g[1] = seqs[1]
               /\ \A i \in 2..Len(seqs) : g[i] = g[i - 1] \o seqs[i]
    BY <2>1, FlattenIs
  <2> QED
    BY <1>10, <2>2
<1> DEFINE e(i) == f \o g[i]
           P(i) == /\ g[i] \in Seq(Entry) /\ e(i) \in Seq(Entry) /\ Proper(e(i))
                   /\ EndsWith(e(i), B[i], w, ~accepted[i])
           A    == {n \in Nat : n + 1 \in 1..q => P(n + 1)}
<1>12. P(1)
  <2>1. B[1] = Aged(ring, N - q + 1)
    BY <1>1, <1>4
  <2>2. f # <<>> => f[Len(f)].n < B[1][1].n
    BY <2>1 DEF N
  <2>3. ~(f # <<>> /\ f[Len(f)].window = w)
    <3>1. f # <<>> => Len(f) \in 1..Len(f) /\ f[Len(f)].window \in Nat
      BY EntriesAre
    <3> QED
      BY <3>1
  <2>4. e(1) = f \o Written(B[1], TRUE, w, accepted[1])
    BY <1>1, <1>6, <1>11
  <2>5. B[1] \in Seq(Block) /\ HoldsOneEvent(B[1]) /\ B[1] # <<>> /\ accepted[1] \in BOOLEAN
    BY <1>1, <1>7, <1>9
  <2>6. LET x == f \o Written(B[1], TRUE, w, accepted[1])
        IN  x \in Seq(Entry) /\ Proper(x) /\ EndsWith(x, B[1], w, ~accepted[1])
    BY <2>2, <2>3, <2>5, ExtendByEvent
  <2>7. g[1] \in Seq(Entry)
    BY <1>1, <1>9, <1>11
  <2> HIDE DEF e
  <2> QED
    BY <2>4, <2>6, <2>7
<1>13. ASSUME NEW n \in Nat, n \in A PROVE n + 1 \in A
  <2> DEFINE i == n + 1
  <2> SUFFICES ASSUME i + 1 \in 1..q PROVE P(i + 1)
    OBVIOUS
  <2>1. i \in 1..q /\ i + 1 \in 2..q /\ i + 1 \in 1..q /\ (i + 1) - 1 = i
    BY <1>1
  <2>2. P(i)
    BY <1>13, <2>1
  <2> HIDE DEF A
  <2>3. Follows(B[i + 1][1].n, B[i])
    <3>1. /\ N - q + i \in N - q + 1..N - 1
          /\ (N - q + i) + 1 = N - q + (i + 1)
      BY <1>1, <2>1
    <3>2. Follows(Aged(ring, (N - q + i) + 1)[1].n, Aged(ring, N - q + i))
      BY <3>1 DEF Chained, N
    <3> QED
      BY <1>4, <2>1, <3>1, <3>2
  <2> HIDE DEF i
  <2>4. Continues(e(i), B[i + 1][1].n) /\ e(i)[Len(e(i))].n < B[i + 1][1].n
    BY <2>2, <2>3, FileGoesOn
  <2>5. g[i + 1] = g[i] \o seqs[i + 1] /\ seqs[i + 1] \in Seq(Entry)
    BY <1>9, <1>11, <2>1
  <2>6. e(i + 1) = e(i) \o seqs[i + 1] /\ g[i + 1] \in Seq(Entry)
    <3>1. (f \o g[i]) \o seqs[i + 1] = f \o (g[i] \o seqs[i + 1])
      <4>1. g[i] \in Seq(Entry) /\ seqs[i + 1] \in Seq(Entry)
        BY <2>2, <2>5
      <4> QED
        BY <4>1, PutAfter, Zenon
    <3>2. g[i] \o seqs[i + 1] \in Seq(Entry)
      BY <2>2, <2>5
    <3> QED
      BY <2>5, <3>1, <3>2
  <2>7. /\ B[i + 1] \in Seq(Block) /\ HoldsOneEvent(B[i + 1]) /\ B[i + 1] # <<>>
        /\ accepted[i + 1] \in BOOLEAN
        /\ seqs[i + 1] = Written(B[i + 1], TRUE, w, accepted[i + 1])
    BY <1>6, <1>7, <1>9, <2>1
  <2> HIDE DEF e
  <2>8. LET x == e(i) \o Written(B[i + 1], TRUE, w, accepted[i + 1])
        IN  x \in Seq(Entry) /\ Proper(x) /\ EndsWith(x, B[i + 1], w, ~accepted[i + 1])
    BY <2>2, <2>4, <2>7, ExtendByEvent
  <2> QED
    BY <2>6, <2>7, <2>8
<1>14. P(q)
  <2>1. 0 \in A
    <3> HIDE DEF P
    <3> QED
      BY <1>12
  <2>2. \A n \in Nat : n \in A
    <3> HIDE DEF A
    <3> QED
      BY <1>13, <2>1, NumbersByInduction
  <2>3. q - 1 \in A /\ (q - 1) + 1 = q
    <3>1. q - 1 \in Nat /\ (q - 1) + 1 = q
      BY <1>1
    <3> HIDE DEF A
    <3> QED
      BY <2>2, <3>1
  <2> HIDE DEF P
  <2> QED
    BY <1>1, <2>3
<1>15. B[q] = Aged(ring, N)
  <2>1. N - q + q = N
    BY <1>1
  <2> QED
    BY <1>1, <1>4, <2>1
<1> QED
  <2>1. [i \in 1..Len(B) |-> Written(B[i], TRUE, w, accepted[i])] = seqs
    BY <1>5, <1>6, <1>8
  <2> QED
    BY <1>3, <1>8, <1>11, <1>14, <1>15, <2>1 DEF N
-----------------------------------------------------------------------------
\* The steps.

IInv == TypeOK /\ RingInv /\ ContextInv

\* A ring in which every buffer is empty.
LEMMA NothingBuffered ==
  ASSUME NEW ring, IsRing(ring), \A k \in 1..Size(ring) : Aged(ring, k) = <<>>,
         NEW n, NEW h, NEW f, f # <<>> => f[Len(f)].n <= n
  PROVE  /\ 0 \in 0..Size(ring)
         /\ Chained(ring, 0) /\ Current(ring, 0, n, h) /\ NotYetIn(f, ring, 0, n)
<1>1. Size(ring) \in Nat
  BY AgedType
<1>2. HoldsOneEvent(<<>>)
  BY CapacityAssumption DEF HoldsOneEvent
<1>3. \A k \in 1..Size(ring) : ~(k > Size(ring) - 0)
  BY <1>1
<1>4. \A k \in Size(ring) - 0 + 1..Size(ring) - 1 : FALSE
  BY <1>1
<1>5. Chained(ring, 0)
  <2>1. \A k \in 1..Size(ring) : /\ HoldsOneEvent(Aged(ring, k))
                                 /\ Aged(ring, k) # <<>> <=> k > Size(ring) - 0
    BY <1>2, <1>3
  <2> QED
    BY <1>4, <2>1 DEF Chained
<1>6. ~(0 > 0)
  OBVIOUS
<1> QED
  BY <1>1, <1>5, <1>6 DEF Current, NotYetIn

\* The oldest of the filled buffers has a first block.
LEMMA OldestIs ==
  ASSUME NEW ring, IsRing(ring), NEW q \in 1..Size(ring), Chained(ring, q)
  PROVE  Aged(ring, Size(ring) - q + 1)[1].n \in Nat
<1>1. Size(ring) - q + 1 \in 1..Size(ring) /\ Size(ring) - q + 1 > Size(ring) - q
  BY AgedType
<1>2. Aged(ring, Size(ring) - q + 1) \in Seq(Block) /\ Aged(ring, Size(ring) - q + 1) # <<>>
  BY <1>1, AgedType DEF Chained
<1> QED
  BY <1>2, BlocksAre

\* setSize makes the ring as large as it was asked for.
LEMMA SetSizeIs ==
  ASSUME NEW ring, IsRing(ring), NEW size \in Nat
  PROVE  LET new == SetSize(ring, size)
         IN  /\ Size(new) \in Nat /\ Size(new) >= size /\ Size(new) >= Size(ring)
             /\ \A i \in 1..Size(new) :
                  new.buf[i] = IF i <= Size(ring) THEN ring.buf[i] ELSE <<>>
<1> DEFINE N == IF size > Size(ring) THEN size ELSE Size(ring)
           b == [i \in 1..N |-> IF i <= Size(ring) THEN ring.buf[i] ELSE <<>>]
<1>1. N \in Nat /\ Size(ring) \in Nat /\ N >= size /\ N >= Size(ring)
  BY DEF IsRing, Size
<1>2. SetSize(ring, size).buf = b
  BY DEF SetSize
<1>3. \A i \in 1..Size(ring) : ring.buf[i] \in Seq(Block)
  BY DEF IsRing, Size
<1>4. b \in [1..N -> Seq(Block)]
  BY <1>1, <1>3
<1>5. \A i \in 1..N : b[i] = IF i <= Size(ring) THEN ring.buf[i] ELSE <<>>
  OBVIOUS
<1> HIDE DEF b, N
<1>6. b \in Seq(Seq(Block))
  BY <1>1, <1>4, SeqOfFunction
<1>7. Len(b) = N
  BY <1>1, <1>4, <1>6, LenProperties
<1> QED
  BY <1>1, <1>2, <1>5, <1>7 DEF Size

\* The invariant holds after a step if its parts do of the values after the step.
LEMMA ContextAfter ==
  ASSUME file' # <<>> => file'[Len(file')].window <= badEventCount',
         Proper(file'),
         NEW q \in 0..Size(eventBufferRing'),
         Chained(eventBufferRing', q),
         Current(eventBufferRing', q, nBlocks', nHeaders'),
         NotYetIn(file', eventBufferRing', q, nBlocks'),
         countSinceBadEvent' <= NToWriteAfterBadEvent =>
           /\ q = 0 /\ file' # <<>>
           /\ Continues(file', nBlocks' + 1)
           /\ file'[Len(file')].event = nHeaders'
           /\ file'[Len(file')].vetoed = fileWritingVetoed'
  PROVE  ContextInv'
<1>1. Proper(file)'
  BY DEF Proper
<1>2. q \in 0..Size(eventBufferRing)'
  BY DEF Size
<1>3. Chained(eventBufferRing, q)'
  BY DEF Chained, HoldsOneEvent, Follows, Aged, PosAfterCurrent, Size
<1>4. Current(eventBufferRing, q, nBlocks, nHeaders)'
  BY DEF Current, Follows, Aged, PosAfterCurrent, Size
<1>5. NotYetIn(file, eventBufferRing, q, nBlocks)'
  BY DEF NotYetIn, Aged, PosAfterCurrent, Size
<1>6. Trailing(q)'
  BY DEF Trailing, Continues
<1> QED
  BY <1>1, <1>2, <1>3, <1>4, <1>5, <1>6 DEF ContextInv

\* The same for the types.
LEMMA TypesAfter ==
  ASSUME nToWriteBeforeBadEvent' \in BeforeChoices,
         IsRing(eventBufferRing'),
         Size(eventBufferRing') >= nToWriteBeforeBadEvent',
         countSinceBadEvent' \in 0..NToWriteAfterBadEvent + 1,
         badEventCount' \in Nat, insideEvent' \in BOOLEAN,
         fileWritingVetoed' \in BOOLEAN, file' \in Seq(Entry),
         nBlocks' \in Nat, nHeaders' \in Nat, run' \in Nat
  PROVE  TypeOK'
<1>1. IsRing(eventBufferRing)'
  BY DEF IsRing, Size
<1>2. (Size(eventBufferRing) >= nToWriteBeforeBadEvent)'
  BY DEF Size
<1> QED
  BY <1>1, <1>2 DEF TypeOK, Entry

LEMMA InitIInv == Init => IInv
<1> SUFFICES ASSUME Init PROVE IInv
  OBVIOUS
<1> DEFINE ring == eventBufferRing
<1>1. RingInv
  BY InitRingInv
<1>2. nToWriteBeforeBadEvent \in Nat /\ ring = SetSize(NewRing, nToWriteBeforeBadEvent)
  BY BadEventAssumption DEF Init
<1>3. IsRing(ring) /\ IsRing(NewRing) /\ Size(NewRing) = 1 /\ NewRing.buf[1] = <<>>
  BY <1>1, NewRingLemma DEF RingInv, NewRing, Size
<1>4. /\ Size(ring) >= nToWriteBeforeBadEvent /\ Size(ring) \in Nat
      /\ \A i \in 1..Size(ring) : ring.buf[i] = <<>>
  <2>1. LET new == SetSize(NewRing, nToWriteBeforeBadEvent)
        IN  /\ Size(new) \in Nat /\ Size(new) >= nToWriteBeforeBadEvent
            /\ \A i \in 1..Size(new) :
                 new.buf[i] = IF i <= Size(NewRing) THEN NewRing.buf[i] ELSE <<>>
    BY <1>2, <1>3, SetSizeIs
  <2>2. \A i \in 1..Size(ring) : ring.buf[i] = IF i <= 1 THEN NewRing.buf[i] ELSE <<>>
    BY <1>2, <1>3, <2>1
  <2>3. \A i \in 1..Size(ring) : i <= 1 => i = 1
    BY <1>2, <2>1
  <2> QED
    BY <1>2, <1>3, <2>1, <2>2, <2>3
<1>5. \A k \in 1..Size(ring) : Aged(ring, k) = <<>>
  BY <1>3, <1>4, PositionIs DEF Aged
<1>6. file = <<>> /\ Proper(file) /\ file \in Seq(Entry)
  BY DEF Init, Proper
<1>7. ContextInv
  <2>1. countSinceBadEvent = NToWriteAfterBadEvent + 1 /\ NToWriteAfterBadEvent \in Nat
    BY BadEventAssumption DEF Init
  <2>2. Trailing(0)
    BY <2>1 DEF Trailing
  <2>3. /\ 0 \in 0..Size(ring) /\ Chained(ring, 0)
        /\ Current(ring, 0, nBlocks, nHeaders) /\ NotYetIn(file, ring, 0, nBlocks)
    BY <1>3, <1>5, <1>6, NothingBuffered
  <2> QED
    BY <1>6, <2>2, <2>3 DEF ContextInv
<1>8. TypeOK
  <2>1. /\ nToWriteBeforeBadEvent \in BeforeChoices
        /\ countSinceBadEvent \in 0..NToWriteAfterBadEvent + 1
        /\ badEventCount \in Nat /\ nBlocks \in Nat /\ nHeaders \in Nat /\ run \in Nat
    BY BadEventAssumption DEF Init
  <2>2. insideEvent \in BOOLEAN /\ fileWritingVetoed \in BOOLEAN
    BY DEF Init
  <2>3. file \in Seq([n : Nat, event : Nat, starts : BOOLEAN, window : Nat,
                      vetoed : BOOLEAN])
    BY <1>6 DEF Entry
  <2> QED
    BY <1>3, <1>4, <2>1, <2>2, <2>3 DEF TypeOK
<1> QED
  BY <1>1, <1>7, <1>8 DEF IInv

\* Configure empties the ring and begins a new file.
LEMMA ConfigureStep ==
  ASSUME IInv, Configure
  PROVE  TypeOK' /\ ContextInv'
<1> DEFINE grown == SetSize(eventBufferRing, nToWriteBeforeBadEvent')
           ring  == eventBufferRing'
<1>1. /\ nToWriteBeforeBadEvent' \in BeforeChoices /\ nToWriteBeforeBadEvent' \in Nat
      /\ ring = EmptyEventBuffers(grown)
      /\ countSinceBadEvent' = NToWriteAfterBadEvent + 1 /\ NToWriteAfterBadEvent \in Nat
      /\ badEventCount' = 0 /\ insideEvent' = FALSE /\ fileWritingVetoed' = FALSE
      /\ file' = <<>> /\ nBlocks' = 0 /\ nHeaders' = 0
      /\ run' = run + 1 /\ run \in Nat
  BY BadEventAssumption DEF Configure, IInv, TypeOK
<1>2. IsRing(grown) /\ Size(grown) >= nToWriteBeforeBadEvent'
  <2>1. /\ IsRing(eventBufferRing) /\ InOrder(eventBufferRing)
        /\ UpTo(eventBufferRing, nBlocks) /\ nBlocks \in Nat
    BY DEF IInv, RingInv
  <2>2. IsRing(grown)
    BY <1>1, <2>1, SetSizeLemma
  <2>3. Size(grown) >= nToWriteBeforeBadEvent'
    BY <1>1, <2>1, SetSizeIs
  <2> QED
    BY <2>2, <2>3
<1> HIDE DEF grown
<1>3. /\ IsRing(ring) /\ Size(ring) = Size(grown)
      /\ \A k \in 1..Size(ring) : Aged(ring, k) = <<>>
  BY <1>1, <1>2, EmptyByAge
<1>4. Proper(file') /\ file' \in Seq(Entry)
  BY <1>1 DEF Proper
<1>5. TypeOK'
  <2>1. insideEvent' \in BOOLEAN /\ fileWritingVetoed' \in BOOLEAN
    BY <1>1
  <2>2. /\ countSinceBadEvent' \in 0..NToWriteAfterBadEvent + 1
        /\ badEventCount' \in Nat /\ nBlocks' \in Nat /\ nHeaders' \in Nat /\ run' \in Nat
    BY <1>1
  <2>3. Size(ring) >= nToWriteBeforeBadEvent'
    BY <1>2, <1>3
  <2> HIDE DEF ring
  <2> QED
    BY <1>1, <1>3, <1>4, <2>1, <2>2, <2>3, TypesAfter DEF ring
<1>6. ~(countSinceBadEvent' <= NToWriteAfterBadEvent)
  BY <1>1
<1>7. /\ 0 \in 0..Size(ring) /\ Chained(ring, 0)
      /\ Current(ring, 0, nBlocks', nHeaders') /\ NotYetIn(file', ring, 0, nBlocks')
  BY <1>1, <1>3, NothingBuffered
<1>8. ContextInv'
  BY <1>1, <1>4, <1>6, <1>7, ContextAfter
<1> QED
  BY <1>5, <1>8
\* What all the ways of handling a block share.
LEMMA BlockRead ==
  ASSUME IInv, NEW header \in BOOLEAN, NEW trailer \in BOOLEAN,
         NEW isBadEvent \in BOOLEAN, ReadBlock(header, trailer, isBadEvent)
  PROVE  LET block    == [n |-> nBlocks + 1,
                          event |-> nHeaders + (IF header THEN 1 ELSE 0)]
             newEvent == IF insideEvent THEN header ELSE header \/ trailer
         IN  /\ block \in Block /\ newEvent \in BOOLEAN
             /\ block.n = nBlocks + 1 /\ (~newEvent => block.event = nHeaders)
             /\ nBlocks' = block.n /\ nHeaders' = block.event
             /\ nBlocks \in Nat /\ nHeaders \in Nat
             /\ nBlocks' \in Nat /\ nHeaders' \in Nat
             /\ insideEvent' \in BOOLEAN
             /\ nToWriteBeforeBadEvent' = nToWriteBeforeBadEvent /\ run' = run
             /\ \/ WriteTrailingContext(block, newEvent)
                \/ BufferBlock(block, newEvent)
                \/ SelectBadEvent(block, newEvent)
                \/ DropBadEvent(block, newEvent)
<1> DEFINE block    == [n |-> nBlocks + 1,
                        event |-> nHeaders + (IF header THEN 1 ELSE 0)]
           newEvent == IF insideEvent THEN header ELSE header \/ trailer
<1>1. nBlocks \in Nat /\ nHeaders \in Nat /\ insideEvent \in BOOLEAN
  BY DEF IInv, TypeOK
<1>2. newEvent \in BOOLEAN /\ (~newEvent => ~header)
  BY <1>1
<1>3. /\ block \in Block /\ block.n = nBlocks + 1 /\ (~header => block.event = nHeaders)
      /\ block.n \in Nat /\ block.event \in Nat
  BY <1>1 DEF Block
<1>4. /\ nBlocks' = block.n /\ nHeaders' = block.event
      /\ nToWriteBeforeBadEvent' = nToWriteBeforeBadEvent /\ run' = run
  BY DEF ReadBlock
<1>5. insideEvent' \in BOOLEAN
  BY DEF ReadBlock
<1>6. \/ WriteTrailingContext(block, newEvent)
      \/ BufferBlock(block, newEvent)
      \/ SelectBadEvent(block, newEvent)
      \/ DropBadEvent(block, newEvent)
  BY DEF ReadBlock
<1> HIDE DEF block, newEvent
<1> QED
  BY <1>1, <1>2, <1>3, <1>4, <1>5, <1>6 DEF block, newEvent

\* Trailing context goes on from what is in the file.
LEMMA TrailingStep ==
  ASSUME IInv, NEW block \in Block, NEW newEvent \in BOOLEAN,
         block.n = nBlocks + 1, ~newEvent => block.event = nHeaders,
         nBlocks' = block.n, nHeaders' = block.event,
         WriteTrailingContext(block, newEvent)
  PROVE  /\ IsRing(eventBufferRing') /\ Size(eventBufferRing') = Size(eventBufferRing)
         /\ countSinceBadEvent' \in 0..NToWriteAfterBadEvent + 1
         /\ badEventCount' \in Nat /\ fileWritingVetoed' \in BOOLEAN
         /\ file' \in Seq(Entry)
         /\ ContextInv'
<1> DEFINE ring == eventBufferRing
<1>1. /\ countSinceBadEvent \in 0..NToWriteAfterBadEvent + 1
      /\ countSinceBadEvent <= NToWriteAfterBadEvent /\ NToWriteAfterBadEvent \in Nat
      /\ countSinceBadEvent' = countSinceBadEvent + (IF newEvent THEN 1 ELSE 0)
      /\ eventBufferRing' = ring /\ badEventCount' = badEventCount
      /\ badEventCount \in Nat /\ nBlocks \in Nat /\ IsRing(ring)
  BY BadEventAssumption DEF WriteTrailingContext, IInv, TypeOK
<1>2. file \in Seq(Entry) /\ Proper(file) /\ fileWritingVetoed \in BOOLEAN
  BY DEF IInv, TypeOK, ContextInv, Entry
<1>3. PICK q \in 0..Size(ring) :
        /\ Chained(ring, q) /\ Current(ring, q, nBlocks, nHeaders)
        /\ NotYetIn(file, ring, q, nBlocks) /\ Trailing(q)
  BY DEF IInv, ContextInv
<1>4. /\ q = 0 /\ file # <<>> /\ Continues(file, nBlocks + 1)
      /\ file[Len(file)].event = nHeaders
      /\ file[Len(file)].vetoed = fileWritingVetoed
  BY <1>1, <1>3 DEF Trailing
<1>5. PICK accepted \in Verdicts :
        /\ fileWritingVetoed' = IF newEvent THEN ~accepted ELSE fileWritingVetoed
        /\ file' = file \o Written(<<block>>, newEvent, badEventCount, ~fileWritingVetoed')
  BY DEF WriteTrailingContext, WriteDataToFile, WriteBlockToFile
<1>6. fileWritingVetoed' \in BOOLEAN
  BY <1>2, <1>5, BadEventAssumption
<1>7. PICK go \in BOOLEAN : go = ~fileWritingVetoed'
  OBVIOUS
<1> DEFINE b == <<block>>
<1>8. b \in Seq(Block) /\ b # <<>> /\ b[1] = block /\ Len(b) = 1 /\ HoldsOneEvent(b)
  <2>1. b \in Seq(Block) /\ b # <<>> /\ b[1] = block /\ HoldsOneEvent(b)
    BY BufferBegun
  <2> QED
    BY <2>1
<1>9. block.n \in Nat
  BY DEF Block
<1> HIDE DEF b
<1>10. /\ file' \in Seq(Entry) /\ Len(file') = Len(file) + 1
       /\ Proper(file')
       /\ file'[Len(file')].n = block.n /\ file'[Len(file')].event = block.event
       /\ file'[Len(file')].window = badEventCount /\ file'[Len(file')].vetoed = ~go
  <2>1. file # <<>> => file[Len(file)].n < b[1].n
    BY <1>4, <1>8 DEF Continues
  <2>2. file # <<>> /\ file[Len(file)].window = badEventCount => Continues(file, b[1].n)
    BY <1>4, <1>8
  <2>3. ~newEvent /\ go =>
          file # <<>> /\ file[Len(file)].event = b[1].event /\ ~file[Len(file)].vetoed
    BY <1>4, <1>5, <1>7, <1>8
  <2>4. badEventCount \in Nat
    BY <1>1
  <2>5. ExtendedBy(file, b, newEvent, badEventCount, go)
    BY <1>2, <1>8, <2>1, <2>2, <2>3, <2>4, Extend
  <2>6. file' = file \o Written(b, newEvent, badEventCount, go)
    BY <1>5, <1>7 DEF b
  <2> QED
    BY <1>8, <2>5, <2>6 DEF ExtendedBy
<1>11. file' # <<>>
  <2>1. Len(file) \in Nat /\ Len(file') > 0
    BY <1>2, <1>10, EntriesAre
  <2> QED
    BY <1>10, <2>1, EntriesAre
<1>12. file'[Len(file')].n = nBlocks' /\ file'[Len(file')].event = nHeaders'
       /\ file'[Len(file')].window <= badEventCount'
  BY <1>1, <1>9, <1>10
<1>13. file'[Len(file')].vetoed = fileWritingVetoed'
  BY <1>6, <1>7, <1>10
<1>14. Continues(file', nBlocks' + 1)
  BY <1>9, <1>12 DEF Continues
<1>15. /\ Chained(ring, 0) /\ Current(ring, 0, nBlocks', nHeaders')
       /\ NotYetIn(file', ring, 0, nBlocks') /\ 0 \in 0..Size(ring)
  BY <1>3, <1>4, <1>9, <1>12 DEF Current, NotYetIn
<1>16. ContextInv'
  BY <1>1, <1>10, <1>11, <1>12, <1>13, <1>14, <1>15, ContextAfter
<1> QED
  BY <1>1, <1>6, <1>10, <1>16
\* What a block finds when no trailing context is written, and the ring with it.
LEMMA BlockAdded ==
  ASSUME IInv, NEW block \in Block, NEW newEvent \in BOOLEAN,
         block.n = nBlocks + 1, ~newEvent => block.event = nHeaders
  PROVE  LET ring == AddData(eventBufferRing, block, newEvent)
         IN  /\ file \in Seq(Entry) /\ Proper(file)
             /\ block.n \in Nat /\ nBlocks \in Nat
             /\ file # <<>> => /\ file[Len(file)].n \in Nat /\ file[Len(file)].n <= nBlocks
                               /\ file[Len(file)].window \in Nat
                               /\ file[Len(file)].window <= badEventCount
             /\ IsRing(ring) /\ Size(ring) = Size(eventBufferRing)
             /\ \E r \in 1..Size(ring) :
                  /\ Chained(ring, r) /\ Current(ring, r, block.n, block.event)
                  /\ file # <<>> =>
                       file[Len(file)].n < Aged(ring, Size(ring) - r + 1)[1].n
<1> DEFINE ring == AddData(eventBufferRing, block, newEvent)
           old  == eventBufferRing
<1>1. /\ file \in Seq(Entry) /\ Proper(file) /\ IsRing(old)
      /\ nBlocks \in Nat /\ nHeaders \in Nat
      /\ file # <<>> => file[Len(file)].window <= badEventCount
  BY DEF IInv, TypeOK, ContextInv, Entry
<1>2. PICK q \in 0..Size(old) :
        /\ Chained(old, q) /\ Current(old, q, nBlocks, nHeaders)
        /\ NotYetIn(file, old, q, nBlocks)
  BY DEF IInv, ContextInv
<1>3. file # <<>> => /\ file[Len(file)].n \in Nat /\ file[Len(file)].n <= nBlocks
                     /\ file[Len(file)].window \in Nat
  <2>1. file # <<>> => Len(file) \in 1..Len(file)
    BY <1>1, EntriesAre
  <2>2. file # <<>> => file[Len(file)].n \in Nat /\ file[Len(file)].window \in Nat
    BY <1>1, <2>1, EntriesAre
  <2> QED
    BY <1>2, <2>2 DEF NotYetIn
<1>4. IsRing(ring) /\ Size(ring) = Size(old)
  BY <1>1, AddDataByAge
<1>5. block.n \in Nat
  BY DEF Block
<1> DEFINE r == FilledAfter(q, Size(old), newEvent)
<1>6. /\ r \in 1..Size(old) /\ Chained(ring, r) /\ Current(ring, r, block.n, block.event)
      /\ Aged(ring, Size(old) - r + 1)[1].n >=
           IF q > 0 THEN Aged(old, Size(old) - q + 1)[1].n ELSE block.n
  BY <1>1, <1>2, AddChained
<1> HIDE DEF ring, r
<1>7. Aged(ring, Size(old) - r + 1)[1].n \in Nat
  <2>1. r \in 1..Size(ring)
    BY <1>4, <1>6
  <2> QED
    BY <1>4, <1>6, <2>1, OldestIs
<1>8. file # <<>> => file[Len(file)].n < Aged(ring, Size(old) - r + 1)[1].n
  <2>1. CASE q > 0
    <3>1. q \in 1..Size(old)
      BY <2>1
    <3>2. Aged(old, Size(old) - q + 1)[1].n \in Nat
      BY <1>1, <1>2, <3>1, OldestIs
    <3>3. file # <<>> => file[Len(file)].n < Aged(old, Size(old) - q + 1)[1].n
      BY <1>2, <2>1 DEF NotYetIn
    <3> QED
      BY <1>3, <1>6, <1>7, <2>1, <3>2, <3>3
  <2>2. CASE ~(q > 0)
    BY <1>1, <1>3, <1>5, <1>6, <1>7, <2>2
  <2> QED
    BY <2>1, <2>2
<1>9. \E x \in 1..Size(ring) :
        /\ Chained(ring, x) /\ Current(ring, x, block.n, block.event)
        /\ file # <<>> => file[Len(file)].n < Aged(ring, Size(ring) - x + 1)[1].n
  BY <1>4, <1>6, <1>8
<1> QED
  BY <1>1, <1>3, <1>4, <1>5, <1>9 DEF ring

\* Leading context is buffered.
LEMMA BufferStep ==
  ASSUME IInv, NEW block \in Block, NEW newEvent \in BOOLEAN,
         block.n = nBlocks + 1, ~newEvent => block.event = nHeaders,
         nBlocks' = block.n, nHeaders' = block.event,
         BufferBlock(block, newEvent)
  PROVE  /\ IsRing(eventBufferRing') /\ Size(eventBufferRing') = Size(eventBufferRing)
         /\ countSinceBadEvent' \in 0..NToWriteAfterBadEvent + 1
         /\ badEventCount' \in Nat /\ fileWritingVetoed' \in BOOLEAN
         /\ file' \in Seq(Entry)
         /\ ContextInv'
<1> DEFINE ring == AddData(eventBufferRing, block, newEvent)
<1>1. /\ countSinceBadEvent > NToWriteAfterBadEvent /\ NToWriteAfterBadEvent \in Nat
      /\ countSinceBadEvent \in 0..NToWriteAfterBadEvent + 1
      /\ eventBufferRing' = ring
      /\ countSinceBadEvent' = countSinceBadEvent /\ badEventCount' = badEventCount
      /\ file' = file /\ fileWritingVetoed' = fileWritingVetoed
      /\ badEventCount \in Nat /\ fileWritingVetoed \in BOOLEAN
  BY BadEventAssumption DEF BufferBlock, IInv, TypeOK
<1>2. /\ file \in Seq(Entry) /\ Proper(file)
      /\ file # <<>> => /\ file[Len(file)].n \in Nat /\ file[Len(file)].n <= nBlocks
                        /\ file[Len(file)].window <= badEventCount
      /\ block.n \in Nat /\ nBlocks \in Nat
      /\ IsRing(ring) /\ Size(ring) = Size(eventBufferRing)
  BY BlockAdded
<1>3. PICK r \in 1..Size(ring) :
        /\ Chained(ring, r) /\ Current(ring, r, block.n, block.event)
        /\ file # <<>> => file[Len(file)].n < Aged(ring, Size(ring) - r + 1)[1].n
  BY BlockAdded
<1> HIDE DEF ring
<1>4. file # <<>> => file[Len(file)].n <= block.n
  BY <1>2
<1>5. NotYetIn(file, ring, r, block.n)
  BY <1>3, <1>4 DEF NotYetIn
<1>6. ~(countSinceBadEvent <= NToWriteAfterBadEvent)
  BY <1>1
<1>7. r \in 0..Size(ring)
  OBVIOUS
<1>8. ContextInv'
  BY <1>1, <1>2, <1>3, <1>5, <1>6, <1>7, ContextAfter
<1> QED
  BY <1>1, <1>2, <1>8

\* A bad event that is prescaled away takes its leading context with it.
LEMMA DropStep ==
  ASSUME IInv, NEW block \in Block, NEW newEvent \in BOOLEAN,
         block.n = nBlocks + 1, ~newEvent => block.event = nHeaders,
         nBlocks' = block.n, nHeaders' = block.event,
         DropBadEvent(block, newEvent)
  PROVE  /\ IsRing(eventBufferRing') /\ Size(eventBufferRing') = Size(eventBufferRing)
         /\ countSinceBadEvent' \in 0..NToWriteAfterBadEvent + 1
         /\ badEventCount' \in Nat /\ fileWritingVetoed' \in BOOLEAN
         /\ file' \in Seq(Entry)
         /\ ContextInv'
<1> DEFINE added == AddData(eventBufferRing, block, newEvent)
           ring  == eventBufferRing'
<1>1. /\ countSinceBadEvent > NToWriteAfterBadEvent /\ NToWriteAfterBadEvent \in Nat
      /\ countSinceBadEvent \in 0..NToWriteAfterBadEvent + 1
      /\ ring = EmptyEventBuffers(added)
      /\ countSinceBadEvent' = countSinceBadEvent /\ badEventCount' = badEventCount + 1
      /\ file' = file /\ fileWritingVetoed' = fileWritingVetoed
      /\ badEventCount \in Nat /\ fileWritingVetoed \in BOOLEAN
  BY BadEventAssumption DEF DropBadEvent, IInv, TypeOK
<1>2. /\ file \in Seq(Entry) /\ Proper(file)
      /\ file # <<>> => /\ file[Len(file)].n \in Nat /\ file[Len(file)].n <= nBlocks
                        /\ file[Len(file)].window \in Nat
                        /\ file[Len(file)].window <= badEventCount
      /\ block.n \in Nat /\ nBlocks \in Nat
      /\ IsRing(added) /\ Size(added) = Size(eventBufferRing)
  BY BlockAdded
<1> HIDE DEF added
<1>3. /\ IsRing(ring) /\ Size(ring) = Size(added)
      /\ \A k \in 1..Size(ring) : Aged(ring, k) = <<>>
  BY <1>1, <1>2, EmptyByAge
<1>4. file' # <<>> => file'[Len(file')].n <= nBlocks'
  BY <1>1, <1>2
<1>5. file' # <<>> => file'[Len(file')].window <= badEventCount'
  BY <1>1, <1>2
<1>6. ~(countSinceBadEvent' <= NToWriteAfterBadEvent)
  BY <1>1
<1>7. /\ 0 \in 0..Size(ring) /\ Chained(ring, 0)
      /\ Current(ring, 0, nBlocks', nHeaders') /\ NotYetIn(file', ring, 0, nBlocks')
  BY <1>3, <1>4, NothingBuffered
<1>8. Proper(file')
  BY <1>1, <1>2
<1>9. ContextInv'
  BY <1>5, <1>6, <1>7, <1>8, ContextAfter
<1> QED
  BY <1>1, <1>2, <1>3, <1>9

\* A selected bad event is put to the file with its leading context.
LEMMA SelectStep ==
  ASSUME IInv, NEW block \in Block, NEW newEvent \in BOOLEAN,
         block.n = nBlocks + 1, ~newEvent => block.event = nHeaders,
         nBlocks' = block.n, nHeaders' = block.event,
         SelectBadEvent(block, newEvent)
  PROVE  /\ IsRing(eventBufferRing') /\ Size(eventBufferRing') = Size(eventBufferRing)
         /\ countSinceBadEvent' \in 0..NToWriteAfterBadEvent + 1
         /\ badEventCount' \in Nat /\ fileWritingVetoed' \in BOOLEAN
         /\ file' \in Seq(Entry)
         /\ ContextInv'
<1> DEFINE added   == AddData(eventBufferRing, block, newEvent)
           ring    == eventBufferRing'
           buffers == GetEventBuffers(added)
<1>1. /\ countSinceBadEvent' = 0 /\ NToWriteAfterBadEvent \in Nat
      /\ ring = EmptyEventBuffers(added)
      /\ badEventCount' = badEventCount + 1 /\ badEventCount \in Nat
      /\ WriteBuffersToFile(buffers, badEventCount')
  BY BadEventAssumption DEF SelectBadEvent, IInv, TypeOK
<1>2. /\ file \in Seq(Entry) /\ Proper(file)
      /\ file # <<>> => /\ file[Len(file)].window \in Nat
                        /\ file[Len(file)].window <= badEventCount
      /\ block.n \in Nat /\ nBlocks \in Nat
      /\ IsRing(added) /\ Size(added) = Size(eventBufferRing)
  BY BlockAdded
<1>3. PICK r \in 1..Size(added) :
        /\ Chained(added, r) /\ Current(added, r, block.n, block.event)
        /\ file # <<>> => file[Len(file)].n < Aged(added, Size(added) - r + 1)[1].n
  BY BlockAdded
<1> HIDE DEF added
<1>4. Len(buffers) = r
  <2>1. buffers = [i \in 1..r |-> Aged(added, Size(added) - r + i)]
    BY <1>2, <1>3, GetEventBuffersIs
  <2>2. r \in Nat /\ \A i \in 1..r : Aged(added, Size(added) - r + i) \in Seq(Block)
    BY <1>2, AgedType
  <2> HIDE DEF buffers
  <2>3. buffers \in [1..r -> Seq(Block)]
    BY <2>1, <2>2
  <2>4. buffers \in Seq(Seq(Block))
    BY <2>2, <2>3, SeqOfFunction
  <2> QED
    BY <2>2, <2>3, <2>4, LenProperties
<1> HIDE DEF buffers
<1>5. PICK accepted \in [1..r -> Verdicts] :
        /\ fileWritingVetoed' = ~accepted[r]
        /\ file' = file \o FlattenSeq([i \in 1..Len(buffers) |->
                             Written(buffers[i], TRUE, badEventCount', accepted[i])])
  BY <1>1, <1>4 DEF WriteBuffersToFile
<1>6. accepted \in [1..r -> BOOLEAN]
  BY BadEventAssumption
<1>7. fileWritingVetoed' \in BOOLEAN
  BY <1>5
<1> DEFINE last == Aged(added, Size(added))
<1>8. /\ file' \in Seq(Entry) /\ Proper(file')
      /\ EndsWith(file', last, badEventCount', ~accepted[r])
  <2>1. badEventCount' \in Nat /\ (file # <<>> => file[Len(file)].window < badEventCount')
    BY <1>1, <1>2
  <2>2. LET b == GetEventBuffers(added)
            e == file \o FlattenSeq([i \in 1..Len(b) |->
                                       Written(b[i], TRUE, badEventCount', accepted[i])])
        IN  /\ Len(b) = r
            /\ e \in Seq(Entry) /\ Proper(e)
            /\ EndsWith(e, Aged(added, Size(added)), badEventCount', ~accepted[r])
    BY <1>2, <1>3, <1>6, <2>1, WriteAll
  <2> QED
    BY <1>5, <2>2 DEF buffers
<1>9. /\ IsRing(ring) /\ Size(ring) = Size(added)
      /\ \A k \in 1..Size(ring) : Aged(ring, k) = <<>>
  BY <1>1, <1>2, EmptyByAge
<1>10. Follows(block.n + 1, last) /\ last[Len(last)].event = block.event
  BY <1>3 DEF Current
<1> HIDE DEF last
<1>11. Continues(file', nBlocks' + 1) /\ file'[Len(file')].n < nBlocks' + 1
  BY <1>8, <1>10, FileGoesOn
<1>12. /\ file' # <<>> /\ file'[Len(file')].event = nHeaders'
       /\ file'[Len(file')].window = badEventCount'
  BY <1>8, <1>10 DEF EndsWith
<1>13. file'[Len(file')].vetoed = fileWritingVetoed'
  BY <1>5, <1>8 DEF EndsWith
<1>14. file'[Len(file')].n <= nBlocks' /\ badEventCount' \in Nat
  <2>1. Len(file') \in 1..Len(file')
    BY <1>8, <1>12, EntriesAre
  <2>2. file'[Len(file')].n \in Nat
    BY <1>8, <2>1, EntriesAre
  <2> QED
    BY <1>1, <1>2, <1>11, <2>2
<1>15. /\ 0 \in 0..Size(ring) /\ Chained(ring, 0)
       /\ Current(ring, 0, nBlocks', nHeaders') /\ NotYetIn(file', ring, 0, nBlocks')
  BY <1>9, <1>14, NothingBuffered
<1>16. file' # <<>> => file'[Len(file')].window <= badEventCount'
  BY <1>12, <1>14
<1>17. ContextInv'
  BY <1>8, <1>11, <1>12, <1>13, <1>15, <1>16, ContextAfter
<1> QED
  BY <1>1, <1>2, <1>7, <1>8, <1>9, <1>14, <1>17

LEMMA NextIInv == IInv /\ [Next]_vars => IInv'
<1> SUFFICES ASSUME IInv, [Next]_vars PROVE IInv'
  OBVIOUS
<1>1. RingInv'
  BY NextRingInv DEF IInv
<1>2. CASE Configure
  BY <1>1, <1>2, ConfigureStep DEF IInv
<1>3. ASSUME NEW header \in BOOLEAN, NEW trailer \in BOOLEAN,
             NEW isBadEvent \in BOOLEAN, ReadBlock(header, trailer, isBadEvent)
      PROVE  IInv'
  <2> DEFINE block    == [n |-> nBlocks + 1,
                          event |-> nHeaders + (IF header THEN 1 ELSE 0)]
             newEvent == IF insideEvent THEN header ELSE header \/ trailer
  <2>1. /\ block \in Block /\ newEvent \in BOOLEAN
        /\ block.n = nBlocks + 1 /\ (~newEvent => block.event = nHeaders)
        /\ nBlocks' = block.n /\ nHeaders' = block.event
        /\ nBlocks' \in Nat /\ nHeaders' \in Nat /\ insideEvent' \in BOOLEAN
        /\ nToWriteBeforeBadEvent' = nToWriteBeforeBadEvent /\ run' = run
        /\ \/ WriteTrailingContext(block, newEvent)
           \/ BufferBlock(block, newEvent)
           \/ SelectBadEvent(block, newEvent)
           \/ DropBadEvent(block, newEvent)
    BY <1>3, BlockRead
  <2> HIDE DEF block, newEvent
  <2>2. /\ IsRing(eventBufferRing') /\ Size(eventBufferRing') = Size(eventBufferRing)
        /\ countSinceBadEvent' \in 0..NToWriteAfterBadEvent + 1
        /\ badEventCount' \in Nat /\ fileWritingVetoed' \in BOOLEAN
        /\ file' \in Seq(Entry)
        /\ ContextInv'
    <3>1. CASE WriteTrailingContext(block, newEvent)
      BY <2>1, <3>1, TrailingStep
    <3>2. CASE BufferBlock(block, newEvent)
      BY <2>1, <3>2, BufferStep
    <3>3. CASE SelectBadEvent(block, newEvent)
      BY <2>1, <3>3, SelectStep
    <3>4. CASE DropBadEvent(block, newEvent)
      BY <2>1, <3>4, DropStep
    <3> QED
      BY <2>1, <3>1, <3>2, <3>3, <3>4
  <2>3. /\ nToWriteBeforeBadEvent' \in BeforeChoices /\ run' \in Nat
        /\ Size(eventBufferRing') >= nToWriteBeforeBadEvent'
    BY <2>1, <2>2 DEF IInv, TypeOK
  <2>4. TypeOK'
    BY <2>1, <2>2, <2>3, TypesAfter
  <2> QED
    BY <1>1, <2>2, <2>4 DEF IInv
<1>4. CASE UNCHANGED vars
  <2>1. TypeOK' /\ ContextInv'
    BY <1>4 DEF vars, IInv, TypeOK, ContextInv, IsRing, Size, Proper, Chained,
             HoldsOneEvent, Follows, Aged, PosAfterCurrent, Current, NotYetIn, Trailing,
             Continues
  <2> QED
    BY <1>1, <2>1 DEF IInv
<1> QED
  BY <1>2, <1>3, <1>4 DEF Next

LEMMA SpecIInv == Spec => []IInv
BY InitIInv, NextIInv, PTL DEF Spec

\* For any constants the variables keep their types, and the ring is never smaller
\* than the leading context that is asked for (EventBufferRing::setSize).
THEOREM Types == Spec => []TypeOK
<1>1. IInv => TypeOK
  BY DEF IInv
<1> QED
  BY <1>1, SpecIInv, PTL

\* For any constants no block is put to the data file twice or out of order, wherever
\* leading context from the ring and trailing context meet
\* (Application::writeDataWithContextToFile).
THEOREM FileStaysInOrder == Spec => []FileInOrder
<1>1. IInv => FileInOrder
  BY DEF IInv, ContextInv, Proper, FileInOrder
<1> QED
  BY <1>1, SpecIInv, PTL

\* For any constants what is put to the file around a selected bad event has no hole,
\* but where an event was longer than its buffer (EventBuffer::appendData).
THEOREM WindowsHaveNoHoles == Spec => []WindowContiguous
<1>1. IInv => WindowContiguous
  BY DEF IInv, ContextInv, Proper, WindowContiguous
<1> QED
  BY <1>1, SpecIInv, PTL

\* For any constants and any verdicts of the rate limiter what continues an event is put
\* to the file behind an earlier block of it (Application::writeDataToFile).
THEOREM NoTails == Spec => []NoTailWithoutHead
<1>1. IInv => NoTailWithoutHead
  BY DEF IInv, ContextInv, Proper, NoTailWithoutHead
<1> QED
  BY <1>1, SpecIInv, PTL
=============================================================================
