--------------------------- MODULE I2OServerProofs ---------------------------
(***************************************************************************)
(* Proofs about I2OServer, for any pool, any credits, any prescaling       *)
(* factors and any readout: no overdraft (CreditsAreBalanced), what is     *)
(* told to the client (CreditsAreReported), the promise of Base            *)
(* (Implements), and how events are kept apart and in order                *)
(* (EventsStayApart, EventsStayInOrder).                                   *)
(***************************************************************************)
EXTENDS I2OServer, SequenceTheorems, FiniteSetTheorems,
        WellFoundedInduction, TLAPS

Message == [events : SUBSET Nat, credits : Nat]

\* The ends of events in the queue, and the last block, which the header of the next
\* event may make an end.
Open(queue) == Ends(queue) \cup (IF queue = <<>> THEN {} ELSE {Len(queue)})

-----------------------------------------------------------------------------
\* Sets of positions.

LEMMA PositionsAreFinite ==
  ASSUME NEW n \in Nat, NEW S \in SUBSET (1..n)
  PROVE  IsFiniteSet(S) /\ Cardinality(S) \in Nat
<1>1. IsFiniteSet(1..n)
  BY FS_Interval
<1>2. IsFiniteSet(S)
  BY <1>1, FS_Subset
<1> QED
  BY <1>2, FS_CardinalityType

\* A set of positions that is not empty has a first one.
LEMMA FirstPosition ==
  ASSUME NEW S \in SUBSET Nat, S # {}
  PROVE  Min(S) \in S /\ \A i \in S : Min(S) <= i
<1> DEFINE Segments == {1..x : x \in S}
<1>1. Segments \subseteq FiniteSubsetsOf(Nat) /\ Segments # {}
  <2>1. \A x \in S : 1..x \in SUBSET Nat /\ IsFiniteSet(1..x)
    BY FS_Interval
  <2> QED
    BY <2>1 DEF FiniteSubsetsOf
<1>2. PICK T \in Segments : \A U \in Segments : ~(<<U, T>> \in StrictSubsetOrdering(Nat))
  <2> HIDE DEF Segments
  <2> QED
    BY <1>1, WFMin, FS_StrictSubsetOrderingWellFounded
<1>3. PICK x \in S : T = 1..x
  OBVIOUS
<1>4. ASSUME NEW y \in S PROVE x <= y
  <2>1. SUFFICES ASSUME y < x PROVE FALSE
    OBVIOUS
  <2>2. 1..y \subseteq 1..x /\ x \in 1..x /\ x \notin 1..y
    BY <2>1
  <2>3. <<1..y, 1..x>> \in StrictSubsetOrdering(Nat)
    BY <2>2 DEF StrictSubsetOrdering
  <2> QED
    BY <1>2, <1>3, <2>3
<1> QED
  BY <1>4 DEF Min

\* Removing the first of some positions, and counting the others from there.
LEMMA PositionsAfterFirst ==
  ASSUME NEW len \in Nat, NEW S \in SUBSET (1..len), NEW n \in S,
         \A i \in S : n <= i
  PROVE  Cardinality({i - n : i \in S \ {n}}) = Cardinality(S) - 1
<1> DEFINE R == S \ {n}
           T == {i - n : i \in R}
           f == [i \in R |-> i - n]
<1>1. IsFiniteSet(S) /\ Cardinality(S) \in Nat
  BY PositionsAreFinite
<1>2. IsFiniteSet(R) /\ Cardinality(R) = Cardinality(S) - 1
  BY <1>1, FS_RemoveElement
<1>3. f \in Bijection(R, T)
  <2>1. f \in [R -> T]
    OBVIOUS
  <2>2. \A i, j \in R : f[i] = f[j] => i = j
    OBVIOUS
  <2>3. \A t \in T : \E i \in R : f[i] = t
    OBVIOUS
  <2> QED
    BY <2>1, <2>2, <2>3, Zenon DEF Bijection, Injection, Surjection, IsInjective
<1>4. Cardinality(T) = Cardinality(R)
  BY <1>2, <1>3, FS_Bijection DEF ExistsBijection
<1> QED
  BY <1>2, <1>4

-----------------------------------------------------------------------------
\* The ends of events in a queue.

LEMMA EndsType ==
  ASSUME NEW queue \in Seq(Block)
  PROVE  /\ Len(queue) \in Nat
         /\ Ends(queue) \in SUBSET (1..Len(queue))
         /\ Open(queue) \in SUBSET (1..Len(queue))
         /\ Ends(queue) \subseteq Open(queue)
         /\ Cardinality(Ends(queue)) \in Nat /\ IsFiniteSet(Ends(queue))
         /\ Cardinality(Open(queue)) \in Nat
         /\ Cardinality(Ends(queue)) <= Cardinality(Open(queue))
         /\ Cardinality(Open(queue)) <= Cardinality(Ends(queue)) + 1
<1>1. Len(queue) \in Nat
  OBVIOUS
<1>2. Ends(queue) \in SUBSET (1..Len(queue))
  BY DEF Ends
<1>3. Open(queue) \in SUBSET (1..Len(queue))
  BY <1>1, <1>2, EmptySeq DEF Open
<1>4. /\ Cardinality(Ends(queue)) \in Nat /\ IsFiniteSet(Ends(queue))
      /\ Cardinality(Open(queue)) \in Nat /\ IsFiniteSet(Open(queue))
  BY <1>1, <1>2, <1>3, PositionsAreFinite
<1>5. Open(queue) \in {Ends(queue), Ends(queue) \cup {Len(queue)}}
  BY DEF Open
<1>6. Cardinality(Open(queue)) \in {Cardinality(Ends(queue)), Cardinality(Ends(queue)) + 1}
  BY <1>4, <1>5, FS_AddElement
<1> QED
  BY <1>1, <1>2, <1>3, <1>4, <1>5, <1>6

LEMMA EmptyQueue ==
  /\ <<>> \in Seq(Block) /\ Len(<<>>) = 0
  /\ Ends(<<>>) = {} /\ Open(<<>>) = {}
  /\ Cardinality(Ends(<<>>)) = 0 /\ Cardinality(Open(<<>>)) = 0
  BY FS_EmptySet DEF Ends, Open

LEMMA AppendBlock ==
  ASSUME NEW queue \in Seq(Block), NEW block \in Block
  PROVE  LET longer == Append(queue, block)
         IN  /\ longer \in Seq(Block)
             /\ Len(longer) = Len(queue) + 1
             /\ \A i \in 1..Len(queue) : longer[i] = queue[i]
             /\ longer[Len(queue) + 1] = block
             /\ Cardinality(Ends(longer))
                  = Cardinality(Ends(queue)) + (IF block.ends THEN 1 ELSE 0)
             /\ Cardinality(Open(longer)) = Cardinality(Ends(queue)) + 1
<1> DEFINE longer == Append(queue, block)
           len == Len(queue)
<1>1. /\ longer \in Seq(Block)
      /\ Len(longer) = len + 1
      /\ \A i \in 1..len : longer[i] = queue[i]
      /\ longer[len + 1] = block
  BY AppendProperties
<1>2. block.ends \in BOOLEAN
  BY DEF Block
<1>3. Ends(longer) = IF block.ends THEN Ends(queue) \cup {len + 1} ELSE Ends(queue)
  <2>1. len \in Nat
    OBVIOUS
  <2>2. \A i : i \in 1..len + 1 <=> i \in 1..len \/ i = len + 1
    BY <2>1
  <2>3. \A i : i \in Ends(longer) <=> i \in Ends(queue) \/ (i = len + 1 /\ block.ends)
    <3> HIDE DEF longer, len
    <3>1. Ends(longer) = {i \in 1..len + 1 : longer[i].ends}
      BY <1>1 DEF Ends
    <3>2. Ends(queue) = {i \in 1..len : queue[i].ends}
      BY DEF Ends, len
    <3> QED
      BY <1>1, <2>2, <3>1, <3>2
  <2> QED
    BY <1>2, <2>3
<1>4. len + 1 \notin Ends(queue)
  BY DEF Ends
<1>5. longer # <<>>
  BY <1>1
<1>6. Open(longer) = Ends(queue) \cup {len + 1}
  BY <1>1, <1>2, <1>3, <1>5 DEF Open
<1>7. Cardinality(Ends(queue) \cup {len + 1}) = Cardinality(Ends(queue)) + 1
  BY <1>4, EndsType, FS_AddElement
<1>8. Cardinality(Ends(longer)) = Cardinality(Ends(queue)) + (IF block.ends THEN 1 ELSE 0)
  <2>1. CASE block.ends
    BY <1>3, <1>7, <2>1
  <2>2. CASE ~block.ends
    BY <1>3, <2>2, EndsType
  <2> QED
    BY <1>2, <2>1, <2>2
<1> QED
  BY <1>1, <1>6, <1>7, <1>8

LEMMA EndLastBlock ==
  ASSUME NEW queue \in Seq(Block), queue # <<>>
  PROVE  LET closed == [queue EXCEPT ![Len(queue)].ends = TRUE]
         IN  /\ closed \in Seq(Block)
             /\ Len(closed) = Len(queue)
             /\ Ends(closed) = Open(queue)
             /\ Open(closed) = Open(queue)
             /\ \A i \in 1..Len(queue) : closed[i].event = queue[i].event
<1> DEFINE len == Len(queue)
           last == [queue[len] EXCEPT !.ends = TRUE]
           closed == [queue EXCEPT ![len] = last]
<1>1. len \in Nat /\ len \in 1..len
  BY EmptySeq
<1>2. queue[len] \in Block
  BY <1>1, ElementOfSeq
<1>3. last \in Block /\ last.ends = TRUE /\ last.event = queue[len].event
  BY <1>2 DEF Block
<1>4. [queue EXCEPT ![Len(queue)].ends = TRUE] = closed
  OBVIOUS
<1>5. /\ closed \in Seq(Block)
      /\ Len(closed) = len
      /\ \A i \in 1..len : closed[i] = IF i = len THEN last ELSE queue[i]
  BY <1>1, <1>3, ExceptSeq
<1>6. Ends(closed) = Ends(queue) \cup {len}
  <2> HIDE DEF closed, last
  <2>1. Ends(closed) = {i \in 1..len : closed[i].ends}
    BY <1>5 DEF Ends
  <2>2. \A i \in 1..len : closed[i].ends <=> (queue[i].ends \/ i = len)
    BY <1>3, <1>5
  <2> QED
    BY <1>1, <2>1, <2>2 DEF Ends
<1>7. closed # <<>>
  <2> HIDE DEF closed
  <2> QED
    BY <1>1, <1>5, EmptySeq
<1>8. Open(queue) = Ends(queue) \cup {len} /\ Open(closed) = Ends(closed) \cup {len}
  <2> HIDE DEF closed
  <2> QED
    BY <1>5, <1>7 DEF Open
<1>9. \A i \in 1..len : closed[i].event = queue[i].event
  <2> HIDE DEF closed, last
  <2> QED
    BY <1>3, <1>5
<1> HIDE DEF closed
<1> QED
  BY <1>4, <1>5, <1>6, <1>8, <1>9

\* The queue without its first event.
LEMMA RemoveFirstEvent ==
  ASSUME NEW queue \in Seq(Block), NEW n \in Ends(queue),
         \A i \in Ends(queue) : n <= i
  PROVE  LET rest == Remaining(queue, n)
         IN  /\ rest \in Seq(Block)
             /\ Len(rest) = Len(queue) - n
             /\ \A i \in 1..Len(rest) : rest[i] = queue[i + n]
             /\ Cardinality(Ends(rest)) = Cardinality(Ends(queue)) - 1
             /\ Cardinality(Open(rest)) = Cardinality(Open(queue)) - 1
<1> DEFINE len == Len(queue)
           rest == SubSeq(queue, n + 1, len)
<1>0. len \in Nat /\ n \in 1..len
  BY EndsType
<1>1. /\ rest \in Seq(Block)
      /\ Len(rest) = len - n
      /\ \A i \in 1..len - n : rest[i] = queue[i + n]
  <2>1. \A i \in n + 1..len : queue[i] \in Block
    BY <1>0, ElementOfSeq
  <2>2. /\ rest \in Seq(Block)
        /\ Len(rest) = IF n + 1 <= len THEN len - (n + 1) + 1 ELSE 0
        /\ \A i \in 1..len - (n + 1) + 1 : rest[i] = queue[n + 1 + i - 1]
    BY <1>0, <2>1, SubSeqProperties
  <2> HIDE DEF rest, len
  <2>3. \A i \in 1..len - n : i \in 1..len - (n + 1) + 1 /\ n + 1 + i - 1 = i + n
    BY <1>0
  <2>4. Len(rest) = len - n
    BY <1>0, <2>2
  <2> QED
    BY <2>2, <2>3, <2>4
<1>2. Ends(rest) = {i - n : i \in Ends(queue) \ {n}}
  <2> HIDE DEF rest
  <2>1. Ends(rest) = {i \in 1..len - n : queue[i + n].ends}
    BY <1>1 DEF Ends
  <2>2. ASSUME NEW i \in Ends(rest)
        PROVE  i + n \in Ends(queue) \ {n} /\ i = (i + n) - n
    BY <1>0, <2>1, <2>2 DEF Ends
  <2>3. ASSUME NEW i \in Ends(queue) \ {n}
        PROVE  i - n \in Ends(rest)
    <3>1. i \in 1..len /\ queue[i].ends /\ n < i
      BY <1>0 DEF Ends
    <3>2. i - n \in 1..len - n /\ (i - n) + n = i
      BY <1>0, <3>1
    <3> QED
      BY <2>1, <3>1, <3>2
  <2> QED
    BY <2>2, <2>3
<1>3. Open(rest) = {i - n : i \in Open(queue) \ {n}}
  <2>1. queue # <<>>
    BY <1>0
  <2>2. Open(queue) = Ends(queue) \cup {len}
    BY <2>1 DEF Open
  <2>3. CASE len = n
    <3>1. rest = <<>>
      BY <1>0, <1>1, <2>3, EmptySeq
    <3>2. Ends(queue) = {n}
      <4>1. \A i \in Ends(queue) : i <= len /\ n <= i
        BY <1>0 DEF Ends
      <4> QED
        BY <1>0, <2>3, <4>1, EndsType
    <3> QED
      BY <2>2, <2>3, <3>1, <3>2, EmptyQueue
  <2>4. CASE len # n
    <3> HIDE DEF rest
    <3>1. rest # <<>>
      BY <1>0, <1>1, <2>4, EmptySeq
    <3>2. Open(rest) = Ends(rest) \cup {len - n}
      BY <1>1, <3>1 DEF Open
    <3>3. Open(queue) \ {n} = (Ends(queue) \ {n}) \cup {len}
      BY <2>2, <2>4
    <3> QED
      BY <1>2, <3>2, <3>3
  <2> QED
    BY <2>3, <2>4
<1>4. Cardinality(Ends(rest)) = Cardinality(Ends(queue)) - 1
  <2>1. Ends(queue) \in SUBSET (1..len)
    BY EndsType
  <2> HIDE DEF rest, len
  <2>2. Cardinality({i - n : i \in Ends(queue) \ {n}}) = Cardinality(Ends(queue)) - 1
    BY <1>0, <2>1, PositionsAfterFirst
  <2> QED
    BY <1>2, <2>2
<1>5. Cardinality(Open(rest)) = Cardinality(Open(queue)) - 1
  <2>1. \A i \in Open(queue) : n <= i
    BY <1>0 DEF Open
  <2>2. n \in Open(queue) /\ Open(queue) \in SUBSET (1..len)
    BY EndsType
  <2> HIDE DEF rest, len
  <2>3. Cardinality({i - n : i \in Open(queue) \ {n}}) = Cardinality(Open(queue)) - 1
    BY <1>0, <2>1, <2>2, PositionsAfterFirst
  <2> QED
    BY <1>3, <2>3
<1> QED
  BY <1>1, <1>4, <1>5 DEF Remaining

-----------------------------------------------------------------------------
\* The server's queue and counters.

ServerType == [queue : Seq(Block), nEventsInQueue : Nat, credits : Nat,
               prescaling : Nat]

Counted(s) == Cardinality(Ends(s.queue)) <= s.nEventsInQueue

\* There is a credit for each event in the queue, the one that may be closed included.
Paid(s) == onRequest => Cardinality(Open(s.queue)) <= s.credits

LEMMA UpdatedServer ==
  ASSUME NEW s \in ServerType, NEW q \in Seq(Block), NEW n \in Nat,
         NEW new, new = [s EXCEPT !.queue = q, !.nEventsInQueue = n]
  PROVE  new \in ServerType
  BY DEF ServerType

LEMMA Closing ==
  ASSUME NEW s \in ServerType, Counted(s), Paid(s)
  PROVE  LET closed == MakeLastBlockEndEvent(s)
         IN  /\ closed \in ServerType
             /\ Counted(closed) /\ Paid(closed)
             /\ closed.credits = s.credits
             /\ Len(closed.queue) = Len(s.queue)
<1> DEFINE closed == MakeLastBlockEndEvent(s)
<1>1. CASE s.queue = <<>>
  BY <1>1 DEF MakeLastBlockEndEvent
<1>2. CASE s.queue # <<>>
  <2> DEFINE queue == [s.queue EXCEPT ![Len(s.queue)].ends = TRUE]
  <2>1. s.queue \in Seq(Block) /\ s.nEventsInQueue \in Nat
    BY DEF ServerType
  <2>2. /\ queue \in Seq(Block) /\ Len(queue) = Len(s.queue)
        /\ Ends(queue) = Open(s.queue) /\ Open(queue) = Open(s.queue)
    BY <1>2, <2>1, EndLastBlock
  <2>3. closed = [s EXCEPT !.queue = queue, !.nEventsInQueue = s.nEventsInQueue + 1]
    BY <1>2 DEF MakeLastBlockEndEvent
  <2> HIDE DEF closed, queue
  <2>4. /\ closed \in ServerType
        /\ closed.queue = queue /\ closed.credits = s.credits
        /\ closed.nEventsInQueue = s.nEventsInQueue + 1
    <3>1. s.nEventsInQueue + 1 \in Nat
      BY <2>1
    <3> QED
      <4>1. queue \in Seq(Block)
        BY <2>2
      <4>2. closed \in ServerType
        BY <2>3, <3>1, <4>1, UpdatedServer
      <4>3. closed.queue = queue
        BY <2>3 DEF ServerType
      <4>4. closed.credits = s.credits
        BY <2>3 DEF ServerType
      <4>5. closed.nEventsInQueue = s.nEventsInQueue + 1
        BY <2>3 DEF ServerType
      <4> QED
        BY <4>2, <4>3, <4>4, <4>5
  <2>5. Cardinality(Open(s.queue)) <= s.nEventsInQueue + 1
    BY <2>1, EndsType DEF Counted
  <2>6. Counted(closed) /\ Paid(closed)
    BY <2>2, <2>4, <2>5 DEF Counted, Paid
  <2> QED
    BY <2>2, <2>4, <2>6 DEF closed
<1> QED
  BY <1>1, <1>2

LEMMA Adding ==
  ASSUME NEW s \in ServerType, Counted(s), Paid(s),
         NEW nEvents, NEW block \in Block, NEW room \in BOOLEAN
  PROVE  LET extended == AddData(s, nEvents, block, room)
         IN  /\ extended \in ServerType
             /\ Counted(extended) /\ Paid(extended)
             /\ extended.credits = s.credits
             /\ Len(extended.queue) <= Len(s.queue) + 1
             /\ ~room => Len(extended.queue) = Len(s.queue)
<1> DEFINE extended == AddData(s, nEvents, block, room)
<1>0. s.queue \in Seq(Block) /\ Len(s.queue) \in Nat /\ s.nEventsInQueue \in Nat
  BY DEF ServerType
<1>1. CASE ~(WantsData(s, nEvents) /\ room)
  BY <1>0, <1>1 DEF AddData
<1>2. CASE WantsData(s, nEvents) /\ room
  <2> DEFINE queue == Append(s.queue, block)
             nEnds == IF block.ends THEN 1 ELSE 0
  <2>1. /\ queue \in Seq(Block)
        /\ Len(queue) = Len(s.queue) + 1
        /\ Cardinality(Ends(queue)) = Cardinality(Ends(s.queue)) + nEnds
        /\ Cardinality(Open(queue)) = Cardinality(Ends(s.queue)) + 1
    BY <1>0, AppendBlock
  <2>2. extended = [s EXCEPT !.queue = queue,
                             !.nEventsInQueue = IF block.ends THEN s.nEventsInQueue + 1
                                                              ELSE s.nEventsInQueue]
    BY <1>2 DEF AddData
  <2>3. onRequest => s.credits > s.nEventsInQueue
    BY <1>2 DEF WantsData
  <2> HIDE DEF extended, queue
  <2>4. /\ extended \in ServerType
        /\ extended.queue = queue /\ extended.credits = s.credits
        /\ extended.nEventsInQueue = s.nEventsInQueue + nEnds
    <3>1. block.ends \in BOOLEAN
      BY DEF Block
    <3>2. extended = [s EXCEPT !.queue = queue, !.nEventsInQueue = s.nEventsInQueue + nEnds]
      <4>1. CASE block.ends
        BY <2>2, <4>1
      <4>2. CASE ~block.ends
        <5>1. s.nEventsInQueue + nEnds = s.nEventsInQueue
          BY <1>0, <4>2
        <5>2. extended = [s EXCEPT !.queue = queue, !.nEventsInQueue = s.nEventsInQueue]
          BY <2>2, <4>2
        <5> QED
          BY <5>1, <5>2, Zenon
      <4> QED
        BY <4>1, <4>2
    <3>3. s.nEventsInQueue + nEnds \in Nat
      BY <1>0, <3>1
    <3> HIDE DEF nEnds
    <3> QED
      <4>1. queue \in Seq(Block)
        BY <2>1
      <4>2. extended \in ServerType
        BY <3>2, <3>3, <4>1, UpdatedServer
      <4>3. extended.queue = queue
        BY <3>2 DEF ServerType
      <4>4. extended.credits = s.credits
        BY <3>2 DEF ServerType
      <4>5. extended.nEventsInQueue = s.nEventsInQueue + nEnds
        BY <3>2 DEF ServerType
      <4> QED
        BY <4>2, <4>3, <4>4, <4>5
  <2>5. Cardinality(Ends(s.queue)) \in Nat /\ Cardinality(Ends(s.queue)) <= s.nEventsInQueue
    BY <1>0, EndsType DEF Counted
  <2>6. Counted(extended)
    BY <1>0, <2>1, <2>4, <2>5 DEF Counted
  <2>7. Paid(extended)
    BY <1>0, <2>1, <2>3, <2>4, <2>5 DEF Paid, ServerType
  <2> QED
    <3>1. Len(extended.queue) <= Len(s.queue) + 1
      BY <1>0, <2>1, <2>4
    <3> QED
      BY <1>2, <2>4, <2>6, <2>7, <3>1, Zenon DEF extended
<1> QED
  BY <1>1, <1>2

\* What the next message takes from the queue ends with the first end of an event.
LEMMA FirstMessage ==
  ASSUME server \in ServerType, SendingMessage
  PROVE  /\ NextMessageLength \in Ends(server.queue)
         /\ \A i \in Ends(server.queue) : NextMessageLength <= i
         /\ NextMessageLength \in Nat
<1> DEFINE queue == server.queue
<1>1. queue \in Seq(Block) /\ Ends(queue) # {}
  BY DEF ServerType, SendingMessage, IsEventEndInQueue
<1>2. Ends(queue) \in SUBSET (1..Len(queue)) /\ Len(queue) \in Nat
  BY <1>1, EndsType
<1>3. CASE Head(queue).starts /\ Head(queue).ends
  <2>1. queue # <<>>
    BY <1>1, EmptyQueue
  <2>2. Head(queue) = queue[1] /\ 1 \in 1..Len(queue)
    BY <1>1, <2>1, EmptySeq
  <2>3. 1 \in Ends(queue) /\ NextMessageLength = 1
    BY <1>3, <2>2 DEF Ends, NextMessageLength
  <2> QED
    BY <1>2, <2>3
<1>4. CASE ~(Head(queue).starts /\ Head(queue).ends)
  <2>1. NextMessageLength = Min(Ends(queue))
    BY <1>4 DEF NextMessageLength
  <2> QED
    BY <1>1, <1>2, <2>1, FirstPosition
<1> QED
  BY <1>3, <1>4

-----------------------------------------------------------------------------
\* The pool is never overdrawn.
Memory == InUse <= PoolSize

\* No message costs more than its credit.
Balance == onRequest => server.credits + Len(sent) = granted

Inv ==
  /\ TypeOK
  /\ Memory
  /\ Counted(server)
  /\ Paid(server)
  /\ Balance
  /\ CreditsReported

LEMMA ServerIsTyped == TypeOK => server \in ServerType
  BY DEF TypeOK, ServerType

LEMMA InvInit == Init => Inv
<1> SUFFICES ASSUME Init PROVE Inv
  OBVIOUS
<1> USE I2OServerAssumption
<1>1. PICK p \in Prescalings : server = NewServer(p)
  BY DEF Init
<1>2. /\ server \in ServerType
      /\ server.queue = <<>> /\ server.nEventsInQueue = 0 /\ server.credits = 0
  BY <1>1, EmptyQueue DEF NewServer, ServerType
<1>3. TypeOK
  <2>1. /\ heldByClient \in 0..PoolSize /\ leaked \in 0..PoolSize
        /\ nEventsRead \in Nat /\ event \in Nat /\ granted \in Nat
        /\ nReads \in Nat /\ nRuns \in Nat
    BY DEF Init
  <2>2. sent \in Seq(Message)
    BY EmptySeq DEF Init
  <2>3. enabled \in BOOLEAN /\ insideEvent \in BOOLEAN /\ onRequest \in BOOLEAN
    BY Zenon DEF Init
  <2>4. sending \in BOOLEAN /\ parted \in SUBSET Nat
    BY DEF Init
  <2> QED
    BY <1>2, <2>1, <2>2, <2>3, <2>4, Zenon DEF TypeOK, ServerType, Message
<1>4. Memory
  BY <1>2, EmptyQueue DEF Init, Memory, InUse
<1>5. Counted(server) /\ Paid(server)
  BY <1>2, EmptyQueue DEF Counted, Paid
<1>6. Balance /\ CreditsReported
  BY <1>2 DEF Init, Balance, CreditsReported
<1> QED
  BY <1>3, <1>4, <1>5, <1>6 DEF Inv

\* What the invariant says of the flags, of the counters, and of the server.
Flags ==
  /\ enabled \in BOOLEAN /\ insideEvent \in BOOLEAN /\ onRequest \in BOOLEAN
  /\ sending \in BOOLEAN

Counters ==
  /\ nEventsRead \in Nat /\ event \in Nat /\ nReads \in Nat /\ nRuns \in Nat
  /\ parted \in SUBSET Nat

Accounts ==
  /\ server \in ServerType
  /\ heldByClient \in 0..PoolSize /\ leaked \in 0..PoolSize
  /\ granted \in Nat /\ sent \in Seq(Message)
  /\ Memory /\ Counted(server) /\ Paid(server) /\ Balance /\ CreditsReported

LEMMA InvParts == Inv <=> Flags /\ Counters /\ Accounts
  BY Zenon DEF Inv, TypeOK, Flags, Counters, Accounts, ServerType, Message

LEMMA InvPartsNext == Inv' <=> Flags' /\ Counters' /\ Accounts'
  BY Zenon DEF Inv, TypeOK, Flags, Counters, Accounts, ServerType, Message

accountVars == <<server, onRequest, heldByClient, leaked, granted, sent>>

LEMMA AccountsStay == Accounts /\ UNCHANGED accountVars => Accounts'
  BY DEF accountVars, Accounts, Memory, InUse, Counted, Paid, Balance, CreditsReported

LEMMA CountersStay == Counters /\ UNCHANGED <<runVars, parted>> => Counters'
  BY DEF runVars, Counters

LEMMA StartRunKeepsInv == Inv /\ StartRun => Inv'
<1> SUFFICES ASSUME Inv, StartRun PROVE Inv'
  OBVIOUS
<1> USE I2OServerAssumption
<1>1. Flags /\ Counters /\ Accounts
  BY InvParts
<1>2. server.prescaling \in Nat
  BY <1>1 DEF Accounts, ServerType
<1>3. /\ server' \in ServerType
      /\ server'.queue = <<>> /\ server'.nEventsInQueue = 0 /\ server'.credits = 0
  BY <1>2, EmptyQueue DEF StartRun, NewServer, ServerType
<1>4. heldByClient' = 0 /\ leaked' = 0 /\ granted' = 0 /\ sent' = <<>>
  BY DEF StartRun
<1>5. sent' \in Seq(Message) /\ Len(sent') = 0
  BY <1>4, EmptySeq
<1>6. Memory' /\ Balance' /\ CreditsReported'
  BY <1>3, <1>4, <1>5, EmptyQueue DEF Memory, InUse, Balance, CreditsReported
<1>7. (Counted(server) /\ Paid(server))'
  BY <1>3, EmptyQueue DEF Counted, Paid
<1>8. Accounts'
  BY <1>3, <1>4, <1>5, <1>6, <1>7 DEF Accounts
<1>9. Counters'
  BY <1>1 DEF StartRun, Counters
<1>10. Flags'
  BY <1>1, Zenon DEF StartRun, Flags
<1> QED
  BY <1>8, <1>9, <1>10, InvPartsNext

LEMMA AddCreditsKeepsInv ==
  ASSUME Inv, NEW n \in CreditGrants, NEW p \in Prescalings, AddCredits(n, p)
  PROVE  Inv'
<1> USE I2OServerAssumption
<1>1. Flags /\ Counters /\ Accounts
  BY InvParts
<1>2. n \in Nat /\ p \in Nat
  OBVIOUS
<1>3. server.credits \in Nat /\ server \in ServerType /\ granted \in Nat
  BY <1>1 DEF Accounts, ServerType
<1>4. /\ server' \in ServerType
      /\ server'.queue = server.queue
      /\ server'.nEventsInQueue = server.nEventsInQueue
      /\ server'.credits = server.credits + n
  <2>1. server' = [server EXCEPT !.credits = server.credits + n, !.prescaling = p]
    BY DEF AddCredits
  <2>2. server.credits + n \in Nat
    BY <1>2, <1>3
  <2>3. server' \in ServerType
    BY <1>2, <1>3, <2>1, <2>2 DEF ServerType
  <2>4. server'.queue = server.queue
    BY <1>3, <2>1 DEF ServerType
  <2>5. server'.nEventsInQueue = server.nEventsInQueue
    BY <1>3, <2>1 DEF ServerType
  <2>6. server'.credits = server.credits + n
    BY <1>3, <2>1 DEF ServerType
  <2> QED
    BY <2>3, <2>4, <2>5, <2>6
<1>5. /\ UNCHANGED <<onRequest, heldByClient, leaked, sent>>
      /\ granted' = granted + n
  BY DEF AddCredits
<1>6. server.queue \in Seq(Block) /\ Cardinality(Open(server.queue)) \in Nat
  BY <1>3, EndsType DEF ServerType
<1>7. Len(sent) \in Nat /\ sent \in Seq(Message)
  BY <1>1, LenProperties DEF Accounts
<1>8. Memory' /\ (Counted(server))'
  BY <1>1, <1>4, <1>5 DEF Accounts, Memory, InUse, Counted
<1>9. (Paid(server))'
  BY <1>1, <1>2, <1>3, <1>4, <1>5, <1>6 DEF Accounts, Paid
<1>10. Balance'
  BY <1>1, <1>2, <1>3, <1>4, <1>5, <1>7 DEF Accounts, Balance
<1>11. CreditsReported'
  <2>1. SUFFICES ASSUME onRequest, NEW i \in 1..Len(sent)
                 PROVE  sent[i].credits + i <= granted + n
    BY <1>5 DEF CreditsReported
  <2>2. sent[i].credits + i <= granted
    BY <1>1, <2>1 DEF Accounts, CreditsReported
  <2>3. sent[i].credits \in Nat
    <3>1. sent[i] \in Message
      BY <1>7, <2>1, ElementOfSeq
    <3> QED
      BY <3>1 DEF Message
  <2> QED
    BY <1>2, <1>3, <1>7, <2>2, <2>3
<1>12. Accounts'
  BY <1>1, <1>2, <1>3, <1>4, <1>5, <1>8, <1>9, <1>10, <1>11 DEF Accounts
<1>13. Counters'
  BY <1>1, CountersStay DEF AddCredits
<1>14. Flags'
  BY <1>1, Zenon DEF AddCredits, runVars, Flags
<1> QED
  BY <1>12, <1>13, <1>14, InvPartsNext

LEMMA ReadBlockKeepsCredits ==
  ASSUME Accounts, NEW header \in BOOLEAN, NEW trailer \in BOOLEAN,
         ReadBlock(header, trailer)
  PROVE  server'.credits = server.credits
<1> DEFINE unfinished == insideEvent /\ header
           closed  == IF unfinished THEN MakeLastBlockEndEvent(server) ELSE server
<1>1. server \in ServerType /\ Counted(server) /\ Paid(server)
  BY DEF Accounts
<1>2. closed \in ServerType /\ closed.credits = server.credits
  <2>1. CASE unfinished
    BY <1>1, <2>1, Closing
  <2>2. CASE ~unfinished
    BY <1>1, <2>2
  <2> QED
    BY <2>1, <2>2
<1>3. \E nEvents, block, room : server' = AddData(closed, nEvents, block, room)
  BY DEF ReadBlock
<1> HIDE DEF closed
<1> QED
  BY <1>2, <1>3 DEF AddData, ServerType

LEMMA PartedEvents ==
  ASSUME NEW s \in ServerType, NEW nEvents, NEW room
  PROVE  Parted(s, nEvents, room) \subseteq Nat
<1>1. s.queue \in Seq(Block)
  BY DEF ServerType
<1>2. ASSUME s.queue # <<>> PROVE Last(s.queue).event \in Nat
  <2>1. Len(s.queue) \in 1..Len(s.queue)
    BY <1>1, <1>2, EmptySeq
  <2>2. s.queue[Len(s.queue)] \in Block
    BY <1>1, <2>1, ElementOfSeq
  <2> QED
    BY <2>2 DEF Last, Block
<1> QED
  BY <1>2 DEF Parted

LEMMA ReadBlockKeepsInv ==
  ASSUME Inv, NEW header \in BOOLEAN, NEW trailer \in BOOLEAN,
         ReadBlock(header, trailer)
  PROVE  Inv'
<1> DEFINE unfinished == insideEvent /\ header
           nEvents == nEventsRead + (IF unfinished THEN 1 ELSE 0)
                                  + (IF trailer THEN 1 ELSE 0)
           closed  == IF unfinished THEN MakeLastBlockEndEvent(server) ELSE server
           number  == IF header \/ ~insideEvent THEN event + 1 ELSE event
           block   == [event |-> number, starts |-> header, ends |-> trailer]
           room    == InUse <= HighThreshold /\ InUse < PoolSize
<1>0. Flags /\ Counters /\ Accounts
  BY InvParts
<1>1. /\ nReads' = nReads + 1 /\ event' = number /\ nEventsRead' = nEvents
      /\ insideEvent' = ~trailer
      /\ server' = AddData(closed, nEvents, block, room)
      /\ UNCHANGED <<enabled, onRequest, heldByClient, leaked, granted, sent, nRuns>>
      /\ sending' = TRUE
  BY DEF ReadBlock
<1>2. number \in Nat /\ nEvents \in Nat
  BY <1>0 DEF Counters
<1>3. block \in Block /\ room \in BOOLEAN
  <2> HIDE DEF number
  <2>1. block \in Block
    BY <1>2 DEF Block
  <2>2. room \in BOOLEAN
    BY Zenon
  <2> QED
    BY <2>1, <2>2
<1>4. /\ closed \in ServerType /\ Counted(closed) /\ Paid(closed)
      /\ closed.credits = server.credits
      /\ Len(closed.queue) = Len(server.queue)
  <2>1. server \in ServerType /\ Counted(server) /\ Paid(server)
    BY <1>0 DEF Accounts
  <2>2. CASE unfinished
    BY <2>1, <2>2, Closing
  <2>3. CASE ~unfinished
    BY <2>1, <2>3
  <2> QED
    BY <2>2, <2>3
<1>5. Flags'
  BY <1>0, <1>1, Zenon DEF Flags
<1>6. Counters'
  <2>1. parted' = parted \cup Parted(closed, nEvents, room)
    BY DEF ReadBlock
  <2>2. Parted(closed, nEvents, room) \subseteq Nat
    <3> HIDE DEF closed
    <3> QED
      BY <1>4, PartedEvents
  <2>3. parted' \in SUBSET Nat
    BY <1>0, <2>1, <2>2 DEF Counters
  <2> HIDE DEF number, nEvents
  <2> QED
    BY <1>0, <1>1, <1>2, <2>3 DEF Counters
<1> HIDE DEF closed, block, room, number, nEvents, unfinished
<1>7. /\ server' \in ServerType /\ Counted(server') /\ Paid(server')
      /\ server'.credits = closed.credits
      /\ Len(server'.queue) <= Len(closed.queue) + 1
      /\ ~room => Len(server'.queue) = Len(closed.queue)
  BY <1>1, <1>3, <1>4, Adding
<1>8. Memory'
  <2>1. /\ Len(server.queue) \in Nat /\ heldByClient \in Nat /\ leaked \in Nat
        /\ PoolSize \in Nat
    BY <1>0, I2OServerAssumption DEF Accounts, ServerType
  <2>2. Len(server'.queue) \in Nat
    BY <1>7 DEF ServerType
  <2>3. Len(server.queue) + heldByClient + leaked <= PoolSize
    BY <1>0 DEF Accounts, Memory, InUse
  <2>4. room => Len(server.queue) + heldByClient + leaked < PoolSize
    BY DEF room, InUse
  <2>5. Len(server'.queue) + heldByClient + leaked <= PoolSize
    BY <1>4, <1>7, <2>1, <2>2, <2>3, <2>4
  <2> QED
    BY <1>1, <2>5 DEF Memory, InUse
<1>9. (Counted(server) /\ Paid(server))'
  BY <1>1, <1>7 DEF Counted, Paid
<1>10. Balance' /\ CreditsReported'
  BY <1>0, <1>1, <1>4, <1>7 DEF Accounts, Balance, CreditsReported
<1>11. Accounts'
  BY <1>0, <1>1, <1>7, <1>8, <1>9, <1>10 DEF Accounts
<1> QED
  BY <1>5, <1>6, <1>11, InvPartsNext

\* The numbers that a message changes.
LEMMA MessageTakes ==
  ASSUME Accounts, SendingMessage
  PROVE  LET n == NextMessageLength
             rest == Remaining(server.queue, n)
         IN  /\ n \in 1..Len(server.queue) /\ Len(server.queue) \in Nat
             /\ rest \in Seq(Block)
             /\ Len(rest) \in Nat /\ Len(rest) = Len(server.queue) - n
             /\ Cardinality(Ends(rest)) \in Nat /\ Cardinality(Open(rest)) \in Nat
             /\ Cardinality(Ends(server.queue)) = Cardinality(Ends(rest)) + 1
             /\ Cardinality(Open(server.queue)) = Cardinality(Open(rest)) + 1
<1> DEFINE n == NextMessageLength
           queue == server.queue
           rest == Remaining(queue, n)
<1>1. server \in ServerType /\ queue \in Seq(Block)
  BY DEF Accounts, ServerType
<1>2. n \in Ends(queue) /\ \A i \in Ends(queue) : n <= i
  BY <1>1, FirstMessage
<1>3. /\ Len(queue) \in Nat /\ Ends(queue) \in SUBSET (1..Len(queue))
      /\ Cardinality(Ends(queue)) \in Nat /\ Cardinality(Open(queue)) \in Nat
  BY <1>1, EndsType
<1> HIDE DEF n
<1>4. /\ rest \in Seq(Block) /\ Len(rest) = Len(queue) - n
      /\ Cardinality(Ends(rest)) = Cardinality(Ends(queue)) - 1
      /\ Cardinality(Open(rest)) = Cardinality(Open(queue)) - 1
  BY <1>1, <1>2, RemoveFirstEvent
<1> HIDE DEF queue, rest
<1>5. /\ Len(rest) \in Nat
      /\ Cardinality(Ends(rest)) \in Nat /\ Cardinality(Open(rest)) \in Nat
  BY <1>4, EndsType
<1>6. /\ n \in 1..Len(queue)
      /\ Cardinality(Ends(queue)) = Cardinality(Ends(rest)) + 1
      /\ Cardinality(Open(queue)) = Cardinality(Open(rest)) + 1
  BY <1>2, <1>3, <1>4, <1>5
<1> QED
  BY <1>3, <1>4, <1>5, <1>6 DEF n, queue, rest

\* Memory that goes from the queue to the client, or is leaked.
LEMMA MemoryMoves ==
  ASSUME NEW queued \in Nat, NEW held \in Nat, NEW gone \in Nat, NEW n \in 1..queued,
         queued + held + gone <= PoolSize
  PROVE  /\ (queued - n) + (held + n) + gone <= PoolSize
         /\ (queued - n) + held + (gone + n) <= PoolSize
         /\ held + n \in 0..PoolSize
         /\ gone + n \in 0..PoolSize
  BY I2OServerAssumption

\* What a message that is sent does to the accounts.
LEMMA MessageSent ==
  ASSUME Accounts, SendMessage
  PROVE  /\ server' \in ServerType
         /\ server'.credits = Decremented(server.credits)
         /\ onRequest => server.credits > 0
         /\ UNCHANGED <<onRequest, granted>>
         /\ Len(sent') = Len(sent) + 1
         /\ Accounts'
<1> DEFINE n == NextMessageLength
           rest == Remaining(server.queue, n)
           message == [events  |-> {server.queue[i].event : i \in 1..n},
                       credits |-> CreditsInMessage(server)]
<1>1. /\ server' = EventSent(server, rest)
      /\ sent' = Append(sent, message)
      /\ heldByClient' = heldByClient + n
      /\ UNCHANGED <<onRequest, leaked, granted>>
      /\ SendingMessage
  BY DEF SendMessage
<1>2. /\ n \in 1..Len(server.queue) /\ Len(server.queue) \in Nat
      /\ rest \in Seq(Block)
      /\ Len(rest) \in Nat /\ Len(rest) = Len(server.queue) - n
      /\ Cardinality(Ends(rest)) \in Nat /\ Cardinality(Open(rest)) \in Nat
      /\ Cardinality(Ends(server.queue)) = Cardinality(Ends(rest)) + 1
      /\ Cardinality(Open(server.queue)) = Cardinality(Open(rest)) + 1
  BY <1>1, MessageTakes
<1>3. /\ server \in ServerType
      /\ server.queue \in Seq(Block) /\ server.nEventsInQueue \in Nat
      /\ server.credits \in Nat
      /\ heldByClient \in Nat /\ leaked \in Nat /\ granted \in Nat
      /\ sent \in Seq(Message)
      /\ PoolSize \in Nat
  BY I2OServerAssumption DEF Accounts, ServerType
<1>4. message \in Message
  <2>1. \A i \in 1..n : server.queue[i] \in Block
    BY <1>2, <1>3, ElementOfSeq
  <2>2. \A i \in 1..n : server.queue[i].event \in Nat
    BY <2>1 DEF Block
  <2>3. CreditsInMessage(server) \in Nat
    BY <1>3 DEF CreditsInMessage, Decremented
  <2> HIDE DEF n
  <2> QED
    BY <2>2, <2>3 DEF Message
<1>5. CreditsInMessage(server) = Decremented(server.credits)
  BY DEF CreditsInMessage
<1> HIDE DEF n, rest
<1>6. /\ server' \in ServerType
      /\ server'.queue = rest
      /\ server'.nEventsInQueue = server.nEventsInQueue - 1
      /\ server'.credits = Decremented(server.credits)
  <2>1. server.nEventsInQueue > 0
    BY <1>2, <1>3 DEF Accounts, Counted
  <2>2. /\ Decremented(server.nEventsInQueue) = server.nEventsInQueue - 1
        /\ server.nEventsInQueue - 1 \in Nat
        /\ Decremented(server.credits) \in Nat
    BY <1>3, <2>1 DEF Decremented
  <2>3. server' = [server EXCEPT !.queue = rest,
                                 !.nEventsInQueue = Decremented(server.nEventsInQueue),
                                 !.credits = Decremented(server.credits)]
    BY <1>1 DEF EventSent
  <2>4. server' \in ServerType
    BY <1>2, <1>3, <2>2, <2>3 DEF ServerType
  <2>5. server'.queue = rest
    BY <1>3, <2>3 DEF ServerType
  <2>6. server'.nEventsInQueue = server.nEventsInQueue - 1
    BY <1>3, <2>2, <2>3 DEF ServerType
  <2>7. server'.credits = Decremented(server.credits)
    BY <1>3, <2>3 DEF ServerType
  <2> QED
    BY <2>4, <2>5, <2>6, <2>7
<1>7. onRequest => /\ server.credits > 0
                   /\ Decremented(server.credits) = server.credits - 1
                   /\ Cardinality(Open(server.queue)) <= server.credits
  BY <1>2, <1>3 DEF Accounts, Paid, Decremented
<1>8. /\ Len(sent) \in Nat /\ Len(sent') = Len(sent) + 1
      /\ sent' \in Seq(Message)
      /\ \A i \in 1..Len(sent) : sent'[i] = sent[i]
      /\ sent'[Len(sent) + 1] = message
  <2> HIDE DEF message
  <2> QED
    BY <1>1, <1>3, <1>4, AppendProperties, LenProperties
<1>9. Memory' /\ heldByClient' \in 0..PoolSize
  <2>1. Len(server.queue) + heldByClient + leaked <= PoolSize
    BY DEF Accounts, Memory, InUse
  <2>2. /\ Len(rest) + (heldByClient + n) + leaked <= PoolSize
        /\ heldByClient + n \in 0..PoolSize
    <3>1. /\ (Len(server.queue) - n) + (heldByClient + n) + leaked <= PoolSize
          /\ heldByClient + n \in 0..PoolSize
      BY <1>2, <1>3, <2>1, MemoryMoves, Zenon
    <3> QED
      BY <1>2, <3>1, Zenon
  <2> QED
    BY <1>1, <1>6, <2>2 DEF Memory, InUse
<1>10. (Counted(server))'
  BY <1>2, <1>3, <1>6 DEF Accounts, Counted
<1>11. (Paid(server))'
  BY <1>1, <1>2, <1>3, <1>6, <1>7 DEF Paid
<1>12. Balance'
  BY <1>1, <1>3, <1>6, <1>7, <1>8 DEF Accounts, Balance
<1>13. CreditsReported'
  <2>1. SUFFICES ASSUME onRequest, NEW i \in 1..Len(sent) + 1
                 PROVE  sent'[i].credits + i <= granted
    BY <1>1, <1>8 DEF CreditsReported
  <2>2. CASE i \in 1..Len(sent)
    BY <1>8, <2>1, <2>2 DEF Accounts, CreditsReported
  <2>3. CASE i = Len(sent) + 1
    <3>1. sent'[i].credits = server.credits - 1
      BY <1>5, <1>7, <1>8, <2>1, <2>3
    <3>2. server.credits + Len(sent) = granted
      BY <2>1 DEF Accounts, Balance
    <3> QED
      BY <1>3, <1>8, <2>3, <3>1, <3>2
  <2> QED
    BY <1>8, <2>2, <2>3
<1>14. leaked' \in 0..PoolSize /\ granted' \in Nat
  BY <1>1 DEF Accounts
<1>15. Accounts'
  BY <1>6, <1>8, <1>9, <1>10, <1>11, <1>12, <1>13, <1>14 DEF Accounts
<1> QED
  BY <1>1, <1>6, <1>7, <1>8, <1>15

LEMMA MessageFails ==
  ASSUME Accounts, FailToSendMessage
  PROVE  Accounts' /\ server'.credits = server.credits
<1> DEFINE n == NextMessageLength
           rest == Remaining(server.queue, n)
<1>1. CASE ~NeedsMerging
  <2>1. UNCHANGED accountVars
    BY <1>1 DEF FailToSendMessage, accountVars
  <2> QED
    BY <2>1, AccountsStay DEF accountVars
<1>2. CASE NeedsMerging
  <2>1. /\ server' = [server EXCEPT !.queue = rest]
        /\ leaked' = leaked + n
        /\ UNCHANGED <<onRequest, heldByClient, granted, sent>>
        /\ SendingMessage
    BY <1>2 DEF FailToSendMessage
  <2>2. /\ n \in 1..Len(server.queue) /\ Len(server.queue) \in Nat
        /\ rest \in Seq(Block)
        /\ Len(rest) \in Nat /\ Len(rest) = Len(server.queue) - n
        /\ Cardinality(Ends(rest)) \in Nat /\ Cardinality(Open(rest)) \in Nat
        /\ Cardinality(Ends(server.queue)) = Cardinality(Ends(rest)) + 1
        /\ Cardinality(Open(server.queue)) = Cardinality(Open(rest)) + 1
    BY <2>1, MessageTakes
  <2> HIDE DEF n, rest
  <2>3. /\ server \in ServerType
        /\ server.nEventsInQueue \in Nat /\ server.credits \in Nat
        /\ heldByClient \in Nat /\ leaked \in Nat
        /\ PoolSize \in Nat
    BY I2OServerAssumption DEF Accounts, ServerType
  <2>4. server' \in ServerType
    BY <2>1, <2>2, <2>3 DEF ServerType
  <2>5. server'.queue = rest
    BY <2>1, <2>3 DEF ServerType
  <2>6. server'.nEventsInQueue = server.nEventsInQueue
    BY <2>1, <2>3 DEF ServerType
  <2>7. server'.credits = server.credits
    BY <2>1, <2>3 DEF ServerType
  <2>8. Memory' /\ leaked' \in 0..PoolSize
    <3>1. Len(server.queue) + heldByClient + leaked <= PoolSize
      BY DEF Accounts, Memory, InUse
    <3>2. /\ Len(rest) + heldByClient + (leaked + n) <= PoolSize
          /\ leaked + n \in 0..PoolSize
      <4>1. /\ (Len(server.queue) - n) + heldByClient + (leaked + n) <= PoolSize
            /\ leaked + n \in 0..PoolSize
        BY <2>2, <2>3, <3>1, MemoryMoves, Zenon
      <4> QED
        BY <2>2, <4>1, Zenon
    <3> QED
      BY <2>1, <2>5, <3>2 DEF Memory, InUse
  <2>9. (Counted(server) /\ Paid(server))'
    BY <2>1, <2>2, <2>3, <2>5, <2>6, <2>7 DEF Accounts, Counted, Paid
  <2>10. Balance' /\ CreditsReported'
    BY <2>1, <2>7 DEF Accounts, Balance, CreditsReported
  <2> QED
    BY <2>1, <2>4, <2>7, <2>8, <2>9, <2>10 DEF Accounts
<1> QED
  BY <1>1, <1>2

LEMMA ReleaseKeepsAccounts == Accounts /\ Release => Accounts'
<1> SUFFICES ASSUME Accounts, Release PROVE Accounts'
  OBVIOUS
<1>1. /\ heldByClient > 0 /\ heldByClient' = heldByClient - 1
      /\ UNCHANGED <<server, onRequest, leaked, granted, sent>>
  BY DEF Release
<1>2. /\ Len(server.queue) \in Nat /\ heldByClient \in 0..PoolSize /\ leaked \in Nat
      /\ PoolSize \in Nat
      /\ Len(server.queue) + heldByClient + leaked <= PoolSize
  BY I2OServerAssumption DEF Accounts, ServerType, Memory, InUse
<1>3. Memory' /\ heldByClient' \in 0..PoolSize
  BY <1>1, <1>2 DEF Memory, InUse
<1> QED
  BY <1>1, <1>3 DEF Accounts, Counted, Paid, Balance, CreditsReported

LEMMA InvNext == Inv /\ [Next]_vars => Inv'
<1> SUFFICES ASSUME Inv, [Next]_vars PROVE Inv'
  OBVIOUS
<1>0. Flags /\ Counters /\ Accounts
  BY InvParts
<1>1. CASE StartRun
  BY <1>1, StartRunKeepsInv
<1>2. CASE StopRun
  <2>1. Flags'
    BY <1>0, <1>2, Zenon DEF StopRun, runVars, Flags
  <2>2. UNCHANGED accountVars /\ UNCHANGED <<runVars, parted>>
    BY <1>2 DEF StopRun, accountVars
  <2> QED
    BY <1>0, <2>1, <2>2, AccountsStay, CountersStay, InvPartsNext
<1>3. ASSUME NEW n \in CreditGrants, NEW p \in Prescalings, AddCredits(n, p)
      PROVE  Inv'
  BY <1>3, AddCreditsKeepsInv
<1>4. ASSUME NEW header \in BOOLEAN, NEW trailer \in BOOLEAN, ReadBlock(header, trailer)
      PROVE  Inv'
  BY <1>4, ReadBlockKeepsInv
<1>5. CASE StartSending
  <2>1. Flags'
    BY <1>0, <1>5, Zenon DEF StartSending, runVars, Flags
  <2>2. UNCHANGED accountVars /\ UNCHANGED <<runVars, parted>>
    BY <1>5 DEF StartSending, accountVars
  <2> QED
    BY <1>0, <2>1, <2>2, AccountsStay, CountersStay, InvPartsNext
<1>6. CASE StopSending
  <2>1. Flags'
    BY <1>0, <1>6, Zenon DEF StopSending, runVars, Flags
  <2>2. UNCHANGED accountVars /\ UNCHANGED <<runVars, parted>>
    BY <1>6 DEF StopSending, accountVars
  <2> QED
    BY <1>0, <2>1, <2>2, AccountsStay, CountersStay, InvPartsNext
<1>7. CASE SendMessage
  <2>1. Flags'
    BY <1>0, <1>7, Zenon DEF SendMessage, runVars, Flags
  <2>2. UNCHANGED <<runVars, parted>>
    BY <1>7 DEF SendMessage
  <2> QED
    BY <1>0, <1>7, <2>1, <2>2, MessageSent, CountersStay, InvPartsNext
<1>8. CASE FailToSendMessage
  <2>1. Flags'
    BY <1>0, <1>8, Zenon DEF FailToSendMessage, runVars, Flags
  <2>2. UNCHANGED <<runVars, parted>>
    BY <1>8 DEF FailToSendMessage
  <2> QED
    BY <1>0, <1>8, <2>1, <2>2, MessageFails, CountersStay, InvPartsNext
<1>9. CASE FailToMerge
  <2>1. Flags'
    BY <1>0, <1>9, Zenon DEF FailToMerge, runVars, Flags
  <2>2. UNCHANGED accountVars /\ UNCHANGED <<runVars, parted>>
    BY <1>9 DEF FailToMerge, accountVars
  <2> QED
    BY <1>0, <2>1, <2>2, AccountsStay, CountersStay, InvPartsNext
<1>10. CASE Release
  <2>1. Flags'
    BY <1>0, <1>10, Zenon DEF Release, runVars, Flags
  <2>2. UNCHANGED <<runVars, parted>>
    BY <1>10 DEF Release
  <2> QED
    BY <1>0, <1>10, <2>1, <2>2, ReleaseKeepsAccounts, CountersStay, InvPartsNext
<1>11. CASE UNCHANGED vars
  <2>1. Flags'
    BY <1>0, <1>11, Zenon DEF vars, runVars, Flags
  <2>2. UNCHANGED accountVars /\ UNCHANGED <<runVars, parted>>
    BY <1>11 DEF vars, accountVars, runVars
  <2> QED
    BY <1>0, <2>1, <2>2, AccountsStay, CountersStay, InvPartsNext
<1> QED
  BY <1>1, <1>2, <1>3, <1>4, <1>5, <1>6, <1>7, <1>8, <1>9, <1>10, <1>11 DEF Next

\* TypeOK: every variable has its type, for any pool, credits, prescaling and readout;
\* in particular the memory that the client holds and that has leaked stays within the
\* pool's size.
THEOREM Types == Spec => []TypeOK
<1>1. Inv => TypeOK
  BY DEF Inv
<1> QED
  BY <1>1, InvInit, InvNext, PTL DEF Spec

\* EndsAreCounted: nEventsInQueue_ never falls behind the ends of events in the queue,
\* be they set by a trailer, by a header or twice.
THEOREM EndsCounted == Spec => []EndsAreCounted
<1>1. Inv => EndsAreCounted
  BY DEF Inv, Counted, EndsAreCounted
<1> QED
  BY <1>1, InvInit, InvNext, PTL DEF Spec

\* CreditsBalance: on request only, addData and makeLastBlockEndEvent together never
\* queue an event without a credit, and credits and messages add up to what was granted.
THEOREM CreditsAreBalanced == Spec => []CreditsBalance
<1>1. Inv => CreditsBalance
  BY DEF Inv, Balance, CreditsBalance
<1> QED
  BY <1>1, InvInit, InvNext, PTL DEF Spec

\* CreditsReported: no message tells the client of more credits than it has left.
THEOREM CreditsAreReported == Spec => []CreditsReported
<1>1. Inv => CreditsReported
  BY DEF Inv
<1> QED
  BY <1>1, InvInit, InvNext, PTL DEF Spec

-----------------------------------------------------------------------------
LEMMA InitImplements == Init => Promise!Init
<1> SUFFICES ASSUME Init PROVE Promise!Init
  OBVIOUS
<1>1. onRequest \in BOOLEAN
  BY Zenon DEF Init
<1>2. server.credits = 0 /\ granted = 0 /\ Len(sent) = 0
  BY EmptySeq DEF Init, NewServer
<1> QED
  BY <1>1, <1>2, Zenon DEF Promise!Init

LEMMA NextImplements == Inv /\ [Next]_vars => [Promise!Next]_Promise!vars
<1> SUFFICES ASSUME Inv, [Next]_vars PROVE [Promise!Next]_Promise!vars
  OBVIOUS
<1> USE DEF Promise!vars
<1>0. Accounts /\ server \in ServerType
  BY InvParts DEF Accounts
<1>1. CASE StartRun
  <2>1. Promise!StartRun
    BY <1>1, EmptySeq DEF StartRun, NewServer, Promise!StartRun
  <2> QED
    BY <2>1 DEF Promise!Next
<1>2. CASE StopRun
  BY <1>2 DEF StopRun
<1>3. ASSUME NEW n \in CreditGrants, NEW p \in Prescalings, AddCredits(n, p)
      PROVE  Promise!Next
  <2>1. server'.credits = server.credits + n
    BY <1>0, <1>3 DEF AddCredits, ServerType
  <2>2. Promise!AddCredits(n)
    BY <1>3, <2>1 DEF AddCredits, Promise!AddCredits
  <2> QED
    BY <2>2 DEF Promise!Next
<1>4. ASSUME NEW header \in BOOLEAN, NEW trailer \in BOOLEAN, ReadBlock(header, trailer)
      PROVE  UNCHANGED Promise!vars
  <2>1. UNCHANGED <<onRequest, granted, sent>>
    BY <1>4 DEF ReadBlock
  <2>2. server'.credits = server.credits
    BY <1>0, <1>4, ReadBlockKeepsCredits
  <2> QED
    BY <2>1, <2>2
<1>5. CASE StartSending
  BY <1>5 DEF StartSending
<1>6. CASE StopSending
  BY <1>6 DEF StopSending
<1>7. CASE SendMessage
  <2>1. /\ server'.credits = Decremented(server.credits)
        /\ onRequest => server.credits > 0
        /\ UNCHANGED <<onRequest, granted>>
        /\ Len(sent') = Len(sent) + 1
    BY <1>0, <1>7, MessageSent
  <2>2. Promise!Transmit
    BY <2>1 DEF Decremented, Promise!Transmit, Promise!TransmitFor
  <2> QED
    BY <2>2 DEF Promise!Next
<1>8. CASE FailToSendMessage
  BY <1>0, <1>8, MessageFails DEF FailToSendMessage
<1>9. CASE FailToMerge
  BY <1>9 DEF FailToMerge
<1>10. CASE Release
  BY <1>10 DEF Release
<1>11. CASE UNCHANGED vars
  BY <1>11 DEF vars
<1> QED
  BY <1>1, <1>2, <1>3, <1>4, <1>5, <1>6, <1>7, <1>8, <1>9, <1>10, <1>11 DEF Next

\* The I2O server keeps the promise of Base: each of its steps is a step of DataServer,
\* or leaves the credits and the count of messages alone.
THEOREM Implements == Spec => ImplementsDataServer
  BY InitImplements, InvInit, InvNext, NextImplements, PTL
     DEF Spec, ImplementsDataServer, Promise!Spec
-----------------------------------------------------------------------------
(***************************************************************************)
(* The order of events, for any prescaling factors and any pool.           *)
(*                                                                         *)
(* The argument: blocks of different events are parted in the queue by an  *)
(* end, unless prescaling or the pool refuses a block of an event whose    *)
(* first blocks were taken; such an event joins "parted".  Credits never   *)
(* refuse one: they exceed the events queued not only when an event begins *)
(* but until it ends, as what is sent meanwhile takes one from both.       *)
(***************************************************************************)

\* What holds of two blocks one behind the other, with no end between them.
Joined(e, f, parts) == e <= f /\ (e < f => e \in parts)

\* The events of the blocks in the queue never fall, rise where an event ends, and rise
\* elsewhere only behind the blocks of an event that was parted.
Apart(queue, parts) ==
  \A i, j \in 1..Len(queue) : i < j =>
    IF \E k \in i..j - 1 : queue[k].ends
    THEN queue[i].event < queue[j].event
    ELSE Joined(queue[i].event, queue[j].event, parts)

\* An event that is complete, and will not be continued by the blocks yet to be read.
Past(number) == number <= event /\ (insideEvent => number < event)

\* The last block in the queue is of an event that is past, and was parted if the block
\* is no end, or of the event being read; unless it is an end, there is a credit left to
\* take the next one.
LastIsCurrent ==
  LET q == server.queue
  IN  q # <<>> =>
        /\ q[Len(q)].event <= event
        /\ q[Len(q)].ends => Past(q[Len(q)].event)
        /\ ~q[Len(q)].ends =>
             /\ Past(q[Len(q)].event) => q[Len(q)].event \in parted
             /\ onRequest => server.credits > server.nEventsInQueue

\* The events of a message are past, all but the last one were parted, and they are
\* earlier than those of the messages after it and than those in the queue.
SentBefore ==
  \A i \in 1..Len(sent) : \A e \in sent[i].events :
    /\ Past(e)
    /\ \A f \in sent[i].events : e < f => e \in parted
    /\ \A j \in 1..Len(server.queue) : e < server.queue[j].event
    /\ \A j \in i + 1..Len(sent) : \A f \in sent[j].events : e < f

InOrder == Apart(server.queue, parted) /\ LastIsCurrent /\ SentBefore

OrderInv == Inv /\ InOrder
-----------------------------------------------------------------------------
LEMMA ApartGrows ==
  ASSUME NEW queue, NEW parts, NEW more, Apart(queue, parts), parts \subseteq more
  PROVE  Apart(queue, more)
  BY DEF Apart, Joined

LEMMA EventsOfBlocks ==
  ASSUME NEW queue \in Seq(Block)
  PROVE  /\ Len(queue) \in Nat
         /\ queue # <<>> => Len(queue) \in 1..Len(queue)
         /\ \A i \in 1..Len(queue) : queue[i].event \in Nat
<1>1. Len(queue) \in Nat /\ (queue # <<>> => Len(queue) \in 1..Len(queue))
  BY EmptySeq, LenProperties
<1>2. \A i \in 1..Len(queue) : queue[i] \in Block
  BY ElementOfSeq
<1> QED
  BY <1>1, <1>2 DEF Block

LEMMA ApartAppend ==
  ASSUME NEW queue \in Seq(Block), NEW parts, Apart(queue, parts), NEW block \in Block,
         queue # <<>> => IF queue[Len(queue)].ends
                         THEN queue[Len(queue)].event < block.event
                         ELSE Joined(queue[Len(queue)].event, block.event, parts)
  PROVE  Apart(Append(queue, block), parts)
<1> DEFINE len == Len(queue)
           longer == Append(queue, block)
<1>1. /\ len \in Nat /\ Len(longer) = len + 1
      /\ \A i \in 1..len : longer[i] = queue[i]
      /\ longer[len + 1] = block
  BY AppendBlock
<1>2. \A i \in 1..len : queue[i].event \in Nat
  BY EventsOfBlocks
<1>3. block.event \in Nat
  BY DEF Block
<1>4. SUFFICES ASSUME NEW i \in 1..len + 1, NEW j \in 1..len + 1, i < j
               PROVE  IF \E k \in i..j - 1 : longer[k].ends
                      THEN longer[i].event < longer[j].event
                      ELSE Joined(longer[i].event, longer[j].event, parts)
  BY <1>1 DEF Apart
<1> HIDE DEF longer
<1>5. CASE j \in 1..len
  <2>1. i \in 1..len /\ \A k \in i..j - 1 : k \in 1..len
    BY <1>1, <1>4, <1>5
  <2>2. IF \E k \in i..j - 1 : queue[k].ends
        THEN queue[i].event < queue[j].event
        ELSE Joined(queue[i].event, queue[j].event, parts)
    BY <1>4, <1>5, <2>1 DEF Apart
  <2>3. (\E k \in i..j - 1 : longer[k].ends) <=> (\E k \in i..j - 1 : queue[k].ends)
    BY <1>1, <2>1
  <2> QED
    BY <1>1, <1>5, <2>1, <2>2, <2>3
<1>6. CASE j = len + 1
  <2>1. i \in 1..len /\ len \in 1..len /\ queue # <<>> /\ longer[i] = queue[i]
    BY <1>1, <1>4, <1>6, EmptySeq
  <2>2. longer[j] = block
    BY <1>1, <1>6
  <2>3. \A k : k \in i..j - 1 <=> k \in i..len - 1 \/ k = len
    BY <1>1, <1>6, <2>1
  <2>4. (\E k \in i..j - 1 : longer[k].ends)
          <=> (\E k \in i..len - 1 : queue[k].ends) \/ queue[len].ends
    <3>1. \A k \in i..len - 1 : longer[k] = queue[k]
      BY <1>1, <2>1
    <3>2. longer[len] = queue[len]
      BY <1>1, <2>1
    <3> QED
      BY <2>3, <3>1, <3>2
  <2>5. IF queue[len].ends THEN queue[len].event < block.event
                           ELSE Joined(queue[len].event, block.event, parts)
    BY <2>1
  <2>6. CASE i = len
    <3>1. ~(\E k \in i..len - 1 : queue[k].ends)
      BY <1>1, <2>6
    <3> QED
      BY <2>1, <2>2, <2>4, <2>5, <2>6, <3>1
  <2>7. CASE i < len
    <3>1. IF \E k \in i..len - 1 : queue[k].ends
          THEN queue[i].event < queue[len].event
          ELSE Joined(queue[i].event, queue[len].event, parts)
      BY <2>1, <2>7 DEF Apart
    <3>2. queue[i].event \in Nat /\ queue[len].event \in Nat
      BY <1>2, <2>1
    <3>3. IF (\E k \in i..len - 1 : queue[k].ends) \/ queue[len].ends
          THEN queue[i].event < block.event
          ELSE Joined(queue[i].event, block.event, parts)
      BY <1>3, <2>5, <3>1, <3>2 DEF Joined
    <3> QED
      BY <2>1, <2>2, <2>4, <3>3
  <2> QED
    BY <1>1, <2>1, <2>6, <2>7
<1> QED
  BY <1>1, <1>4, <1>5, <1>6

LEMMA ApartClosed ==
  ASSUME NEW queue \in Seq(Block), NEW parts, Apart(queue, parts), queue # <<>>
  PROVE  Apart([queue EXCEPT ![Len(queue)].ends = TRUE], parts)
<1> DEFINE len == Len(queue)
           last == [queue[len] EXCEPT !.ends = TRUE]
           closed == [queue EXCEPT ![len] = last]
<1>1. len \in Nat /\ len \in 1..len /\ queue[len] \in Block
  BY EmptySeq, ElementOfSeq
<1>2. last \in Block /\ last.event = queue[len].event
  BY <1>1 DEF Block
<1>3. /\ Len(closed) = len
      /\ \A i \in 1..len : closed[i] = IF i = len THEN last ELSE queue[i]
  BY <1>1, <1>2, ExceptSeq
<1> HIDE DEF closed, last
<1>4. \A i \in 1..len : closed[i].event = queue[i].event
  BY <1>2, <1>3
<1>5. Apart(closed, parts)
  <2>1. SUFFICES ASSUME NEW i \in 1..len, NEW j \in 1..len, i < j
                 PROVE  IF \E k \in i..j - 1 : closed[k].ends
                        THEN closed[i].event < closed[j].event
                        ELSE Joined(closed[i].event, closed[j].event, parts)
    BY <1>3 DEF Apart
  <2>2. \A k \in i..j - 1 : closed[k] = queue[k]
    BY <1>1, <1>3
  <2>3. (\E k \in i..j - 1 : closed[k].ends) <=> (\E k \in i..j - 1 : queue[k].ends)
    BY <2>2
  <2> QED
    BY <1>4, <2>1, <2>3 DEF Apart
<1> QED
  BY <1>5 DEF closed, last

LEMMA ApartRest ==
  ASSUME NEW queue \in Seq(Block), NEW parts, Apart(queue, parts), NEW n \in Ends(queue),
         \A i \in Ends(queue) : n <= i
  PROVE  Apart(Remaining(queue, n), parts)
<1> DEFINE len == Len(queue)
           rest == Remaining(queue, n)
<1>1. /\ len \in Nat /\ n \in 1..len /\ Len(rest) = len - n
      /\ \A i \in 1..Len(rest) : rest[i] = queue[i + n]
  BY RemoveFirstEvent, EndsType
<1> HIDE DEF rest
<1>2. SUFFICES ASSUME NEW i \in 1..len - n, NEW j \in 1..len - n, i < j
               PROVE  IF \E k \in i..j - 1 : rest[k].ends
                      THEN rest[i].event < rest[j].event
                      ELSE Joined(rest[i].event, rest[j].event, parts)
  BY <1>1 DEF Apart, rest
<1>3. i + n \in 1..len /\ j + n \in 1..len /\ i + n < j + n
  BY <1>1, <1>2
<1>4. (\E k \in i..j - 1 : rest[k].ends)
        <=> (\E k \in i + n..(j + n) - 1 : queue[k].ends)
  <2>1. ASSUME NEW k \in i..j - 1, rest[k].ends
        PROVE  k + n \in i + n..(j + n) - 1 /\ queue[k + n].ends
    BY <1>1, <2>1
  <2>2. ASSUME NEW k \in i + n..(j + n) - 1, queue[k].ends
        PROVE  k - n \in i..j - 1 /\ rest[k - n].ends
    <3>1. k - n \in i..j - 1 /\ k - n \in 1..len - n /\ (k - n) + n = k
      BY <1>1
    <3> QED
      BY <1>1, <2>2, <3>1
  <2> QED
    BY <2>1, <2>2
<1>5. IF \E k \in i + n..(j + n) - 1 : queue[k].ends
      THEN queue[i + n].event < queue[j + n].event
      ELSE Joined(queue[i + n].event, queue[j + n].event, parts)
  BY <1>3 DEF Apart
<1>6. rest[i] = queue[i + n] /\ rest[j] = queue[j + n]
  BY <1>1
<1> QED
  BY <1>4, <1>5, <1>6

\* The blocks up to the first end are earlier than those behind, and all but the last of
\* their events were parted.
LEMMA FirstEvent ==
  ASSUME NEW queue \in Seq(Block), NEW parts, Apart(queue, parts), NEW n \in Ends(queue),
         \A i \in Ends(queue) : n <= i
  PROVE  /\ \A i \in 1..n : queue[i].event <= queue[n].event
         /\ \A i, j \in 1..n : queue[i].event < queue[j].event => queue[i].event \in parts
         /\ \A i \in 1..n, j \in n + 1..Len(queue) : queue[i].event < queue[j].event
<1>1. Len(queue) \in Nat /\ n \in 1..Len(queue) /\ queue[n].ends
  BY EndsType DEF Ends
<1>2. \A i \in 1..Len(queue) : queue[i].event \in Nat
  BY EventsOfBlocks
<1>3. ASSUME NEW i \in 1..n, NEW j \in 1..n, i < j
      PROVE  Joined(queue[i].event, queue[j].event, parts)
  <2>1. i \in 1..Len(queue) /\ j \in 1..Len(queue)
    BY <1>1
  <2>2. \A k \in i..j - 1 : k \in 1..Len(queue) /\ k < n
    BY <1>1, <1>3
  <2>3. \A k \in i..j - 1 : ~queue[k].ends
    BY <1>1, <2>2 DEF Ends
  <2>4. IF \E k \in i..j - 1 : queue[k].ends
        THEN queue[i].event < queue[j].event
        ELSE Joined(queue[i].event, queue[j].event, parts)
    BY <1>3, <2>1 DEF Apart
  <2> QED
    BY <2>3, <2>4
<1>4. ASSUME NEW i \in 1..n PROVE queue[i].event <= queue[n].event
  <2>1. CASE i < n
    BY <1>1, <1>3, <2>1 DEF Joined
  <2>2. CASE i = n
    BY <1>1, <1>2, <2>2
  <2> QED
    BY <1>1, <2>1, <2>2
<1>5. ASSUME NEW i \in 1..n, NEW j \in 1..n, queue[i].event < queue[j].event
      PROVE  queue[i].event \in parts
  <2>1. queue[i].event \in Nat /\ queue[j].event \in Nat
    BY <1>1, <1>2
  <2>2. CASE i < j
    BY <1>3, <1>5, <2>2 DEF Joined
  <2>3. CASE j < i
    <3>1. queue[j].event <= queue[i].event
      BY <1>3, <2>3 DEF Joined
    <3> QED
      BY <1>5, <2>1, <3>1
  <2>4. CASE i = j
    BY <1>5, <2>1, <2>4
  <2> QED
    BY <1>1, <2>2, <2>3, <2>4
<1>6. ASSUME NEW i \in 1..n, NEW j \in n + 1..Len(queue)
      PROVE  queue[i].event < queue[j].event
  <2>1. n \in i..j - 1 /\ i \in 1..Len(queue) /\ j \in 1..Len(queue) /\ i < j
    BY <1>1
  <2> QED
    BY <1>1, <2>1 DEF Apart
<1> QED
  BY <1>4, <1>5, <1>6

LEMMA SentEvents ==
  ASSUME Accounts
  PROVE  Len(sent) \in Nat /\ \A i \in 1..Len(sent) : sent[i].events \subseteq Nat
<1>1. sent \in Seq(Message)
  BY DEF Accounts
<1>2. \A i \in 1..Len(sent) : sent[i] \in Message
  BY <1>1, ElementOfSeq
<1>3. \A i \in 1..Len(sent) : sent[i].events \subseteq Nat
  BY <1>2 DEF Message
<1> QED
  BY <1>1, <1>3, LenProperties

-----------------------------------------------------------------------------
LEMMA OrderInit == Init => OrderInv
<1> SUFFICES ASSUME Init PROVE OrderInv
  OBVIOUS
<1>1. PICK p \in Prescalings : server = NewServer(p)
  BY DEF Init
<1>2. server.queue = <<>> /\ sent = <<>>
  BY <1>1 DEF Init, NewServer
<1>3. InOrder
  BY <1>2, EmptySeq DEF InOrder, Apart, LastIsCurrent, SentBefore
<1> QED
  BY <1>3, InvInit DEF OrderInv

orderVars == <<server, onRequest, insideEvent, event, sent, parted>>

LEMMA OrderStays == InOrder /\ UNCHANGED orderVars => InOrder'
  BY DEF orderVars, InOrder, Apart, Joined, LastIsCurrent, SentBefore, Past

\* Whatever precedes the number that the next block gets is past when it is read.
LEMMA PastStaysPast ==
  ASSUME Counters, Flags, NEW header \in BOOLEAN, NEW number,
         number = IF header \/ ~insideEvent THEN event + 1 ELSE event,
         event' = number
  PROVE  /\ \A e \in Nat : Past(e) => e < number
         /\ \A e \in Nat : e < number => (Past(e))'
<1>1. event \in Nat /\ number \in Nat /\ event <= number
  BY DEF Counters
<1>2. \A e \in Nat : Past(e) => e < number
  BY <1>1 DEF Past
<1>3. \A e \in Nat : e < number => (Past(e))'
  BY <1>1 DEF Past
<1> QED
  BY <1>2, <1>3

\* The queue after a header may have closed the last event, and before the block is
\* added to it.
LEMMA ClosedInOrder ==
  ASSUME Inv, InOrder, NEW header \in BOOLEAN, NEW number,
         number = IF header \/ ~insideEvent THEN event + 1 ELSE event,
         NEW closed,
         closed = IF insideEvent /\ header THEN MakeLastBlockEndEvent(server) ELSE server
  PROVE  /\ Apart(closed.queue, parted)
         /\ closed.queue \in Seq(Block)
         /\ Len(closed.queue) = Len(server.queue)
         /\ \A i \in 1..Len(closed.queue) : closed.queue[i].event = server.queue[i].event
         /\ closed.queue # <<>> =>
              IF closed.queue[Len(closed.queue)].ends
              THEN closed.queue[Len(closed.queue)].event < number
              ELSE /\ Joined(closed.queue[Len(closed.queue)].event, number, parted)
                   /\ onRequest => closed.credits > closed.nEventsInQueue
<1> DEFINE q == server.queue
           len == Len(q)
<1>0. /\ server \in ServerType /\ q \in Seq(Block) /\ len \in Nat
      /\ Counters /\ Flags /\ event \in Nat /\ Apart(q, parted)
  BY InvParts DEF Accounts, ServerType, Counters, InOrder
<1>1. q # <<>> => len \in 1..len /\ q[len].event \in Nat
  BY <1>0, EventsOfBlocks
<1>2. q # <<>> => /\ q[len].event <= event
                  /\ q[len].ends => Past(q[len].event)
                  /\ ~q[len].ends =>
                       /\ Past(q[len].event) => q[len].event \in parted
                       /\ onRequest => server.credits > server.nEventsInQueue
  BY DEF InOrder, LastIsCurrent
<1> HIDE DEF q, len
<1>3. CASE (insideEvent /\ header) /\ q # <<>>
  <2> DEFINE new == [q EXCEPT ![len].ends = TRUE]
  <2>1. closed = [server EXCEPT !.queue = new,
                                !.nEventsInQueue = server.nEventsInQueue + 1]
    BY <1>3 DEF MakeLastBlockEndEvent, q, len
  <2>2. /\ new \in Seq(Block) /\ Len(new) = len
        /\ \A i \in 1..len : new[i].event = q[i].event
        /\ Ends(new) = Open(q)
    BY <1>0, <1>3, EndLastBlock DEF len
  <2>3. new[len].ends
    <3>1. len \in Open(q)
      BY <1>3 DEF Open, len
    <3> QED
      BY <2>2, <3>1 DEF Ends
  <2>4. Apart(new, parted)
    BY <1>0, <1>3, ApartClosed DEF len
  <2> HIDE DEF new
  <2>5. closed.queue = new
    BY <1>0, <2>1 DEF ServerType
  <2>6. q[len].event < number
    BY <1>0, <1>1, <1>2, <1>3
  <2>7. new[len].event < number
    BY <1>1, <1>3, <2>2, <2>6
  <2> QED
    BY <2>2, <2>3, <2>4, <2>5, <2>7, Zenon DEF q, len
<1>4. CASE ~(insideEvent /\ header) \/ q = <<>>
  <2>1. closed = server
    BY <1>4 DEF MakeLastBlockEndEvent, q
  <2>2. ASSUME q # <<>>
        PROVE  IF q[len].ends THEN q[len].event < number
               ELSE /\ Joined(q[len].event, number, parted)
                    /\ onRequest => server.credits > server.nEventsInQueue
    <3>1. q[len].event \in Nat /\ q[len].event <= event /\ ~(insideEvent /\ header)
      BY <1>1, <1>2, <1>4, <2>2
    <3>2. CASE q[len].ends
      BY <1>0, <1>2, <2>2, <3>1, <3>2 DEF Past
    <3>3. CASE ~q[len].ends
      <4>1. Joined(q[len].event, number, parted)
        BY <1>0, <1>2, <2>2, <3>1, <3>3 DEF Joined, Past
      <4> QED
        BY <1>2, <2>2, <3>3, <4>1
    <3> QED
      BY <3>2, <3>3
  <2> QED
    BY <1>0, <2>1, <2>2, Zenon DEF q, len
<1> QED
  BY <1>3, <1>4

LEMMA ReadBlockKeepsOrder ==
  ASSUME OrderInv, NEW header \in BOOLEAN, NEW trailer \in BOOLEAN,
         ReadBlock(header, trailer)
  PROVE  InOrder'
<1> DEFINE unfinished == insideEvent /\ header
           nEvents == nEventsRead + (IF unfinished THEN 1 ELSE 0)
                                  + (IF trailer THEN 1 ELSE 0)
           closed  == IF unfinished THEN MakeLastBlockEndEvent(server) ELSE server
           number  == IF header \/ ~insideEvent THEN event + 1 ELSE event
           block   == [event |-> number, starts |-> header, ends |-> trailer]
           room    == InUse <= HighThreshold /\ InUse < PoolSize
           more    == Parted(closed, nEvents, room)
<1>0. /\ Inv /\ Flags /\ Counters /\ Accounts /\ server \in ServerType
      /\ InOrder /\ SentBefore
  BY InvParts DEF OrderInv, Accounts, InOrder
<1>1. /\ event' = number /\ insideEvent' = ~trailer
      /\ server' = AddData(closed, nEvents, block, room)
      /\ UNCHANGED <<onRequest, sent>>
      /\ parted' = parted \cup more
  BY DEF ReadBlock
<1>2. closed \in ServerType
  <2>1. server \in ServerType /\ Counted(server) /\ Paid(server)
    BY <1>0 DEF Accounts
  <2> QED
    BY <2>1, Closing
<1>3. /\ Apart(closed.queue, parted)
      /\ closed.queue \in Seq(Block)
      /\ Len(closed.queue) = Len(server.queue)
      /\ \A i \in 1..Len(closed.queue) : closed.queue[i].event = server.queue[i].event
      /\ closed.queue # <<>> =>
           IF closed.queue[Len(closed.queue)].ends
           THEN closed.queue[Len(closed.queue)].event < number
           ELSE /\ Joined(closed.queue[Len(closed.queue)].event, number, parted)
                /\ onRequest => closed.credits > closed.nEventsInQueue
  BY <1>0, ClosedInOrder
<1>4. /\ \A e \in Nat : Past(e) => e < number
      /\ \A e \in Nat : e < number => (Past(e))'
  BY <1>0, <1>1, PastStaysPast
<1>5. /\ number \in Nat
      /\ block \in Block
      /\ block.event = number /\ block.ends = trailer
  <2>1. number \in Nat
    BY <1>0 DEF Counters
  <2> HIDE DEF number
  <2> QED
    BY <2>1 DEF Block
<1> HIDE DEF closed, block, room, number, nEvents, unfinished
<1> DEFINE q == closed.queue
           len == Len(q)
<1>6. /\ len \in Nat
      /\ \A i \in 1..len : q[i].event \in Nat
      /\ q # <<>> => len \in 1..len
  BY <1>3, EventsOfBlocks
<1>7. Apart(q, parted') /\ parted \subseteq parted'
  <2>1. parted \subseteq parted'
    BY <1>1
  <2> QED
    BY <1>3, <2>1, ApartGrows
<1>8. /\ Len(sent) \in Nat /\ sent' = sent
      /\ \A i \in 1..Len(sent) : \A e \in sent[i].events :
           /\ e \in Nat /\ e < number /\ (Past(e))'
           /\ \A f \in sent[i].events : e < f => e \in parted'
           /\ \A j \in 1..len : e < q[j].event
           /\ \A j \in i + 1..Len(sent) : \A f \in sent[j].events : e < f
  <2>1. Len(sent) \in Nat /\ \A i \in 1..Len(sent) : sent[i].events \subseteq Nat
    BY <1>0, SentEvents
  <2>2. ASSUME NEW i \in 1..Len(sent), NEW e \in sent[i].events
        PROVE  /\ e \in Nat /\ e < number /\ (Past(e))'
               /\ \A f \in sent[i].events : e < f => e \in parted'
               /\ \A j \in 1..len : e < q[j].event
               /\ \A j \in i + 1..Len(sent) : \A f \in sent[j].events : e < f
    <3>1. /\ Past(e)
          /\ \A f \in sent[i].events : e < f => e \in parted
          /\ \A j \in 1..Len(server.queue) : e < server.queue[j].event
          /\ \A j \in i + 1..Len(sent) : \A f \in sent[j].events : e < f
      BY <1>0 DEF SentBefore
    <3>2. e \in Nat /\ e < number /\ (Past(e))'
      BY <1>4, <2>1, <3>1
    <3>3. \A j \in 1..len : e < q[j].event
      BY <1>3, <3>1
    <3>4. \A f \in sent[i].events : e < f => e \in parted'
      BY <1>7, <3>1
    <3> QED
      BY <3>1, <3>2, <3>3, <3>4
  <2> QED
    BY <1>1, <2>1, <2>2
\* An event that loses a block to the prescaling or to the pool is parted.
<1>9. q # <<>> /\ ~q[len].ends /\ ~(IsSelected(closed, nEvents) /\ room)
        => q[len].event \in parted'
  BY <1>1 DEF Parted, Last
<1> HIDE DEF more, q, len
<1>10. CASE WantsData(closed, nEvents) /\ room
  <2>1. server' = [closed EXCEPT !.queue = Append(q, block),
                                 !.nEventsInQueue = IF block.ends
                                                    THEN closed.nEventsInQueue + 1
                                                    ELSE closed.nEventsInQueue]
    BY <1>1, <1>10 DEF AddData, q
  <2>2. server'.queue = Append(q, block)
    BY <1>2, <2>1 DEF ServerType
  <2>3. server'.credits = closed.credits
    BY <1>2, <2>1 DEF ServerType
  <2>4. ~trailer => server'.nEventsInQueue = closed.nEventsInQueue
    BY <1>2, <1>5, <2>1 DEF ServerType
  <2>5. /\ Len(server'.queue) = len + 1
        /\ \A i \in 1..len : server'.queue[i] = q[i]
        /\ server'.queue[len + 1] = block
    BY <1>3, <1>5, <2>2, AppendBlock DEF q, len
  <2>6. Apart(server'.queue, parted')
    <3>1. q # <<>> => IF q[len].ends THEN q[len].event < block.event
                      ELSE Joined(q[len].event, block.event, parted')
      BY <1>3, <1>5, <1>7 DEF Joined, q, len
    <3>2. q \in Seq(Block)
      BY <1>3 DEF q
    <3> QED
      BY <1>5, <1>7, <2>2, <3>1, <3>2, ApartAppend DEF len
  <2>7. LastIsCurrent'
    <3>1. server'.queue[Len(server'.queue)] = block
      BY <2>5
    <3>2. block.event <= event'
      BY <1>1, <1>5
    <3>3. CASE trailer
      <4>1. ~insideEvent'
        BY <1>1, <3>3, Zenon
      <4>2. block.ends
        BY <1>5, <3>3
      <4> QED
        BY <3>1, <3>2, <4>1, <4>2 DEF LastIsCurrent, Past
    <3>4. CASE ~trailer
      <4>1. ~block.ends /\ block.event = number
        BY <1>5, <3>4
      <4>2. insideEvent' /\ event' = number
        BY <1>1, <3>4
      <4>3. onRequest' => server'.credits > server'.nEventsInQueue
        BY <1>1, <1>10, <2>3, <2>4, <3>4 DEF WantsData
      <4>4. ~(block.event < event')
        BY <1>5, <4>1, <4>2
      <4> QED
        BY <3>1, <3>2, <4>1, <4>2, <4>3, <4>4 DEF LastIsCurrent, Past
    <3> QED
      BY <3>3, <3>4
  <2>8. SentBefore'
    <3>1. ASSUME NEW i \in 1..Len(sent), NEW e \in sent[i].events, NEW j \in 1..len + 1
          PROVE  e < server'.queue[j].event
      <4>1. CASE j \in 1..len
        BY <1>8, <2>5, <4>1
      <4>2. CASE j = len + 1
        BY <1>5, <1>8, <2>5, <4>2
      <4> QED
        BY <1>6, <4>1, <4>2 DEF len, q
    <3> QED
      BY <1>8, <2>5, <3>1 DEF SentBefore, Past
  <2>9. (Apart(server.queue, parted))'
    BY <2>6 DEF Apart, Joined
  <2> QED
    BY <2>7, <2>8, <2>9 DEF InOrder
<1>11. CASE ~(WantsData(closed, nEvents) /\ room)
  <2>1. server' = closed /\ server'.queue = q
    BY <1>1, <1>11 DEF AddData, q
  <2>2. q # <<>> => q[len].event \in Nat /\ q[len].event <= event'
    <3>1. q # <<>> => q[len].event \in Nat
      BY <1>6 DEF q, len
    <3>2. q # <<>> => q[len].event <= number
      BY <1>3, <1>5, <3>1 DEF Joined, q, len
    <3> QED
      BY <1>1, <3>1, <3>2
  <2>3. q # <<>> /\ q[len].ends => (insideEvent' => q[len].event < event')
    BY <1>1, <1>3 DEF q, len
  <2>4. q # <<>> /\ ~q[len].ends =>
          /\ q[len].event \in parted'
          /\ onRequest => closed.credits > closed.nEventsInQueue
    <3>1. q # <<>> /\ ~q[len].ends => (onRequest => closed.credits > closed.nEventsInQueue)
      BY <1>3 DEF q, len
    <3>2. q # <<>> /\ ~q[len].ends => ~(IsSelected(closed, nEvents) /\ room)
      BY <1>11, <3>1 DEF WantsData
    <3> QED
      BY <1>9, <3>1, <3>2
  <2>5. LastIsCurrent'
    <3>1. Len(q) = len
      BY DEF len
    <3> QED
      BY <1>1, <2>1, <2>2, <2>3, <2>4, <3>1 DEF LastIsCurrent, Past
  <2>6. SentBefore'
    <3>1. Len(server'.queue) = len
      BY <2>1 DEF len
    <3> QED
      BY <1>8, <2>1, <3>1 DEF SentBefore, Past
  <2>7. (Apart(server.queue, parted))'
    BY <1>7, <2>1 DEF Apart, Joined
  <2> QED
    BY <2>5, <2>6, <2>7 DEF InOrder
<1> QED
  BY <1>10, <1>11

\* The queue without the blocks of the next message, be it posted or lost in the post.
LEMMA RestInOrder ==
  ASSUME OrderInv, NEW n \in Ends(server.queue), \A i \in Ends(server.queue) : n <= i,
         server'.queue = Remaining(server.queue, n),
         UNCHANGED <<onRequest, insideEvent, event, parted>>,
         onRequest /\ server.credits > server.nEventsInQueue
           => server'.credits > server'.nEventsInQueue
  PROVE  /\ (Apart(server.queue, parted))' /\ LastIsCurrent'
         /\ Len(server'.queue) = Len(server.queue) - n
         /\ \A j \in 1..Len(server'.queue) :
              /\ j + n \in n + 1..Len(server.queue)
              /\ server'.queue[j] = server.queue[j + n]
         /\ \A i \in 1..n : Past(server.queue[i].event)
<1> DEFINE q == server.queue
           len == Len(q)
           rest == Remaining(q, n)
<1>0. /\ Counters /\ q \in Seq(Block) /\ event \in Nat
      /\ Apart(q, parted) /\ LastIsCurrent
  BY InvParts DEF OrderInv, InOrder, Accounts, ServerType, Counters
<1>1. /\ len \in Nat /\ n \in 1..len /\ q # <<>> /\ q[n].ends
      /\ \A i \in 1..len : q[i].event \in Nat
  BY <1>0, EndsType, EventsOfBlocks, EmptySeq DEF Ends
<1>2. /\ rest \in Seq(Block) /\ Len(rest) = len - n
      /\ \A j \in 1..len - n : rest[j] = q[j + n]
  BY <1>0, RemoveFirstEvent
<1>3. Apart(rest, parted)
  BY <1>0, ApartRest
<1>4. /\ \A i \in 1..n : q[i].event <= q[n].event
      /\ \A i \in 1..n, j \in n + 1..len : q[i].event < q[j].event
  BY <1>0, FirstEvent
<1>5. /\ q[len].event <= event
      /\ q[len].ends => Past(q[len].event)
      /\ ~q[len].ends =>
           /\ Past(q[len].event) => q[len].event \in parted
           /\ onRequest => server.credits > server.nEventsInQueue
  BY <1>0, <1>1 DEF LastIsCurrent
<1> HIDE DEF q, len, rest
<1>6. server'.queue = rest
  BY DEF rest, q
<1>7. LastIsCurrent'
  <2>1. SUFFICES ASSUME rest # <<>> PROVE rest[Len(rest)] = q[len]
    BY <1>5, <1>6 DEF LastIsCurrent, Past
  <2>2. Len(rest) \in 1..len - n /\ Len(rest) + n = len
    BY <1>1, <1>2, <2>1, EmptySeq
  <2> QED
    BY <1>2, <2>2
<1>8. Past(q[n].event)
  <2>1. CASE n = len
    BY <1>1, <1>5, <2>1
  <2>2. CASE n < len
    <3>1. q[n].event < q[len].event
      BY <1>1, <1>4, <2>2
    <3>2. q[n].event \in Nat /\ q[len].event \in Nat /\ event \in Nat
      BY <1>0, <1>1, <2>2
    <3> QED
      BY <1>5, <3>1, <3>2 DEF Past
  <2> QED
    BY <1>1, <2>1, <2>2
<1>9. ASSUME NEW i \in 1..n PROVE Past(q[i].event)
  <2>1. /\ q[i].event <= q[n].event
        /\ q[i].event \in Nat /\ q[n].event \in Nat /\ event \in Nat
    BY <1>0, <1>1, <1>4
  <2> QED
    BY <1>8, <2>1 DEF Past
<1>10. \A j \in 1..len - n : j + n \in n + 1..len
  BY <1>1
<1>11. (Apart(server.queue, parted))'
  BY <1>3, <1>6 DEF Apart, Joined
<1> QED
  BY <1>2, <1>6, <1>7, <1>9, <1>10, <1>11 DEF q, len

LEMMA SendMessageKeepsOrder ==
  ASSUME OrderInv, SendMessage
  PROVE  InOrder'
<1> DEFINE q == server.queue
           len == Len(q)
           n == NextMessageLength
           rest == Remaining(q, n)
           message == [events  |-> {q[i].event : i \in 1..n},
                       credits |-> CreditsInMessage(server)]
<1>0. /\ Inv /\ Flags /\ Counters /\ Accounts /\ server \in ServerType /\ q \in Seq(Block)
      /\ SentBefore /\ Apart(q, parted)
  BY InvParts DEF OrderInv, InOrder, Accounts, ServerType
<1>1. /\ server' = EventSent(server, rest)
      /\ sent' = Append(sent, message)
      /\ UNCHANGED <<onRequest, insideEvent, event, parted>>
      /\ SendingMessage
  BY DEF SendMessage, runVars
<1>2. n \in Ends(q) /\ (\A i \in Ends(q) : n <= i) /\ n \in Nat
  BY <1>0, <1>1, FirstMessage
<1>3. /\ len \in Nat /\ n \in 1..len
      /\ \A i \in 1..len : q[i].event \in Nat
  BY <1>0, <1>2, EndsType, EventsOfBlocks
<1>4. /\ onRequest => server.credits > 0
      /\ server.nEventsInQueue > 0
  <2>1. Cardinality(Ends(q)) > 0
    BY <1>0, <1>1, MessageTakes
  <2>2. server.nEventsInQueue > 0
    BY <1>0, <2>1, EndsType DEF Accounts, Counted, ServerType
  <2> QED
    BY <1>0, <2>2, MessageSent
<1> HIDE DEF n, message, rest
<1>5. server' = [server EXCEPT !.queue = rest,
                               !.nEventsInQueue = Decremented(server.nEventsInQueue),
                               !.credits = Decremented(server.credits)]
  BY <1>1 DEF EventSent
<1>6. server'.queue = rest
  BY <1>0, <1>5 DEF ServerType
<1>7. server'.credits = Decremented(server.credits)
  BY <1>0, <1>5 DEF ServerType
<1>8. server'.nEventsInQueue = Decremented(server.nEventsInQueue)
  BY <1>0, <1>5 DEF ServerType
<1>9. onRequest /\ server.credits > server.nEventsInQueue
        => server'.credits > server'.nEventsInQueue
  <2>1. server.credits \in Nat /\ server.nEventsInQueue \in Nat
    BY <1>0 DEF ServerType
  <2> QED
    BY <1>4, <1>7, <1>8, <2>1 DEF Decremented
<1>10. /\ (Apart(server.queue, parted))' /\ LastIsCurrent'
       /\ Len(server'.queue) = len - n
       /\ \A j \in 1..Len(server'.queue) :
            j + n \in n + 1..len /\ server'.queue[j] = q[j + n]
       /\ \A i \in 1..n : Past(q[i].event)
  <2>1. server'.queue = Remaining(server.queue, n)
    BY <1>6 DEF rest
  <2> QED
    BY <1>1, <1>2, <1>9, <2>1, RestInOrder
<1>11. /\ \A i, j \in 1..n : q[i].event < q[j].event => q[i].event \in parted
       /\ \A i \in 1..n, j \in n + 1..len : q[i].event < q[j].event
  BY <1>0, <1>2, FirstEvent
<1> HIDE DEF q, len
<1>12. message.events = {q[i].event : i \in 1..n}
  BY DEF message
<1>13. /\ Len(sent) \in Nat /\ Len(sent') = Len(sent) + 1
       /\ \A i \in 1..Len(sent) : sent'[i] = sent[i] /\ sent[i].events \subseteq Nat
       /\ sent'[Len(sent) + 1] = message
  <2>1. sent \in Seq(Message)
    BY <1>0 DEF Accounts
  <2>2. CreditsInMessage(server) \in Nat
    BY <1>0 DEF CreditsInMessage, Decremented, ServerType
  <2>3. message.events \subseteq Nat
    BY <1>3, <1>12
  <2>4. message \in Message
    BY <2>2, <2>3 DEF message, Message
  <2> QED
    BY <1>0, <1>1, <2>1, <2>4, AppendProperties, LenProperties, SentEvents
<1>14. ASSUME NEW i \in 1..Len(sent) + 1, NEW e \in sent'[i].events
       PROVE  /\ Past(e)
              /\ \A f \in sent'[i].events : e < f => e \in parted
              /\ \A j \in 1..Len(server'.queue) : e < server'.queue[j].event
              /\ \A j \in i + 1..Len(sent) + 1 : \A f \in sent'[j].events : e < f
  <2>1. CASE i = Len(sent) + 1
    <3>1. sent'[i].events = {q[k].event : k \in 1..n}
      BY <1>12, <1>13, <2>1
    <3>2. PICK k \in 1..n : e = q[k].event
      BY <3>1
    <3>3. Past(e)
      BY <1>10, <3>2
    <3>4. \A f \in sent'[i].events : e < f => e \in parted
      BY <1>11, <3>1, <3>2
    <3>5. \A j \in 1..Len(server'.queue) : e < server'.queue[j].event
      BY <1>10, <1>11, <3>2
    <3>6. \A j : j \notin i + 1..Len(sent) + 1
      BY <1>13, <2>1
    <3> QED
      BY <3>3, <3>4, <3>5, <3>6
  <2>2. CASE i \in 1..Len(sent)
    <3>1. e \in sent[i].events /\ sent'[i] = sent[i]
      BY <1>13, <2>2
    <3>2. /\ Past(e)
          /\ \A f \in sent[i].events : e < f => e \in parted
          /\ \A j \in 1..len : e < q[j].event
          /\ \A j \in i + 1..Len(sent) : \A f \in sent[j].events : e < f
      BY <1>0, <2>2, <3>1 DEF SentBefore, q, len
    <3>3. \A j \in 1..Len(server'.queue) : e < server'.queue[j].event
      <4>1. \A j \in n + 1..len : j \in 1..len
        BY <1>3 DEF q, len
      <4> QED
        BY <1>10, <3>2, <4>1
    <3>4. ASSUME NEW j \in i + 1..Len(sent) + 1, NEW f \in sent'[j].events
          PROVE  e < f
      <4>1. CASE j = Len(sent) + 1
        <5>1. PICK k \in 1..n : f = q[k].event
          BY <1>12, <1>13, <4>1
        <5>2. k \in 1..len
          BY <1>3 DEF q, len
        <5> QED
          BY <3>2, <5>1, <5>2
      <4>2. CASE j \in i + 1..Len(sent)
        <5>1. j \in 1..Len(sent)
          BY <1>13, <2>2, <4>2
        <5> QED
          BY <1>13, <3>2, <4>2, <5>1
      <4> QED
        BY <1>13, <2>2, <4>1, <4>2
    <3> QED
      BY <3>1, <3>2, <3>3, <3>4
  <2> QED
    BY <1>13, <2>1, <2>2
<1>15. SentBefore'
  BY <1>1, <1>13, <1>14 DEF SentBefore, Past
<1> QED
  BY <1>10, <1>15 DEF InOrder

\* A merged message that cannot be posted takes its blocks out of the queue and with it
\* neither a credit nor an event from their counters.
LEMMA FailToSendKeepsOrder ==
  ASSUME OrderInv, FailToSendMessage
  PROVE  InOrder'
<1> DEFINE n == NextMessageLength
<1>0. /\ Inv /\ Accounts /\ server \in ServerType /\ server.queue \in Seq(Block)
      /\ InOrder /\ SentBefore
  BY InvParts DEF OrderInv, InOrder, Accounts, ServerType
<1>1. CASE NeedsMerging
  <2>1. /\ server' = [server EXCEPT !.queue = Remaining(server.queue, n)]
        /\ UNCHANGED <<onRequest, insideEvent, event, sent, parted>>
        /\ SendingMessage
    BY <1>1 DEF FailToSendMessage, runVars
  <2>2. n \in Ends(server.queue) /\ (\A i \in Ends(server.queue) : n <= i)
    BY <1>0, <2>1, FirstMessage
  <2> HIDE DEF n
  <2>3. server'.queue = Remaining(server.queue, n)
    BY <1>0, <2>1 DEF ServerType
  <2>4. server'.credits = server.credits
    BY <1>0, <2>1 DEF ServerType
  <2>5. server'.nEventsInQueue = server.nEventsInQueue
    BY <1>0, <2>1 DEF ServerType
  <2>6. /\ (Apart(server.queue, parted))' /\ LastIsCurrent'
        /\ \A j \in 1..Len(server'.queue) :
             /\ j + n \in n + 1..Len(server.queue)
             /\ server'.queue[j] = server.queue[j + n]
    BY <2>1, <2>2, <2>3, <2>4, <2>5, RestInOrder
  <2>7. \A j \in n + 1..Len(server.queue) : j \in 1..Len(server.queue)
    BY <1>0, <2>2, EndsType
  <2>8. SentBefore'
    BY <1>0, <2>1, <2>6, <2>7 DEF SentBefore, Past
  <2> QED
    BY <2>6, <2>8 DEF InOrder
<1>2. CASE ~NeedsMerging
  <2>1. UNCHANGED orderVars
    BY <1>2 DEF FailToSendMessage, orderVars, runVars
  <2> QED
    BY <1>0, <2>1, OrderStays
<1> QED
  BY <1>1, <1>2

LEMMA AddCreditsKeepsOrder ==
  ASSUME OrderInv, NEW n \in CreditGrants, NEW p \in Prescalings, AddCredits(n, p)
  PROVE  InOrder'
<1>0. Inv /\ server \in ServerType /\ n \in Nat /\ InOrder
  BY InvParts, I2OServerAssumption DEF OrderInv, Accounts
<1>1. /\ server' = [server EXCEPT !.credits = server.credits + n, !.prescaling = p]
      /\ UNCHANGED <<onRequest, insideEvent, event, sent, parted>>
  BY DEF AddCredits, runVars
<1>2. server'.queue = server.queue
  BY <1>0, <1>1 DEF ServerType
<1>3. server'.nEventsInQueue = server.nEventsInQueue
  BY <1>0, <1>1 DEF ServerType
<1>4. server'.credits = server.credits + n
  BY <1>0, <1>1 DEF ServerType
<1>5. server.credits > server.nEventsInQueue => server'.credits > server'.nEventsInQueue
  BY <1>0, <1>3, <1>4 DEF ServerType
<1>6. (Apart(server.queue, parted))' /\ SentBefore'
  BY <1>0, <1>1, <1>2 DEF InOrder, Apart, Joined, SentBefore, Past
<1>7. LastIsCurrent'
  BY <1>0, <1>1, <1>2, <1>5 DEF InOrder, LastIsCurrent, Past
<1> QED
  BY <1>6, <1>7 DEF InOrder

LEMMA OrderNext == OrderInv /\ [Next]_vars => OrderInv'
<1> SUFFICES ASSUME OrderInv, [Next]_vars PROVE OrderInv'
  OBVIOUS
<1>0. Inv' /\ InOrder
  BY InvNext DEF OrderInv
<1> SUFFICES InOrder'
  BY <1>0 DEF OrderInv
<1>1. CASE StartRun
  <2>1. server'.queue = <<>> /\ sent' = <<>>
    BY <1>1 DEF StartRun, NewServer
  <2>2. LastIsCurrent'
    BY <2>1 DEF LastIsCurrent
  <2>3. Len(server'.queue) = 0 /\ Len(sent') = 0
    BY <2>1, EmptySeq
  <2>4. (Apart(server.queue, parted))'
    BY <2>3 DEF Apart
  <2>5. SentBefore'
    BY <2>3 DEF SentBefore
  <2> QED
    BY <2>2, <2>4, <2>5 DEF InOrder
<1>2. ASSUME UNCHANGED orderVars PROVE InOrder'
  BY <1>0, <1>2, OrderStays
<1>3. CASE StopRun
  BY <1>2, <1>3 DEF StopRun, runVars, orderVars
<1>4. ASSUME NEW n \in CreditGrants, NEW p \in Prescalings, AddCredits(n, p)
      PROVE  InOrder'
  BY <1>4, AddCreditsKeepsOrder
<1>5. ASSUME NEW header \in BOOLEAN, NEW trailer \in BOOLEAN, ReadBlock(header, trailer)
      PROVE  InOrder'
  BY <1>5, ReadBlockKeepsOrder
<1>6. CASE StartSending
  BY <1>2, <1>6 DEF StartSending, runVars, orderVars
<1>7. CASE StopSending
  BY <1>2, <1>7 DEF StopSending, runVars, orderVars
<1>8. CASE SendMessage
  BY <1>8, SendMessageKeepsOrder
<1>9. CASE FailToSendMessage
  BY <1>9, FailToSendKeepsOrder
<1>10. CASE FailToMerge
  BY <1>2, <1>10 DEF FailToMerge, runVars, orderVars
<1>11. CASE Release
  BY <1>2, <1>11 DEF Release, runVars, orderVars
<1>12. CASE UNCHANGED vars
  BY <1>2, <1>12 DEF vars, orderVars
<1> QED
  BY <1>1, <1>3, <1>4, <1>5, <1>6, <1>7, <1>8, <1>9, <1>10, <1>11, <1>12 DEF Next

\* EventsNotMixed, for any prescaling factors, changed at any time: a message holds the
\* blocks of one event, and of earlier ones only those queued before the prescaling or the
\* pool refused their rest; credits, a missing trailer and failing posts do not do that.
THEOREM EventsStayApart == Spec => []EventsNotMixed
<1>1. OrderInv => EventsNotMixed
  BY DEF OrderInv, InOrder, SentBefore, EventsNotMixed
<1>2. Init => OrderInv
  BY OrderInit
<1>3. OrderInv /\ [Next]_vars => OrderInv'
  BY OrderNext
<1> QED
  BY <1>1, <1>2, <1>3, PTL DEF Spec

\* EventsInOrder, for any prescaling factors and any pool: events are sent in the order in
\* which they were read, and none in two messages, posts that fail or not.
THEOREM EventsStayInOrder == Spec => []EventsInOrder
<1>1. OrderInv => EventsInOrder
  <2>1. SUFFICES ASSUME OrderInv, NEW i \in 1..Len(sent), NEW j \in 1..Len(sent), i < j
                 PROVE  \A e \in sent[i].events, f \in sent[j].events : e < f
    BY DEF EventsInOrder
  <2>2. j \in i + 1..Len(sent)
    BY <2>1
  <2> QED
    BY <2>1, <2>2 DEF OrderInv, InOrder, SentBefore
<1>2. Init => OrderInv
  BY OrderInit
<1>3. OrderInv /\ [Next]_vars => OrderInv'
  BY OrderNext
<1> QED
  BY <1>1, <1>2, <1>3, PTL DEF Spec
=============================================================================
