--------------------------- MODULE SOAPServerProofs --------------------------
(***************************************************************************)
(* Proofs about SOAPServer, for any size of the queue, any credits and any *)
(* prescaling factors: the server never overdraws the client's credits     *)
(* (CreditsAreBalanced), it implements DataServer (Implements), and events *)
(* mix in one way only, and stay in order (EventsStayApart,                *)
(* EventsStayInOrder).                                                     *)
(*                                                                         *)
(* The argument: addData takes a block only if there are more credits than *)
(* messages in the queue.  The message that the block is added to is then  *)
(* paid for, so that it may be completed by the header of the next event,  *)
(* where no credits are looked at.                                         *)
(***************************************************************************)
EXTENDS SOAPServer, SequenceTheorems, TLAPS

\* The types that the balance depends on.
Types ==
  /\ messages \in Seq(Seq(Nat))
  /\ message \in Seq(Nat)
  /\ credits \in Nat
  /\ event \in Nat
  /\ granted \in Nat
  /\ sent \in Seq(Seq(Nat))
  /\ refused \in Nat

Inv == Types /\ CreditsBalance

LEMMA EmptySequence == ASSUME NEW S PROVE <<>> \in Seq(S) /\ Len(<<>>) = 0
  OBVIOUS

LEMMA UnfinishedCounts ==
  /\ Unfinished(<<>>) = 0
  /\ \A current : current # <<>> => Unfinished(current) = 1
  /\ \A current : Unfinished(current) \in {0, 1}
  BY DEF Unfinished

LEMMA Lengths == Types => Len(messages) \in Nat /\ Len(sent) \in Nat
  BY LenProperties DEF Types

LEMMA InvInit == Init => Inv
  BY EmptySequence, UnfinishedCounts DEF Init, Inv, Types, CreditsBalance

\* The numbers of the balance.
LEMMA Numbers ==
  Inv => /\ credits \in Nat /\ granted \in Nat /\ refused \in Nat
         /\ Len(messages) \in Nat /\ Len(sent) \in Nat
         /\ Unfinished(message) \in Nat
         /\ credits + Len(sent) - refused = granted
         /\ Len(messages) + Unfinished(message) <= credits
  BY Lengths, UnfinishedCounts DEF Inv, Types, CreditsBalance

\* What makeLastBlockEndEvent moves into the queue had its credit before.
LEMMA ClosedKeepsCount ==
  ASSUME Types, NEW closing \in BOOLEAN
  PROVE  LET closed == Closed(closing)
         IN  /\ closed.queue \in Seq(Seq(Nat))
             /\ closed.current \in Seq(Nat)
             /\ Len(closed.queue) + Unfinished(closed.current)
                  = Len(messages) + Unfinished(message)
<1>1. CASE closing /\ message # <<>>
  <2>1. Closed(closing) = [queue |-> Append(messages, message), current |-> <<>>]
    BY <1>1 DEF Closed
  <2>2. /\ Append(messages, message) \in Seq(Seq(Nat))
        /\ Len(Append(messages, message)) = Len(messages) + 1
    BY DEF Types
  <2>3. Unfinished(message) = 1 /\ Unfinished(<<>>) = 0
    BY <1>1, UnfinishedCounts
  <2>4. Closed(closing).queue = Append(messages, message)
    BY <2>1
  <2>5. Closed(closing).current = <<>>
    BY <2>1
  <2>6. Closed(closing).current \in Seq(Nat)
    BY <2>5, EmptySequence
  <2>7. Len(Closed(closing).queue) + 0 = Len(messages) + 1
    BY <2>2, <2>4, Lengths
  <2> QED
    BY <2>2, <2>3, <2>4, <2>5, <2>6, <2>7
<1>2. CASE ~(closing /\ message # <<>>)
  <2>1. Closed(closing) = [queue |-> messages, current |-> message]
    BY <1>2 DEF Closed
  <2> QED
    BY <2>1 DEF Types
<1> QED
  BY <1>1, <1>2

LEMMA ReadBlockKeepsInv ==
  ASSUME Inv, NEW header \in BOOLEAN, NEW trailer \in BOOLEAN,
         ReadBlock(header, trailer)
  PROVE  Inv'
<1> DEFINE closing  == insideEvent /\ header
           closed   == Closed(closing)
           number   == IF header \/ ~insideEvent THEN event + 1 ELSE event
           extended == Append(closed.current, number)
<1>1. /\ closed.queue \in Seq(Seq(Nat))
      /\ closed.current \in Seq(Nat)
      /\ Len(closed.queue) + Unfinished(closed.current)
           = Len(messages) + Unfinished(message)
  BY ClosedKeepsCount DEF Inv
<1>2. number \in Nat /\ extended \in Seq(Nat) /\ extended # <<>>
  <2>1. number \in Nat
    BY DEF Inv, Types
  <2> HIDE DEF number, closed
  <2>2. extended \in Seq(Nat) /\ Len(extended) = Len(closed.current) + 1
    BY <1>1, <2>1
  <2> HIDE DEF extended
  <2>3. Len(extended) # 0
    BY <1>1, <2>2, LenProperties
  <2>4. extended # <<>>
    BY <2>3, EmptySequence
  <2> QED
    BY <2>1, <2>2, <2>4
<1>3. /\ UNCHANGED <<credits, granted, sent, refused>>
      /\ event' = number
      /\ messages' = IF taken' /\ trailer THEN Append(closed.queue, extended)
                                          ELSE closed.queue
      /\ message' = CASE ~taken'            -> closed.current
                      [] taken' /\ trailer  -> <<>>
                      [] taken' /\ ~trailer -> extended
      /\ taken' => Len(closed.queue) < credits
  BY DEF ReadBlock, IsToBeSent, HasRoom
<1> HIDE DEF closing, closed, number, extended
<1>4. CASE ~taken'
  BY <1>1, <1>2, <1>3, <1>4, UnfinishedCounts DEF Inv, Types, CreditsBalance
<1>5. CASE taken' /\ trailer
  <2>1. messages' = Append(closed.queue, extended) /\ message' = <<>>
    BY <1>3, <1>5
  <2>2. Len(messages') = Len(closed.queue) + 1 /\ messages' \in Seq(Seq(Nat))
    BY <1>1, <1>2, <2>1
  <2> QED
    BY <1>1, <1>2, <1>3, <1>5, <2>1, <2>2, UnfinishedCounts DEF Inv, Types, CreditsBalance
<1>6. CASE taken' /\ ~trailer
  <2>1. messages' = closed.queue /\ message' = extended
    BY <1>3, <1>6
  <2> QED
    BY <1>1, <1>2, <1>3, <1>6, <2>1, UnfinishedCounts DEF Inv, Types, CreditsBalance
<1> QED
  BY <1>4, <1>5, <1>6

\* A message that is delivered was paid for.
LEMMA DeliverKeepsInv ==
  ASSUME Types, messages # <<>>, Deliver
  PROVE  /\ messages' \in Seq(Seq(Nat)) /\ sent' \in Seq(Seq(Nat))
         /\ Len(messages) > 0
         /\ Len(messages') = Len(messages) - 1
         /\ Len(sent') = Len(sent) + 1
  BY DEF Types, Deliver

LEMMA InvNext == Inv /\ [Next]_vars => Inv'
<1> SUFFICES ASSUME Inv, [Next]_vars PROVE Inv'
  OBVIOUS
<1> USE SOAPServerAssumption
<1>1. CASE StartRun
  BY <1>1, EmptySequence, UnfinishedCounts DEF StartRun, Inv, Types, CreditsBalance
<1>2. CASE StopRun
  BY <1>2 DEF StopRun, readoutVars, Inv, Types, CreditsBalance
<1>3. ASSUME NEW header \in BOOLEAN, NEW trailer \in BOOLEAN,
             ReadBlock(header, trailer)
      PROVE  Inv'
  BY <1>3, ReadBlockKeepsInv
<1>4. ASSUME NEW n \in CreditGrants, NEW p \in Prescalings, AddCredits(n, p)
      PROVE  Inv'
  <2>0. n \in Nat
    OBVIOUS
  <2>1. /\ credits' = credits + n /\ granted' = granted + n
        /\ UNCHANGED <<messages, message, event, sent, refused>>
    BY <1>4 DEF AddCredits, readoutVars
  <2>2. CreditsBalance'
    BY <2>0, <2>1, Numbers DEF CreditsBalance
  <2> QED
    BY <2>0, <2>1, <2>2 DEF Inv, Types
<1>5. ASSUME NEW n \in CreditGrants, NEW p \in Prescalings, AddCreditsAndGet(n, p)
      PROVE  Inv'
  <2>0. n \in Nat
    OBVIOUS
  <2>1. CASE messages = <<>>
    <3>1. /\ credits' = credits + n /\ granted' = granted + n
          /\ UNCHANGED <<messages, message, event, sent, refused>>
      BY <1>5, <2>1 DEF AddCreditsAndGet, readoutVars
    <3>2. CreditsBalance'
      BY <2>0, <3>1, Numbers DEF CreditsBalance
    <3> QED
      BY <2>0, <3>1, <3>2 DEF Inv, Types
  <2>2. CASE messages # <<>>
    <3>1. /\ Deliver
          /\ credits' = Decremented(credits + n) /\ granted' = granted + n
          /\ UNCHANGED <<message, event, refused>>
      BY <1>5, <2>2 DEF AddCreditsAndGet, readoutVars
    <3>2. /\ messages' \in Seq(Seq(Nat)) /\ sent' \in Seq(Seq(Nat))
          /\ Len(messages) > 0
          /\ Len(messages') = Len(messages) - 1
          /\ Len(sent') = Len(sent) + 1
      BY <2>2, <3>1, DeliverKeepsInv DEF Inv
    <3>3. credits' = credits + n - 1
      <4>1. credits \in Nat /\ credits > 0
        BY <3>2, Numbers
      <4>2. credits + n \in Nat /\ credits + n > 0
        BY <2>0, <4>1
      <4>3. Decremented(credits + n) = credits + n - 1
        BY <2>0, <4>1, <4>2 DEF Decremented
      <4> QED
        BY <3>1, <4>3
    <3>4. credits' + Len(sent') - refused' = granted'
      <4>1. refused' = refused /\ granted' = granted + n
        BY <3>1
      <4>2. Len(sent') - refused' = (Len(sent) - refused) + 1
        BY <3>2, <4>1, Numbers
      <4> QED
        BY <2>0, <3>3, <4>1, <4>2, Numbers, SMTT(30)
    <3>5. Len(messages') + Unfinished(message') <= credits'
      <4>1. Unfinished(message') = Unfinished(message)
        BY <3>1
      <4> QED
        BY <2>0, <3>2, <3>3, <4>1, Numbers, SMTT(30)
    <3>6. credits' \in Nat /\ granted' \in Nat
      <4>1. granted' = granted + n
        BY <3>1
      <4>2. credits > 0 /\ credits \in Nat /\ granted \in Nat
        BY <3>2, Numbers
      <4> QED
        BY <2>0, <3>3, <4>1, <4>2
    <3> QED
      BY <3>1, <3>2, <3>4, <3>5, <3>6 DEF Inv, Types, CreditsBalance
  <2> QED
    BY <2>1, <2>2
<1>6. CASE SendData
  <2>1. /\ messages # <<>> /\ Deliver
        /\ UNCHANGED <<message, event, granted>>
        /\ \/ credits' = Decremented(credits) /\ refused' = refused
           \/ refused' = refused + 1 /\ credits' = credits
    BY <1>6 DEF SendData, readoutVars
  <2>2. /\ messages' \in Seq(Seq(Nat)) /\ sent' \in Seq(Seq(Nat))
        /\ Len(messages) > 0
        /\ Len(messages') = Len(messages) - 1
        /\ Len(sent') = Len(sent) + 1
    BY <2>1, DeliverKeepsInv DEF Inv
  <2>3. Decremented(credits) = credits - 1
    BY <2>2, Numbers DEF Decremented
  <2>4. credits' \in Nat /\ refused' \in Nat
    BY <2>1, <2>2, <2>3, Numbers
  <2>5. credits' + Len(sent') - refused' = granted'
    <3>0. granted' = granted
      BY <2>1
    <3>1. CASE credits' = credits - 1 /\ refused' = refused
      <4>1. credits' + Len(sent') = credits + Len(sent)
        BY <2>2, <3>1, Numbers
      <4> QED
        BY <3>0, <3>1, <4>1, Numbers, SMTT(30)
    <3>2. CASE refused' = refused + 1 /\ credits' = credits
      <4>1. Len(sent') - refused' = Len(sent) - refused
        BY <2>2, <3>2, Numbers
      <4> QED
        BY <2>2, <3>0, <3>2, <4>1, Numbers
    <3> QED
      BY <2>1, <2>3, <3>1, <3>2
  <2>6. Len(messages') + Unfinished(message') <= credits'
    <3>1. Unfinished(message') = Unfinished(message)
      BY <2>1
    <3> QED
      BY <2>1, <2>2, <2>3, <3>1, Numbers
  <2> QED
    BY <2>1, <2>2, <2>4, <2>5, <2>6 DEF Inv, Types, CreditsBalance
<1>7. CASE UNCHANGED vars
  BY <1>7 DEF vars, Inv, Types, CreditsBalance
<1> QED
  BY <1>1, <1>2, <1>3, <1>4, <1>5, <1>6, <1>7 DEF Next

\* addData and makeLastBlockEndEvent, together, never queue an event that the client
\* has no credit for, and the credits and the events delivered add up.
THEOREM CreditsAreBalanced == Spec => []CreditsBalance
<1>1. Inv => CreditsBalance
  BY DEF Inv
<1> QED
  BY <1>1, InvInit, InvNext, PTL DEF Spec

LEMMA InitImplements == Init => Promise!Init
  BY DEF Init, Promise!Init

LEMMA NextImplements == Inv /\ [Next]_vars => [Promise!Next]_Promise!vars
<1> SUFFICES ASSUME Inv, [Next]_vars PROVE [Promise!Next]_Promise!vars
  OBVIOUS
<1> USE SOAPServerAssumption DEF Promise!vars, clientVars
<1>1. CASE StartRun
  <2>1. Promise!StartRun
    BY <1>1 DEF StartRun, Promise!StartRun
  <2> QED
    BY <2>1 DEF Promise!Next
<1>2. CASE StopRun
  BY <1>2 DEF StopRun
<1>3. ASSUME NEW header \in BOOLEAN, NEW trailer \in BOOLEAN,
             ReadBlock(header, trailer)
      PROVE  UNCHANGED Promise!vars
  BY <1>3 DEF ReadBlock
<1>4. ASSUME NEW n \in CreditGrants, NEW p \in Prescalings, AddCredits(n, p)
      PROVE  Promise!Next
  <2>1. Promise!AddCredits(n)
    BY <1>4 DEF AddCredits, Promise!AddCredits
  <2> QED
    BY <2>1 DEF Promise!Next
<1>5. ASSUME NEW n \in CreditGrants, NEW p \in Prescalings, AddCreditsAndGet(n, p)
      PROVE  Promise!Next
  <2>1. CASE messages = <<>>
    <3>1. Promise!AddCredits(n)
      BY <1>5, <2>1 DEF AddCreditsAndGet, Promise!AddCredits
    <3> QED
      BY <3>1 DEF Promise!Next
  <2>2. CASE messages # <<>>
    <3>1. Deliver /\ credits' = Decremented(credits + n)
      BY <1>5, <2>2 DEF AddCreditsAndGet
    <3>2. n \in Nat /\ granted' = granted + n /\ UNCHANGED <<onRequest, refused>>
      BY <1>5 DEF AddCreditsAndGet
    <3>3. Len(messages) > 0 /\ Len(sent') = Len(sent) + 1
      BY <2>2, <3>1, DeliverKeepsInv DEF Inv
    <3>4. credits + n > 0
      BY <3>2, <3>3, Numbers
    <3>5. Len(sent') - refused' = (Len(sent) - refused) + 1
      BY <3>2, <3>3, Numbers
    <3>6. Promise!AddCreditsAndGet(n)
      BY <3>1, <3>2, <3>4, <3>5
      DEF Decremented, Promise!AddCreditsAndGet, Promise!TransmitFor
    <3> QED
      BY <3>6 DEF Promise!Next
  <2> QED
    BY <2>1, <2>2
<1>6. CASE SendData
  <2>1. CASE credits' = Decremented(credits) /\ UNCHANGED refused
    <3>1. UNCHANGED <<onRequest, granted>>
      BY <1>6 DEF SendData
    <3>2. Len(messages) > 0 /\ Len(sent') = Len(sent) + 1
      BY <1>6, DeliverKeepsInv DEF SendData, Inv
    <3>3. credits > 0
      BY <3>2, Numbers
    <3>4. Len(sent') - refused' = (Len(sent) - refused) + 1
      BY <2>1, <3>2, Numbers
    <3>5. Promise!Transmit
      BY <2>1, <3>1, <3>3, <3>4
      DEF Decremented, Promise!Transmit, Promise!TransmitFor
    <3> QED
      BY <3>5 DEF Promise!Next
  <2>2. CASE refused' = refused + 1 /\ UNCHANGED credits
    BY <1>6, <2>2, DeliverKeepsInv DEF SendData, Inv, Types
  <2> QED
    BY <1>6, <2>1, <2>2 DEF SendData
<1>7. CASE UNCHANGED vars
  BY <1>7 DEF vars
<1> QED
  BY <1>1, <1>2, <1>3, <1>4, <1>5, <1>6, <1>7 DEF Next

\* The SOAP server keeps the promise of Base: each of its steps is a step of
\* DataServer, or leaves the credits and the count of delivered events alone.
THEOREM Implements == Spec => ImplementsDataServer
  BY InitImplements, InvInit, InvNext, NextImplements, PTL
     DEF Spec, ImplementsDataServer, Promise!Spec

-----------------------------------------------------------------------------
\* A message is under construction only if there is room for it in the queue.
RoomKept ==
  /\ Len(messages) <= MaxMessages
  /\ message # <<>> => Len(messages) < MaxMessages

Flags ==
  /\ enabled \in BOOLEAN /\ isXdaqClient \in BOOLEAN /\ onRequest \in BOOLEAN
  /\ insideEvent \in BOOLEAN /\ taken \in BOOLEAN

Counters ==
  /\ nEventsRead \in Nat /\ prescaling \in Nat /\ nReads \in Nat /\ nRuns \in Nat
  /\ parted \in SUBSET Nat

TypeInv == Inv /\ Flags /\ Counters /\ RoomKept

LEMMA TypeInit == Init => TypeInv
<1> SUFFICES ASSUME Init PROVE TypeInv
  OBVIOUS
<1>1. Flags
  BY Zenon DEF Init, Flags
<1>2. Counters
  BY SOAPServerAssumption DEF Init, Counters
<1>3. RoomKept
  BY SOAPServerAssumption, EmptySequence DEF Init, RoomKept
<1> QED
  BY <1>1, <1>2, <1>3, InvInit DEF TypeInv

LEMMA ReadBlockKeepsRoom ==
  ASSUME TypeInv, NEW header \in BOOLEAN, NEW trailer \in BOOLEAN,
         ReadBlock(header, trailer)
  PROVE  RoomKept'
<1> DEFINE closing  == insideEvent /\ header
           closed   == Closed(closing)
           number   == IF header \/ ~insideEvent THEN event + 1 ELSE event
           extended == Append(closed.current, number)
<1>0. Types /\ RoomKept /\ MaxMessages \in Nat
  BY SOAPServerAssumption DEF TypeInv, Inv
<1>1. /\ closed.queue \in Seq(Seq(Nat)) /\ closed.current \in Seq(Nat)
      /\ number \in Nat
  <2>1. closed.queue \in Seq(Seq(Nat)) /\ closed.current \in Seq(Nat)
    BY <1>0, ClosedKeepsCount DEF TypeInv, Flags
  <2>2. number \in Nat
    BY <1>0 DEF Types
  <2> QED
    BY <2>1, <2>2
<1>2. \/ closed.queue = messages /\ closed.current = message
      \/ /\ closed.queue = Append(messages, message) /\ closed.current = <<>>
         /\ message # <<>>
  <2>1. CASE closing /\ message # <<>>
    BY <2>1 DEF Closed
  <2>2. CASE ~(closing /\ message # <<>>)
    BY <2>2 DEF Closed
  <2> QED
    BY <2>1, <2>2
<1>3. /\ messages' = IF taken' /\ trailer THEN Append(closed.queue, extended)
                                          ELSE closed.queue
      /\ message' = CASE ~taken'            -> closed.current
                      [] taken' /\ trailer  -> <<>>
                      [] taken' /\ ~trailer -> extended
      /\ taken' => Len(closed.queue) < MaxMessages
  BY DEF ReadBlock, IsToBeSent, HasRoom
<1> HIDE DEF closed, number, closing
<1>4. extended \in Seq(Nat)
  BY <1>1
<1>5. /\ Len(closed.queue) \in Nat /\ Len(closed.queue) <= MaxMessages
      /\ closed.current # <<>> => Len(closed.queue) < MaxMessages
  <2>1. CASE closed.queue = messages /\ closed.current = message
    BY <1>0, <2>1, Lengths DEF RoomKept
  <2>2. CASE closed.queue = Append(messages, message) /\ closed.current = <<>>
               /\ message # <<>>
    <3>1. Len(closed.queue) = Len(messages) + 1
      BY <1>0, <2>2 DEF Types
    <3> QED
      BY <1>0, <2>2, <3>1, Lengths DEF RoomKept
  <2> QED
    BY <1>2, <2>1, <2>2
<1> HIDE DEF extended
<1>6. CASE ~taken'
  BY <1>3, <1>5, <1>6 DEF RoomKept
<1>7. CASE taken' /\ trailer
  <2>1. Len(messages') = Len(closed.queue) + 1 /\ message' = <<>>
    BY <1>1, <1>3, <1>4, <1>7
  <2> QED
    BY <1>0, <1>3, <1>5, <1>7, <2>1 DEF RoomKept
<1>8. CASE taken' /\ ~trailer
  BY <1>3, <1>5, <1>8 DEF RoomKept
<1> QED
  BY <1>6, <1>7, <1>8

LEMMA DeliverKeepsRoom ==
  ASSUME Types, RoomKept, messages # <<>>, Deliver, message' = message
  PROVE  RoomKept'
  BY DeliverKeepsInv, Lengths, SOAPServerAssumption DEF RoomKept

LEMMA TypeNext == TypeInv /\ [Next]_vars => TypeInv'
<1> SUFFICES ASSUME TypeInv, [Next]_vars PROVE TypeInv'
  OBVIOUS
<1> USE SOAPServerAssumption
<1>0. Inv /\ Inv' /\ Types /\ Flags /\ Counters /\ RoomKept
  BY InvNext DEF TypeInv, Inv
<1> SUFFICES Flags' /\ Counters' /\ RoomKept'
  BY <1>0 DEF TypeInv
<1>1. CASE StartRun
  <2>1. Flags'
    BY <1>0, <1>1, Zenon DEF StartRun, clientVars, Flags
  <2>2. Counters' /\ RoomKept'
    BY <1>0, <1>1, EmptySequence DEF StartRun, Counters, RoomKept
  <2> QED
    BY <2>1, <2>2
<1>2. CASE StopRun
  <2>1. Flags'
    BY <1>0, <1>2, Zenon DEF StopRun, clientVars, readoutVars, Flags
  <2>2. Counters' /\ RoomKept'
    BY <1>0, <1>2 DEF StopRun, readoutVars, Counters, RoomKept
  <2> QED
    BY <2>1, <2>2
<1>3. ASSUME NEW header \in BOOLEAN, NEW trailer \in BOOLEAN,
             ReadBlock(header, trailer)
      PROVE  Flags' /\ Counters' /\ RoomKept'
  <2>1. taken' \in BOOLEAN
    <3>1. \E m, n : taken' = IsToBeSent(m, n)
      BY <1>3, Zenon DEF ReadBlock
    <3> QED
      BY <3>1, Zenon DEF IsToBeSent
  <2>2. Flags'
    BY <1>0, <1>3, <2>1, Zenon DEF ReadBlock, clientVars, Flags
  <2>3. parted' \in SUBSET Nat
    <3> DEFINE current == Closed(insideEvent /\ header).current
    <3>1. current \in Seq(Nat)
      BY <1>0, ClosedKeepsCount DEF Flags
    <3>2. current # <<>> => Last(current) \in Nat
      BY <3>1, EmptySeq, ElementOfSeq DEF Last
    <3>3. parted' = parted \/ (current # <<>> /\ parted' = parted \cup {Last(current)})
      BY <1>3 DEF ReadBlock
    <3> HIDE DEF current
    <3> QED
      BY <1>0, <3>2, <3>3 DEF Counters
  <2>4. Counters'
    BY <1>0, <1>3, <2>3 DEF ReadBlock, Counters
  <2> QED
    BY <1>3, <2>2, <2>4, ReadBlockKeepsRoom
<1>4. ASSUME NEW n \in CreditGrants, NEW p \in Prescalings, AddCredits(n, p)
      PROVE  Flags' /\ Counters' /\ RoomKept'
  <2>1. Flags'
    BY <1>0, <1>4, Zenon DEF AddCredits, clientVars, readoutVars, Flags
  <2>2. Counters' /\ RoomKept'
    BY <1>0, <1>4 DEF AddCredits, readoutVars, Counters, RoomKept
  <2> QED
    BY <2>1, <2>2
<1>5. ASSUME NEW n \in CreditGrants, NEW p \in Prescalings, AddCreditsAndGet(n, p)
      PROVE  Flags' /\ Counters' /\ RoomKept'
  <2>1. Flags'
    BY <1>0, <1>5, Zenon DEF AddCreditsAndGet, clientVars, readoutVars, Flags
  <2>2. Counters'
    BY <1>0, <1>5 DEF AddCreditsAndGet, readoutVars, Counters
  <2>3. RoomKept'
    <3>1. CASE messages = <<>>
      BY <1>0, <1>5, <3>1 DEF AddCreditsAndGet, RoomKept
    <3>2. CASE messages # <<>>
      BY <1>0, <1>5, <3>2, DeliverKeepsRoom DEF AddCreditsAndGet
    <3> QED
      BY <3>1, <3>2
  <2> QED
    BY <2>1, <2>2, <2>3
<1>6. CASE SendData
  <2>1. Flags'
    BY <1>0, <1>6, Zenon DEF SendData, clientVars, readoutVars, Flags
  <2>2. Counters'
    BY <1>0, <1>6 DEF SendData, readoutVars, Counters
  <2>3. RoomKept'
    BY <1>0, <1>6, DeliverKeepsRoom DEF SendData
  <2> QED
    BY <2>1, <2>2, <2>3
<1>7. CASE UNCHANGED vars
  <2>1. Flags'
    BY <1>0, <1>7, Zenon DEF vars, Flags
  <2>2. Counters' /\ RoomKept'
    BY <1>0, <1>7 DEF vars, Counters, RoomKept
  <2> QED
    BY <2>1, <2>2
<1> QED
  BY <1>1, <1>2, <1>3, <1>4, <1>5, <1>6, <1>7 DEF Next

\* TypeOK: every variable has its type, and no more than maxMessagesPendingTransmission_
\* messages wait, be they completed by a trailer or by the next header.
THEOREM TypesAreKept == Spec => []TypeOK
<1>1. TypeInv => TypeOK
  <2> SUFFICES ASSUME TypeInv PROVE TypeOK
    OBVIOUS
  <2>1. Flags /\ Counters /\ Types /\ Len(messages) <= MaxMessages
    BY DEF TypeInv, Inv, RoomKept
  <2> QED
    BY <2>1, Zenon DEF TypeOK, Flags, Counters, Types
<1> QED
  BY <1>1, TypeInit, TypeNext, PTL DEF Spec

-----------------------------------------------------------------------------
(***************************************************************************)
(* The events in a message, and their order.  Room in the queue and        *)
(* credits only grow until the event ends whose first block was taken, so  *)
(* that only the prescaling can part it.  The message under construction   *)
(* then holds beginnings of events that are known as parted, and of the    *)
(* event being read; and whatever is in it is older than what comes.       *)
(***************************************************************************)

\* An event that is complete, and will not be continued by the blocks yet to be read.
Past(number) == number <= event /\ (insideEvent => number < event)

\* Among the events of a message only the last may be one that is not among those parts.
Unmixed(m, parts) == \A j, k \in 1..Len(m) : m[j] < m[k] => m[j] \in parts

Before(m, later) == \A k \in 1..Len(m), l \in 1..Len(later) : m[k] < later[l]

Below(m, number) == \A k \in 1..Len(m) : m[k] < number

Rising(queue, parts) ==
  /\ \A i \in 1..Len(queue) : Unmixed(queue[i], parts)
  /\ \A i, j \in 1..Len(queue) : i < j => Before(queue[i], queue[j])

AllPast(queue) ==
  \A i \in 1..Len(queue) : \A k \in 1..Len(queue[i]) : Past(queue[i][k])

AllBefore(earlier, later) ==
  \A i \in 1..Len(earlier), j \in 1..Len(later) : Before(earlier[i], later[j])

AllBeforeOne(queue, m) == \A i \in 1..Len(queue) : Before(queue[i], m)

\* The message under construction: no block in it is newer than the last one.
CurrentMessage ==
  \A j \in 1..Len(message) :
    /\ message[j] <= event /\ message[j] <= message[Len(message)]
    /\ Past(message[j]) => message[j] \in parted

InOrder ==
  /\ Rising(messages, parted) /\ AllPast(messages)
  /\ Rising(sent, parted) /\ AllPast(sent)
  /\ AllBefore(sent, messages)
  /\ CurrentMessage /\ AllBeforeOne(messages, message) /\ AllBeforeOne(sent, message)

OrderInv == TypeInv /\ InOrder

LEMMA EmptyInOrder ==
  ASSUME NEW parts
  PROVE  Rising(<<>>, parts) /\ AllPast(<<>>) /\ AllBefore(<<>>, <<>>)
  BY EmptySeq DEF Rising, AllPast, AllBefore

LEMMA RisingGrows ==
  ASSUME NEW queue, NEW parts, NEW more, parts \subseteq more, Rising(queue, parts)
  PROVE  Rising(queue, more)
  BY DEF Rising, Unmixed

LEMMA RisingAppend ==
  ASSUME NEW queue \in Seq(Seq(Nat)), NEW m \in Seq(Nat), NEW parts,
         Rising(queue, parts), Unmixed(m, parts),
         \A i \in 1..Len(queue) : Before(queue[i], m)
  PROVE  Rising(Append(queue, m), parts)
<1> DEFINE len == Len(queue)
           longer == Append(queue, m)
<1>1. /\ len \in Nat /\ Len(longer) = len + 1
      /\ \A i \in 1..len : longer[i] = queue[i]
      /\ longer[len + 1] = m
  BY AppendProperties, LenProperties
<1>2. \A i \in 1..len + 1 : i \in 1..len \/ i = len + 1
  BY <1>1
<1> HIDE DEF longer
<1>3. ASSUME NEW i \in 1..len + 1 PROVE Unmixed(longer[i], parts)
  BY <1>1, <1>2 DEF Rising
<1>4. ASSUME NEW i \in 1..len + 1, NEW j \in 1..len + 1, i < j
      PROVE  Before(longer[i], longer[j])
  <2>1. i \in 1..len
    BY <1>1, <1>4
  <2>2. CASE j \in 1..len
    BY <1>1, <1>4, <2>1, <2>2 DEF Rising
  <2>3. CASE j = len + 1
    BY <1>1, <2>1, <2>3
  <2> QED
    BY <1>2, <2>2, <2>3
<1>5. Len(longer) = len + 1
  BY <1>1
<1>6. Rising(longer, parts)
  BY <1>3, <1>4, <1>5 DEF Rising
<1> QED
  BY <1>6 DEF longer

LEMMA RisingTail ==
  ASSUME NEW queue \in Seq(Seq(Nat)), queue # <<>>, NEW parts, Rising(queue, parts)
  PROVE  /\ Rising(Tail(queue), parts)
         /\ Unmixed(Head(queue), parts) /\ Head(queue) \in Seq(Nat)
         /\ Head(queue) = queue[1]
         /\ Len(Tail(queue)) = Len(queue) - 1
         /\ \A i \in 1..Len(Tail(queue)) : i + 1 \in 1..Len(queue) /\ Tail(queue)[i] = queue[i + 1]
         /\ \A i \in 1..Len(Tail(queue)) : Before(Head(queue), Tail(queue)[i])
<1> DEFINE len == Len(queue)
           rest == Tail(queue)
<1>1. /\ len \in Nat /\ len > 0 /\ Len(rest) = len - 1
      /\ \A i \in 1..len - 1 : rest[i] = queue[i + 1]
      /\ Head(queue) = queue[1] /\ Head(queue) \in Seq(Nat)
  BY EmptySeq, HeadTailProperties
<1>2. \A i \in 1..len - 1 : i + 1 \in 1..len /\ 1 < i + 1
  BY <1>1
<1>3. 1 \in 1..len
  BY <1>1
<1> HIDE DEF rest
<1>4. \A i \in 1..len - 1 : Unmixed(rest[i], parts)
  BY <1>1, <1>2 DEF Rising
<1>5. ASSUME NEW i \in 1..len - 1, NEW j \in 1..len - 1, i < j
      PROVE  Before(rest[i], rest[j])
  <2>1. i + 1 < j + 1
    BY <1>1, <1>5
  <2>2. Before(queue[i + 1], queue[j + 1])
    BY <1>2, <2>1 DEF Rising
  <2> QED
    BY <1>1, <2>2
<1>6. Rising(rest, parts)
  <2>1. Len(rest) = len - 1
    BY <1>1
  <2> HIDE DEF len
  <2> QED
    BY <1>4, <1>5, <2>1 DEF Rising
<1>7. Unmixed(Head(queue), parts)
  BY <1>1, <1>3 DEF Rising
<1>8. \A i \in 1..len - 1 : Before(Head(queue), rest[i])
  BY <1>1, <1>2, <1>3 DEF Rising
<1> QED
  BY <1>1, <1>2, <1>6, <1>7, <1>8 DEF rest

\* A message that is delivered is the oldest one.
LEMMA DeliverKeepsOrder ==
  ASSUME TypeInv, InOrder, messages # <<>>, Deliver,
         UNCHANGED <<message, insideEvent, event, parted>>
  PROVE  InOrder'
<1> DEFINE head == Head(messages)
<1>1. /\ messages \in Seq(Seq(Nat)) /\ sent \in Seq(Seq(Nat))
      /\ messages' = Tail(messages) /\ sent' = Append(sent, head)
      /\ messages' \in Seq(Seq(Nat)) /\ Len(messages') \in Nat
  <2>1. messages \in Seq(Seq(Nat)) /\ sent \in Seq(Seq(Nat)) /\ messages' = Tail(messages)
    BY DEF TypeInv, Inv, Types, Deliver
  <2>2. messages' \in Seq(Seq(Nat))
    BY <2>1, HeadTailProperties
  <2> QED
    BY <2>1, <2>2, LenProperties DEF Deliver
<1>2. /\ Rising(messages', parted) /\ Unmixed(head, parted) /\ head \in Seq(Nat)
      /\ head = messages[1] /\ 1 \in 1..Len(messages)
      /\ \A i \in 1..Len(messages') : i + 1 \in 1..Len(messages) /\ messages'[i] = messages[i + 1]
      /\ \A i \in 1..Len(messages') : Before(head, messages'[i])
  BY <1>1, RisingTail, EmptySeq DEF InOrder
<1>3. \A i \in 1..Len(sent) : Before(sent[i], head)
  BY <1>2 DEF InOrder, AllBefore
<1>4. Rising(sent', parted)
  BY <1>1, <1>2, <1>3, RisingAppend DEF InOrder
<1>5. /\ Len(sent) \in Nat /\ Len(sent') = Len(sent) + 1
      /\ \A i \in 1..Len(sent) : sent'[i] = sent[i]
      /\ sent'[Len(sent) + 1] = head
      /\ \A i \in 1..Len(sent) + 1 : i \in 1..Len(sent) \/ i = Len(sent) + 1
  <2>1. Len(sent) \in Nat
    BY <1>1, LenProperties
  <2>2. /\ Len(sent') = Len(sent) + 1
        /\ \A i \in 1..Len(sent) : sent'[i] = sent[i]
        /\ sent'[Len(sent) + 1] = head
    BY <1>1, <1>2, AppendProperties
  <2> QED
    BY <2>1, <2>2
<1> HIDE DEF head
<1>6. (AllPast(messages))'
  BY <1>2 DEF InOrder, AllPast, Past
<1>7. (AllPast(sent))'
  <2>1. SUFFICES ASSUME NEW i \in 1..Len(sent) + 1
                 PROVE  \A k \in 1..Len(sent'[i]) : Past(sent'[i][k])
    BY <1>5 DEF AllPast, Past
  <2>2. \A k \in 1..Len(head) : Past(head[k])
    BY <1>2 DEF InOrder, AllPast
  <2> QED
    BY <1>5, <2>2 DEF InOrder, AllPast
<1>8. (AllBefore(sent, messages))'
  <2>1. SUFFICES ASSUME NEW i \in 1..Len(sent) + 1, NEW j \in 1..Len(messages')
                 PROVE  Before(sent'[i], messages'[j])
    BY <1>5 DEF AllBefore, Before
  <2>2. CASE i \in 1..Len(sent)
    <3>1. Before(sent[i], messages[j + 1])
      BY <1>2, <2>2 DEF InOrder, AllBefore
    <3> QED
      BY <1>2, <1>5, <2>2, <3>1
  <2>3. CASE i = Len(sent) + 1
    BY <1>2, <1>5, <2>3
  <2> QED
    BY <1>5, <2>2, <2>3
<1>9. CurrentMessage'
  BY DEF InOrder, CurrentMessage, Past
<1>10. (Rising(messages, parted))' /\ (Rising(sent, parted))'
  BY <1>2, <1>4 DEF Rising, Unmixed, Before
<1>11. (AllBeforeOne(messages, message))' /\ (AllBeforeOne(sent, message))'
  <2>1. ASSUME NEW i \in 1..Len(messages') PROVE Before(messages'[i], message)
    BY <1>2 DEF InOrder, AllBeforeOne
  <2>2. ASSUME NEW i \in 1..Len(sent) + 1 PROVE Before(sent'[i], message)
    BY <1>2, <1>5 DEF InOrder, AllBeforeOne
  <2> QED
    BY <1>5, <2>1, <2>2 DEF AllBeforeOne, Before
<1> QED
  BY <1>6, <1>7, <1>8, <1>9, <1>10, <1>11 DEF InOrder

\* The queue after a header may have completed a message, and the message that the block
\* with the given number may be added to.
LEMMA ClosedInOrder ==
  ASSUME TypeInv, InOrder, NEW header \in BOOLEAN, NEW number,
         number = IF header \/ ~insideEvent THEN event + 1 ELSE event,
         NEW queue, NEW current,
         Closed(insideEvent /\ header) = [queue |-> queue, current |-> current]
  PROVE  /\ queue \in Seq(Seq(Nat)) /\ current \in Seq(Nat) /\ number \in Nat
         /\ Rising(queue, parted) /\ AllBefore(sent, queue)
         /\ \A i \in 1..Len(queue) : Below(queue[i], number)
         /\ \A i \in 1..Len(sent) : Below(sent[i], number)
         /\ AllBeforeOne(queue, current) /\ AllBeforeOne(sent, current)
         /\ current # <<>> =>
              /\ ~(insideEvent /\ header) /\ queue = messages /\ current = message
              /\ \A j \in 1..Len(current) :
                   /\ current[j] \in Nat
                   /\ current[j] <= number /\ current[j] <= current[Len(current)]
                   /\ current[j] < number => current[j] \in parted
<1>0. /\ Types /\ event \in Nat /\ number \in Nat /\ insideEvent \in BOOLEAN
      /\ messages \in Seq(Seq(Nat)) /\ message \in Seq(Nat) /\ sent \in Seq(Seq(Nat))
  BY DEF TypeInv, Inv, Types, Flags
<1>1. \A e \in Nat : Past(e) => e < number
  BY <1>0 DEF Past
<1>2. ASSUME NEW s \in Seq(Seq(Nat)), AllPast(s), NEW i \in 1..Len(s)
      PROVE  Below(s[i], number)
  <2>1. \A k \in 1..Len(s[i]) : s[i][k] \in Nat
    <3>1. s[i] \in Seq(Nat)
      BY <1>2, ElementOfSeq
    <3> QED
      BY <3>1, ElementOfSeq
  <2> QED
    BY <1>1, <1>2, <2>1 DEF AllPast, Below
<1>3. /\ \A i \in 1..Len(messages) : Below(messages[i], number)
      /\ \A i \in 1..Len(sent) : Below(sent[i], number)
  BY <1>0, <1>2 DEF InOrder
<1>4. \A j \in 1..Len(message) :
        /\ message[j] \in Nat
        /\ message[j] <= event /\ message[j] <= message[Len(message)]
        /\ Past(message[j]) => message[j] \in parted
  <2>1. \A j \in 1..Len(message) : message[j] \in Nat
    BY <1>0, ElementOfSeq
  <2> QED
    BY <2>1 DEF InOrder, CurrentMessage
<1>5. CASE (insideEvent /\ header) /\ message # <<>>
  <2>1. queue = Append(messages, message) /\ current = <<>>
    <3>1. [queue |-> queue, current |-> current]
            = [queue |-> Append(messages, message), current |-> <<>>]
      BY <1>5 DEF Closed
    <3> QED
      BY <3>1
  <2>2. Unmixed(message, parted)
    <3>1. SUFFICES ASSUME NEW j \in 1..Len(message), NEW k \in 1..Len(message),
                          message[j] < message[k]
                   PROVE  message[j] \in parted
      BY DEF Unmixed
    <3>2. message[j] < event /\ message[j] <= event
      BY <1>0, <1>4, <3>1
    <3> QED
      BY <1>4, <3>2 DEF Past
  <2>3. Below(message, number)
    BY <1>0, <1>4, <1>5 DEF Below
  <2>4. AllBeforeOne(messages, message) /\ AllBeforeOne(sent, message)
    BY DEF InOrder
  <2>5. Rising(queue, parted)
    BY <1>0, <2>1, <2>2, <2>4, RisingAppend DEF InOrder, AllBeforeOne
  <2>6. /\ Len(messages) \in Nat /\ Len(queue) = Len(messages) + 1
        /\ \A i \in 1..Len(messages) : queue[i] = messages[i]
        /\ queue[Len(messages) + 1] = message
        /\ queue \in Seq(Seq(Nat))
    BY <1>0, <2>1, AppendProperties, LenProperties
  <2>7. \A i \in 1..Len(queue) : i \in 1..Len(messages) \/ i = Len(messages) + 1
    BY <2>6
  <2>8. AllBefore(sent, queue)
    <3>1. ASSUME NEW i \in 1..Len(sent), NEW j \in 1..Len(queue)
          PROVE  Before(sent[i], queue[j])
      BY <2>4, <2>6, <2>7 DEF InOrder, AllBefore, AllBeforeOne
    <3> QED
      BY <3>1 DEF AllBefore
  <2>9. \A i \in 1..Len(queue) : Below(queue[i], number)
    BY <1>3, <2>3, <2>6, <2>7
  <2>10. current \in Seq(Nat) /\ ~(current # <<>>)
    BY <2>1, EmptySeq
  <2>11. /\ AllBeforeOne(queue, current) /\ AllBeforeOne(sent, current)
    BY <2>1, EmptySeq DEF AllBeforeOne, Before
  <2> QED
    BY <1>0, <1>3, <2>5, <2>6, <2>8, <2>9, <2>10, <2>11
<1>6. CASE ~((insideEvent /\ header) /\ message # <<>>)
  <2>1. queue = messages /\ current = message
    <3>1. [queue |-> queue, current |-> current] = [queue |-> messages, current |-> message]
      BY <1>6 DEF Closed
    <3> QED
      BY <3>1
  <2>2. ASSUME message # <<>>, NEW j \in 1..Len(message)
        PROVE  /\ ~(insideEvent /\ header)
               /\ message[j] <= number
               /\ message[j] < number => message[j] \in parted
    BY <1>0, <1>4, <1>6, <2>2 DEF Past
  <2>3. message # <<>> => ~(insideEvent /\ header)
    BY <1>6
  <2>4. AllBeforeOne(queue, current) /\ AllBeforeOne(sent, current)
    BY <2>1 DEF InOrder
  <2>5. Rising(queue, parted) /\ AllBefore(sent, queue)
    BY <2>1 DEF InOrder
  <2>6. /\ \A i \in 1..Len(queue) : Below(queue[i], number)
        /\ queue \in Seq(Seq(Nat)) /\ current \in Seq(Nat)
    BY <1>0, <1>3, <2>1
  <2>7. current # <<>> =>
          \A j \in 1..Len(current) :
            /\ current[j] \in Nat
            /\ current[j] <= number /\ current[j] <= current[Len(current)]
            /\ current[j] < number => current[j] \in parted
    BY <1>4, <2>1, <2>2
  <2> QED
    BY <1>0, <1>3, <2>1, <2>3, <2>4, <2>5, <2>6, <2>7
<1> QED
  BY <1>5, <1>6

LEMMA ReadBlockKeepsOrder ==
  ASSUME OrderInv, NEW header \in BOOLEAN, NEW trailer \in BOOLEAN,
         ReadBlock(header, trailer)
  PROVE  InOrder'
<1> DEFINE closing == insideEvent /\ header
           nEvents == nEventsRead + (IF closing THEN 1 ELSE 0)
                                  + (IF trailer THEN 1 ELSE 0)
           queue   == Closed(closing).queue
           current == Closed(closing).current
           number  == IF header \/ ~insideEvent THEN event + 1 ELSE event
           extended == Append(current, number)
           added   == IF current # <<>> /\ ~IsSelected(nEvents)
                      THEN parted \cup {Last(current)} ELSE parted
<1>0. TypeInv /\ InOrder
  BY DEF OrderInv
<1>1. /\ event' = number /\ insideEvent' = ~trailer /\ sent' = sent
      /\ taken' = IsToBeSent(Len(queue), nEvents)
      /\ parted' = added
      /\ messages' = IF taken' /\ trailer THEN Append(queue, extended) ELSE queue
      /\ message' = CASE ~taken'            -> current
                      [] taken' /\ trailer  -> <<>>
                      [] taken' /\ ~trailer -> extended
  BY DEF ReadBlock
<1>2. Closed(closing) = [queue |-> queue, current |-> current]
  BY DEF Closed
<1> HIDE DEF queue, current, nEvents
<1>3. /\ queue \in Seq(Seq(Nat)) /\ current \in Seq(Nat) /\ number \in Nat
      /\ Rising(queue, parted) /\ AllBefore(sent, queue)
      /\ \A i \in 1..Len(queue) : Below(queue[i], number)
      /\ \A i \in 1..Len(sent) : Below(sent[i], number)
      /\ AllBeforeOne(queue, current) /\ AllBeforeOne(sent, current)
      /\ current # <<>> =>
           /\ ~closing /\ queue = messages /\ current = message
           /\ \A j \in 1..Len(current) :
                /\ current[j] \in Nat
                /\ current[j] <= number /\ current[j] <= current[Len(current)]
                /\ current[j] < number => current[j] \in parted
  BY <1>0, <1>2, ClosedInOrder
<1> HIDE DEF number, closing
<1>4. parted \subseteq parted'
  BY <1>1
\* Numbers below the one just read are past, be the event over or not.
<1>5. ASSUME NEW s \in Seq(Seq(Nat)), \A i \in 1..Len(s) : Below(s[i], number),
             NEW i \in 1..Len(s), NEW k \in 1..Len(s[i])
      PROVE  (s[i][k] <= event /\ (insideEvent => s[i][k] < event))'
  <2>1. s[i][k] \in Nat
    <3>1. s[i] \in Seq(Nat)
      BY ElementOfSeq
    <3> QED
      BY <3>1, ElementOfSeq
  <2>2. s[i][k] < number
    BY <1>5 DEF Below
  <2> QED
    BY <1>1, <1>3, <2>1, <2>2
<1>6. sent \in Seq(Seq(Nat))
  BY <1>0 DEF TypeInv, Inv, Types
<1>7. (Rising(sent, parted))' /\ (AllPast(sent))'
  <2>1. Rising(sent, parted')
    BY <1>0, <1>4, RisingGrows DEF InOrder
  <2> QED
    BY <1>1, <1>3, <1>5, <1>6, <2>1 DEF Rising, Unmixed, Before, AllPast, Past
<1>8. /\ Rising(queue, parted')
      /\ \A i \in 1..Len(queue) : \A k \in 1..Len(queue[i]) :
           queue[i][k] <= event' /\ (insideEvent' => queue[i][k] < event')
  <2>1. Rising(queue, parted')
    BY <1>3, <1>4, RisingGrows
  <2> QED
    BY <1>3, <1>5, <2>1
<1>9. Len(queue) \in Nat /\ Len(current) \in Nat
  BY <1>3, LenProperties
<1>10. current # <<>> => /\ Len(current) \in 1..Len(current)
                         /\ Last(current) = current[Len(current)]
  BY <1>3, EmptySeq DEF Last
<1>11. /\ extended \in Seq(Nat) /\ Len(extended) = Len(current) + 1
       /\ \A j \in 1..Len(current) : extended[j] = current[j]
       /\ extended[Len(current) + 1] = number
       /\ \A j \in 1..Len(extended) : j \in 1..Len(current) \/ j = Len(current) + 1
  <2>1. /\ extended \in Seq(Nat) /\ Len(extended) = Len(current) + 1
        /\ \A j \in 1..Len(current) : extended[j] = current[j]
        /\ extended[Len(current) + 1] = number
    BY <1>3, AppendProperties
  <2> QED
    BY <1>9, <2>1
<1> HIDE DEF extended, added
<1>12. \A j \in 1..Len(extended) : /\ extended[j] \in Nat /\ extended[j] <= number
                                   /\ extended[j] < number => extended[j] \in parted
  <2>1. ASSUME NEW j \in 1..Len(current)
        PROVE  /\ current[j] \in Nat /\ current[j] <= number
               /\ current[j] < number => current[j] \in parted
    <3>1. current # <<>>
      BY <1>3, EmptySeq
    <3> QED
      BY <1>3, <3>1
  <2> QED
    BY <1>3, <1>11, <2>1
<1>13. ASSUME NEW s, AllBeforeOne(s, current), \A i \in 1..Len(s) : Below(s[i], number)
       PROVE  AllBeforeOne(s, extended)
  <2>1. ASSUME NEW i \in 1..Len(s), NEW k \in 1..Len(s[i]), NEW l \in 1..Len(extended)
        PROVE  s[i][k] < extended[l]
    BY <1>11, <1>13 DEF AllBeforeOne, Before, Below
  <2> QED
    BY <2>1, Zenon DEF AllBeforeOne, Before
<1>14. AllBeforeOne(queue, extended) /\ AllBeforeOne(sent, extended)
  BY <1>3, <1>13
<1>15. CASE ~(taken' /\ trailer)
  <2>1. messages' = queue
    BY <1>1, <1>15
  <2>2. /\ (Rising(messages, parted))' /\ (AllPast(messages))'
        /\ (AllBefore(sent, messages))'
    BY <1>1, <1>3, <1>8, <2>1 DEF Rising, Unmixed, Before, AllPast, Past, AllBefore
  <2>3. CurrentMessage' /\ (AllBeforeOne(messages, message))' /\ (AllBeforeOne(sent, message))'
    <3>1. CASE taken'
      <4>1. message' = extended /\ insideEvent'
        BY <1>1, <1>15, <3>1, Zenon
      <4>2. ASSUME NEW j \in 1..Len(extended)
            PROVE  /\ extended[j] <= event' /\ extended[j] <= extended[Len(extended)]
                   /\ extended[j] < event' => extended[j] \in parted'
        BY <1>1, <1>4, <1>11, <1>12
      <4>3. CurrentMessage'
        BY <4>1, <4>2 DEF CurrentMessage, Past
      <4>4. (AllBeforeOne(messages, message))' /\ (AllBeforeOne(sent, message))'
        BY <1>1, <1>14, <2>1, <4>1 DEF AllBeforeOne, Before
      <4> QED
        BY <4>3, <4>4
    <3>2. CASE ~taken'
      <4>1. message' = current
        BY <1>1, <3>2
      <4>2. current # <<>> => Last(current) \in parted'
        <5>1. SUFFICES ASSUME current # <<>> PROVE ~IsSelected(nEvents)
          BY <1>1 DEF added
        <5>2. queue = messages /\ message # <<>>
          BY <1>3, <5>1
        <5>3. Len(messages) < MaxMessages
          BY <1>0, <5>2 DEF TypeInv, RoomKept
        <5>4. Len(messages) < credits /\ credits \in Nat /\ Len(messages) \in Nat
          BY <1>0, <5>2, Numbers, UnfinishedCounts DEF TypeInv
        <5>5. credits > 0 /\ HasRoom(Len(queue))
          BY <5>2, <5>3, <5>4 DEF HasRoom
        <5> QED
          BY <1>1, <3>2, <5>5, Zenon DEF IsToBeSent
      <4>3. ASSUME NEW j \in 1..Len(current)
            PROVE  /\ current[j] <= event' /\ current[j] <= current[Len(current)]
                   /\ current[j] \in parted'
        <5>1. current # <<>>
          BY <1>3, EmptySeq
        <5>2. /\ current[j] \in Nat
              /\ current[j] <= number /\ current[j] <= current[Len(current)]
              /\ current[j] < number => current[j] \in parted
          BY <1>3, <5>1
        <5>3. current[Len(current)] \in Nat /\ current[Len(current)] <= number
          BY <1>3, <1>10, <5>1
        <5>4. current[j] = number => current[j] = Last(current)
          BY <1>3, <1>10, <5>1, <5>2, <5>3
        <5>5. current[j] < number \/ current[j] = number
          BY <1>3, <5>2
        <5> QED
          BY <1>1, <1>4, <4>2, <5>1, <5>2, <5>4, <5>5
      <4>4. CurrentMessage'
        BY <4>1, <4>3 DEF CurrentMessage
      <4>5. (AllBeforeOne(messages, message))' /\ (AllBeforeOne(sent, message))'
        BY <1>1, <1>3, <2>1, <4>1 DEF AllBeforeOne, Before
      <4> QED
        BY <4>4, <4>5
    <3> QED
      BY <3>1, <3>2
  <2> QED
    BY <1>7, <2>2, <2>3 DEF InOrder
<1>16. CASE taken' /\ trailer
  <2>1. messages' = Append(queue, extended) /\ message' = <<>>
    BY <1>1, <1>16
  <2>2. Unmixed(extended, parted')
    <3>1. SUFFICES ASSUME NEW j \in 1..Len(extended), NEW k \in 1..Len(extended),
                          extended[j] < extended[k]
                   PROVE  extended[j] \in parted
      BY <1>4 DEF Unmixed
    <3>2. extended[j] < number
      BY <1>3, <1>12, <3>1
    <3> QED
      BY <1>12, <3>2
  <2>3. Rising(messages', parted')
    BY <1>3, <1>8, <1>11, <1>14, <2>1, <2>2, RisingAppend DEF AllBeforeOne
  <2>4. /\ Len(messages') = Len(queue) + 1
        /\ \A i \in 1..Len(queue) : messages'[i] = queue[i]
        /\ messages'[Len(queue) + 1] = extended
        /\ \A i \in 1..Len(queue) + 1 : i \in 1..Len(queue) \/ i = Len(queue) + 1
    <3>1. /\ Len(messages') = Len(queue) + 1
          /\ \A i \in 1..Len(queue) : messages'[i] = queue[i]
          /\ messages'[Len(queue) + 1] = extended
      BY <1>3, <1>11, <2>1, AppendProperties
    <3> QED
      BY <1>9, <3>1
  <2>5. ~insideEvent' /\ \A j \in 1..Len(extended) : extended[j] <= event'
    <3>1. ~insideEvent'
      BY <1>1, <1>16, Zenon
    <3>2. \A j \in 1..Len(extended) : extended[j] <= event'
      BY <1>1, <1>12
    <3> QED
      BY <3>1, <3>2
  <2>6. (AllPast(messages))'
    <3>1. ASSUME NEW i \in 1..Len(queue) + 1, NEW k \in 1..Len(messages'[i])
          PROVE  messages'[i][k] <= event'
      <4>1. CASE i \in 1..Len(queue)
        BY <1>8, <2>4, <4>1
      <4>2. CASE i = Len(queue) + 1
        BY <2>4, <2>5, <4>2
      <4> QED
        BY <2>4, <4>1, <4>2
    <3> QED
      BY <2>4, <2>5, <3>1 DEF AllPast, Past
  <2>7. (AllBefore(sent, messages))'
    <3>1. ASSUME NEW i \in 1..Len(sent), NEW j \in 1..Len(queue) + 1
          PROVE  Before(sent[i], messages'[j])
      <4>1. CASE j \in 1..Len(queue)
        BY <1>3, <2>4, <4>1 DEF AllBefore
      <4>2. CASE j = Len(queue) + 1
        BY <1>14, <2>4, <4>2 DEF AllBeforeOne
      <4> QED
        BY <2>4, <4>1, <4>2
    <3> QED
      BY <1>1, <2>4, <3>1 DEF AllBefore, Before
  <2>8. (Rising(messages, parted))'
    BY <2>3 DEF Rising, Unmixed, Before
  <2>9. CurrentMessage' /\ (AllBeforeOne(messages, message))' /\ (AllBeforeOne(sent, message))'
    BY <2>1, EmptySeq DEF CurrentMessage, AllBeforeOne, Before
  <2> QED
    BY <1>7, <2>6, <2>7, <2>8, <2>9 DEF InOrder
<1> QED
  BY <1>15, <1>16

orderVars == <<insideEvent, event, messages, message, sent, parted>>

LEMMA OrderStays == InOrder /\ UNCHANGED orderVars => InOrder'
  BY DEF orderVars, InOrder, Rising, Unmixed, Before, AllPast, Past, AllBefore,
         AllBeforeOne, CurrentMessage

LEMMA OrderInit == Init => OrderInv
<1> SUFFICES ASSUME Init PROVE OrderInv
  OBVIOUS
<1>1. messages = <<>> /\ message = <<>> /\ sent = <<>>
  BY DEF Init
<1>2. InOrder
  BY <1>1, EmptyInOrder, EmptySeq DEF InOrder, CurrentMessage, AllBeforeOne
<1> QED
  BY <1>2, TypeInit DEF OrderInv

LEMMA OrderNext == OrderInv /\ [Next]_vars => OrderInv'
<1> SUFFICES ASSUME OrderInv, [Next]_vars PROVE OrderInv'
  OBVIOUS
<1>0. TypeInv /\ TypeInv' /\ InOrder
  BY TypeNext DEF OrderInv
<1> SUFFICES InOrder'
  BY <1>0 DEF OrderInv
<1>1. CASE StartRun
  <2>1. messages' = <<>> /\ message' = <<>> /\ sent' = <<>>
    BY <1>1 DEF StartRun
  <2>2. (Rising(messages, parted))' /\ (AllPast(messages))'
    BY <2>1, EmptySeq DEF Rising, AllPast
  <2>3. (Rising(sent, parted))' /\ (AllPast(sent))' /\ (AllBefore(sent, messages))'
    BY <2>1, EmptySeq DEF Rising, AllPast, AllBefore
  <2>4. CurrentMessage' /\ (AllBeforeOne(messages, message))' /\ (AllBeforeOne(sent, message))'
    BY <2>1, EmptySeq DEF CurrentMessage, AllBeforeOne
  <2> QED
    BY <2>2, <2>3, <2>4 DEF InOrder
<1>2. CASE StopRun
  BY <1>0, <1>2, OrderStays DEF StopRun, readoutVars, orderVars
<1>3. ASSUME NEW header \in BOOLEAN, NEW trailer \in BOOLEAN, ReadBlock(header, trailer)
      PROVE  InOrder'
  BY <1>3, ReadBlockKeepsOrder
<1>4. ASSUME NEW n \in CreditGrants, NEW p \in Prescalings, AddCredits(n, p)
      PROVE  InOrder'
  BY <1>0, <1>4, OrderStays DEF AddCredits, readoutVars, orderVars
<1>5. ASSUME NEW n \in CreditGrants, NEW p \in Prescalings, AddCreditsAndGet(n, p)
      PROVE  InOrder'
  <2>1. UNCHANGED <<message, insideEvent, event, parted>>
    BY <1>5 DEF AddCreditsAndGet, readoutVars
  <2>2. CASE messages = <<>>
    <3>1. UNCHANGED orderVars
      BY <1>5, <2>1, <2>2 DEF AddCreditsAndGet, orderVars
    <3> QED
      BY <1>0, <3>1, OrderStays
  <2>3. CASE messages # <<>>
    <3>1. Deliver
      BY <1>5, <2>3 DEF AddCreditsAndGet
    <3> QED
      BY <1>0, <2>1, <2>3, <3>1, DeliverKeepsOrder
  <2> QED
    BY <2>2, <2>3
<1>6. CASE SendData
  <2>1. /\ messages # <<>> /\ Deliver
        /\ UNCHANGED <<message, insideEvent, event, parted>>
    BY <1>6 DEF SendData, readoutVars
  <2> QED
    BY <1>0, <2>1, DeliverKeepsOrder
<1>7. CASE UNCHANGED vars
  BY <1>0, <1>7, OrderStays DEF vars, orderVars
<1> QED
  BY <1>1, <1>2, <1>3, <1>4, <1>5, <1>6, <1>7 DEF Next

\* EventsNotMixed, for any prescaling factors, changed at any time: a message holds the
\* blocks of one event, and of earlier ones only those read before the prescaling refused
\* their rest; neither a missing trailer nor credits or room do that.
THEOREM EventsStayApart == Spec => []EventsNotMixed
<1>1. OrderInv => EventsNotMixed
  BY DEF OrderInv, InOrder, Rising, Unmixed, EventsNotMixed
<1>2. Init => OrderInv
  BY OrderInit
<1>3. OrderInv /\ [Next]_vars => OrderInv'
  BY OrderNext
<1> QED
  BY <1>1, <1>2, <1>3, PTL DEF Spec

\* EventsInOrder, for any prescaling factors: no event is delivered twice, or out of
\* order, or in two messages, be its message answered with a fault or not.
THEOREM EventsStayInOrder == Spec => []EventsInOrder
<1>1. OrderInv => EventsInOrder
  BY DEF OrderInv, InOrder, Rising, Before, EventsInOrder
<1>2. Init => OrderInv
  BY OrderInit
<1>3. OrderInv /\ [Next]_vars => OrderInv'
  BY OrderNext
<1> QED
  BY <1>1, <1>2, <1>3, PTL DEF Spec
=============================================================================
