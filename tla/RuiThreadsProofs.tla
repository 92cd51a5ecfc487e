--------------------------- MODULE RuiThreadsProofs --------------------------
(***************************************************************************)
(* Proofs about RuiThreads, for any number of threads that serve messages, *)
(* and for any number of commands:                                         *)
(*                                                                         *)
(*  - the types (Types);                                                   *)
(*  - applicationBSem_ is lost in one way only (SemaphoreIsNotLost);       *)
(*  - it does protect, and the readout reads in state Enabled only, until  *)
(*    something fails or a Reset comes (Exclusion, ReadoutNeedsEnabled);   *)
(*  - an enabled run has a readout action, whatever fails, if commands     *)
(*    come one after the other (LoopIsAlive).                              *)
(***************************************************************************)
EXTENDS RuiThreads, FiniteSetTheorems, TLAPS

Labels ==
  {"idle", "waiting", "looking", "reading", "readingOn", "leaving",
   "firing", "doingNothing", "acting", "failing", "accessing",
   "resetting", "resetFiring", "resetDoingNothing", "resetHalting"}

\* The types, and what the count of submitted actions needs: the action being run is
\* one of them.
TypeInv ==
  /\ fsm \in States
  /\ full \in BOOLEAN
  /\ pc \in [Threads -> Labels]
  /\ cmd \in [Servers -> Commands \cup {"Access"}]
  /\ target \in [Servers -> States]
  /\ submitted \in Nat
  /\ pc["loop"] # "idle" => submitted > 0
  /\ workLoopStarted \in BOOLEAN
  /\ resched \in BOOLEAN
  /\ exhausted \in BOOLEAN
  /\ nConfigures \in Nat
  /\ disturbed \in BOOLEAN
  /\ forgotten \in BOOLEAN

LEMMA TypeInvInit == Init => TypeInv
<1> SUFFICES ASSUME Init PROVE TypeInv
  OBVIOUS
<1>1. pc \in [Threads -> Labels]
  BY DEF Init, Labels
<1>2. pc["loop"] = "idle"
  BY DEF Init, Threads
<1> QED
  BY <1>1, <1>2 DEF Init, TypeInv, States

LEMMA TypeInvNext == TypeInv /\ [Next]_vars => TypeInv'
<1> SUFFICES ASSUME TypeInv, [Next]_vars PROVE TypeInv'
  OBVIOUS
<1> USE RuiThreadsAssumption DEF TypeInv, Goto, loopVars
<1>1. CASE LoopTake
  BY <1>1 DEF LoopTake, Take, Threads, Labels
<1>2. CASE LoopLook
  BY <1>2 DEF LoopLook, Threads, Labels
<1>3. CASE LoopRead
  BY <1>3 DEF LoopRead, Threads, Labels
<1>4. CASE LoopMoveToFailed
  BY <1>4 DEF LoopMoveToFailed, Give, Threads, Labels, States
<1>5. CASE LoopGive
  <2>1. pc' \in [Threads -> Labels] /\ pc'["loop"] = "idle"
    BY <1>5 DEF LoopGive, Threads, Labels
  <2>2. submitted' \in Nat
    BY <1>5 DEF LoopGive, Labels
  <2>3. full' \in BOOLEAN /\ forgotten' \in BOOLEAN
    BY <1>5 DEF LoopGive, Give
  <2> QED
    BY <1>5, <2>1, <2>2, <2>3 DEF LoopGive
<1>6. ASSUME NEW t \in Servers, NEW c \in Commands, Receive(t, c)
      PROVE  TypeInv'
  BY <1>6 DEF Receive, Threads, Labels
<1>7. ASSUME NEW t \in Servers, ServerTake(t)
      PROVE  TypeInv'
  BY <1>7 DEF ServerTake, Take, Threads, Labels
<1>8. ASSUME NEW t \in Servers, Serve(t)
      PROVE  TypeInv'
  <2>1. CASE Fire(t)
    BY <1>8, <2>1 DEF Fire, Transition, States, Threads, Labels
  <2>2. CASE NoAction(t)
    BY <1>8, <2>2 DEF NoAction, Threads, Labels
  <2>3. CASE Configure(t)
    BY <1>8, <2>3 DEF Configure, Threads, Labels
  <2>4. CASE Enable(t)
    BY <1>8, <2>4 DEF Enable, SubmitOnce, Threads, Labels
  <2>5. CASE Halt(t)
    BY <1>8, <2>5 DEF Halt, Threads, Labels
  <2>6. CASE ActionFails(t)
    <3>1. pc' \in [Threads -> Labels] /\ pc'["loop"] = pc["loop"]
      BY <1>8, <2>6 DEF ActionFails, Threads, Labels
    <3>2. CASE cmd[t] = "Configure"
      BY <2>6, <3>1, <3>2 DEF ActionFails, Give, States
    <3>3. CASE cmd[t] = "Enable"
      <4>1. CASE SubmitOnce
        <5>1. submitted' \in Nat /\ submitted' >= submitted
          BY <4>1 DEF SubmitOnce
        <5>2. workLoopStarted' = TRUE
          BY <4>1 DEF SubmitOnce
        <5>3. fsm' \in States /\ full' \in BOOLEAN /\ forgotten' \in BOOLEAN
          BY <2>6 DEF ActionFails, Give, States
        <5>4. UNCHANGED <<exhausted, cmd, target, resched, nConfigures>>
          BY <2>6, <3>3 DEF ActionFails
        <5>5. disturbed' = TRUE
          BY <2>6 DEF ActionFails
        <5> QED
          BY <3>1, <5>1, <5>2, <5>3, <5>4, <5>5
      <4>2. CASE UNCHANGED <<submitted, workLoopStarted>>
        BY <2>6, <3>1, <3>3, <4>2 DEF ActionFails, Give, States
      <4> QED
        BY <2>6, <3>3, <4>1, <4>2 DEF ActionFails
    <3> QED
      BY <2>6, <3>2, <3>3 DEF ActionFails
  <2>7. CASE Failed(t) \/ Access(t)
    BY <1>8, <2>7 DEF Failed, Access, Threads, Labels, States
  <2>8. CASE Reset(t)
    BY <1>8, <2>8 DEF Reset, Threads, Labels, States
  <2>9. CASE ResetFire(t)
    BY <1>8, <2>9 DEF ResetFire, Threads, Labels
  <2>10. CASE ResetEnd(t)
    BY <1>8, <2>10 DEF ResetEnd, Threads, Labels, States
  <2>11. CASE AccessFails(t)
    <3>1. forgotten' \in BOOLEAN
      <4>1. forgotten' = ~full
        BY <2>11 DEF AccessFails
      <4> QED
        BY <4>1, Zenon
    <3> QED
      BY <1>8, <2>11, <3>1 DEF AccessFails, Threads, Labels
  <2>12. CASE ServerGive(t)
    <3>1. pc' \in [Threads -> Labels] /\ pc'["loop"] = pc["loop"]
      BY <1>8, <2>12 DEF ServerGive, Threads, Labels
    <3>2. full' \in BOOLEAN /\ forgotten' \in BOOLEAN
      BY <2>12 DEF ServerGive, Give
    <3> QED
      BY <2>12, <3>1, <3>2 DEF ServerGive
  <2> QED
    BY <1>8, <2>1, <2>2, <2>3, <2>4, <2>5, <2>6, <2>7, <2>8, <2>9, <2>10, <2>11,
       <2>12 DEF Serve
<1>9. CASE UNCHANGED vars
  BY <1>9 DEF vars
<1> QED
  BY <1>1, <1>2, <1>3, <1>4, <1>5, <1>6, <1>7, <1>8, <1>9 DEF Next, Loop

\* Every variable has its type, in particular the count of submitted actions never
\* goes below zero, for any number of threads.
THEOREM Types == Spec => []TypeOK
<1>1. TypeInv => TypeOK
  BY DEF TypeInv, TypeOK, Labels, Threads
<1> QED
  BY <1>1, TypeInvInit, TypeInvNext, PTL DEF Spec
-----------------------------------------------------------------------------
(* The semaphore is not lost *)

\* Where a thread is until it gives the semaphore.
Holding ==
  {"looking", "reading", "readingOn", "leaving", "firing", "doingNothing",
   "acting", "failing", "accessing"}

\* A semaphore that cannot be taken is going to be given, if it was not forgotten.
SemInv == full \/ forgotten \/ \E t \in Threads : pc[t] \in Holding

\* A step of a thread that gives the semaphore, leads to a place where it is held, or
\* neither takes it nor leaves such a place.
LEMMA StillHeld ==
  ASSUME SemInv, pc \in [Threads -> Labels],
         NEW t \in Threads, NEW l \in Labels, Goto(t, l),
         \/ full' \/ forgotten'
         \/ l \in Holding
         \/ pc[t] \notin Holding /\ full' = full /\ forgotten' = forgotten
  PROVE  SemInv'
<1> USE DEF Goto
<1>1. CASE full' \/ forgotten'
  BY <1>1 DEF SemInv
<1>2. CASE l \in Holding
  <2>1. pc'[t] \in Holding
    BY <1>2
  <2> QED
    BY <2>1 DEF SemInv, Threads
<1>3. CASE pc[t] \notin Holding /\ full' = full /\ forgotten' = forgotten
  <2>1. CASE \E u \in Threads : pc[u] \in Holding
    <3>1. PICK u \in Threads : pc[u] \in Holding
      BY <2>1
    <3>2. pc'[u] \in Holding
      BY <1>3, <3>1
    <3> QED
      BY <3>2 DEF SemInv, Threads
  <2>2. CASE full \/ forgotten
    BY <1>3, <2>2 DEF SemInv
  <2> QED
    BY <2>1, <2>2 DEF SemInv
<1> QED
  BY <1>1, <1>2, <1>3

LEMMA SemInvNext == SemInv /\ TypeInv /\ [Next]_vars => SemInv'
<1> SUFFICES ASSUME SemInv, TypeInv, [Next]_vars PROVE SemInv'
  OBVIOUS
<1>0. pc \in [Threads -> Labels]
  BY DEF TypeInv
<1> USE <1>0, StillHeld
<1>1. CASE Loop
  <2>1. CASE LoopTake
    BY <2>1 DEF LoopTake, Threads, Labels, Holding
  <2>2. CASE LoopLook
    BY <2>2 DEF LoopLook, Threads, Labels, Holding
  <2>3. CASE LoopRead
    BY <2>3 DEF LoopRead, Threads, Labels, Holding
  <2>4. CASE LoopMoveToFailed
    BY <2>4 DEF LoopMoveToFailed, Give, SemInv
  <2>5. CASE LoopGive
    BY <2>5 DEF LoopGive, Give, SemInv
  <2> QED
    BY <1>1, <2>1, <2>2, <2>3, <2>4, <2>5 DEF Loop
<1>2. ASSUME NEW t \in Servers, NEW c \in Commands, Receive(t, c)
      PROVE  SemInv'
  BY <1>2 DEF Receive, Threads, Labels, Holding
<1>3. ASSUME NEW t \in Servers, ServerTake(t)
      PROVE  SemInv'
  BY <1>3 DEF ServerTake, Threads, Labels, Holding
<1>4. ASSUME NEW t \in Servers, Serve(t)
      PROVE  SemInv'
  <2> USE DEF Threads, Labels, Holding
  <2>1. CASE Fire(t)
    BY <2>1 DEF Fire
  <2>2. CASE NoAction(t) \/ Failed(t) \/ Access(t)
    BY <2>2 DEF NoAction, Failed, Access
  <2>3. CASE Configure(t) \/ Enable(t) \/ Halt(t)
    BY <2>3 DEF Configure, Enable, Halt
  <2>4. CASE ActionFails(t)
    BY <2>4 DEF ActionFails, Give, SemInv
  <2>5. CASE ServerGive(t)
    BY <2>5 DEF ServerGive, Give, SemInv
  <2>6. CASE Reset(t)
    BY <2>6 DEF Reset
  <2>7. CASE ResetFire(t)
    BY <2>7 DEF ResetFire
  <2>8. CASE ResetEnd(t)
    BY <2>8 DEF ResetEnd
  <2>9. CASE AccessFails(t)
    BY <2>9 DEF AccessFails, SemInv
  <2> QED
    BY <1>4, <2>1, <2>2, <2>3, <2>4, <2>5, <2>6, <2>7, <2>8, <2>9 DEF Serve
<1>5. CASE UNCHANGED vars
  BY <1>5 DEF vars, SemInv
<1> QED
  BY <1>1, <1>2, <1>3, <1>4, <1>5 DEF Next

\* applicationBSem_ is not lost by transitions, by the readout and by all that they give
\* too much: with no thread inside the next one can take it, unless a reply that could
\* not be created made onSOAPClientCreditMsg leave with it.
THEOREM SemaphoreIsNotLost == Spec => []SemaphoreNotLost
<1>1. Init => SemInv
  BY DEF Init, SemInv
<1>2. SemInv => SemaphoreNotLost
  BY DEF SemInv, SemaphoreNotLost, Inside, Holding
<1> QED
  BY <1>1, <1>2, SemInvNext, TypeInvInit, TypeInvNext, PTL DEF Spec
-----------------------------------------------------------------------------
(* What the semaphore protects, until something fails or a Reset comes *)

\* The places of a program in which nothing has failed or been reset.
Regular == Holding \ {"readingOn", "failing"}

\* With the semaphore to be had nobody holds it, and nobody else does if somebody
\* does.  Only its holder moves the FSM, so the state that workLoopAction has looked
\* at lasts.
ExclInv ==
  /\ \A t \in Threads : pc[t] \in Regular \cup {"idle", "waiting", "resetting"}
  /\ \A t \in Threads : full => pc[t] \notin Regular
  /\ \A t, u \in Threads : pc[t] \in Regular /\ pc[u] \in Regular => t = u
  /\ pc["loop"] = "reading" => fsm = "Enabled"

LEMMA ExclInvNext == (disturbed \/ ExclInv) /\ TypeInv /\ [Next]_vars
                       => (disturbed \/ ExclInv)'
<1>a. [Next]_vars /\ disturbed => disturbed'
  <2>1. Loop /\ disturbed => disturbed'
    BY DEF Loop, LoopTake, LoopLook, LoopRead, LoopMoveToFailed, LoopGive
  <2>2. \A t \in Servers : ServerTake(t) /\ disturbed => disturbed'
    BY DEF ServerTake
  <2>3. \A t \in Servers, c \in Commands : Receive(t, c) /\ disturbed => disturbed'
    BY DEF Receive
  <2>4. \A t \in Servers : Serve(t) /\ disturbed => disturbed'
    BY DEF Serve, Fire, NoAction, Configure, Enable, Halt, ActionFails, Failed,
           Access, AccessFails, ServerGive, Reset, ResetFire, ResetEnd
  <2>5. UNCHANGED vars /\ disturbed => disturbed'
    BY DEF vars
  <2> QED
    BY <2>1, <2>2, <2>3, <2>4, <2>5 DEF Next
<1> SUFFICES ASSUME ExclInv, TypeInv, [Next]_vars, ~disturbed' PROVE ExclInv'
  BY <1>a
<1>0. pc \in [Threads -> Labels] /\ "loop" \in Threads /\ "loop" \notin Servers
  BY RuiThreadsAssumption DEF TypeInv, Threads
<1> USE <1>0 DEF Regular, Holding, Goto
<1>1. CASE Loop
  <2>1. CASE LoopTake
    BY <2>1 DEF LoopTake, Take, ExclInv
  <2>2. CASE LoopLook
    BY <2>2 DEF LoopLook, ExclInv
  <2>3. CASE LoopRead
    BY <2>3 DEF LoopRead, ExclInv
  <2>4. CASE LoopMoveToFailed
    BY <2>4, Zenon DEF LoopMoveToFailed
  <2>5. CASE LoopGive
    BY <2>5 DEF LoopGive, Give, ExclInv
  <2> QED
    BY <1>1, <2>1, <2>2, <2>3, <2>4, <2>5 DEF Loop
<1>2. ASSUME NEW t \in Servers, NEW c \in Commands, Receive(t, c)
      PROVE  ExclInv'
  BY <1>2 DEF Receive, ExclInv, Threads
<1>3. ASSUME NEW t \in Servers, ServerTake(t)
      PROVE  ExclInv'
  BY <1>3 DEF ServerTake, Take, ExclInv, Threads
<1>4. ASSUME NEW t \in Servers, Serve(t)
      PROVE  ExclInv'
  <2>0. t \in Threads /\ t # "loop"
    BY DEF Threads
  <2>1. CASE Fire(t)
    BY <2>0, <2>1 DEF Fire, ExclInv
  <2>2. CASE NoAction(t) \/ Failed(t) \/ Access(t)
    BY <2>0, <2>2 DEF NoAction, Failed, Access, ExclInv
  <2>3. CASE Configure(t) \/ Enable(t) \/ Halt(t)
    BY <2>0, <2>3 DEF Configure, Enable, Halt, ExclInv
  <2>4. CASE ActionFails(t)
    BY <2>4 DEF ActionFails
  <2>5. CASE ServerGive(t)
    BY <2>0, <2>5 DEF ServerGive, Give, ExclInv
  <2>6. CASE Reset(t)
    BY <2>6 DEF Reset
  <2>7. CASE ResetFire(t) \/ ResetEnd(t)
    BY <2>0, <2>7 DEF ResetFire, ResetEnd, ExclInv
  <2>8. CASE AccessFails(t)
    BY <2>0, <2>8 DEF AccessFails, ExclInv
  <2> QED
    BY <1>4, <2>1, <2>2, <2>3, <2>4, <2>5, <2>6, <2>7, <2>8 DEF Serve
<1>5. CASE UNCHANGED vars
  BY <1>5 DEF vars, ExclInv
<1> QED
  BY <1>1, <1>2, <1>3, <1>4, <1>5 DEF Next

\* Until something fails or somebody resets, applicationBSem_ does what Application.h
\* says of it: no two threads are inside what it protects, however many there are.
THEOREM Exclusion == Spec => []MutualExclusion
<1>1. Init => ExclInv
  BY DEF Init, ExclInv, Threads, Regular, Holding
<1>2. disturbed \/ ExclInv => MutualExclusion
  <2> SUFFICES ASSUME ExclInv PROVE Cardinality(Inside) <= 1
    BY DEF MutualExclusion
  <2>1. Inside = {t \in Threads : pc[t] \in Regular}
    BY DEF ExclInv, Inside, Regular, Holding
  <2>2. CASE Inside = {}
    BY <2>2, FS_EmptySet
  <2>3. CASE Inside # {}
    <3>1. PICK t \in Inside : TRUE
      BY <2>3
    <3>2. Inside = {t}
      BY <2>1, <3>1 DEF ExclInv
    <3>3. Cardinality(Inside) = 1
      BY <3>2, FS_Singleton, Zenon
    <3> QED
      BY <3>3
  <2> QED
    BY <2>2, <2>3
<1> QED
  BY <1>1, <1>2, ExclInvNext, TypeInvInit, TypeInvNext, PTL DEF Spec

\* On the same terms, no Halt takes the FSM out of Enabled, and releases the blocks,
\* in the middle of a pass of the readout.
THEOREM ReadoutNeedsEnabled == Spec => []ReadsOnlyWhenEnabled
<1>1. Init => ExclInv
  BY DEF Init, ExclInv, Threads, Regular, Holding
<1>2. disturbed \/ ExclInv => ReadsOnlyWhenEnabled
  BY DEF ExclInv, ReadsOnlyWhenEnabled
<1> QED
  BY <1>1, <1>2, ExclInvNext, TypeInvInit, TypeInvNext, PTL DEF Spec
-----------------------------------------------------------------------------
(* The readout goes on, if commands come one after the other *)

\* The action being run is not going to be run again.
Ending == pc["loop"] = "leaving" /\ ~resched

\* An action that is submitted is left when the one that ends is gone.
OneLeft == submitted > (IF Ending THEN 1 ELSE 0)

\* The FSM is configured, or is about to be: the work loop may have made it fail
\* behind the back of a transition that is going on.
Armed ==
  \/ fsm \in {"Ready", "Enabled"}
  \/ \E t \in Servers :
       \/ pc[t] = "acting" /\ cmd[t] = "Enable"
       \/ pc[t] = "doingNothing" /\ target[t] \in {"Ready", "Enabled"}

\* The FSM is enabled, or is about to be without an action.
Running ==
  \/ fsm = "Enabled"
  \/ \E t \in Servers : pc[t] = "doingNothing" /\ target[t] = "Enabled"

\* configureAction starts in Halted; the targets are those of the transitions.
ActsAsFired ==
  \A t \in Servers :
    pc[t] = "acting" =>
      /\ cmd[t] = "Configure" => fsm \notin {"Ready", "Enabled"}
      /\ cmd[t] = "Configure" => target[t] = "Ready"
      /\ cmd[t] = "Enable" => target[t] = "Enabled"
      /\ cmd[t] = "Halt" => target[t] = "Halted"

AliveInv ==
  /\ pc["loop"] \in {"reading", "readingOn"} => resched
  /\ ActsAsFired
  /\ Armed /\ workLoopStarted /\ ~exhausted => OneLeft
  /\ Running => workLoopStarted

LEMMA AliveInvNext ==
  ASSUME \A t, u \in Servers : t = u
  PROVE  AliveInv /\ TypeInv /\ [Next]_vars => AliveInv'
<1> SUFFICES ASSUME AliveInv, TypeInv, [Next]_vars PROVE AliveInv'
  OBVIOUS
<1>0. /\ pc \in [Threads -> Labels] /\ "loop" \in Threads /\ "loop" \notin Servers
      /\ target \in [Servers -> States] /\ cmd \in [Servers -> Commands \cup {"Access"}]
      /\ submitted \in Nat /\ (pc["loop"] # "idle" => submitted > 0)
  BY RuiThreadsAssumption DEF TypeInv, Threads
<1>00. /\ resched \in BOOLEAN /\ exhausted \in BOOLEAN /\ workLoopStarted \in BOOLEAN
  BY DEF TypeInv
<1> USE <1>0, <1>00 DEF Goto, loopVars
<1>1. CASE Loop
  <2>0. \A l : Goto("loop", l) =>
          /\ pc'["loop"] = l
          /\ \A t \in Servers : pc'[t] = pc[t]
    BY DEF Threads
  <2>1. CASE LoopTake
    BY <2>0, <2>1 DEF LoopTake, AliveInv, ActsAsFired, Armed, Running, OneLeft, Ending
  <2>2. CASE LoopLook
    BY <2>0, <2>2 DEF LoopLook, AliveInv, ActsAsFired, Armed, Running, OneLeft, Ending
  <2>3. CASE LoopRead
    BY <2>0, <2>3 DEF LoopRead, AliveInv, ActsAsFired, Armed, Running, OneLeft, Ending
  <2>4. CASE LoopMoveToFailed
    BY <2>0, <2>4
       DEF LoopMoveToFailed, AliveInv, ActsAsFired, Armed, Running, OneLeft, Ending
  <2>5. CASE LoopGive
    BY <2>0, <2>5 DEF LoopGive, AliveInv, ActsAsFired, Armed, Running, OneLeft, Ending
  <2> QED
    BY <1>1, <2>1, <2>2, <2>3, <2>4, <2>5 DEF Loop
<1>2. ASSUME NEW t \in Servers,
             \/ \E c \in Commands : Receive(t, c)
             \/ ServerTake(t)
             \/ Serve(t)
      PROVE  AliveInv'
  <2>1. /\ \A u \in Servers : u = t
        /\ t \in Threads /\ t # "loop"
    BY DEF Threads
  <2>2. \A l : Goto(t, l) => pc'["loop"] = pc["loop"] /\ pc'[t] = l
    BY <2>1
  <2> USE <2>1, <2>2 DEF AliveInv, ActsAsFired, Armed, Running, OneLeft, Ending
  <2>3. CASE \E c \in Commands : Receive(t, c)
    BY <2>3 DEF Receive
  <2>4. CASE ServerTake(t)
    BY <2>4 DEF ServerTake
  <2>5. CASE Fire(t)
    BY <2>5 DEF Fire, Transition, IsNoAction
  <2>6. CASE NoAction(t)
    BY <2>6 DEF NoAction
  <2>7. CASE Configure(t)
    BY <2>7 DEF Configure
  <2>8. CASE Enable(t)
    BY <2>8 DEF Enable, SubmitOnce
  <2>9. CASE Halt(t)
    BY <2>9 DEF Halt
  <2>10. CASE ActionFails(t)
    <3>1. /\ pc[t] = "acting" /\ pc'[t] = "failing" /\ pc'["loop"] = pc["loop"]
          /\ fsm' \in {fsm, "Failed"}
          /\ target' = target /\ cmd' = cmd /\ resched' = resched
      BY <2>10 DEF ActionFails
    <3>2. CASE cmd[t] = "Configure"
      BY <3>1, <3>2
    <3>3. CASE cmd[t] = "Enable"
      <4>1. exhausted' = exhausted
        BY <2>10, <3>3 DEF ActionFails
      <4>2. SubmitOnce \/ UNCHANGED <<submitted, workLoopStarted>>
        BY <2>10, <3>3 DEF ActionFails
      <4>3. CASE SubmitOnce
        BY <3>1, <3>3, <4>1, <4>3 DEF SubmitOnce
      <4>4. CASE UNCHANGED <<submitted, workLoopStarted>>
        BY <3>1, <3>3, <4>1, <4>4
      <4> QED
        BY <4>2, <4>3, <4>4
    <3> QED
      BY <2>10, <3>2, <3>3 DEF ActionFails
  <2>11. CASE Failed(t) \/ Access(t) \/ AccessFails(t) \/ ServerGive(t)
    BY <2>11 DEF Failed, Access, AccessFails, ServerGive
  <2>12. CASE Reset(t) \/ ResetFire(t) \/ ResetEnd(t)
    BY <2>12 DEF Reset, ResetFire, ResetEnd
  <2> QED
    BY <1>2, <2>3, <2>4, <2>5, <2>6, <2>7, <2>8, <2>9, <2>10, <2>11, <2>12
       DEF Serve
<1>3. CASE UNCHANGED vars
  BY <1>3 DEF vars, AliveInv, ActsAsFired, Armed, Running, OneLeft, Ending
<1> QED
  BY <1>1, <1>2, <1>3 DEF Next

\* An enabled run that still wants events has an action in its work loop: whatever
\* fails in configureAction, enableAction and the readout, and whatever is reset, a run
\* is never enabled without readout, if each command waits for the last one's answer.
THEOREM LoopIsAlive ==
  ASSUME \A t, u \in Servers : t = u
  PROVE  Spec => []LoopAlive
<1>1. Init => AliveInv
  BY DEF Init, AliveInv, ActsAsFired, Armed, Running, Threads
<1>2. AliveInv /\ TypeInv => LoopAlive
  BY DEF AliveInv, TypeInv, LoopAlive, Armed, Running, OneLeft, Ending
<1> QED
  BY <1>1, <1>2, AliveInvNext, TypeInvInit, TypeInvNext, PTL DEF Spec
=============================================================================
