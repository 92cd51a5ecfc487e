----------------------------- MODULE IRQThreads ------------------------------
(***************************************************************************)
(* The threads with which the FED Communicator watches its crates          *)
(* (emu::fed::IRQThreadManager), one per crate.  A thread waits for the    *)
(* interrupts of its crate, counts the chambers in error, and, if those of *)
(* all crates together reach the threshold, releases the FMMs: that asks   *)
(* the trigger for a reset.  A chamber in error at two releases is ignored *)
(* from then on.  A thread that sees that a resync has cleared its errors  *)
(* starts anew, and waits at a barrier until all the others have, too.     *)
(*                                                                         *)
(* Each crate has one DDU, and none is a track finder.  The manager, whose *)
(* steps enableAction, disableAction and haltAction take, creates, cancels *)
(* and joins the threads.  Between two labels of a thread there is at most *)
(* one access to what the threads share.                                   *)
(***************************************************************************)
EXTENDS Integers, FiniteSetsExt

CONSTANTS Crates,
          Chambers,      \* the fibers of a DDU, by number
          Threshold,     \* fmmErrorThreshold
          Faults,        \* whether VME accesses and pthread_create may fail, and
                         \* threads may wake up without being signalled
          KeepData,      \* ignoreListLifetime_ is "red": IRQData outlives the run
          MaxFailures, MaxResyncs, MaxRuns  \* bounds

ASSUME IRQThreadsAssumption ==
  /\ IsFiniteSet(Crates) /\ Crates # {}
  /\ Chambers \subseteq 0 .. 14
  /\ Threshold \in Nat \ {0}
  /\ Faults \in BOOLEAN /\ KeepData \in BOOLEAN
  /\ MaxFailures \in Nat /\ MaxResyncs \in Nat /\ MaxRuns \in Nat

VARIABLES
  (* the manager *)
  mgr,           \* what it does
  toStart,       \* crates that have no thread yet
  toEnd,         \* crates whose threads it still has to cancel
  (* the threads *)
  pc, cancelled,
  combined,      \* combinedStatus of the last interrupt
  last,          \* lastDDUError
  nIgnFibers, doReset, totalErrors,
  l1a,           \* lastL1A: none read, or read, or read and reset by a resync
  (* IRQData *)
  resetCount,
  mutexLost,     \* a thread that is no more has resetCountMutex
  errorCount, ignErrCnt,
  currErr, firstErr, secondErr,
  (* the hardware *)
  errors,        \* chambers in error
  irq,           \* whether an interrupt is pending
  nFailures, nResyncs, nRuns,
  (* history *)
  failedSince,   \* chambers in error since the count of the crate was cleared
  forgotten,     \* chambers that were in error when it was, without an interrupt
  requested      \* the FMMs were released since the counts reached the threshold

mgrVars    == <<mgr, toStart, toEnd, nRuns>>
localVars  == <<combined, last, nIgnFibers, doReset, totalErrors, l1a>>
countVars  == <<errorCount, ignErrCnt>>
errVars    == <<currErr, firstErr, secondErr>>
barrier    == <<resetCount, mutexLost>>
hardware   == <<errors, irq, nFailures, nResyncs>>
historyVars == <<failedSince, forgotten, requested>>

vars == <<mgrVars, pc, cancelled, localVars, barrier, countVars, errVars, hardware,
          historyVars>>

ForAll(v) == [c \in Crates |-> v]

Goto(c, label) == pc' = [pc EXCEPT ![c] = label]

\* A status word of the DDU.
Word(fibers) == MapThenSumSet(LAMBDA f : 2 ^ f, fibers)

Sum(count) == MapThenSumSet(LAMBDA c : count[c], Crates)

\* The errors on this endcap, but for those of repeated offenders.
Total(count, ignored) == Max({0, Sum(count) - Sum(ignored)})

\* The variables of a thread, when it begins anew.
ClearLocals(c) ==
  /\ combined' = [combined EXCEPT ![c] = {}]
  /\ last' = [last EXCEPT ![c] = {}]
  /\ nIgnFibers' = [nIgnFibers EXCEPT ![c] = 0]
  /\ doReset' = [doReset EXCEPT ![c] = FALSE]
  /\ totalErrors' = [totalErrors EXCEPT ![c] = 0]
  /\ l1a' = [l1a EXCEPT ![c] = "none"]

Init ==
  /\ mgr = "idle" /\ toStart = {} /\ toEnd = {} /\ nRuns = 0
  /\ pc = ForAll("none") /\ cancelled = ForAll(FALSE)
  /\ combined = ForAll({}) /\ last = ForAll({}) /\ nIgnFibers = ForAll(0)
  /\ doReset = ForAll(FALSE) /\ totalErrors = ForAll(0) /\ l1a = ForAll("none")
  /\ resetCount = 0 /\ mutexLost = FALSE
  /\ errorCount = ForAll(0) /\ ignErrCnt = ForAll(0)
  /\ currErr = ForAll({}) /\ firstErr = ForAll({}) /\ secondErr = ForAll({})
  /\ errors = ForAll({}) /\ irq = ForAll(FALSE) /\ nFailures = 0 /\ nResyncs = 0
  /\ failedSince = ForAll({}) /\ forgotten = ForAll({}) /\ requested = FALSE
-----------------------------------------------------------------------------
(* The manager *)

\* enableAction: the crates are resynchronized and found without errors.  IRQData is
\* new, or that of the run before with the crates attached again.
Start ==
  /\ mgr = "idle" /\ nRuns < MaxRuns
  /\ mgr' = "starting" /\ nRuns' = nRuns + 1
  /\ toStart' = Crates
  /\ errors' = ForAll({})
  /\ IF KeepData
     THEN UNCHANGED <<barrier, countVars, errVars, historyVars>>
     ELSE /\ resetCount' = 0 /\ mutexLost' = FALSE
          /\ errorCount' = ForAll(0) /\ ignErrCnt' = ForAll(0)
          /\ currErr' = ForAll({}) /\ firstErr' = ForAll({}) /\ secondErr' = ForAll({})
          /\ failedSince' = ForAll({}) /\ forgotten' = ForAll({}) /\ requested' = FALSE
  /\ UNCHANGED <<toEnd, pc, cancelled, localVars, irq, nFailures, nResyncs>>

\* pthread_create.  The thread takes its crate from the queue.
CreateThread(c) ==
  /\ mgr = "starting" /\ c \in toStart
  /\ Goto(c, "clearing")
  /\ toStart' = toStart \ {c}
  /\ mgr' = IF toStart' = {} THEN "running" ELSE mgr
  /\ UNCHANGED <<toEnd, nRuns, cancelled, localVars, barrier, countVars, errVars,
                 hardware, historyVars>>

\* startThreads throws; enableAction takes it as "Probably not a critical error."
StartFails ==
  /\ Faults
  /\ mgr = "starting"
  /\ mgr' = "running"
  /\ UNCHANGED <<toStart, toEnd, nRuns, pc, cancelled, localVars, barrier, countVars,
                 errVars, hardware, historyVars>>

\* disableAction or haltAction calls endThreads.
End ==
  /\ mgr = "running"
  /\ mgr' = "ending"
  /\ toEnd' = Crates
  /\ UNCHANGED <<toStart, nRuns, pc, cancelled, localVars, barrier, countVars, errVars,
                 hardware, historyVars>>

\* pthread_cancel.  Thread 0, one that was never created, is none.
Cancel(c) ==
  /\ mgr = "ending" /\ c \in toEnd
  /\ IF c \in toStart
     THEN mgr' = "crashed" /\ UNCHANGED <<toEnd, cancelled>>
     ELSE /\ mgr' = "joining"
          /\ toEnd' = toEnd \ {c}
          /\ cancelled' = [cancelled EXCEPT ![c] = TRUE]
  /\ UNCHANGED <<toStart, nRuns, pc, localVars, barrier, countVars, errVars, hardware,
                 historyVars>>

\* pthread_join, before the next thread is cancelled.
Join(c) ==
  /\ mgr = "joining" /\ cancelled[c]
  /\ pc[c] = "exited"
  /\ Goto(c, "none")
  /\ cancelled' = [cancelled EXCEPT ![c] = FALSE]
  /\ mgr' = IF toEnd = {} THEN "idle" ELSE "ending"
  /\ ClearLocals(c)
  /\ UNCHANGED <<toStart, toEnd, nRuns, barrier, countVars, errVars, hardware,
                 historyVars>>
-----------------------------------------------------------------------------
(* The outer loop: a thread starts anew *)

\* pthread_testcancel, in a thread that may be cancelled.
TestCancel(c) ==
  /\ pc[c] \in {"clearing", "inner", "polling", "rechecking", "leaving"}
  /\ cancelled[c]
  /\ Goto(c, "exited")
  /\ UNCHANGED <<mgrVars, cancelled, localVars, barrier, countVars, errVars, hardware,
                 historyVars>>

NoteClearing(c) ==
  /\ failedSince' = [failedSince EXCEPT ![c] = errors[c]]
  /\ forgotten' = [forgotten EXCEPT ![c] = IF irq[c] THEN {} ELSE errors[c]]
  /\ requested' = (requested /\ Total(errorCount', ignErrCnt') >= Threshold)

\* Mutated form: the count that the other threads see is left as it is.
ClearKeepingCount(c) ==
  /\ pc[c] = "clearing" /\ ~cancelled[c]
  /\ UNCHANGED countVars
  /\ currErr' = [currErr EXCEPT ![c] = {}]
  /\ ClearLocals(c)
  /\ NoteClearing(c)
  /\ Goto(c, "locking")
  /\ UNCHANGED <<mgrVars, cancelled, barrier, firstErr, secondErr, hardware>>

\* What the thread knows and has told the others is cleared, and the DDUs stop
\* broadcasting FMM errors.
Clear(c) ==
  /\ pc[c] = "clearing" /\ ~cancelled[c]
  /\ errorCount' = [errorCount EXCEPT ![c] = 0]
  /\ ignErrCnt' = [ignErrCnt EXCEPT ![c] = 0]
  /\ currErr' = [currErr EXCEPT ![c] = {}]
  /\ ClearLocals(c)
  /\ NoteClearing(c)
  /\ Goto(c, "locking")
  /\ UNCHANGED <<mgrVars, cancelled, barrier, firstErr, secondErr, hardware>>

\* disableFMM throws where nobody catches.
ClearFails(c) ==
  /\ Faults
  /\ pc[c] = "clearing" /\ ~cancelled[c]
  /\ mgr' = "crashed"
  /\ UNCHANGED <<toStart, toEnd, nRuns, pc, cancelled, localVars, barrier, countVars,
                 errVars, hardware, historyVars>>

\* Those that wait are woken, but have to get resetCountMutex.
GoOn(c) ==
  /\ resetCount' = 0
  /\ pc' = [d \in Crates |-> IF d = c THEN "inner"
                             ELSE IF pc[d] = "waiting" THEN "waking" ELSE pc[d]]

Wait(c) == resetCount' = resetCount + 1 /\ Goto(c, "waiting")

\* Mutated form: the last one to arrive waits, too.
ArriveAndWait(c) ==
  /\ pc[c] = "locking" /\ ~mutexLost
  /\ IF resetCount + 1 > Cardinality(Crates) THEN GoOn(c) ELSE Wait(c)
  /\ UNCHANGED <<mgrVars, cancelled, localVars, mutexLost, countVars, errVars, hardware,
                 historyVars>>

\* With resetCountMutex, which pthread_cond_wait gives.
Arrive(c) ==
  /\ pc[c] = "locking" /\ ~mutexLost
  /\ IF resetCount + 1 >= Cardinality(Crates) THEN GoOn(c) ELSE Wait(c)
  /\ UNCHANGED <<mgrVars, cancelled, localVars, mutexLost, countVars, errVars, hardware,
                 historyVars>>

SpuriousWakeup(c) ==
  /\ Faults
  /\ pc[c] = "waiting"
  /\ Goto(c, "waking")
  /\ UNCHANGED <<mgrVars, cancelled, localVars, barrier, countVars, errVars, hardware,
                 historyVars>>

\* Back from pthread_cond_wait: whoever has arrived meanwhile is not counted any more.
Leave(c) ==
  /\ pc[c] = "waking" /\ ~mutexLost
  /\ resetCount' = 0
  /\ Goto(c, "inner")
  /\ UNCHANGED <<mgrVars, cancelled, localVars, mutexLost, countVars, errVars, hardware,
                 historyVars>>

\* A thread that is cancelled in pthread_cond_wait gets the mutex before it ends, and
\* no cleanup handler gives it.
CancelledInWait(c) ==
  /\ pc[c] \in {"waiting", "waking"} /\ cancelled[c] /\ ~mutexLost
  /\ mutexLost' = TRUE
  /\ Goto(c, "exited")
  /\ UNCHANGED <<mgrVars, cancelled, localVars, resetCount, countVars, errVars, hardware,
                 historyVars>>
-----------------------------------------------------------------------------
(* The inner loop: a thread waits for interrupts *)

\* A thread that finds another one starting anew does so itself.
Again(c, reset) ==
  Goto(c, IF reset \/ resetCount # 0 THEN "clearing" ELSE "inner")

Look(c) ==
  /\ pc[c] = "inner" /\ ~cancelled[c]
  /\ Goto(c, IF resetCount # 0 THEN "clearing" ELSE "polling")
  /\ UNCHANGED <<mgrVars, cancelled, localVars, barrier, countVars, errVars, hardware,
                 historyVars>>

\* waitIRQ finds an interrupt, and readIRQ takes it.
ReadIRQ(c) ==
  /\ pc[c] = "polling" /\ ~cancelled[c]
  /\ irq[c]
  /\ irq' = [irq EXCEPT ![c] = FALSE]
  /\ Goto(c, "reading")
  /\ UNCHANGED <<mgrVars, cancelled, localVars, barrier, countVars, errVars, errors,
                 nFailures, nResyncs, historyVars>>

\* The status is read, and whether a resync must have come: a chamber is no longer in
\* error, or the L1A counter is below its last value.  It is 0 for a while after a
\* resync, and may have passed that value again.  Without a chamber that was not in
\* error before, the interrupt is ignored.
ReadStatus(c) ==
  /\ pc[c] = "reading"
  /\ combined' = [combined EXCEPT ![c] = errors[c]]
  /\ nIgnFibers' = [nIgnFibers EXCEPT ![c] = Cardinality(secondErr[c] \cap errors[c])]
  /\ \E value \in {"none", "read"}, less \in BOOLEAN :
       /\ l1a[c] = "read" => value = "read"
       /\ less => l1a[c] = "reset" /\ value = "read"
       /\ l1a' = [l1a EXCEPT ![c] = value]
       /\ doReset' = [doReset EXCEPT ![c] = ~(last[c] \subseteq errors[c]) \/ less]
  /\ IF errors[c] \subseteq last[c] THEN Again(c, doReset'[c]) ELSE Goto(c, "noting")
  /\ UNCHANGED <<mgrVars, cancelled, last, totalErrors, barrier, countVars, errVars,
                 hardware, historyVars>>

\* CURR_ERR, for the others, with lastErrMutex, and lastDDUError.
Note(c) ==
  /\ pc[c] = "noting"
  /\ currErr' = [currErr EXCEPT ![c] = combined[c]]
  /\ last' = [last EXCEPT ![c] = combined[c]]
  /\ forgotten' = [forgotten EXCEPT ![c] = {}]
  /\ Goto(c, "counting")
  /\ UNCHANGED <<mgrVars, cancelled, combined, nIgnFibers, doReset, totalErrors, l1a,
                 barrier, countVars, firstErr, secondErr, hardware, failedSince,
                 requested>>

\* What the thread counts, with the counts of all crates at hand.  After a resync it
\* takes only its own errors: the others' should be gone.
CountOf(c, count, ignored) ==
  /\ errorCount' = [errorCount EXCEPT ![c] = Cardinality(combined[c])]
  /\ ignErrCnt' = [ignErrCnt EXCEPT ![c] = nIgnFibers[c]]
  /\ totalErrors' = [totalErrors EXCEPT ![c] =
       IF doReset[c] THEN Cardinality(combined[c]) - nIgnFibers[c]
                     ELSE Total(count, ignored)]
  /\ requested' = (requested /\ Total(errorCount', ignErrCnt') >= Threshold)
  /\ Goto(c, "deciding")
  /\ UNCHANGED <<mgrVars, cancelled, combined, last, nIgnFibers, doReset, l1a, barrier,
                 errVars, hardware, failedSince, forgotten>>

\* Mutated form: the counts are added up before this crate's is there.
CountTooEarly(c) ==
  pc[c] = "counting" /\ CountOf(c, errorCount, ignErrCnt)

\* With errorCountMutex.
Count(c) ==
  pc[c] = "counting" /\ CountOf(c, errorCount', ignErrCnt')

\* The FMMs are released, and the errors of all crates pass into history.
Release ==
  /\ secondErr' = [d \in Crates |-> secondErr[d] \cup (currErr[d] \cap firstErr[d])]
  /\ firstErr' = [d \in Crates |-> firstErr[d] \cup currErr[d]]
  /\ currErr' = ForAll({})
  /\ requested' = TRUE

Decide(c) ==
  /\ pc[c] = "deciding"
  /\ IF totalErrors[c] >= Threshold THEN Release ELSE UNCHANGED <<errVars, requested>>
  /\ totalErrors' = [totalErrors EXCEPT ![c] = 0]
  /\ Goto(c, "leaving")
  /\ UNCHANGED <<mgrVars, cancelled, combined, last, nIgnFibers, doReset, l1a, barrier,
                 countVars, hardware, failedSince, forgotten>>

\* After the wait that gives the trigger time to reset.
AfterIRQ(c) ==
  /\ pc[c] = "leaving" /\ ~cancelled[c]
  /\ Again(c, doReset[c])
  /\ doReset' = [doReset EXCEPT ![c] = FALSE]
  /\ UNCHANGED <<mgrVars, cancelled, combined, last, nIgnFibers, totalErrors, l1a,
                 barrier, countVars, errVars, hardware, historyVars>>

\* The status words are compared as numbers.
LooksReset(c) == combined[c] # {} /\ Word(errors[c]) < Word(last[c])

\* waitIRQ found nothing: "Check for reset only if there was a previous error".
AllClear(c) ==
  /\ pc[c] = "polling" /\ ~cancelled[c]
  /\ Goto(c, IF LooksReset(c) THEN "rechecking" ELSE "inner")
  /\ UNCHANGED <<mgrVars, cancelled, localVars, barrier, countVars, errVars, hardware,
                 historyVars>>

\* 100 us later.
Recheck(c) ==
  /\ pc[c] = "rechecking" /\ ~cancelled[c]
  /\ Goto(c, IF LooksReset(c) THEN "clearing" ELSE "inner")
  /\ UNCHANGED <<mgrVars, cancelled, localVars, barrier, countVars, errVars, hardware,
                 historyVars>>

\* A VME access in the inner loop throws: the thread ends, and nobody is told.
VMEFails(c) ==
  /\ Faults
  /\ pc[c] \in {"polling", "reading", "counting", "deciding", "rechecking"}
  /\ Goto(c, "exited")
  /\ UNCHANGED <<mgrVars, cancelled, localVars, barrier, countVars, errVars, hardware,
                 historyVars>>
-----------------------------------------------------------------------------
(* The hardware *)

\* A chamber goes into error, which interrupts the thread of its crate.
ChamberFails(c, f) ==
  /\ nFailures < MaxFailures /\ f \notin errors[c]
  /\ nFailures' = nFailures + 1
  /\ errors' = [errors EXCEPT ![c] = @ \cup {f}]
  /\ irq' = [irq EXCEPT ![c] = TRUE]
  /\ failedSince' = [failedSince EXCEPT ![c] = @ \cup {f}]
  /\ UNCHANGED <<mgrVars, pc, cancelled, localVars, barrier, countVars, errVars,
                 nResyncs, forgotten, requested>>

\* A resync or hard reset, from the trigger or from an operator.
Resync ==
  /\ nResyncs < MaxResyncs
  /\ nResyncs' = nResyncs + 1
  /\ errors' = ForAll({})
  /\ l1a' = [c \in Crates |-> IF l1a[c] = "read" THEN "reset" ELSE l1a[c]]
  /\ UNCHANGED <<mgrVars, pc, cancelled, combined, last, nIgnFibers, doReset,
                 totalErrors, barrier, countVars, errVars, irq, nFailures, historyVars>>

\* A thread of a process that still is one.
Thread(c) ==
  /\ mgr # "crashed"
  /\ \/ TestCancel(c) \/ Clear(c) \/ Arrive(c) \/ Leave(c) \/ CancelledInWait(c)
     \/ Look(c) \/ ReadIRQ(c) \/ ReadStatus(c) \/ Note(c) \/ Count(c) \/ Decide(c)
     \/ AfterIRQ(c) \/ AllClear(c) \/ Recheck(c)

Disturbance(c) ==
  /\ mgr # "crashed"
  /\ ClearFails(c) \/ SpuriousWakeup(c) \/ VMEFails(c)

\* endThreads
EndThreads == \E c \in Crates : Cancel(c) \/ Join(c)

Next ==
  \/ Start \/ StartFails \/ End \/ EndThreads
  \/ \E c \in Crates :
       \/ CreateThread(c)
       \/ Thread(c)
       \/ Disturbance(c)
       \/ \E f \in Chambers : ChamberFails(c, f)
  \/ Resync

Spec == Init /\ [][Next]_vars

\* The threads go on, and so does endThreads.
FairSpec ==
  /\ Spec
  /\ WF_vars(EndThreads)
  /\ \A c \in Crates : WF_vars(Thread(c))
-----------------------------------------------------------------------------
Labels ==
  {"none", "clearing", "locking", "waiting", "waking", "inner", "polling",
   "rechecking", "reading", "noting", "counting", "deciding", "leaving", "exited"}

\* Every variable has its type; resetCount, which the last thread clears in passing,
\* never reaches the number of crates.
TypeOK ==
  /\ mgr \in {"idle", "starting", "running", "ending", "joining", "crashed"}
  /\ toStart \subseteq Crates /\ toEnd \subseteq Crates
  /\ pc \in [Crates -> Labels] /\ cancelled \in [Crates -> BOOLEAN]
  /\ {combined, last, currErr, firstErr, secondErr, errors, failedSince, forgotten}
       \subseteq [Crates -> SUBSET Chambers]
  /\ {errorCount, ignErrCnt, nIgnFibers}
       \subseteq [Crates -> 0 .. Cardinality(Chambers)]
  /\ totalErrors \in [Crates -> 0 .. Cardinality(Chambers) * Cardinality(Crates)]
  /\ doReset \in [Crates -> BOOLEAN]
  /\ l1a \in [Crates -> {"none", "read", "reset"}]
  /\ resetCount \in 0 .. Cardinality(Crates) - 1
  /\ {mutexLost, requested} \subseteq BOOLEAN /\ irq \in [Crates -> BOOLEAN]
  /\ {nFailures, nResyncs, nRuns} \subseteq Nat

\* No FMM is released for less: when a thread finds the threshold reached, so many
\* chambers have been in error since their crates last started anew, although other
\* threads clear and change their counts while it adds them up.
ReleasedForCause ==
  [][\A c \in Crates :
       pc[c] = "counting" /\ pc'[c] = "deciding" /\ totalErrors'[c] >= Threshold
       => Sum([d \in Crates |-> Cardinality(failedSince[d])]) >= Threshold]_vars

Quiet(c) == pc[c] \in {"inner", "polling"} /\ ~irq[c]

\* When the threads that are left have nothing to do, and the chambers in error reach
\* the threshold, the FMMs have been released: of two threads that count at once, one
\* sees the sum.  Chambers that are ignored as repeated do not count, nor do those that
\* a thread found in error without an interrupt when it started anew.
NotMissed ==
  LET Left == {c \in Crates : pc[c] # "exited"}
      Chargeable(c) == IF c \in Left THEN errors[c] \ (forgotten[c] \cup secondErr[c])
                                     ELSE {}
  IN  (/\ \A c \in Left : Quiet(c)
       /\ Sum([c \in Crates |-> Cardinality(Chargeable(c))]) >= Threshold)
      => requested

\* IRQThreadManager.h says of endThreads "Stop the threads.", and endThreads itself
\* "The threads should be stopping now.  Let's join them.": it comes to an end.
EndsThreads == mgr = "ending" ~> mgr = "idle"
=============================================================================
