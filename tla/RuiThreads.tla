----------------------------- MODULE RuiThreads ------------------------------
(***************************************************************************)
(* The threads of one RUI (emu::daq::rui::Application) and what they       *)
(* share: the finite state machine and applicationBSem_, the semaphore     *)
(* that protects everything else.                                          *)
(*                                                                         *)
(*  - "loop" is the thread of the readout work loop.  It runs the actions  *)
(*    submitted to it one after the other; each pass of workLoopAction     *)
(*    says whether the action is to be run again.                          *)
(*  - The other threads serve SOAP and I2O messages: FSM commands, Reset,  *)
(*    and anything else that takes the semaphore (client credit messages,  *)
(*    updateDataFileNames), called Access here.                            *)
(*                                                                         *)
(* The FSM engine (toolbox) is external: fireEvent runs the action of the  *)
(* transition, then changes the state; if the action throws, it runs       *)
(* failAction and the state is Failed.  It has no lock of its own.         *)
(***************************************************************************)
EXTENDS Integers, FiniteSets

CONSTANTS Servers,       \* threads that serve messages
          Commands,      \* the commands they get
          Faults,        \* whether actions and the device may fail
          MaxConfigures  \* bound on the Configure messages

ASSUME RuiThreadsAssumption ==
  /\ "loop" \notin Servers
  /\ Commands \subseteq {"Configure", "Enable", "Halt", "Reset", "Access"}
  /\ Faults \in BOOLEAN
  /\ MaxConfigures \in Nat

VARIABLES fsm,             \* the state of the FSM
          full,            \* whether the semaphore can be taken
          pc,              \* where each thread is
          cmd,             \* the command each server thread works on
          target,          \* the state its transition leads to
          submitted,       \* actions submitted to the work loop and not ended
          workLoopStarted,
          resched,         \* the value workLoopAction is about to return
          exhausted,       \* the run has had its maxEvents
          nConfigures,
          disturbed,       \* something has failed, or Reset has come
          forgotten        \* a thread has left with the semaphore, and nobody has
                           \* given it since

vars == <<fsm, full, pc, cmd, target, submitted, workLoopStarted, resched,
          exhausted, nConfigures, disturbed, forgotten>>

loopVars == <<submitted, workLoopStarted, resched, exhausted, nConfigures>>

Threads == Servers \cup {"loop"}

States == {"Halted", "Ready", "Enabled", "Failed"}

\* Mutated form: an enabled RUI is suspended, a state it was meant to have once.
TransitionToSuspended ==
  [from : {"Halted"},  input : {"Configure"}, to : {"Ready"}]
  \cup [from : {"Ready"},   input : {"Enable"},    to : {"Enabled"}]
  \cup [from : {"Enabled"}, input : {"Halt"},      to : {"Suspended"}]

\* The transitions of defineFsm, but for Fail.
Transition ==
  [from : {"Halted"},  input : {"Configure"}, to : {"Ready"}]
  \cup [from : {"Ready"},   input : {"Enable"},    to : {"Enabled"}]
  \cup [from : {"Halted", "Ready", "Enabled"}, input : {"Halt"}, to : {"Halted"}]
  \cup [from : {"Ready"},   input : {"Configure"}, to : {"Ready"}]
  \cup [from : {"Enabled"}, input : {"Enable"},    to : {"Enabled"}]

\* Their actions do nothing.
IsNoAction(from, to) == from = to

Goto(t, label) == pc' = [pc EXCEPT ![t] = label]

\* Mutated form: the semaphore can be taken when it is not there.
TakeUnchecked == full' = FALSE

\* BSem::take
Take == full /\ full' = FALSE

\* Mutated form: the semaphore is not given back.
KeepSemaphore == full' = full /\ forgotten' = FALSE

\* BSem::give, a pthread_mutex_unlock: nobody asks whether it was taken, or by whom.
Give == full' = TRUE /\ forgotten' = FALSE

Init ==
  /\ fsm = "Halted"
  /\ full = TRUE
  /\ pc = [t \in Threads |-> "idle"]
  /\ cmd = [t \in Servers |-> "Access"]
  /\ target = [t \in Servers |-> "Halted"]
  /\ submitted = 0
  /\ workLoopStarted = FALSE
  /\ resched = TRUE
  /\ exhausted = FALSE
  /\ nConfigures = 0
  /\ disturbed = FALSE
  /\ forgotten = FALSE
-----------------------------------------------------------------------------
(* workLoopAction *)

LoopTake ==
  /\ pc["loop"] = "idle"
  /\ submitted > 0
  /\ Take
  /\ Goto("loop", "looking")
  /\ UNCHANGED <<fsm, cmd, target, loopVars, disturbed, forgotten>>

\* Mutated form: the readout goes on whatever the state.
LoopReadAlways ==
  /\ pc["loop"] = "looking"
  /\ Goto("loop", "reading")
  /\ resched' = TRUE
  /\ UNCHANGED <<fsm, full, cmd, target, submitted, workLoopStarted, exhausted,
                 nConfigures, disturbed, forgotten>>

\* The state decides.  A run that has had its events ends the action.
LoopLook ==
  /\ pc["loop"] = "looking"
  /\ Goto("loop", IF fsm = "Enabled" /\ ~exhausted THEN "reading" ELSE "leaving")
  /\ resched' = ~(fsm = "Enabled" /\ exhausted)
  /\ UNCHANGED <<fsm, full, cmd, target, submitted, workLoopStarted, exhausted,
                 nConfigures, disturbed, forgotten>>

\* processAndCommunicate, and the I2O servers' sendData.
LoopRead ==
  /\ pc["loop"] \in {"reading", "readingOn"}
  /\ Goto("loop", "leaving")
  /\ exhausted' \in {exhausted, TRUE}
  /\ UNCHANGED <<fsm, full, cmd, target, submitted, workLoopStarted, resched,
                 nConfigures, disturbed, forgotten>>

\* moveToFailedState, from createFileWriter, writeDataToFile or a device that cannot
\* be enabled: the FSM fails, the semaphore is given, and the pass goes on.  Fired
\* once more in Failed, "Fail" has no transition; the exception is caught.
LoopMoveToFailed ==
  /\ Faults
  /\ pc["loop"] = "reading"
  /\ fsm' = "Failed"
  /\ Give
  /\ Goto("loop", "readingOn")
  /\ disturbed' = TRUE
  /\ UNCHANGED <<cmd, target, loopVars>>

LoopGive ==
  /\ pc["loop"] = "leaving"
  /\ Give
  /\ Goto("loop", "idle")
  /\ submitted' = IF resched THEN submitted ELSE submitted - 1
  /\ UNCHANGED <<fsm, cmd, target, workLoopStarted, resched, exhausted,
                 nConfigures, disturbed>>
-----------------------------------------------------------------------------
(* Messages *)

\* A message arrives.
Receive(t, c) ==
  /\ pc[t] = "idle"
  /\ c = "Configure" => nConfigures < MaxConfigures
  /\ nConfigures' = IF c = "Configure" THEN nConfigures + 1 ELSE nConfigures
  /\ cmd' = [cmd EXCEPT ![t] = c]
  /\ Goto(t, IF c = "Reset" THEN "resetting" ELSE "waiting")
  /\ UNCHANGED <<fsm, full, target, submitted, workLoopStarted, resched,
                 exhausted, disturbed, forgotten>>

ServerTake(t) ==
  /\ pc[t] = "waiting"
  /\ Take
  /\ Goto(t, IF cmd[t] = "Access" THEN "accessing" ELSE "firing")
  /\ UNCHANGED <<fsm, cmd, target, loopVars, disturbed, forgotten>>

\* fireEvent looks the input up: its action is entered, or there is none.
Fire(t) ==
  /\ pc[t] = "firing"
  /\ IF \E tr \in Transition : tr.from = fsm /\ tr.input = cmd[t]
     THEN \E tr \in Transition :
            /\ tr.from = fsm /\ tr.input = cmd[t]
            /\ target' = [target EXCEPT ![t] = tr.to]
            /\ Goto(t, IF IsNoAction(tr.from, tr.to) THEN "doingNothing"
                                                     ELSE "acting")
     ELSE Goto(t, "leaving") /\ UNCHANGED target
  /\ UNCHANGED <<fsm, full, cmd, loopVars, disturbed, forgotten>>

NoAction(t) ==
  /\ pc[t] = "doingNothing"
  /\ fsm' = target[t]
  /\ Goto(t, "leaving")
  /\ UNCHANGED <<full, cmd, target, loopVars, disturbed, forgotten>>

\* Mutated form: what was started once is never started again.
ConfigureKeepingLoop(t) ==
  /\ pc[t] = "acting" /\ cmd[t] = "Configure"
  /\ exhausted' = FALSE
  /\ fsm' = target[t]
  /\ Goto(t, "leaving")
  /\ UNCHANGED <<full, cmd, target, submitted, workLoopStarted, resched,
                 nConfigures, disturbed, forgotten>>

\* configureAction: the counters are reset, and the work loop's action is going to
\* be submitted anew.
Configure(t) ==
  /\ pc[t] = "acting" /\ cmd[t] = "Configure"
  /\ workLoopStarted' = FALSE
  /\ exhausted' = FALSE
  /\ fsm' = target[t]
  /\ Goto(t, "leaving")
  /\ UNCHANGED <<full, cmd, target, submitted, resched, nConfigures, disturbed,
                 forgotten>>

SubmitOnce ==
  /\ submitted' = IF workLoopStarted THEN submitted ELSE submitted + 1
  /\ workLoopStarted' = TRUE

\* enableAction
Enable(t) ==
  /\ pc[t] = "acting" /\ cmd[t] = "Enable"
  /\ SubmitOnce
  /\ fsm' = target[t]
  /\ Goto(t, "leaving")
  /\ UNCHANGED <<full, cmd, target, resched, exhausted, nConfigures, disturbed,
                 forgotten>>

\* haltAction, whose exceptions are all caught.
Halt(t) ==
  /\ pc[t] = "acting" /\ cmd[t] = "Halt"
  /\ fsm' = target[t]
  /\ Goto(t, "leaving")
  /\ UNCHANGED <<full, cmd, target, loopVars, disturbed, forgotten>>

\* configureAction or enableAction throws at some point, and failAction gives the
\* semaphore while fireEvent has not returned.
ActionFails(t) ==
  /\ Faults
  /\ pc[t] = "acting"
  /\ CASE cmd[t] = "Configure" ->
            /\ workLoopStarted' \in {workLoopStarted, FALSE}
            /\ exhausted' \in {exhausted, FALSE}
            /\ UNCHANGED submitted
       [] cmd[t] = "Enable" ->
            /\ SubmitOnce \/ UNCHANGED <<submitted, workLoopStarted>>
            /\ UNCHANGED exhausted
       [] OTHER -> FALSE
  /\ Give
  /\ fsm' \in {fsm, "Failed"}
  /\ Goto(t, "failing")
  /\ disturbed' = TRUE
  /\ UNCHANGED <<cmd, target, resched, nConfigures>>

Failed(t) ==
  /\ pc[t] = "failing"
  /\ fsm' = "Failed"
  /\ Goto(t, "leaving")
  /\ UNCHANGED <<full, cmd, target, loopVars, disturbed, forgotten>>

\* onSOAPClientCreditMsg, onI2OClientCreditMsg and updateDataFileNames.
Access(t) ==
  /\ pc[t] = "accessing"
  /\ Goto(t, "leaving")
  /\ UNCHANGED <<fsm, full, cmd, target, loopVars, disturbed, forgotten>>

\* onSOAPClientCreditMsg cannot create its reply: it rethrows behind the take and
\* before the give.  The caller gets a fault, the semaphore nobody.
AccessFails(t) ==
  /\ Faults
  /\ pc[t] = "accessing"
  /\ forgotten' = ~full
  /\ Goto(t, "idle")
  /\ UNCHANGED <<fsm, full, cmd, target, loopVars, disturbed>>

\* The end of processFsmCommand, also after an exception.
ServerGive(t) ==
  /\ pc[t] = "leaving"
  /\ Give
  /\ Goto(t, "idle")
  /\ UNCHANGED <<fsm, cmd, target, loopVars, disturbed>>

\* onReset, without the semaphore: fsm_.reset(), then Halt is fired, whose
\* transition may be another one if the state changes in between.
Reset(t) ==
  /\ pc[t] = "resetting"
  /\ fsm' = "Halted"
  /\ Goto(t, "resetFiring")
  /\ disturbed' = TRUE
  /\ UNCHANGED <<full, cmd, target, loopVars, forgotten>>

ResetFire(t) ==
  /\ pc[t] = "resetFiring"
  /\ Goto(t, CASE fsm = "Failed" -> "idle"
               [] fsm = "Halted" -> "resetDoingNothing"
               [] OTHER          -> "resetHalting")
  /\ UNCHANGED <<fsm, full, cmd, target, loopVars, disturbed, forgotten>>

ResetEnd(t) ==
  /\ pc[t] \in {"resetDoingNothing", "resetHalting"}
  /\ fsm' = "Halted"
  /\ Goto(t, "idle")
  /\ UNCHANGED <<full, cmd, target, loopVars, disturbed, forgotten>>

Loop ==
  LoopTake \/ LoopLook \/ LoopRead \/ LoopMoveToFailed \/ LoopGive

\* All that a thread does about a command but for taking the semaphore.
Serve(t) ==
  \/ Fire(t) \/ NoAction(t) \/ Configure(t) \/ Enable(t) \/ Halt(t)
  \/ ActionFails(t) \/ Failed(t) \/ Access(t) \/ AccessFails(t) \/ ServerGive(t)
  \/ Reset(t) \/ ResetFire(t) \/ ResetEnd(t)

Next ==
  \/ Loop
  \/ \E t \in Servers :
       \/ \E c \in Commands : Receive(t, c)
       \/ ServerTake(t)
       \/ Serve(t)

Spec == Init /\ [][Next]_vars

\* No thread stops, and a thread that waits for the semaphore gets it in the end if
\* it becomes free again and again.
FairSpec ==
  /\ Spec
  /\ WF_vars(LoopLook \/ LoopRead \/ LoopGive)
  /\ SF_vars(LoopTake)
  /\ \A t \in Servers : SF_vars(ServerTake(t)) /\ WF_vars(Serve(t))
-----------------------------------------------------------------------------
\* Threads at a place that the semaphore is there to protect.
Inside ==
  {t \in Threads : pc[t] \in {"looking", "reading", "readingOn", "leaving",
                              "firing", "doingNothing", "acting", "failing",
                              "accessing", "resetHalting"}}

\* Every variable has its type.
TypeOK ==
  /\ fsm \in States
  /\ full \in BOOLEAN
  /\ \A t \in Threads :
       pc[t] \in {"idle", "waiting", "looking", "reading", "readingOn", "leaving",
                  "firing", "doingNothing", "acting", "failing", "accessing",
                  "resetting", "resetFiring", "resetDoingNothing", "resetHalting"}
  /\ DOMAIN pc = Threads
  /\ cmd \in [Servers -> Commands \cup {"Access"}]
  /\ target \in [Servers -> States]
  /\ submitted \in Nat
  /\ workLoopStarted \in BOOLEAN
  /\ resched \in BOOLEAN
  /\ exhausted \in BOOLEAN
  /\ nConfigures \in Nat
  /\ disturbed \in BOOLEAN
  /\ forgotten \in BOOLEAN

\* Application.h: applicationBSem_ is the "binary semaphore used to protect the
\* internal data structures of the application from multithreaded access": no two
\* threads are inside what it protects, as long as nothing has failed and nobody has
\* reset the RUI: failAction and moveToFailedState give it too early, and onReset does
\* not take it.
MutualExclusion == ~disturbed => Cardinality(Inside) <= 1

\* While a pass of the readout goes on, the FSM stays Enabled: Halt, with the
\* release of the blocks that the readout appends to, waits for the pass to end, on
\* the same terms.
ReadsOnlyWhenEnabled ==
  ~disturbed /\ pc["loop"] = "reading" => fsm = "Enabled"

\* Whatever fails in transitions and in the readout, and however often the semaphore is
\* given too much, it is there with nobody inside: the next thread can take it.  Only
\* onSOAPClientCreditMsg loses it, when the reply cannot be created.
SemaphoreNotLost == Inside = {} => full \/ forgotten

\* In a run that still wants events, the work loop has an action to run: Enable after
\* Configure never finds the readout ended, whatever failed or was reset before, if
\* commands are not sent before the last one was answered.
LoopAlive ==
  fsm = "Enabled" /\ ~exhausted => submitted > 0

\* Every message is answered, one way or the other, unless it waits for a semaphore
\* that onSOAPClientCreditMsg has left with: that is the only way to block the RUI.
MessagesAnswered ==
  \A t \in Servers :
    pc[t] # "idle" ~> pc[t] = "idle" \/ (pc[t] = "waiting" /\ forgotten)
=============================================================================
