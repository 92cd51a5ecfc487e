----------------------------- MODULE Supervisor ------------------------------
(***************************************************************************)
(* emu::supervisor::Application commands all subsystems.  Its state        *)
(* machine is fired by the actions of one work loop, wl_, in the order in  *)
(* which they were submitted:                                              *)
(*                                                                         *)
(*  - requests (SOAP messages, or the web page's Configure) submit at any  *)
(*    time;                                                                *)
(*  - startAction submits the steps of a calibration run, which in the end *)
(*    submit a Halt;                                                       *)
(*  - the sequencer, in a work loop of its own, submits what it takes to   *)
(*    make all calibration runs, and waits in between.                     *)
(*                                                                         *)
(* The sequencer gives up waiting for Configured after a minute: at any    *)
(* time, as configuring may take longer.  Start, Stop and Halt on the web  *)
(* page, which fire the state machine from its own thread, are left out.   *)
(***************************************************************************)
EXTENDS Integers, Sequences

CONSTANTS Calibrations,   \* how many calibration runs there are; run type 0 is no calibration
          Steps,          \* steps of each, its loop_
          MaxRequests,    \* bound on requests
          MaxFaults       \* bound on failing transitions and steps

ASSUME SupervisorAssumption ==
  /\ Calibrations \in Nat \ {0}
  /\ Steps \in Nat
  /\ MaxRequests \in Nat
  /\ MaxFaults \in Nat

VARIABLES fsm,             \* the state of the FSM
          apps,            \* the common state of the subsystems, as the FSM's names have it
          table,           \* the same in the state table, when it was last refreshed
          runType, quit,   \* run_type_, quit_calibration_
          queue, wl,       \* what waits in wl_, and what it is doing
          index, step,     \* of the calibration run: its number and its steps so far
          seqPc, seqRun,   \* the sequencer, and the run it is at
          sequences,       \* sequences waiting for calib_wl_
          nRequests, nFaults,
          configuredFor,   \* history: the run type the subsystems were configured for,
          taken,           \* the complete runs of the last sequence,
          quitBefore,      \* quit_calibration_ when it began,
          disturbed,       \* whether anything came between it and its end,
          derailed         \* whether a step has ever failed, or Configure been requested
                           \* in a sequence

history == <<configuredFor, taken, quitBefore, disturbed, derailed>>
wlVars == <<wl, index, step>>
seqVars == <<seqPc, seqRun, sequences>>
vars == <<fsm, apps, table, runType, quit, queue, wlVars, seqVars, nRequests, nFaults,
          history>>

RunTypes == 0 .. Calibrations

States == {"Halted", "Configured", "Running", "Failed"}

Events == {"Configure", "Start", "Stop", "Halt"}

\* What waits in wl_.
Actions == Events \cup {"Calibrate"}

\* The transitions that do something.
Transition ==
  {[from |-> "Halted",     input |-> "Configure", to |-> "Configured"],
   [from |-> "Configured", input |-> "Configure", to |-> "Configured"],
   [from |-> "Configured", input |-> "Start",     to |-> "Running"],
   [from |-> "Running",    input |-> "Stop",      to |-> "Configured"],
   [from |-> "Configured", input |-> "Halt",      to |-> "Halted"],
   [from |-> "Running",    input |-> "Halt",      to |-> "Halted"],
   [from |-> "Halted",     input |-> "Halt",      to |-> "Halted"]}

submit(action) == queue' = Append(queue, action)

Init ==
  /\ fsm = "Halted" /\ apps = "Halted" /\ table = "NULL"
  /\ runType = 0 /\ quit = FALSE
  /\ queue = <<>> /\ wl = "idle" /\ index = 1 /\ step = 0
  /\ seqPc = "idle" /\ seqRun = 1 /\ sequences = 0
  /\ nRequests = 0 /\ nFaults = 0
  /\ configuredFor = 0 /\ taken = <<>> /\ quitBefore = FALSE
  /\ disturbed = FALSE /\ derailed = FALSE
-----------------------------------------------------------------------------
(* Requests *)

Request ==
  /\ nRequests < MaxRequests
  /\ nRequests' = nRequests + 1

Disturb == disturbed' = TRUE /\ UNCHANGED <<configuredFor, taken, quitBefore, derailed>>

\* webConfigure, or onConfigure after the run type was set.
OnConfigure(type) ==
  /\ Request
  /\ disturbed' = TRUE
  /\ derailed' = (derailed \/ seqPc # "idle")
  /\ runType' = type
  /\ submit("Configure")
  /\ UNCHANGED <<fsm, apps, table, quit, wlVars, seqVars, nFaults, configuredFor, taken,
                 quitBefore>>

\* onStart and onStop
OnStartOrStop(e) ==
  /\ Request /\ Disturb
  /\ submit(e)
  /\ UNCHANGED <<fsm, apps, table, runType, quit, wlVars, seqVars, nFaults>>

\* onHalt
OnHalt ==
  /\ Request /\ Disturb
  /\ quit' = TRUE
  /\ submit("Halt")
  /\ UNCHANGED <<fsm, apps, table, runType, wlVars, seqVars, nFaults>>

\* onReset: the state machine is reset at once, whatever wl_ is doing.
OnReset ==
  /\ Request /\ Disturb
  /\ fsm' = "Halted"
  /\ quit' = TRUE
  /\ submit("Halt")
  /\ UNCHANGED <<apps, table, runType, wlVars, seqVars, nFaults>>

\* onRunSequence and webRunSequence
OnRunSequence ==
  /\ Request
  /\ sequences' = sequences + 1
  /\ UNCHANGED <<fsm, apps, table, runType, quit, queue, wlVars, seqPc, seqRun, nFaults,
                 history>>
-----------------------------------------------------------------------------
(* The work loop wl_ *)

\* An event is fired; the action of its transition begins by refreshing the table.
WlFires ==
  /\ wl = "idle"
  /\ queue # <<>>
  /\ queue' = Tail(queue)
  /\ IF \E t \in Transition : t.from = fsm /\ t.input = Head(queue)
     THEN wl' = Head(queue) /\ apps' = "mixed" /\ table' = apps
     ELSE /\ Head(queue) # "Calibrate"
          /\ UNCHANGED <<wl, apps, table>>
  /\ UNCHANGED <<fsm, runType, quit, index, step, seqVars, nRequests, nFaults, history>>

\* The action returns, having brought the subsystems to the state s.  startAction
\* has submitted the steps of a calibration run.
WlEnds(s) ==
  /\ wl' = "idle"
  /\ fsm' = s /\ apps' = s /\ table' = s
  /\ IF wl = "Start" /\ runType # 0
     THEN quit' = FALSE /\ submit("Calibrate")
     ELSE UNCHANGED <<quit, queue>>
  /\ configuredFor' = IF wl = "Configure" THEN runType ELSE configuredFor
  /\ UNCHANGED <<runType, index, step, seqVars, nRequests, nFaults, taken, quitBefore,
                 disturbed, derailed>>

\* What configureAction, startAction, stopAction and haltAction lead to.
Target == CHOOSE s \in States : \E t \in Transition : t.input = wl /\ t.to = s

WlSucceeds == wl \in Events /\ WlEnds(Target)

\* The action throws: a subsystem did not obey, or is not where it should be.
WlFails ==
  /\ wl \in Events
  /\ nFaults < MaxFaults
  /\ nFaults' = nFaults + 1
  /\ wl' = "idle"
  /\ fsm' = "Failed"
  /\ Disturb
  /\ UNCHANGED <<apps, table, runType, quit, queue, index, step, seqVars, nRequests>>

\* Mutated form: no calibration is not provided for.
CalibrationBeginsUnchecked ==
  /\ wl = "idle"
  /\ queue # <<>> /\ Head(queue) = "Calibrate"
  /\ queue' = Tail(queue)
  /\ wl' = "Calibrate"
  /\ index' = runType
  /\ step' = 0
  /\ UNCHANGED <<fsm, apps, table, runType, quit, seqVars, nRequests, nFaults, history>>

\* calibrationAction: the run type is read again, and stands for the first if it is none.
CalibrationBegins ==
  /\ wl = "idle"
  /\ queue # <<>> /\ Head(queue) = "Calibrate"
  /\ queue' = Tail(queue)
  /\ wl' = "Calibrate"
  /\ index' = IF runType = 0 THEN 1 ELSE runType
  /\ step' = 0
  /\ UNCHANGED <<fsm, apps, table, runType, quit, seqVars, nRequests, nFaults, history>>

\* One step: commands to the crates and the local trigger controller.
CalibrationStep ==
  /\ wl = "Calibrate" /\ ~quit /\ step < Steps
  /\ step' = step + 1
  /\ UNCHANGED <<fsm, apps, table, runType, quit, queue, wl, index, seqVars, nRequests,
                 nFaults, history>>

\* A command of a step fails.  Nothing catches the exception, and no Halt is submitted.
CalibrationFails ==
  /\ wl = "Calibrate" /\ ~quit /\ step < Steps
  /\ nFaults < MaxFaults
  /\ nFaults' = nFaults + 1
  /\ wl' = "idle"
  /\ disturbed' = TRUE /\ derailed' = TRUE
  /\ UNCHANGED <<fsm, apps, table, runType, quit, queue, index, step, seqVars, nRequests,
                 configuredFor, taken, quitBefore>>

\* Mutated form: in a sequence, the Halt is left to the sequencer.
CalibrationEndsInSequence ==
  /\ wl = "Calibrate" /\ (quit \/ step = Steps)
  /\ wl' = "idle"
  /\ IF quit \/ seqPc # "idle" THEN UNCHANGED queue ELSE submit("Halt")
  /\ UNCHANGED <<fsm, apps, table, runType, quit, index, step, seqVars, nRequests,
                 nFaults, history>>

\* All steps are done, or a Halt was requested, which is on its way then.
CalibrationEnds ==
  /\ wl = "Calibrate" /\ (quit \/ step = Steps)
  /\ wl' = "idle"
  /\ IF quit THEN UNCHANGED queue ELSE submit("Halt")
  /\ taken' = IF step = Steps /\ fsm = "Running" /\ apps = "Running"
                 /\ configuredFor = index
              THEN Append(taken, index) ELSE taken
  /\ UNCHANGED <<fsm, apps, table, runType, quit, index, step, seqVars, nRequests,
                 nFaults, configuredFor, quitBefore, disturbed, derailed>>
-----------------------------------------------------------------------------
(* The sequencer: calibrationSequencer *)

SequenceBegins ==
  /\ seqPc = "idle" /\ sequences > 0
  /\ sequences' = sequences - 1
  /\ seqPc' = "next" /\ seqRun' = 1
  /\ taken' = <<>>
  /\ quitBefore' = quit
  /\ disturbed' = (queue # <<>> \/ wl # "idle" \/ fsm = "Failed")
  /\ UNCHANGED <<fsm, apps, table, runType, quit, queue, wlVars, nRequests, nFaults,
                 configuredFor, derailed>>

\* The next run, unless Halt was requested at any time since the last calibration run began.
SequenceNext ==
  /\ seqPc = "next"
  /\ seqRun <= Calibrations /\ fsm # "Failed"
  /\ runType' = seqRun
  /\ IF quit
     THEN seqRun' = seqRun + 1 /\ UNCHANGED <<seqPc, queue>>
     ELSE seqPc' = "configuring" /\ submit("Configure") /\ UNCHANGED seqRun
  /\ UNCHANGED <<fsm, apps, table, quit, wlVars, sequences, nRequests, nFaults, history>>

SequenceEnds ==
  /\ seqPc = "next"
  /\ seqRun > Calibrations \/ fsm = "Failed"
  /\ seqPc' = "idle" /\ seqRun' = 1
  /\ UNCHANGED <<fsm, apps, table, runType, quit, queue, wlVars, sequences, nRequests,
                 nFaults, history>>

\* waitForAppsToReach: the FSM's state is today's, the table may be two seconds old.
Reached(s) == fsm = s /\ (apps = s \/ table = s)

SequenceStarts ==
  /\ seqPc = "configuring"
  /\ Reached("Configured")
  /\ submit("Start")
  /\ seqPc' = "halting"
  /\ UNCHANGED <<fsm, apps, table, runType, quit, wlVars, seqRun, sequences, nRequests,
                 nFaults, history>>

\* The subsystems are not Configured within a minute, or never will be.
SequenceGivesUp ==
  /\ seqPc = "configuring"
  /\ ~Reached("Configured")
  /\ IF fsm = "Failed" THEN UNCHANGED queue ELSE submit("Halt")
  /\ seqPc' = "halting"
  /\ Disturb
  /\ UNCHANGED <<fsm, apps, table, runType, quit, wlVars, seqRun, sequences, nRequests,
                 nFaults>>

\* Mutated form: the sequencer does not wait for the run's end.
SequenceHaltedUnawaited ==
  /\ seqPc = "halting"
  /\ seqPc' = "next" /\ seqRun' = seqRun + 1
  /\ UNCHANGED <<fsm, apps, table, runType, quit, queue, wlVars, sequences, nRequests,
                 nFaults, history>>

\* Mutated form: in the Failed state, too, the sequencer waits.
SequenceHaltedOnly ==
  /\ seqPc = "halting"
  /\ Reached("Halted")
  /\ seqPc' = "next" /\ seqRun' = seqRun + 1
  /\ UNCHANGED <<fsm, apps, table, runType, quit, queue, wlVars, sequences, nRequests,
                 nFaults, history>>

\* This wait has no limit.
SequenceHalted ==
  /\ seqPc = "halting"
  /\ Reached("Halted") \/ fsm = "Failed"
  /\ seqPc' = "next" /\ seqRun' = seqRun + 1
  /\ UNCHANGED <<fsm, apps, table, runType, quit, queue, wlVars, sequences, nRequests,
                 nFaults, history>>
-----------------------------------------------------------------------------
Requests ==
  \/ \E type \in RunTypes : OnConfigure(type)
  \/ \E e \in {"Start", "Stop"} : OnStartOrStop(e)
  \/ OnHalt \/ OnReset \/ OnRunSequence

WorkLoop ==
  \/ WlFires \/ WlSucceeds \/ WlFails
  \/ CalibrationBegins \/ CalibrationStep \/ CalibrationFails \/ CalibrationEnds

Sequencer ==
  \/ SequenceBegins \/ SequenceNext \/ SequenceEnds \/ SequenceStarts
  \/ SequenceGivesUp \/ SequenceHalted

Next == Requests \/ WorkLoop \/ Sequencer

Spec == Init /\ [][Next]_vars

\* Both work loops go on: their threads do nothing else.
FairSpec == Spec /\ WF_vars(WorkLoop) /\ WF_vars(Sequencer)
-----------------------------------------------------------------------------
\* Every variable has its type.
TypeOK ==
  /\ fsm \in States
  /\ apps \in States \cup {"mixed"} /\ table \in States \cup {"mixed", "NULL"}
  /\ runType \in RunTypes /\ quit \in BOOLEAN
  /\ queue \in Seq(Actions) /\ wl \in Actions \cup {"idle"}
  /\ index \in 1 .. Calibrations /\ step \in 0 .. Steps
  /\ seqPc \in {"idle", "next", "configuring", "halting"}
  /\ seqRun \in 1 .. Calibrations + 1 /\ sequences \in Nat
  /\ nRequests \in 0 .. MaxRequests /\ nFaults \in 0 .. MaxFaults
  /\ configuredFor \in RunTypes /\ taken \in Seq(1 .. Calibrations)
  /\ quitBefore \in BOOLEAN /\ disturbed \in BOOLEAN /\ derailed \in BOOLEAN

\* A sequence comes to its end with nothing failing, nobody interfering, and in time.
Undisturbed == seqPc = "next" /\ seqRun > Calibrations /\ ~disturbed

AllTaken == taken = [i \in 1 .. Calibrations |-> i]

\* calibrationSequencer, wl_ and the Start of each run, all in their own time: a
\* sequence nobody interferes with takes every calibration run, once, in order, with
\* the subsystems configured for it, if no Halt came before it.
SequenceTakesAll == Undisturbed /\ ~quitBefore => AllTaken

\* The title of the web page's button: "Take all calibration runs in an automatic
\* sequence".
TakesAllRuns == Undisturbed => AllTaken

\* calibrationSequencer: a sequence comes to its end, whatever is requested meanwhile,
\* unless a step fails or somebody else configures.
SequenceEndsAtLast == seqPc # "idle" ~> seqPc = "idle" \/ derailed

\* calibrationSequencer's word for a calibration run: "This is supposed to halt itself
\* when done".  Unless a step fails, it does not go on running.
HaltsItself ==
  (wl = "Calibrate" \/ \E i \in DOMAIN queue : queue[i] = "Calibrate")
    ~> (fsm # "Running" \/ derailed)
=============================================================================
