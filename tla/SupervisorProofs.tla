--------------------------- MODULE SupervisorProofs ---------------------------
(***************************************************************************)
(* What Supervisor keeps for any number of calibration runs, of steps in   *)
(* each, of requests and of faults.                                        *)
(***************************************************************************)
EXTENDS Supervisor, SequenceTheorems, TLAPS

\* What the events lead to.
LEMMA Targets ==
  /\ wl = "Configure" => Target = "Configured"
  /\ wl = "Start" => Target = "Running"
  /\ wl = "Stop" => Target = "Configured"
  /\ wl = "Halt" => Target = "Halted"
PROOF
<1>1. \A s \in States :
        /\ (\E t \in Transition : t.input = "Configure" /\ t.to = s) <=> s = "Configured"
        /\ (\E t \in Transition : t.input = "Start" /\ t.to = s) <=> s = "Running"
        /\ (\E t \in Transition : t.input = "Stop" /\ t.to = s) <=> s = "Configured"
        /\ (\E t \in Transition : t.input = "Halt" /\ t.to = s) <=> s = "Halted"
  BY DEF Transition, States
<1> QED
  BY <1>1 DEF Target, States

\* The sequencer configures and halts within its runs.
WithinRuns == seqPc \in {"configuring", "halting"} => seqRun <= Calibrations

\* submit is always called with an action.
LEMMA Submitted ==
  ASSUME queue \in Seq(Actions), NEW action \in Actions, submit(action)
  PROVE  queue' \in Seq(Actions)
PROOF
  BY DEF submit

LEMMA TypesRequests ==
  ASSUME TypeOK, Requests
  PROVE  TypeOK'
PROOF
<1>1. ASSUME NEW type \in RunTypes, OnConfigure(type) PROVE TypeOK'
  <2>1. queue' \in Seq(Actions)
    BY <1>1, Submitted DEF OnConfigure, TypeOK, Actions, Events
  <2> QED
    BY <1>1, <2>1, SupervisorAssumption
       DEF SupervisorAssumption, TypeOK, OnConfigure, Request, wlVars, seqVars
<1>2. ASSUME NEW e \in {"Start", "Stop"}, OnStartOrStop(e) PROVE TypeOK'
  <2>1. queue' \in Seq(Actions)
    BY <1>2, Submitted DEF OnStartOrStop, TypeOK, Actions, Events
  <2> QED
    BY <1>2, <2>1, SupervisorAssumption
       DEF SupervisorAssumption, TypeOK, OnStartOrStop, Request, Disturb, wlVars, seqVars
<1>3. CASE OnHalt
  <2>1. queue' \in Seq(Actions)
    BY <1>3, Submitted DEF OnHalt, TypeOK, Actions, Events
  <2> QED
    BY <1>3, <2>1, SupervisorAssumption
       DEF SupervisorAssumption, TypeOK, OnHalt, Request, Disturb, wlVars, seqVars
<1>4. CASE OnReset
  <2>1. queue' \in Seq(Actions)
    BY <1>4, Submitted DEF OnReset, TypeOK, Actions, Events
  <2> QED
    BY <1>4, <2>1, SupervisorAssumption
       DEF SupervisorAssumption, TypeOK, OnReset, Request, Disturb, wlVars, seqVars, States
<1>5. CASE OnRunSequence
  BY <1>5, SupervisorAssumption
     DEF SupervisorAssumption, TypeOK, OnRunSequence, Request, wlVars, seqVars, history
<1> QED
  BY <1>1, <1>2, <1>3, <1>4, <1>5 DEF Requests

LEMMA TypesWorkLoop ==
  ASSUME TypeOK, WorkLoop
  PROVE  TypeOK'
PROOF
<1> USE SupervisorAssumption DEF SupervisorAssumption
<1>1. CASE WlFires
  <2>1. queue' \in Seq(Actions) /\ Head(queue) \in Actions
    BY <1>1 DEF WlFires, TypeOK
  <2> QED
    BY <1>1, <2>1 DEF TypeOK, WlFires, seqVars, history
<1>2. CASE WlSucceeds
  <2>1. Target \in States
    BY <1>2, Targets DEF WlSucceeds, Events, States
  <2>2. queue' \in Seq(Actions)
    BY <1>2, Submitted DEF WlSucceeds, WlEnds, TypeOK, Actions
  <2> QED
    BY <1>2, <2>1, <2>2 DEF TypeOK, WlSucceeds, WlEnds, seqVars
<1>3. CASE WlFails
  BY <1>3 DEF TypeOK, WlFails, Disturb, seqVars, States
<1>4. CASE CalibrationBegins
  <2>1. queue' \in Seq(Actions)
    BY <1>4 DEF CalibrationBegins, TypeOK
  <2> QED
    BY <1>4, <2>1 DEF TypeOK, CalibrationBegins, seqVars, history, RunTypes, Actions
<1>5. CASE CalibrationStep
  BY <1>5 DEF TypeOK, CalibrationStep, seqVars, history
<1>6. CASE CalibrationFails
  BY <1>6 DEF TypeOK, CalibrationFails, seqVars
<1>7. CASE CalibrationEnds
  <2>1. queue' \in Seq(Actions)
    BY <1>7, Submitted DEF CalibrationEnds, TypeOK, Actions, Events
  <2>2. taken' \in Seq(1 .. Calibrations)
    <3>1. taken' = taken \/ taken' = Append(taken, index)
      BY <1>7 DEF CalibrationEnds
    <3>2. taken \in Seq(1 .. Calibrations) /\ index \in 1 .. Calibrations
      BY DEF TypeOK
    <3> QED
      BY <3>1, <3>2, AppendProperties
  <2> QED
    BY <1>7, <2>1, <2>2 DEF TypeOK, CalibrationEnds, seqVars
<1> QED
  BY <1>1, <1>2, <1>3, <1>4, <1>5, <1>6, <1>7 DEF WorkLoop

LEMMA TypesSequencer ==
  ASSUME TypeOK, WithinRuns, Sequencer
  PROVE  TypeOK'
PROOF
<1> USE SupervisorAssumption DEF SupervisorAssumption
<1>1. CASE SequenceBegins
  BY <1>1 DEF TypeOK, SequenceBegins, wlVars
<1>2. CASE SequenceNext
  <2>1. queue' \in Seq(Actions)
    BY <1>2, Submitted DEF SequenceNext, TypeOK, Actions, Events
  <2> QED
    BY <1>2, <2>1 DEF TypeOK, SequenceNext, wlVars, history, RunTypes
<1>3. CASE SequenceEnds
  BY <1>3 DEF TypeOK, SequenceEnds, wlVars, history
<1>4. CASE SequenceStarts
  <2>1. queue' \in Seq(Actions)
    BY <1>4, Submitted DEF SequenceStarts, TypeOK, Actions, Events
  <2> QED
    BY <1>4, <2>1 DEF TypeOK, SequenceStarts, wlVars, history
<1>5. CASE SequenceGivesUp
  <2>1. queue' \in Seq(Actions)
    BY <1>5, Submitted DEF SequenceGivesUp, TypeOK, Actions, Events
  <2> QED
    BY <1>5, <2>1 DEF TypeOK, SequenceGivesUp, Disturb, wlVars
<1>6. CASE SequenceHalted
  BY <1>6 DEF TypeOK, WithinRuns, SequenceHalted, wlVars, history
<1> QED
  BY <1>1, <1>2, <1>3, <1>4, <1>5, <1>6 DEF Sequencer

LEMMA WithinRunsNext ==
  ASSUME TypeOK, WithinRuns, [Next]_vars
  PROVE  WithinRuns'
PROOF
<1>1. CASE Requests \/ WorkLoop \/ UNCHANGED vars
  <2>1. UNCHANGED <<seqPc, seqRun>>
    BY <1>1 DEF Requests, WorkLoop, OnConfigure, OnStartOrStop, OnHalt, OnReset,
       OnRunSequence, WlFires, WlSucceeds, WlEnds, WlFails, CalibrationBegins,
       CalibrationStep, CalibrationFails, CalibrationEnds, vars, seqVars
  <2> QED
    BY <2>1 DEF WithinRuns
<1>2. CASE Sequencer
  BY <1>2 DEF WithinRuns, Sequencer, SequenceBegins, SequenceNext, SequenceEnds,
     SequenceStarts, SequenceGivesUp, SequenceHalted
<1> QED
  BY <1>1, <1>2 DEF Next

LEMMA TypesInit == Init => TypeOK /\ WithinRuns
PROOF
<1> SUFFICES ASSUME Init PROVE TypeOK /\ WithinRuns
  OBVIOUS
<1>1. /\ quit \in BOOLEAN /\ quitBefore \in BOOLEAN
      /\ disturbed \in BOOLEAN /\ derailed \in BOOLEAN
  BY Zenon DEF Init
<1>2. queue \in Seq(Actions) /\ taken \in Seq(1 .. Calibrations)
  BY DEF Init
<1> QED
  BY <1>1, <1>2, SupervisorAssumption
     DEF SupervisorAssumption, Init, TypeOK, WithinRuns, States, RunTypes

LEMMA TypesNext ==
  ASSUME TypeOK, WithinRuns, [Next]_vars
  PROVE  TypeOK' /\ WithinRuns'
PROOF
<1>1. CASE Next
  BY <1>1, TypesRequests, TypesWorkLoop, TypesSequencer, WithinRunsNext DEF Next
<1>2. CASE UNCHANGED vars
  BY <1>2, WithinRunsNext DEF TypeOK, vars, wlVars, seqVars, history
<1> QED
  BY <1>1, <1>2

\* TypeOK: every variable has its type, for any number of runs, steps and requests.
THEOREM Types == Spec => []TypeOK
PROOF
<1>1. Init => TypeOK /\ WithinRuns
  BY TypesInit
<1>2. TypeOK /\ WithinRuns /\ [Next]_vars => (TypeOK /\ WithinRuns)'
  BY TypesNext
<1> QED
  BY <1>1, <1>2, PTL DEF Spec
-----------------------------------------------------------------------------
(* The sequence of calibration runs *)

\* The complete runs are the first n, in order.
Taken(n) == Len(taken) = n /\ \A i \in 1 .. n : taken[i] = i

\* From the submission of Configure to the state Configured, or to none if the last run
\* is still going on.
Configuring ==
  \/ queue = <<"Configure">> /\ wl = "idle" /\ fsm # "Failed"
  \/ queue = <<>> /\ wl = "Configure" /\ fsm \in {"Halted", "Configured"}
  \/ queue = <<>> /\ wl = "idle" /\ fsm = "Configured" /\ configuredFor = runType
  \/ queue = <<>> /\ wl = "idle" /\ fsm = "Running"

\* The subsystems are configured for the run.
ForRun(s) == fsm = s /\ configuredFor = runType

\* From the submission of Start to the state Halted.
Halting ==
  \/ /\ Taken(seqRun - 1)
     /\ \/ queue = <<"Configure", "Start">> /\ wl = "idle" /\ fsm = "Configured"
        \/ queue = <<"Start">> /\ wl = "Configure" /\ fsm = "Configured"
        \/ queue = <<"Start">> /\ wl = "idle" /\ ForRun("Configured")
        \/ queue = <<>> /\ wl = "Start" /\ ForRun("Configured")
        \/ queue = <<"Calibrate">> /\ wl = "idle" /\ ForRun("Running") /\ apps = "Running"
        \/ queue = <<>> /\ wl = "Calibrate" /\ ForRun("Running") /\ apps = "Running"
             /\ index = runType
  \/ /\ Taken(seqRun)
     /\ \/ queue = <<"Halt">> /\ wl = "idle" /\ fsm = "Running"
        \/ queue = <<>> /\ wl = "Halt" /\ fsm = "Running"
        \/ queue = <<>> /\ wl = "idle" /\ fsm = "Halted"

\* Where a sequence that nobody disturbs can be.
Sequence ==
  seqPc # "idle" /\ ~disturbed /\ ~quitBefore =>
    /\ ~quit
    /\ seqPc = "next" =>
         queue = <<>> /\ wl = "idle" /\ fsm # "Failed" /\ Taken(seqRun - 1)
    /\ seqPc = "configuring" => runType = seqRun /\ Taken(seqRun - 1) /\ Configuring
    /\ seqPc = "halting" => runType = seqRun /\ Halting

IInv == TypeOK /\ WithinRuns /\ Sequence

\* The queue of the work loop, as far as Configuring and Halting have it.
LEMMA Queues ==
  ASSUME NEW e, NEW f
  PROVE  /\ Head(<<e>>) = e /\ Tail(<<e>>) = <<>> /\ Append(<<>>, e) = <<e>>
         /\ Head(<<e, f>>) = e /\ Tail(<<e, f>>) = <<f>> /\ Append(<<e>>, f) = <<e, f>>
         /\ <<e>> # <<>> /\ <<e, f>> # <<>>
PROOF
<1>1. Head(<<e>>) = e
  OBVIOUS
<1>2. Tail(<<e>>) = <<>>
  OBVIOUS
<1>3. Append(<<>>, e) = <<e>>
  OBVIOUS
<1>4. Head(<<e, f>>) = e
  OBVIOUS
<1>5. Tail(<<e, f>>) = <<f>>
  OBVIOUS
<1>6. Append(<<e>>, f) = <<e, f>>
  <2>1. <<e>> \in Seq({e, f}) /\ <<e, f>> \in Seq({e, f})
    OBVIOUS
  <2>2. /\ Append(<<e>>, f) \in Seq({e, f})
        /\ Len(Append(<<e>>, f)) = 2
        /\ Append(<<e>>, f)[1] = e /\ Append(<<e>>, f)[2] = f
    BY <2>1, AppendProperties
  <2>3. Len(<<e, f>>) = 2 /\ <<e, f>>[1] = e /\ <<e, f>>[2] = f
    OBVIOUS
  <2>4. \A i \in 1 .. 2 : i = 1 \/ i = 2
    OBVIOUS
  <2> QED
    BY <2>1, <2>2, <2>3, <2>4, SeqEqual
<1>7. <<e>> # <<>> /\ <<e, f>> # <<>>
  OBVIOUS
<1> QED
  BY <1>1, <1>2, <1>3, <1>4, <1>5, <1>6, <1>7

\* One more run is complete.
LEMMA OneMore ==
  ASSUME TypeOK, Taken(seqRun - 1), index = seqRun, taken' = Append(taken, index)
  PROVE  Taken(seqRun)'  \/ seqRun' # seqRun
PROOF
<1>1. /\ Len(taken') = Len(taken) + 1
      /\ \A i \in 1 .. Len(taken) : taken'[i] = taken[i]
      /\ taken'[Len(taken) + 1] = index
  BY AppendProperties DEF TypeOK
<1>2. seqRun \in Nat \ {0}
  BY SupervisorAssumption DEF TypeOK, SupervisorAssumption
<1> QED
  BY <1>1, <1>2 DEF Taken

\* Any request but for another sequence disturbs the sequence.
LEMMA SequenceRequests ==
  ASSUME TypeOK, Sequence, Requests
  PROVE  Sequence'
PROOF
<1>1. ASSUME ~OnRunSequence PROVE disturbed'
  BY <1>1 DEF Requests, OnConfigure, OnStartOrStop, OnHalt, OnReset, Disturb
<1>2. CASE OnRunSequence
  BY <1>2 DEF OnRunSequence, wlVars, history, Sequence, Taken, Configuring, Halting, ForRun
<1> QED
  BY <1>1, <1>2 DEF Sequence

LEMMA SequenceSequencer ==
  ASSUME TypeOK, WithinRuns, Sequence, Sequencer
  PROVE  Sequence'
PROOF
<1>1. CASE SequenceBegins
  <2>1. Taken(0)'
    BY <1>1 DEF SequenceBegins, Taken
  <2>2. seqRun' - 1 = 0 /\ seqPc' = "next"
    BY <1>1 DEF SequenceBegins
  <2>3. ~disturbed' /\ ~quitBefore' =>
          ~quit' /\ queue' = <<>> /\ wl' = "idle" /\ fsm' # "Failed"
    BY <1>1 DEF SequenceBegins, wlVars
  <2> QED
    BY <2>1, <2>2, <2>3 DEF Sequence, Taken
<1>2. CASE SequenceNext
  BY <1>2, Queues DEF SequenceNext, Sequence, Taken, Configuring, wlVars, history, submit
<1>3. CASE SequenceEnds
  BY <1>3 DEF SequenceEnds, Sequence
<1>4. CASE SequenceStarts
  BY <1>4, Queues DEF SequenceStarts, Sequence, Taken, Configuring, Halting, ForRun, Reached,
     wlVars, history, submit
<1>5. CASE SequenceGivesUp
  BY <1>5 DEF SequenceGivesUp, Sequence, Disturb
<1>6. CASE SequenceHalted
  <2>1. seqRun \in Nat /\ (seqRun + 1) - 1 = seqRun
    BY SupervisorAssumption DEF TypeOK, SupervisorAssumption
  <2> QED
    BY <1>6, <2>1 DEF SequenceHalted, Sequence, Taken, Halting, ForRun, Reached, wlVars, history
<1> QED
  BY <1>1, <1>2, <1>3, <1>4, <1>5, <1>6 DEF Sequencer

LEMMA SequenceWorkLoop ==
  ASSUME TypeOK, WithinRuns, Sequence, WorkLoop
  PROVE  Sequence'
PROOF
<1> SUFFICES ASSUME seqPc' # "idle", ~disturbed', ~quitBefore'
             PROVE  Sequence'
  BY DEF Sequence
<1>1. CASE WlFires
  <2>1. /\ wl = "idle" /\ queue # <<>> /\ queue' = Tail(queue)
        /\ UNCHANGED <<fsm, runType, quit, index, seqPc, seqRun, configuredFor, taken,
                       quitBefore, disturbed>>
        /\ wl' = Head(queue) \/ (wl' = wl /\ apps' = apps)
    BY <1>1 DEF WlFires, seqVars, history
  <2>2. Head(queue) # "Calibrate"
    BY <1>1 DEF WlFires, Transition
  <2>3. /\ fsm \in {"Halted", "Configured"} /\ Head(queue) = "Configure" => wl' = Head(queue)
        /\ fsm = "Configured" /\ Head(queue) = "Start" => wl' = Head(queue)
        /\ fsm = "Running" /\ Head(queue) = "Halt" => wl' = Head(queue)
        /\ fsm = "Running" /\ Head(queue) = "Configure" => wl' = wl
    BY <1>1 DEF WlFires, Transition
  <2>4. Sequence /\ ~disturbed /\ ~quitBefore /\ seqPc # "idle" /\ seqPc # "next"
    BY <2>1 DEF Sequence
  <2>5. CASE seqPc = "configuring"
    <3>1. queue = <<"Configure">> /\ fsm # "Failed" /\ Taken(seqRun - 1) /\ runType = seqRun
      BY <2>1, <2>4, <2>5 DEF Sequence, Configuring
    <3>2. Configuring'
      BY <2>1, <2>3, <3>1, Queues DEF Configuring, TypeOK, States
    <3> QED
      BY <2>1, <2>4, <2>5, <3>1, <3>2 DEF Sequence, Taken
  <2>6. CASE seqPc = "halting"
    <3>1. Halting'
      <4>1. /\ Halting
            /\ \A n : Taken(n) => Taken(n)'
            /\ \A s : ForRun(s) => ForRun(s)'
        BY <2>1, <2>4, <2>6 DEF Sequence, ForRun, Taken
      <4>2. /\ Tail(<<"Configure", "Start">>) = <<"Start">>
            /\ Head(<<"Configure", "Start">>) = "Configure"
            /\ \A e \in Actions : Head(<<e>>) = e /\ Tail(<<e>>) = <<>>
        BY Queues
      <4>3. CASE Taken(seqRun - 1) /\ queue = <<"Configure", "Start">> /\ fsm = "Configured"
        BY <2>1, <2>3, <4>1, <4>2, <4>3 DEF Halting
      <4>4. CASE Taken(seqRun - 1) /\ queue = <<"Start">> /\ ForRun("Configured")
        BY <2>1, <2>3, <4>1, <4>2, <4>4 DEF Halting, ForRun, Actions, Events
      <4>5. CASE Taken(seqRun) /\ queue = <<"Halt">> /\ fsm = "Running"
        BY <2>1, <2>3, <4>1, <4>2, <4>5 DEF Halting, Actions, Events
      <4> QED
        BY <2>1, <2>2, <4>1, <4>2, <4>3, <4>4, <4>5 DEF Halting, Actions
    <3> QED
      BY <2>1, <2>4, <2>6, <3>1 DEF Sequence
  <2> QED
    BY <2>4, <2>5, <2>6 DEF TypeOK
<1>2. CASE WlSucceeds
  <2>1. /\ wl \in Events /\ wl' = "idle"
        /\ fsm' = Target /\ apps' = Target
        /\ wl = "Start" /\ runType # 0 => ~quit' /\ queue' = Append(queue, "Calibrate")
        /\ wl # "Start" => UNCHANGED <<quit, queue>>
        /\ configuredFor' = IF wl = "Configure" THEN runType ELSE configuredFor
        /\ UNCHANGED <<runType, index, seqPc, seqRun, taken, quitBefore, disturbed>>
    BY <1>2 DEF WlSucceeds, WlEnds, seqVars, submit
  <2>2. /\ seqPc \in {"configuring", "halting"} /\ runType = seqRun /\ runType # 0 /\ ~quit
        /\ seqPc = "configuring" => Configuring /\ Taken(seqRun - 1)
        /\ seqPc = "halting" => Halting
    BY <2>1, SupervisorAssumption DEF Sequence, TypeOK, Events, SupervisorAssumption
  <2>3. CASE seqPc = "configuring"
    <3>1. Configuring'
      BY <2>1, <2>2, <2>3, Targets DEF Configuring, Events
    <3> QED
      BY <2>1, <2>2, <2>3, <3>1 DEF Sequence, Taken, Configuring
  <2>4. CASE seqPc = "halting"
    <3>1. Halting' /\ ~quit'
      <4>1. \A n : Taken(n) => Taken(n)'
        BY <2>1 DEF Taken
      <4>2. CASE wl = "Configure" /\ Taken(seqRun - 1) /\ queue = <<"Start">>
        BY <2>1, <2>2, <4>1, <4>2, Targets DEF Halting, ForRun
      <4>3. CASE wl = "Start" /\ Taken(seqRun - 1) /\ queue = <<>> /\ ForRun("Configured")
        <5>1. /\ fsm' = "Running" /\ apps' = "Running" /\ configuredFor' = runType'
              /\ queue' = <<"Calibrate">> /\ wl' = "idle" /\ seqRun' = seqRun
          BY <2>1, <2>2, <4>3, Targets, Queues DEF ForRun
        <5>2. ~quit'
          BY <2>1, <2>2, <4>3
        <5> QED
          BY <4>1, <4>3, <5>1, <5>2 DEF Halting, ForRun
      <4>4. CASE wl = "Halt" /\ Taken(seqRun) /\ queue = <<>>
        BY <2>1, <2>2, <4>1, <4>4, Targets DEF Halting, ForRun
      <4> QED
        BY <2>1, <2>2, <2>4, <4>2, <4>3, <4>4 DEF Halting, Events
    <3> QED
      BY <2>1, <2>2, <2>4, <3>1 DEF Sequence
  <2> QED
    BY <2>2, <2>3, <2>4
<1>3. CASE WlFails
  BY <1>3 DEF WlFails, Disturb
<1>4. CASE CalibrationBegins
  BY <1>4, Queues DEF CalibrationBegins, Sequence, Taken, Configuring, Halting, ForRun,
     seqVars, history, TypeOK
<1>5. CASE CalibrationStep
  BY <1>5 DEF CalibrationStep, Sequence, Taken, Configuring, Halting, ForRun,
     seqVars, history
<1>6. CASE CalibrationFails
  BY <1>6 DEF CalibrationFails
<1>7. CASE CalibrationEnds
  BY <1>7, Queues, OneMore DEF CalibrationEnds, Sequence, Taken, Configuring, Halting, ForRun,
     seqVars, submit
<1> QED
  BY <1>1, <1>2, <1>3, <1>4, <1>5, <1>6, <1>7 DEF WorkLoop

LEMMA SequenceStep ==
  ASSUME IInv, [Next]_vars
  PROVE  IInv'
PROOF
<1>1. TypeOK' /\ WithinRuns'
  BY TypesNext DEF IInv
<1>2. CASE Next
  BY <1>1, <1>2, SequenceRequests, SequenceWorkLoop, SequenceSequencer DEF IInv, Next
<1>3. CASE UNCHANGED vars
  BY <1>1, <1>3 DEF IInv, vars, wlVars, seqVars, history, Sequence, Taken, Configuring,
     Halting, ForRun
<1> QED
  BY <1>2, <1>3

\* SequenceTakesAll: a sequence that nothing disturbs takes every calibration run, once
\* and in order, each with the subsystems configured for it.
THEOREM TakesAll == Spec => []SequenceTakesAll
PROOF
<1>1. Init => IInv
  <2>1. Init => Sequence
    BY DEF Init, Sequence
  <2> QED
    BY <2>1, TypesInit DEF IInv
<1>2. IInv /\ [Next]_vars => IInv'
  BY SequenceStep
<1>3. IInv => SequenceTakesAll
  <2> SUFFICES ASSUME IInv, Undisturbed, ~quitBefore PROVE AllTaken
    BY DEF SequenceTakesAll
  <2>1. Taken(seqRun - 1)
    BY DEF IInv, Sequence, Undisturbed
  <2>2. seqRun - 1 = Calibrations
    BY SupervisorAssumption DEF IInv, TypeOK, Undisturbed, SupervisorAssumption
  <2>3. Len(taken) = Calibrations /\ \A i \in 1 .. Calibrations : taken[i] = i
    BY <2>1, <2>2 DEF Taken
  <2>4. taken \in [1 .. Len(taken) -> 1 .. Calibrations]
    BY LenProperties DEF IInv, TypeOK
  <2> QED
    BY <2>3, <2>4 DEF AllTaken
<1> QED
  BY <1>1, <1>2, <1>3, PTL DEF Spec
=============================================================================
