--------------------------- MODULE DaqManagerProofs ---------------------------
(***************************************************************************)
(* What DaqManager keeps for any set of readout units, any choice of       *)
(* drivers and requests, and any number of faults.                         *)
(***************************************************************************)
EXTENDS DaqManager, TLAPS

\* Of two drivers at work at the same time, nothing is said of any application.
OneDriver ==
  \A d \in Drivers : \A o \in Drivers \ {d} :
    pc[d] # "idle" /\ pc[o] # "idle" => disturbed = Apps

\* The watchdog is held back during a transition.
Held ==
  \A d \in Drivers :
    pc[d] \in {"stamping", "commanding"} => inFSMTransition \/ disturbed = Apps

\* Who does what: Reset comes by request, and the stop time is the TA's part of Halt.
Roles ==
  \A d \in Drivers :
    /\ pc[d] \in {"firing", "resetting"} => d = "request"
    /\ pc[d] = "stamping" => event[d] = "Halt"

\* What the watchdog is to configure in its first round was Halted.
SeenHalted ==
  wdPc \in {"lookFirst", "configureFirst"} => \A a \in wdTodo : seen[a] = "Halted"

\* The application a does not run, and the watchdog is not about to enable it.
Stopped(a) ==
  /\ app[a] # "Enabled"
  /\ app[a] = "Ready" =>
       /\ wdPc # "firstPatrol"
       /\ wdPc \in {"lookFirst", "configureFirst", "secondPatrol"} => seen[a] # "Ready"
       /\ wdPc \in {"lookSecond", "enable"} => a \notin wdTodo

\* An application follows the manager, as far as the driver has come.
Following(a) ==
  /\ fsm = "Halted" /\ (\A d \in Drivers : pc[d] \in {"idle", "firing"}) => Stopped(a)
  /\ fsm = "Enabled" /\ Settled => app[a] = "Enabled"
  /\ \A d \in Drivers :
       a \notin todo[d] =>
         /\ pc[d] = "resetting" => app[a] \notin {"Ready", "Enabled"}
         /\ pc[d] \in {"stamping", "commanding"} /\ event[d] = "Halt" => Stopped(a)
         /\ pc[d] = "commanding" /\ event[d] = "Enable" => app[a] = "Enabled"

Inv ==
  /\ OneDriver
  /\ Held
  /\ Roles
  /\ SeenHalted
  /\ \A a \in Apps \ disturbed : Following(a)

IInv == TypeOK /\ Inv
-----------------------------------------------------------------------------
(* Commands *)

\* Who obeys a command, and what comes of it.
LEMMA Obedience ==
  ASSUME NEW a \in Apps
  PROVE  /\ Obeys(a, "Configure") => app[a] \in {"Halted", "Ready"}
         /\ Obeys(a, "Enable") => app[a] \in {"Ready", "Enabled"}
         /\ app[a] \in {"Ready", "Enabled"} => Obeys(a, "Halt")
         /\ app[a] \in {"Ready", "Enabled"} => Obeys(a, "Reset")
         /\ After(a, "Configure") \subseteq {"Ready", "Failed"}
         /\ After(a, "Enable") \subseteq {"Enabled", "Failed"}
         /\ After(a, "Halt") \subseteq {"Halted"}
         /\ After(a, "Reset") \subseteq {"Halted"}
         /\ \A c : "Failed" \in After(a, c) => nFaults < MaxFaults
PROOF
<1>1. /\ Obeys(a, "Configure") => app[a] \in {"Halted", "Ready"}
      /\ Obeys(a, "Enable") => app[a] \in {"Ready", "Enabled"}
  BY DEF Obeys, AppTransition
<1>2. /\ app[a] \in {"Ready", "Enabled"} => Obeys(a, "Halt")
      /\ app[a] \in {"Ready", "Enabled"} => Obeys(a, "Reset")
  <2>1. ASSUME app[a] \in {"Ready", "Enabled"}, NEW c \in {"Halt", "Reset"}
        PROVE  [from |-> app[a], input |-> c, to |-> "Halted"] \in AppTransition
    BY <2>1 DEF AppTransition, AppStates
  <2> QED
    BY <2>1 DEF Obeys
<1>3. After(a, "Configure") \subseteq {"Ready", "Failed"}
  BY DEF After, AppTransition
<1>4. After(a, "Enable") \subseteq {"Enabled", "Failed"}
  BY DEF After, AppTransition
<1>5. /\ After(a, "Halt") \subseteq {"Halted"}
      /\ After(a, "Reset") \subseteq {"Halted"}
  BY DEF After, AppTransition
<1>6. \A c : "Failed" \in After(a, c) => nFaults < MaxFaults
  BY DEF After, AppTransition
<1> QED
  BY <1>1, <1>2, <1>3, <1>4, <1>5, <1>6

\* Where each event leads to.
LEMMA Targets ==
  /\ Target("Configure") = "Configured"
  /\ Target("Enable") = "Enabled"
  /\ Target("Halt") = "Halted"
PROOF
<1>1. \A s \in States :
        /\ (\E t \in Transition : t.input = "Configure" /\ t.to = s) <=> s = "Configured"
        /\ (\E t \in Transition : t.input = "Enable" /\ t.to = s) <=> s = "Enabled"
        /\ (\E t \in Transition : t.input = "Halt" /\ t.to = s) <=> s = "Halted"
  BY DEF Transition, States
<1> QED
  BY <1>1 DEF Target, States
-----------------------------------------------------------------------------
(* Types *)

\* A command leaves the types of what it changes.
LEMMA CommandTypes ==
  ASSUME TypeOK, DaqManagerAssumption, NEW a \in Apps, NEW c \in Events \cup {"Reset"},
         NEW disturbing \in BOOLEAN, Command(a, c, disturbing)
  PROVE  /\ app' \in [Apps -> AppStates]
         /\ disturbed' \subseteq Apps
         /\ nFaults' \in 0 .. MaxFaults
PROOF
<1>1. PICK s \in After(a, c) :
        /\ app' = [app EXCEPT ![a] = s]
        /\ disturbed' = IF disturbing \/ s = "Failed" THEN disturbed \cup {a} ELSE disturbed
        /\ nFaults' = IF s = "Failed" THEN nFaults + 1 ELSE nFaults
  BY DEF Command
<1>2. s \in AppStates /\ (s = "Failed" => nFaults < MaxFaults)
  BY Obedience DEF Events, AppStates
<1> QED
  BY <1>1, <1>2 DEF TypeOK, DaqManagerAssumption

LEMMA TypesInit == ASSUME DaqManagerAssumption, Init PROVE TypeOK
PROOF
<1>1. haltFailed \in [Drivers -> BOOLEAN]
  BY Zenon DEF Init
<1>2. wdPc \in {"idle"} \cup UNION {{r.patrol, r.look, r.act} : r \in Rounds}
  BY DEF Init
<1>3. /\ pc \in [Drivers -> {"idle", "firing", "stamping", "commanding", "resetting"}]
      /\ event \in [Drivers -> Events]
      /\ todo \in [Drivers -> SUBSET Apps]
  BY DEF Init, Events
<1>4. /\ app \in [Apps -> AppStates]
      /\ seen \in [Apps -> {"Halted", "Ready", "other"}]
  BY DEF Init, AppStates
<1>5. /\ fsm \in States /\ initialState \in States \ {"Failed"}
      /\ wdTodo \subseteq Apps /\ disturbed \subseteq Apps
      /\ nFaults \in 0 .. MaxFaults
  BY DEF DaqManagerAssumption, Init, States
<1>6. inFSMTransition \in BOOLEAN
  BY Zenon DEF Init
<1> QED
  BY <1>1, <1>2, <1>3, <1>4, <1>5, <1>6, Zenon DEF TypeOK

\* Where the watchdog goes on.
LEMMA WatchdogPlaces ==
  \A r \in Rounds :
    LET places == {"idle"} \cup UNION {{q.patrol, q.look, q.act} : q \in Rounds}
    IN  {"idle", r.patrol, r.look, r.act, r.next} \subseteq places
PROOF
  BY DEF Rounds, Round

LEMMA TypesDriver ==
  ASSUME TypeOK, DaqManagerAssumption, NEW d \in Drivers, Drive(d)
  PROVE  TypeOK'
PROOF
<1>1. ASSUME NEW e \in Events, Begin(d, e) PROVE TypeOK'
  BY <1>1 DEF TypeOK, Begin, Goto, watchdogVars
<1>2. ASSUME NEW e \in Events, NoAction(d, e) PROVE TypeOK'
  BY <1>2 DEF TypeOK, NoAction, Return, Goto, watchdogVars, Events
<1>3. ASSUME NEW s \in States, Leave(d, s) PROVE TypeOK'
  BY <1>3 DEF TypeOK, Leave, Return, Goto, watchdogVars, Events
<1>4. Throw(d) => TypeOK'
  BY <1>3 DEF Throw, States
<1>5. CASE GenerateRunStopTime(d)
  BY <1>4, <1>5 DEF TypeOK, GenerateRunStopTime, Goto, watchdogVars
<1>6. CASE CommandNext(d)
  <2>1. PICK a \in Apps : Command(a, event[d], FALSE) /\ todo' = [todo EXCEPT ![d] = @ \ {a}]
    BY <1>6 DEF CommandNext, TypeOK, NextOf, Apps
  <2>2. /\ app' \in [Apps -> AppStates]
        /\ disturbed' \subseteq Apps
        /\ nFaults' \in 0 .. MaxFaults
    BY <2>1, CommandTypes DEF TypeOK
  <2> QED
    BY <1>6, <2>1, <2>2 DEF TypeOK, CommandNext, watchdogVars
<1>7. CASE CommandFails(d)
  <2>1. PICK a \in Apps :
          \/ /\ todo' = [todo EXCEPT ![d] = @ \ {a}]
             /\ haltFailed' = [haltFailed EXCEPT ![d] = TRUE]
             /\ UNCHANGED <<fsm, initialState, inFSMTransition, pc, event,
                            app, watchdogVars, disturbed, nFaults>>
          \/ Throw(d)
    BY <1>7 DEF CommandFails, TypeOK, NextOf, Apps
  <2>2. ASSUME haltFailed' = [haltFailed EXCEPT ![d] = TRUE]
        PROVE  haltFailed' \in [Drivers -> BOOLEAN]
    BY <2>2, Zenon DEF TypeOK
  <2> QED
    BY <1>4, <2>1, <2>2 DEF TypeOK, watchdogVars
<1>8. CASE HaltFails(d)
  BY <1>4, <1>8 DEF HaltFails
<1>9. CASE Finish(d)
  <2>1. Target(event[d]) \in States
    BY Targets DEF TypeOK, Events, States
  <2> QED
    BY <1>3, <1>9, <2>1 DEF Finish
<1> QED
  BY <1>1, <1>2, <1>5, <1>6, <1>7, <1>8, <1>9 DEF Drive

LEMMA TypesReset ==
  ASSUME TypeOK, DaqManagerAssumption, Reset \/ ResetNext \/ ResetFSM
  PROVE  TypeOK'
PROOF
<1>1. CASE Reset
  BY <1>1 DEF TypeOK, DaqManagerAssumption, Reset, Goto, watchdogVars, Events
<1>2. CASE ResetNext
  <2>1. PICK a \in Apps :
          /\ todo' = [todo EXCEPT !["request"] = @ \ {a}]
          /\ \/ Command(a, ResetCommand(a), FALSE)
             \/ UNCHANGED <<app, disturbed, nFaults>>
    BY <1>2 DEF ResetNext, TypeOK, NextOf, Apps, DaqManagerAssumption
  <2>2. /\ app' \in [Apps -> AppStates]
        /\ disturbed' \subseteq Apps
        /\ nFaults' \in 0 .. MaxFaults
    BY <2>1, CommandTypes DEF TypeOK, ResetCommand, Events
  <2> QED
    BY <1>2, <2>1, <2>2 DEF TypeOK, ResetNext, watchdogVars, DaqManagerAssumption
<1>3. CASE ResetFSM
  BY <1>3 DEF TypeOK, ResetFSM, Goto, watchdogVars, DaqManagerAssumption, States
<1> QED
  BY <1>1, <1>2, <1>3

LEMMA TypesWatchdog ==
  ASSUME TypeOK, DaqManagerAssumption, Watchdog
  PROVE  TypeOK'
PROOF
<1>1. CASE TimeExpires
  BY <1>1 DEF TypeOK, TimeExpires, driverVars, Rounds, Round
<1>2. CASE Patrol
  <2>1. PICK r \in Rounds : wdPc' = IF wdTodo' = {} THEN r.next ELSE r.look
    BY <1>2 DEF Patrol
  <2>2. wdTodo' \subseteq Apps /\ seen' \in [Apps -> {"Halted", "Ready", "other"}]
    BY <1>2 DEF Patrol, AppsInState, Seen
  <2> QED
    BY <1>2, <2>1, <2>2, WatchdogPlaces DEF TypeOK, Patrol, driverVars
<1>3. CASE Look
  <2>1. PICK r \in Rounds : wdPc' = IF inFSMTransition THEN r.next ELSE r.act
    BY <1>3 DEF Look
  <2> QED
    BY <1>3, <2>1, WatchdogPlaces DEF TypeOK, Look, driverVars
<1>4. CASE WatchdogSends
  <2>1. PICK r \in Rounds, a \in wdTodo :
          LET c == IF r.act = "enable" THEN "Enable" ELSE "Configure" IN
          \/ /\ Command(a, c, pc["request"] = "resetting")
             /\ wdTodo' = wdTodo \ {a}
             /\ wdPc' = IF wdTodo' = {} THEN r.next ELSE wdPc
          \/ /\ wdPc' = "idle"
             /\ wdTodo' = {}
             /\ UNCHANGED <<app, disturbed, nFaults>>
    BY <1>4 DEF WatchdogSends
  <2>2. /\ app' \in [Apps -> AppStates]
        /\ disturbed' \subseteq Apps
        /\ nFaults' \in 0 .. MaxFaults
    BY <2>1, CommandTypes DEF TypeOK, Events
  <2>3. wdTodo' \subseteq Apps
    BY <2>1 DEF TypeOK
  <2> QED
    BY <1>4, <2>1, <2>2, <2>3, WatchdogPlaces DEF TypeOK, WatchdogSends, driverVars
<1> QED
  BY <1>1, <1>2, <1>3, <1>4 DEF Watchdog

LEMMA TypesFaults ==
  ASSUME TypeOK, DaqManagerAssumption,
         ManagerRestarts \/ \E a \in Apps : AppFails(a) \/ AppRestarts(a)
  PROVE  TypeOK'
PROOF
<1>1. ASSUME NEW a \in Apps, AppFails(a) PROVE TypeOK'
  BY <1>1 DEF TypeOK, DaqManagerAssumption, AppFails, driverVars, watchdogVars, AppStates
<1>2. ASSUME NEW a \in Apps, AppRestarts(a) PROVE TypeOK'
  BY <1>2 DEF TypeOK, AppRestarts, driverVars, watchdogVars, AppStates
<1>3. CASE ManagerRestarts
  <2>1. StateOf(CombinedState) \in States \ {"Failed"}
    BY DEF StateOf, States
  <2> QED
    <3>1. haltFailed' \in [Drivers -> BOOLEAN]
      BY <1>3, Zenon DEF ManagerRestarts
    <3>2. /\ initialState' \in States \ {"Failed"} /\ fsm' \in States
          /\ disturbed' \subseteq Apps
      BY <1>3, <2>1 DEF ManagerRestarts, States
    <3>3. /\ pc' \in [Drivers -> {"idle", "firing", "stamping", "commanding", "resetting"}]
          /\ event' \in [Drivers -> Events]
          /\ todo' \in [Drivers -> SUBSET Apps]
          /\ seen' \in [Apps -> {"Halted", "Ready", "other"}]
      BY <1>3 DEF ManagerRestarts, Events
    <3>4. inFSMTransition' \in BOOLEAN
      BY <1>3, Zenon DEF ManagerRestarts
    <3>5. /\ app' \in [Apps -> AppStates]
          /\ wdPc' \in {"idle"} \cup UNION {{r.patrol, r.look, r.act} : r \in Rounds}
          /\ wdTodo' \subseteq Apps
          /\ nFaults' \in 0 .. MaxFaults
      BY <1>3 DEF ManagerRestarts, TypeOK, DaqManagerAssumption
    <3> QED
      BY <3>1, <3>2, <3>3, <3>4, <3>5, Zenon DEF TypeOK
<1> QED
  BY <1>1, <1>2, <1>3

LEMMA TypesNext ==
  ASSUME TypeOK, DaqManagerAssumption, [Next]_vars
  PROVE  TypeOK'
PROOF
<1>1. CASE Next
  BY <1>1, TypesDriver, TypesReset, TypesWatchdog, TypesFaults DEF Next
<1>2. CASE UNCHANGED vars
  BY <1>2 DEF TypeOK, vars, driverVars, watchdogVars
<1> QED
  BY <1>1, <1>2

\* TypeOK: every variable has its type, for any applications, drivers and requests.
THEOREM Types == Spec => []TypeOK
PROOF
<1>1. Init => TypeOK
  BY TypesInit, DaqManagerAssumption
<1>2. TypeOK /\ [Next]_vars => TypeOK'
  BY TypesNext, DaqManagerAssumption
<1> QED
  BY <1>1, <1>2, PTL DEF Spec
-----------------------------------------------------------------------------
(* Applications follow the manager *)

\* What a command does to the application a, and that it leaves the others alone.
LEMMA CommandEffect ==
  ASSUME TypeOK, NEW a \in Apps, NEW c \in Events \cup {"Reset"},
         NEW disturbing, Command(a, c, disturbing)
  PROVE  /\ Obeys(a, c)
         /\ \A b \in Apps \ {a} : app'[b] = app[b]
         /\ disturbed \subseteq disturbed'
         /\ disturbing => a \in disturbed'
         /\ a \notin disturbed' =>
              /\ c = "Configure" => app'[a] = "Ready"
              /\ c = "Enable" => app'[a] = "Enabled"
         /\ c \in {"Halt", "Reset"} => app'[a] = "Halted"
PROOF
<1>1. PICK s \in After(a, c) :
        /\ Obeys(a, c)
        /\ app' = [app EXCEPT ![a] = s]
        /\ disturbed' = IF disturbing \/ s = "Failed" THEN disturbed \cup {a} ELSE disturbed
  BY DEF Command
<1>2. app'[a] = s /\ \A b \in Apps \ {a} : app'[b] = app[b]
  BY <1>1 DEF TypeOK
<1>3. /\ c = "Configure" => s \in {"Ready", "Failed"}
      /\ c = "Enable" => s \in {"Enabled", "Failed"}
      /\ c \in {"Halt", "Reset"} => s = "Halted"
  BY Obedience
<1>4. disturbed \subseteq disturbed' /\ (disturbing \/ s = "Failed" => a \in disturbed')
  BY <1>1
<1> QED
  BY <1>1, <1>2, <1>3, <1>4

LEMMA InvInit == ASSUME DaqManagerAssumption, Init PROVE Inv
PROOF
  BY DEF DaqManagerAssumption, Init, Inv, OneDriver, Held, Roles, SeenHalted, Following,
         Stopped, Settled

\* A driver that begins finds nothing to be kept: all is still to be commanded.
LEMMA InvBegin ==
  ASSUME TypeOK, Inv, NEW d \in Drivers, NEW e \in Events, Begin(d, e)
  PROVE  Inv'
PROOF
<1>1. /\ pc' = [pc EXCEPT ![d] = IF e = "Halt" THEN "stamping" ELSE "commanding"]
      /\ event' = [event EXCEPT ![d] = e]
      /\ todo' = [todo EXCEPT ![d] = Apps]
      /\ inFSMTransition'
      /\ disturbed' = IF OthersIdle(d) THEN {} ELSE Apps
      /\ UNCHANGED <<fsm, app, wdPc, wdTodo, seen>>
  BY DEF Begin, Goto, watchdogVars
<1>2. OneDriver' /\ Held'
  BY <1>1 DEF TypeOK, OneDriver, Held, OthersIdle
<1>3. Roles' /\ SeenHalted'
  BY <1>1 DEF TypeOK, Inv, Roles, SeenHalted
<1>4. ASSUME NEW a \in Apps \ disturbed' PROVE Following(a)'
  BY <1>1, <1>4 DEF TypeOK, Following, OthersIdle, Settled
<1> QED
  BY <1>2, <1>3, <1>4 DEF Inv

\* Nothing happens in NoAction, and nobody stays behind an Enabled manager in it.
LEMMA InvNoAction ==
  ASSUME TypeOK, Inv, NEW d \in Drivers, NEW e \in Events, NoAction(d, e)
  PROVE  Inv'
PROOF
<1>1. /\ pc' = [pc EXCEPT ![d] = "idle"]
      /\ event' = [event EXCEPT ![d] = "Halt"]
      /\ todo' = [todo EXCEPT ![d] = {}]
      /\ UNCHANGED <<fsm, inFSMTransition, app, wdPc, wdTodo, seen, disturbed>>
      /\ pc[d] = "idle" \/ (pc[d] = "firing" /\ e = "Halt")
  BY DEF NoAction, Fires, Return, Goto, watchdogVars
<1>2. ~(fsm = "Enabled" /\ e = "Halt")
  BY DEF NoAction, Transition
<1>3. OneDriver' /\ Held' /\ Roles' /\ SeenHalted'
  BY <1>1 DEF TypeOK, Inv, OneDriver, Held, Roles, SeenHalted
<1>4. ASSUME NEW a \in Apps \ disturbed' PROVE Following(a)'
  <2>1. Following(a)
    BY <1>1, <1>4 DEF Inv
  <2>2. Stopped(a)' = Stopped(a)
    BY <1>1 DEF Stopped
  <2> QED
    BY <1>1, <1>2, <2>1, <2>2 DEF TypeOK, Following, Settled
<1> QED
  BY <1>3, <1>4 DEF Inv

\* A driver leaves a transition in a state that the applications follow.
LEMMA InvLeave ==
  ASSUME TypeOK, Inv, NEW d \in Drivers, pc[d] \in {"stamping", "commanding"},
         NEW s \in States, Leave(d, s),
         \A a \in Apps \ disturbed :
           (s = "Halted" => Stopped(a)) /\ (s = "Enabled" => app[a] = "Enabled")
  PROVE  Inv'
PROOF
<1>1. /\ pc' = [pc EXCEPT ![d] = "idle"]
      /\ event' = [event EXCEPT ![d] = "Halt"]
      /\ todo' = [todo EXCEPT ![d] = {}]
      /\ fsm' = s
      /\ UNCHANGED <<app, wdPc, wdTodo, seen, disturbed>>
  BY DEF Leave, Return, Goto, watchdogVars
<1>2. OneDriver' /\ Held' /\ Roles' /\ SeenHalted'
  BY <1>1 DEF TypeOK, Inv, OneDriver, Held, Roles, SeenHalted
<1>3. ASSUME NEW a \in Apps \ disturbed' PROVE Following(a)'
  <2>1. Following(a) /\ disturbed # Apps
    BY <1>1, <1>3 DEF Inv
  <2>2. Stopped(a)' = Stopped(a)
    BY <1>1 DEF Stopped
  <2> QED
    BY <1>1, <2>1, <2>2 DEF TypeOK, Following, Settled
<1> QED
  BY <1>2, <1>3 DEF Inv

LEMMA InvThrow ==
  ASSUME TypeOK, Inv, NEW d \in Drivers, pc[d] \in {"stamping", "commanding"}, Throw(d)
  PROVE  Inv'
PROOF
  BY InvLeave DEF Throw, States

\* The applications that were commanded are where they belong, one after the other.
LEMMA InvCommanding ==
  ASSUME TypeOK, Inv, NEW d \in Drivers, CommandNext(d) \/ CommandFails(d)
  PROVE  Inv'
PROOF
<1>1. CASE CommandNext(d)
  <2>1. PICK a \in Apps :
          /\ pc[d] = "commanding"
          /\ Command(a, event[d], FALSE)
          /\ todo' = [todo EXCEPT ![d] = @ \ {a}]
          /\ UNCHANGED <<fsm, inFSMTransition, pc, event, wdPc, wdTodo, seen>>
    BY <1>1 DEF CommandNext, TypeOK, NextOf, Apps, watchdogVars
  <2>2. /\ \A b \in Apps \ {a} : app'[b] = app[b]
        /\ disturbed \subseteq disturbed'
        /\ a \notin disturbed' /\ event[d] = "Enable" => app'[a] = "Enabled"
        /\ event[d] = "Halt" => app'[a] = "Halted"
    BY <2>1, CommandEffect DEF TypeOK
  <2>3. disturbed' \subseteq Apps
    BY <1>1, TypesDriver, DaqManagerAssumption DEF Drive, TypeOK
  <2>4. OneDriver' /\ Held' /\ Roles' /\ SeenHalted'
    BY <2>1, <2>2, <2>3 DEF TypeOK, Inv, OneDriver, Held, Roles, SeenHalted
  <2>5. ASSUME NEW b \in Apps \ disturbed' PROVE Following(b)'
    <3>1. Following(b) /\ \A o \in Drivers \ {d} : pc[o] = "idle"
      BY <2>1, <2>2, <2>5 DEF Inv, OneDriver
    <3>2. b # a => Stopped(b)' = Stopped(b)
      BY <2>1, <2>2 DEF Stopped
    <3>3. app'[b] = "Halted" => Stopped(b)'
      BY DEF Stopped
    <3> QED
      BY <2>1, <2>2, <2>5, <3>1, <3>2, <3>3 DEF TypeOK, Following, Settled
  <2> QED
    BY <2>4, <2>5 DEF Inv
<1>2. CASE CommandFails(d)
  <2>1. PICK a \in Apps :
          /\ pc[d] = "commanding"
          /\ ~Obeys(a, event[d])
          /\ \/ /\ event[d] = "Halt"
                /\ todo' = [todo EXCEPT ![d] = @ \ {a}]
                /\ UNCHANGED <<fsm, inFSMTransition, pc, event, app, wdPc, wdTodo, seen,
                               disturbed>>
             \/ Throw(d)
    BY <1>2 DEF CommandFails, TypeOK, NextOf, Apps, watchdogVars
  <2>2. CASE Throw(d)
    BY <2>1, <2>2, InvThrow
  <2>3. CASE ~Throw(d)
    <3>1. OneDriver' /\ Held' /\ Roles' /\ SeenHalted'
      BY <2>1, <2>3 DEF TypeOK, Inv, OneDriver, Held, Roles, SeenHalted
    <3>2. ASSUME NEW b \in Apps \ disturbed' PROVE Following(b)'
      <4>1. Following(b)
        BY <2>1, <2>3, <3>2 DEF Inv
      <4>2. Stopped(b)' = Stopped(b)
        BY <2>1, <2>3 DEF Stopped
      <4>3. b = a => Stopped(b)
        BY <2>1, <2>3, Obedience DEF Stopped
      <4> QED
        BY <2>1, <2>3, <4>1, <4>2, <4>3 DEF TypeOK, Following, Settled
    <3> QED
      BY <3>1, <3>2 DEF Inv
  <2> QED
    BY <2>2, <2>3
<1> QED
  BY <1>1, <1>2

LEMMA InvDriver ==
  ASSUME TypeOK, Inv, NEW d \in Drivers, Drive(d)
  PROVE  Inv'
PROOF
<1>1. ASSUME NEW e \in Events, Begin(d, e) \/ NoAction(d, e) PROVE Inv'
  BY <1>1, InvBegin, InvNoAction
<1>2. CASE GenerateRunStopTime(d)
  <2>1. CASE Throw(d)
    BY <1>2, <2>1, InvThrow DEF GenerateRunStopTime
  <2>2. CASE ~Throw(d)
    <3>1. /\ pc[d] = "stamping"
          /\ pc' = [pc EXCEPT ![d] = "commanding"]
          /\ UNCHANGED <<fsm, inFSMTransition, event, todo, app, wdPc, wdTodo, seen,
                         disturbed>>
      BY <1>2, <2>2 DEF GenerateRunStopTime, Goto, watchdogVars
    <3>2. OneDriver' /\ Held' /\ Roles' /\ SeenHalted'
      BY <3>1 DEF TypeOK, Inv, OneDriver, Held, Roles, SeenHalted
    <3>3. ASSUME NEW a \in Apps \ disturbed' PROVE Following(a)'
      <4>1. Following(a) /\ event[d] = "Halt"
        BY <3>1, <3>3 DEF Inv, Roles
      <4>2. Stopped(a)' = Stopped(a)
        BY <3>1 DEF Stopped
      <4> QED
        BY <3>1, <4>1, <4>2 DEF TypeOK, Following, Settled
    <3> QED
      BY <3>2, <3>3 DEF Inv
  <2> QED
    BY <2>1, <2>2
<1>3. CASE CommandNext(d) \/ CommandFails(d)
  BY <1>3, InvCommanding
<1>4. CASE HaltFails(d)
  BY <1>4, InvThrow DEF HaltFails
<1>5. CASE Finish(d)
  <2>1. Target(event[d]) \in States
    BY Targets DEF TypeOK, Events, States
  <2>2. /\ Target(event[d]) = "Halted" => event[d] = "Halt"
        /\ Target(event[d]) = "Enabled" => event[d] = "Enable"
    BY Targets DEF TypeOK, Events
  <2>3. pc[d] = "commanding" /\ todo[d] = {}
    BY <1>5 DEF Finish
  <2>4. \A a \in Apps \ disturbed :
          /\ Target(event[d]) = "Halted" => Stopped(a)
          /\ Target(event[d]) = "Enabled" => app[a] = "Enabled"
    BY <2>2, <2>3 DEF Inv, Following
  <2> QED
    BY <1>5, <2>1, <2>3, <2>4, InvLeave DEF Finish
<1> QED
  BY <1>1, <1>2, <1>3, <1>4, <1>5 DEF Drive
-----------------------------------------------------------------------------
LEMMA InvReset ==
  ASSUME TypeOK, Inv, Reset \/ ResetNext \/ ResetFSM
  PROVE  Inv'
PROOF
<1> "request" \in Drivers
  BY DaqManagerAssumption DEF DaqManagerAssumption
<1>1. CASE Reset
  <2>1. /\ pc["request"] = "idle"
        /\ pc' = [pc EXCEPT !["request"] = "resetting"]
        /\ event' = [event EXCEPT !["request"] = "Halt"]
        /\ todo' = [todo EXCEPT !["request"] = Apps]
        /\ disturbed' = IF OthersIdle("request") THEN {} ELSE Apps
        /\ UNCHANGED <<fsm, inFSMTransition, app, wdPc, wdTodo, seen>>
    BY <1>1 DEF Reset, Goto, watchdogVars
  <2>2. OneDriver' /\ Held' /\ Roles' /\ SeenHalted'
    BY <2>1 DEF TypeOK, Inv, OneDriver, Held, Roles, SeenHalted, OthersIdle
  <2>3. ASSUME NEW a \in Apps \ disturbed' PROVE Following(a)'
    BY <2>1, <2>3 DEF TypeOK, Following, OthersIdle, Settled
  <2> QED
    BY <2>2, <2>3 DEF Inv
<1>2. CASE ResetNext
  <2>1. PICK a \in Apps :
          /\ pc["request"] = "resetting"
          /\ todo' = [todo EXCEPT !["request"] = @ \ {a}]
          /\ \/ Command(a, ResetCommand(a), FALSE)
             \/ ~Obeys(a, ResetCommand(a)) /\ UNCHANGED <<app, disturbed>>
          /\ UNCHANGED <<fsm, inFSMTransition, pc, event, wdPc, wdTodo, seen>>
    BY <1>2 DEF ResetNext, TypeOK, NextOf, Apps, watchdogVars
  <2>2. /\ \A b \in Apps \ {a} : app'[b] = app[b]
        /\ disturbed \subseteq disturbed'
        /\ app'[a] \notin {"Ready", "Enabled"}
    <3>1. CASE Command(a, ResetCommand(a), FALSE)
      <4>1. ResetCommand(a) \in {"Halt", "Reset"}
        BY DEF ResetCommand
      <4> QED
        BY <3>1, <4>1, CommandEffect DEF Events
    <3>2. CASE ~Obeys(a, ResetCommand(a)) /\ UNCHANGED <<app, disturbed>>
      BY <3>2, Obedience DEF ResetCommand
    <3> QED
      BY <2>1, <3>1, <3>2
  <2>3. disturbed' \subseteq Apps
    BY <1>2, TypesReset, DaqManagerAssumption DEF TypeOK
  <2>4. OneDriver' /\ Held' /\ Roles' /\ SeenHalted'
    BY <2>1, <2>2, <2>3 DEF TypeOK, Inv, OneDriver, Held, Roles, SeenHalted
  <2>5. ASSUME NEW b \in Apps \ disturbed' PROVE Following(b)'
    <3>1. Following(b) /\ \A o \in Drivers \ {"request"} : pc[o] = "idle"
      BY <2>1, <2>2, <2>5 DEF Inv, OneDriver
    <3> QED
      BY <2>1, <2>2, <2>5, <3>1 DEF TypeOK, Following, Settled
  <2> QED
    BY <2>4, <2>5 DEF Inv
<1>3. CASE ResetFSM
  <2>1. /\ pc["request"] = "resetting" /\ todo["request"] = {}
        /\ pc' = [pc EXCEPT !["request"] = "firing"]
        /\ UNCHANGED <<event, todo, app, wdPc, wdTodo, seen, disturbed>>
    BY <1>3 DEF ResetFSM, Goto, watchdogVars
  <2>2. OneDriver' /\ Held' /\ Roles' /\ SeenHalted'
    BY <2>1 DEF TypeOK, Inv, OneDriver, Held, Roles, SeenHalted
  <2>3. ASSUME NEW a \in Apps \ disturbed' PROVE Following(a)'
    <3>1. /\ app[a] \notin {"Ready", "Enabled"}
          /\ \A o \in Drivers \ {"request"} : pc[o] = "idle"
      BY <2>1, <2>3 DEF Inv, OneDriver, Following
    <3>2. Stopped(a)'
      BY <2>1, <3>1 DEF Stopped
    <3> QED
      BY <2>1, <3>1, <3>2 DEF TypeOK, Following, Settled
  <2> QED
    BY <2>2, <2>3 DEF Inv
<1> QED
  BY <1>1, <1>2, <1>3
-----------------------------------------------------------------------------
\* The watchdog looks for restarted applications only when no stopped one depends on it.
LEMMA InvTimeExpires ==
  ASSUME TypeOK, Inv, TimeExpires
  PROVE  Inv'
PROOF
<1>1. /\ ~inFSMTransition
      /\ fsm \in {"Configured", "Enabled"}
      /\ wdPc' \in {"patrol", "firstPatrol"}
      /\ UNCHANGED <<fsm, inFSMTransition, pc, event, todo, app, wdTodo, seen, disturbed>>
  BY DEF TimeExpires, driverVars
<1>2. OneDriver' /\ Held' /\ Roles' /\ SeenHalted'
  BY <1>1 DEF Inv, OneDriver, Held, Roles, SeenHalted
<1>3. ASSUME NEW a \in Apps \ disturbed' PROVE Following(a)'
  <2>1. Following(a) /\ \A d \in Drivers : pc[d] \notin {"stamping", "commanding"}
    BY <1>1, <1>3 DEF Inv, Held
  <2> QED
    BY <1>1, <2>1 DEF Following, Settled
<1> QED
  BY <1>2, <1>3 DEF Inv

\* What the watchdog looks at and what it is to command leaves stopped applications
\* alone.
LEMMA StoppedStays ==
  ASSUME TypeOK, SeenHalted, Patrol \/ Look, NEW a \in Apps, Stopped(a)
  PROVE  Stopped(a)'
PROOF
<1>1. CASE Patrol
  <2>1. PICK r \in Rounds :
          /\ wdPc = r.patrol
          /\ seen' = [b \in Apps |-> Seen(app[b])]
          /\ wdTodo' = AppsInState(IF r.act = "enable" THEN "Ready" ELSE "Halted")
          /\ wdPc' = IF wdTodo' = {} THEN r.next ELSE r.look
          /\ app' = app
    BY <1>1 DEF Patrol
  <2>2. app[a] = "Ready" /\ wdPc = "secondPatrol" => seen[a] # "Ready"
    BY DEF Stopped
  <2>3. app[a] = "Ready" /\ wdPc = "firstPatrol" => FALSE
    BY DEF Stopped
  <2>4. r.patrol = "secondPatrol" => a \notin wdTodo' \/ app[a] # "Ready"
    BY <2>1, <2>2 DEF Rounds, Round, AppsInState
  <2>5. r.patrol # "secondPatrol" => r.look # "lookSecond"
    BY DEF Rounds, Round
  <2> QED
    BY <2>1, <2>3, <2>4, <2>5 DEF Stopped, Rounds, Round
<1>2. CASE Look
  <2>1. PICK r \in Rounds :
          /\ wdPc = r.look
          /\ wdPc' = IF inFSMTransition THEN r.next ELSE r.act
          /\ wdTodo' = IF inFSMTransition THEN {} ELSE wdTodo
          /\ UNCHANGED <<app, seen>>
    BY <1>2 DEF Look
  <2> QED
    BY <2>1 DEF Stopped, Rounds, Round
<1> QED
  BY <1>1, <1>2

LEMMA InvPatrolLook ==
  ASSUME TypeOK, Inv, Patrol \/ Look
  PROVE  Inv'
PROOF
<1>1. UNCHANGED <<fsm, inFSMTransition, pc, event, todo, app, disturbed>>
  BY DEF Patrol, Look, driverVars
<1>2. OneDriver' /\ Held' /\ Roles'
  BY <1>1 DEF Inv, OneDriver, Held, Roles
<1>3. SeenHalted'
  <2>1. CASE Patrol
    <3>1. PICK r \in Rounds :
            /\ seen' = [b \in Apps |-> Seen(app[b])]
            /\ wdTodo' = AppsInState(IF r.act = "enable" THEN "Ready" ELSE "Halted")
            /\ wdPc' = IF wdTodo' = {} THEN r.next ELSE r.look
      BY <2>1 DEF Patrol
    <3>2. wdPc' = "lookFirst" => wdTodo' = AppsInState("Halted")
      BY <3>1 DEF Rounds, Round
    <3>3. wdPc' # "configureFirst"
      BY <3>1 DEF Rounds, Round
    <3> QED
      BY <3>1, <3>2, <3>3 DEF SeenHalted, AppsInState
  <2>2. CASE Look
    <3>1. PICK r \in Rounds :
            /\ wdPc = r.look
            /\ wdPc' = IF inFSMTransition THEN r.next ELSE r.act
            /\ wdTodo' = IF inFSMTransition THEN {} ELSE wdTodo
            /\ seen' = seen
      BY <2>2 DEF Look
    <3> QED
      BY <3>1 DEF Inv, SeenHalted, Rounds, Round
  <2> QED
    BY <2>1, <2>2
<1>4. ASSUME NEW a \in Apps \ disturbed' PROVE Following(a)'
  <2>1. Following(a)
    BY <1>1, <1>4 DEF Inv
  <2>2. Stopped(a) => Stopped(a)'
    BY StoppedStays DEF Inv
  <2> QED
    BY <1>1, <2>1, <2>2 DEF Following, Settled
<1> QED
  BY <1>2, <1>3, <1>4 DEF Inv

\* The watchdog does not enable what is stopped, and does not configure what runs.
LEMMA InvWatchdogSends ==
  ASSUME TypeOK, Inv, WatchdogSends
  PROVE  Inv'
PROOF
<1>1. PICK r \in Rounds, a \in wdTodo :
        LET c == IF r.act = "enable" THEN "Enable" ELSE "Configure" IN
        /\ wdPc = r.act
        /\ \/ /\ Command(a, c, pc["request"] = "resetting")
              /\ wdTodo' = wdTodo \ {a}
              /\ wdPc' = IF wdTodo' = {} THEN r.next ELSE wdPc
           \/ /\ wdPc' = "idle"
              /\ wdTodo' = {}
              /\ UNCHANGED <<app, disturbed>>
        /\ UNCHANGED <<fsm, inFSMTransition, pc, event, todo, seen>>
  BY DEF WatchdogSends, driverVars
<1>2. a \in Apps /\ r.act \in {"configure", "configureFirst", "enable"}
      /\ r.next \in {"idle", "secondPatrol"} /\ (r.next = "secondPatrol" => r.act = "configureFirst")
  BY <1>1 DEF TypeOK, Rounds, Round
<1>3. disturbed \subseteq disturbed'
  BY <1>1, <1>2, CommandEffect DEF Events
<1>4. disturbed' \subseteq Apps
  BY TypesWatchdog, DaqManagerAssumption DEF Watchdog, TypeOK
<1>5. OneDriver' /\ Held' /\ Roles'
  BY <1>1, <1>3, <1>4 DEF TypeOK, Inv, OneDriver, Held, Roles
<1>6. SeenHalted'
  BY <1>1, <1>2 DEF Inv, SeenHalted
<1>7. ASSUME NEW b \in Apps \ disturbed' PROVE Following(b)'
  <2>1. Following(b)
    BY <1>3, <1>7 DEF Inv
  <2>2. CASE UNCHANGED <<app, disturbed>> /\ wdPc' = "idle"
    <3>1. Stopped(b) => Stopped(b)'
      BY <2>2 DEF Stopped
    <3> QED
      BY <1>1, <2>1, <2>2, <3>1 DEF Following, Settled
  <2>3. CASE Command(a, IF r.act = "enable" THEN "Enable" ELSE "Configure",
                     pc["request"] = "resetting")
             /\ wdTodo' = wdTodo \ {a} /\ wdPc' = IF wdTodo' = {} THEN r.next ELSE wdPc
    <3>1. /\ b # a => app'[b] = app[b]
          /\ b = a => /\ pc["request"] # "resetting"
                      /\ r.act = "enable" => /\ app[b] \in {"Ready", "Enabled"}
                                             /\ app'[b] = "Enabled"
                      /\ r.act # "enable" => /\ app[b] \in {"Halted", "Ready"}
                                             /\ app'[b] = "Ready"
      <4>1. CASE r.act = "enable"
        <5>1. Command(a, "Enable", pc["request"] = "resetting")
          BY <2>3, <4>1
        <5>2. Obeys(a, "Enable") /\ (\A x \in Apps \ {a} : app'[x] = app[x])
          BY <1>2, <5>1, CommandEffect DEF Events
        <5>3. /\ pc["request"] = "resetting" => a \in disturbed'
              /\ a \notin disturbed' => app'[a] = "Enabled"
          BY <1>2, <5>1, CommandEffect DEF Events
        <5>4. app[a] \in {"Ready", "Enabled"}
          BY <1>2, <5>2, Obedience
        <5> QED
          BY <1>7, <4>1, <5>2, <5>3, <5>4
      <4>2. CASE r.act # "enable"
        <5>1. Command(a, "Configure", pc["request"] = "resetting")
          BY <2>3, <4>2
        <5>2. Obeys(a, "Configure") /\ (\A x \in Apps \ {a} : app'[x] = app[x])
          BY <1>2, <5>1, CommandEffect DEF Events
        <5>3. /\ pc["request"] = "resetting" => a \in disturbed'
              /\ a \notin disturbed' => app'[a] = "Ready"
          BY <1>2, <5>1, CommandEffect DEF Events
        <5>4. app[a] \in {"Halted", "Ready"}
          BY <1>2, <5>2, Obedience
        <5> QED
          BY <1>7, <4>2, <5>2, <5>3, <5>4
      <4> QED
        BY <4>1, <4>2
    <3>2. Stopped(b) => Stopped(b)'
      BY <1>1, <1>2, <2>3, <3>1 DEF Inv, SeenHalted, Stopped
    <3>3. app[b] = "Enabled" => app'[b] = "Enabled"
      BY <3>1
    <3>4. \A d \in Drivers : pc[d] = "resetting" => b # a
      BY <3>1 DEF Inv, Roles
    <3> QED
      BY <1>1, <2>1, <3>1, <3>2, <3>3, <3>4 DEF Following, Settled
  <2> QED
    BY <1>1, <2>2, <2>3
<1> QED
  BY <1>5, <1>6, <1>7 DEF Inv
-----------------------------------------------------------------------------
LEMMA InvFaults ==
  ASSUME TypeOK, Inv, ManagerRestarts \/ \E a \in Apps : AppFails(a) \/ AppRestarts(a)
  PROVE  Inv'
PROOF
<1>1. ASSUME NEW a \in Apps, AppFails(a) \/ AppRestarts(a) PROVE Inv'
  <2>1. /\ \A b \in Apps \ {a} : app'[b] = app[b]
        /\ UNCHANGED <<fsm, inFSMTransition, pc, event, todo, wdPc, wdTodo, seen>>
        /\ disturbed \subseteq disturbed' /\ disturbed' \subseteq Apps
        /\ a \notin disturbed' => app[a] = "UNKNOWN" /\ app'[a] = "Halted"
    BY <1>1 DEF AppFails, AppRestarts, TypeOK, driverVars, watchdogVars
  <2>2. OneDriver' /\ Held' /\ Roles' /\ SeenHalted'
    BY <2>1 DEF Inv, OneDriver, Held, Roles, SeenHalted
  <2>3. ASSUME NEW b \in Apps \ disturbed' PROVE Following(b)'
    <3>1. Following(b)
      BY <2>1, <2>3 DEF Inv
    <3>2. Stopped(b) => Stopped(b)'
      BY <2>1, <2>3 DEF Stopped
    <3> QED
      BY <2>1, <2>3, <3>1, <3>2 DEF Following, Settled
  <2> QED
    BY <2>2, <2>3 DEF Inv
<1>2. CASE ManagerRestarts
  <2>1. /\ fsm' = "Halted" => disturbed' = Apps
        /\ fsm' = "Enabled" => StateOf(CombinedState) = "Enabled"
        /\ pc' = [d \in Drivers |-> "idle"]
        /\ wdPc' = "idle" /\ app' = app
    BY <1>2 DEF ManagerRestarts
  <2>2. StateOf(CombinedState) = "Enabled" => \A a \in Apps : app[a] = "Enabled"
    <3>1. StateOf(CombinedState) = "Enabled" => CombinedState = "Enabled"
      BY DEF StateOf
    <3>2. CombinedState = "Enabled" =>
            app[TA] = "Enabled" /\ \E s \in AppStates : \A a \in Apps : app[a] = s
      BY DEF CombinedState
    <3> QED
      BY <3>1, <3>2 DEF Apps
  <2>3. OneDriver' /\ Held' /\ Roles' /\ SeenHalted'
    BY <2>1 DEF OneDriver, Held, Roles, SeenHalted
  <2>4. ASSUME NEW a \in Apps \ disturbed' PROVE Following(a)'
    BY <2>1, <2>2, <2>4 DEF Following
  <2> QED
    BY <2>3, <2>4 DEF Inv
<1> QED
  BY <1>1, <1>2

LEMMA InvNext ==
  ASSUME IInv, [Next]_vars
  PROVE  IInv'
PROOF
<1>1. TypeOK /\ Inv
  BY DEF IInv
<1>2. TypeOK'
  BY <1>1, TypesNext, DaqManagerAssumption
<1>3. CASE Next
  <2>1. CASE \E d \in Drivers : Drive(d)
    BY <1>1, <1>2, <2>1, InvDriver DEF IInv
  <2>2. CASE Reset \/ ResetNext \/ ResetFSM
    BY <1>1, <1>2, <2>2, InvReset DEF IInv
  <2>3. CASE Watchdog
    BY <1>1, <1>2, <2>3, InvTimeExpires, InvPatrolLook, InvWatchdogSends DEF Watchdog, IInv
  <2>4. CASE ManagerRestarts \/ \E a \in Apps : AppFails(a) \/ AppRestarts(a)
    BY <1>1, <1>2, <2>4, InvFaults DEF IInv
  <2> QED
    BY <1>3, <2>1, <2>2, <2>3, <2>4 DEF Next
<1>4. CASE UNCHANGED vars
  BY <1>1, <1>2, <1>4 DEF vars, driverVars, watchdogVars, IInv, Inv, OneDriver, Held, Roles,
     SeenHalted, Following, Stopped, Settled
<1> QED
  BY <1>3, <1>4

\* AppsFollow: whatever the work loop, requests, Reset and the watchdog do to each other,
\* an application that was not disturbed runs behind a manager that is Enabled and does
\* not behind one that is Halted.
THEOREM Follow == Spec => []AppsFollow
PROOF
<1>1. Init => IInv
  BY TypesInit, InvInit, DaqManagerAssumption DEF IInv
<1>2. IInv /\ [Next]_vars => IInv'
  BY InvNext
<1>3. IInv => AppsFollow
  BY DEF IInv, Inv, AppsFollow, Following, Stopped, Settled
<1> QED
  BY <1>1, <1>2, <1>3, PTL DEF Spec
=============================================================================
