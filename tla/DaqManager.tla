----------------------------- MODULE DaqManager ------------------------------
(***************************************************************************)
(* emu::daq::manager::Application drives the local DAQ: one trigger        *)
(* adapter (TA) and the readout units (RUIs), event building being off.    *)
(*                                                                         *)
(*  - "loop" is the thread of workLoop_.  The SOAP handlers of Configure,  *)
(*    Enable and Halt submit to it in any order and at any time, so what   *)
(*    it finds next may be any of them.                                    *)
(*  - "request" is the thread of the Reset message and of the web page,    *)
(*    which fires the state machine itself.  Nothing keeps the two apart.  *)
(*  - The watchdog runs in a thread of a timer.  It commands applications  *)
(*    that were restarted.                                                 *)
(*                                                                         *)
(* Each command is a SOAP message and its reply: one step.  It fails if    *)
(* the application cannot be reached or its state machine has no such      *)
(* transition; an action that fails in the application does not fail the   *)
(* command, its state machine goes to Failed by itself.                    *)
(***************************************************************************)
EXTENDS Integers, FiniteSets

CONSTANTS TA, RUIs,    \* the applications
          Drivers,     \* the threads that drive the manager
          Requests,    \* what the request thread is asked for
          MaxFaults    \* bound on crashes of applications and of the manager

ASSUME DaqManagerAssumption ==
  /\ TA \notin RUIs
  /\ "request" \in Drivers
  /\ Drivers \subseteq {"loop", "request"}
  /\ Requests \subseteq {"Configure", "Enable", "Halt", "Reset"}
  /\ MaxFaults \in Nat

VARIABLES fsm,               \* the state of the manager's FSM
          initialState,      \* the state fsm_.reset() leads to
          inFSMTransition,
          pc, event,         \* of each driver: where it is, what it fired
          todo,              \* and the applications it is still to command
          haltFailed,        \* some RUI did not obey Halt
          app,               \* the states of the applications
          wdPc, wdTodo,      \* the watchdog, and the applications it is to command
          seen,              \* what it saw in its last patrol
          disturbed,         \* history: what crashed, failed or was commanded from
                             \* two sides since the last undisturbed command began
          nFaults

driverVars == <<pc, event, todo, haltFailed>>
watchdogVars == <<wdPc, wdTodo, seen>>
vars == <<fsm, initialState, inFSMTransition, driverVars, app, watchdogVars,
          disturbed, nFaults>>

Apps == RUIs \cup {TA}

Events == {"Configure", "Enable", "Halt"}

States == {"Halted", "Configured", "Enabled", "Failed"}

\* Of a crashed application, nobody knows the state.
AppStates == {"Halted", "Ready", "Enabled", "Failed", "UNKNOWN"}

\* The transitions of the manager that do something.
Transition ==
  {[from |-> "Halted",     input |-> "Configure", to |-> "Configured"],
   [from |-> "Configured", input |-> "Enable",    to |-> "Enabled"],
   [from |-> "Configured", input |-> "Halt",      to |-> "Halted"],
   [from |-> "Enabled",    input |-> "Halt",      to |-> "Halted"]}

\* What the actions of these lead to.
Target(e) == CHOOSE s \in States : \E t \in Transition : t.input = e /\ t.to = s

\* Those of the TA and the RUIs, and Reset, which their handlers obey in any state.
AppTransition ==
  {[from |-> "Halted",  input |-> "Configure", to |-> "Ready"],
   [from |-> "Ready",   input |-> "Configure", to |-> "Ready"],
   [from |-> "Ready",   input |-> "Enable",    to |-> "Enabled"],
   [from |-> "Enabled", input |-> "Enable",    to |-> "Enabled"]}
  \cup [from : {"Halted", "Ready", "Enabled"}, input : {"Halt"}, to : {"Halted"}]
  \cup [from : AppStates \ {"UNKNOWN"}, input : {"Reset"}, to : {"Halted"}]

\* The application a can be commanded c.
Obeys(a, c) == \E t \in AppTransition : t.from = app[a] /\ t.input = c

\* The states it may be in then.  The actions of Configure and Enable may fail.
After(a, c) ==
  {t.to : t \in {u \in AppTransition : u.from = app[a] /\ u.input = c}}
  \cup IF a \in RUIs /\ c \in {"Configure", "Enable"} /\ nFaults < MaxFaults
       THEN {"Failed"} ELSE {}

\* The command c is sent to a, which obeys; it is disturbed if somebody else is at it.
Command(a, c, disturbing) ==
  \E s \in After(a, c) :
    /\ Obeys(a, c)
    /\ app' = [app EXCEPT ![a] = s]
    /\ disturbed' = IF disturbing \/ s = "Failed" THEN disturbed \cup {a} ELSE disturbed
    /\ nFaults' = IF s = "Failed" THEN nFaults + 1 ELSE nFaults

\* Which of the applications S come next: TA first to be started, last to be stopped.
NextOf(e, S) ==
  IF e \in {"Configure", "Enable"} /\ TA \in S THEN {TA}
  ELSE IF S \cap RUIs # {} THEN S \cap RUIs ELSE S

Goto(d, label) == pc' = [pc EXCEPT ![d] = label]

\* fireEvent returns.
Return(d) ==
  /\ Goto(d, "idle")
  /\ event' = [event EXCEPT ![d] = "Halt"]
  /\ todo' = [todo EXCEPT ![d] = {}]
  /\ haltFailed' = [haltFailed EXCEPT ![d] = FALSE]

OthersIdle(d) == \A o \in Drivers \ {d} : pc[o] = "idle"

Init ==
  /\ fsm = "Halted"
  /\ initialState = "Halted"
  /\ inFSMTransition = FALSE
  /\ pc = [d \in Drivers |-> "idle"]
  /\ event = [d \in Drivers |-> "Halt"]
  /\ todo = [d \in Drivers |-> {}]
  /\ haltFailed = [d \in Drivers |-> FALSE]
  /\ app = [a \in Apps |-> "Halted"]
  /\ wdPc = "idle"
  /\ wdTodo = {}
  /\ seen = [a \in Apps |-> "other"]
  /\ disturbed = {}
  /\ nFaults = 0
-----------------------------------------------------------------------------
(* Transitions of the manager *)

\* d fires the event e: the thread of workLoop_ (configureActionInWorkLoop and its like),
\* the web page (commandWebPage), or onReset at its end.
Fires(d, e) ==
  \/ pc[d] = "idle" /\ (d = "loop" \/ e \in Requests)
  \/ pc[d] = "firing" /\ e = "Halt"

\* The action of a transition is entered.
Begin(d, e) ==
  /\ Fires(d, e)
  /\ \E t \in Transition : t.from = fsm /\ t.input = e
  /\ event' = [event EXCEPT ![d] = e]
  /\ inFSMTransition' = TRUE
  /\ todo' = [todo EXCEPT ![d] = Apps]
  /\ disturbed' = IF OthersIdle(d) THEN {} ELSE Apps
  /\ Goto(d, IF e = "Halt" THEN "stamping" ELSE "commanding")
  /\ UNCHANGED <<fsm, initialState, haltFailed, app, watchdogVars, nFaults>>

\* noAction, or no transition at all, which throws.
NoAction(d, e) ==
  /\ Fires(d, e)
  /\ ~\E t \in Transition : t.from = fsm /\ t.input = e
  /\ Return(d)
  /\ UNCHANGED <<fsm, initialState, inFSMTransition, app, watchdogVars, disturbed,
                 nFaults>>

\* The action returns or throws, and fireEvent changes the state.  inFSMTransition_ is
\* cleared a moment earlier, which a timer of 30 seconds does not meet twice.
Leave(d, s) ==
  /\ inFSMTransition' = FALSE
  /\ fsm' = s
  /\ Return(d)
  /\ UNCHANGED <<initialState, app, watchdogVars, disturbed, nFaults>>

Throw(d) == Leave(d, "Failed")

\* stopDAQ has the TA generate the run's stop time before anything stops.
GenerateRunStopTime(d) ==
  /\ pc[d] = "stamping"
  /\ IF app[TA] = "UNKNOWN"
     THEN Throw(d)
     ELSE /\ Goto(d, "commanding")
          /\ UNCHANGED <<fsm, initialState, inFSMTransition, event, todo,
                         haltFailed, app, watchdogVars, disturbed, nFaults>>

\* configureDAQ, startDAQ and stopDAQ command one application after the other.
CommandNext(d) ==
  /\ pc[d] = "commanding"
  /\ \E a \in NextOf(event[d], todo[d]) :
       /\ ~(haltFailed[d] /\ a = TA)
       /\ Command(a, event[d], FALSE)
       /\ todo' = [todo EXCEPT ![d] = @ \ {a}]
  /\ UNCHANGED <<fsm, initialState, inFSMTransition, pc, event, haltFailed,
                 watchdogVars>>

\* Mutated form: a command that fails does not fail the transition.
CommandFailsUnnoticed(d) ==
  /\ pc[d] = "commanding"
  /\ \E a \in NextOf(event[d], todo[d]) :
       /\ ~Obeys(a, event[d])
       /\ todo' = [todo EXCEPT ![d] = @ \ {a}]
  /\ UNCHANGED <<fsm, initialState, inFSMTransition, pc, event, haltFailed,
                 app, watchdogVars, disturbed, nFaults>>

\* One of them does not obey.  Only stopFedBuilder goes on to the other RUIs first.
CommandFails(d) ==
  /\ pc[d] = "commanding"
  /\ \E a \in NextOf(event[d], todo[d]) :
       /\ ~Obeys(a, event[d])
       /\ IF event[d] = "Halt" /\ a \in RUIs
          THEN /\ todo' = [todo EXCEPT ![d] = @ \ {a}]
               /\ haltFailed' = [haltFailed EXCEPT ![d] = TRUE]
               /\ UNCHANGED <<fsm, initialState, inFSMTransition, pc, event,
                              app, watchdogVars, disturbed, nFaults>>
          ELSE Throw(d)

\* stopFedBuilder throws once every RUI has been told, and the TA is not.
HaltFails(d) ==
  /\ pc[d] = "commanding"
  /\ haltFailed[d]
  /\ todo[d] \cap RUIs = {}
  /\ Throw(d)

\* The action has done all it had to.
Finish(d) ==
  /\ pc[d] = "commanding"
  /\ todo[d] = {}
  /\ ~haltFailed[d]
  /\ Leave(d, Target(event[d]))
-----------------------------------------------------------------------------
(* Reset *)

\* onReset, and the button of the web page: resetDAQ first.
Reset ==
  /\ pc["request"] = "idle"
  /\ "Reset" \in Requests
  /\ event' = [event EXCEPT !["request"] = "Halt"]
  /\ todo' = [todo EXCEPT !["request"] = Apps]
  /\ disturbed' = IF OthersIdle("request") THEN {} ELSE Apps
  /\ Goto("request", "resetting")
  /\ UNCHANGED <<fsm, initialState, inFSMTransition, haltFailed, app,
                 watchdogVars, nFaults>>

ResetCommand(a) == IF a = TA THEN "Halt" ELSE "Reset"

\* resetDAQ: the RUIs are reset and the TA is halted; who does not obey is passed over.
ResetNext ==
  /\ pc["request"] = "resetting"
  /\ \E a \in NextOf("Halt", todo["request"]) :
       /\ todo' = [todo EXCEPT !["request"] = @ \ {a}]
       /\ \/ Command(a, ResetCommand(a), FALSE)
          \/ ~Obeys(a, ResetCommand(a)) /\ UNCHANGED <<app, disturbed, nFaults>>
  /\ UNCHANGED <<fsm, initialState, inFSMTransition, pc, event, haltFailed,
                 watchdogVars>>

\* The FSM is reset, whatever the other thread is doing, and Halt is fired.
ResetFSM ==
  /\ pc["request"] = "resetting"
  /\ todo["request"] = {}
  /\ inFSMTransition' = FALSE
  /\ fsm' = initialState
  /\ Goto("request", "firing")
  /\ UNCHANGED <<initialState, event, todo, haltFailed, app, watchdogVars,
                 disturbed, nFaults>>
-----------------------------------------------------------------------------
(* The watchdog: timeExpired *)

\* Every 30 seconds, but never while the manager is seen in a transition.
TimeExpires ==
  /\ wdPc = "idle"
  /\ ~inFSMTransition
  /\ fsm \in {"Configured", "Enabled"}
  /\ wdPc' = IF fsm = "Configured" THEN "patrol" ELSE "firstPatrol"
  /\ UNCHANGED <<fsm, initialState, inFSMTransition, driverVars, app, wdTodo, seen,
                 disturbed, nFaults>>

\* The watchdog asks for these two states only; a RUI's word for Configured is Ready.
Seen(s) == IF s \in {"Halted", "Ready"} THEN s ELSE "other"

\* Mutated form: restarted applications are looked for only if all are in one state.
AppsInStateTogether(s) ==
  {a \in Apps : seen[a] = s /\ \A b \in Apps : Seen(app[b]) = s}

\* Watchdog::getAppsInStates after a patrol: those in the state for two patrols.
AppsInState(s) == {a \in Apps : seen[a] = s /\ Seen(app[a]) = s}

\* What follows a patrol, and what comes of it.
Round(patrol, look, act, next) ==
  [patrol |-> patrol, look |-> look, act |-> act, next |-> next]

Rounds ==
  {Round("patrol", "look", "configure", "idle"),
   Round("firstPatrol", "lookFirst", "configureFirst", "secondPatrol"),
   Round("secondPatrol", "lookSecond", "enable", "idle")}

\* Watchdog::patrol.  Before the first one, nothing is known of any state.
Patrol ==
  \E r \in Rounds :
    /\ wdPc = r.patrol
    /\ seen' = [a \in Apps |-> Seen(app[a])]
    /\ wdTodo' = AppsInState(IF r.act = "enable" THEN "Ready" ELSE "Halted")
    /\ wdPc' = IF wdTodo' = {} THEN r.next ELSE r.look
    /\ UNCHANGED <<fsm, initialState, inFSMTransition, driverVars, app, disturbed,
                   nFaults>>

\* Nothing is done about them in a transition.
Look ==
  \E r \in Rounds :
    /\ wdPc = r.look
    /\ wdPc' = IF inFSMTransition THEN r.next ELSE r.act
    /\ wdTodo' = IF inFSMTransition THEN {} ELSE wdTodo
    /\ UNCHANGED <<fsm, initialState, inFSMTransition, driverVars, app, seen,
                   disturbed, nFaults>>

\* configureRestartedApps and enableRestartedApps.  A failure ends the whole round.
WatchdogSends ==
  \E r \in Rounds, a \in wdTodo :
    LET c == IF r.act = "enable" THEN "Enable" ELSE "Configure" IN
    /\ wdPc = r.act
    /\ a \in NextOf(c, wdTodo)
    /\ \/ /\ Command(a, c, pc["request"] = "resetting")
          /\ wdTodo' = wdTodo \ {a}
          /\ wdPc' = IF wdTodo' = {} THEN r.next ELSE wdPc
       \/ /\ ~Obeys(a, c)
          /\ wdPc' = "idle"
          /\ wdTodo' = {}
          /\ UNCHANGED <<app, disturbed, nFaults>>
    /\ UNCHANGED <<fsm, initialState, inFSMTransition, driverVars, seen>>
-----------------------------------------------------------------------------
(* Faults *)

\* An application crashes, or fails by itself.
AppFails(a) ==
  /\ nFaults < MaxFaults
  /\ app[a] # "UNKNOWN"
  /\ \E s \in {"UNKNOWN"} \cup (IF a \in RUIs THEN {"Failed"} ELSE {}) :
       app' = [app EXCEPT ![a] = s]
  /\ disturbed' = disturbed \cup {a}
  /\ nFaults' = nFaults + 1
  /\ UNCHANGED <<fsm, initialState, inFSMTransition, driverVars, watchdogVars>>

\* It is restarted by the job control.
AppRestarts(a) ==
  /\ app[a] = "UNKNOWN"
  /\ app' = [app EXCEPT ![a] = "Halted"]
  /\ UNCHANGED <<fsm, initialState, inFSMTransition, driverVars, watchdogVars,
                 disturbed, nFaults>>

\* AppStates::getCombinedState, as far as the states agree.
CombinedState ==
  IF \E s \in AppStates : \A a \in Apps : app[a] = s THEN app[TA] ELSE "INDEFINITE"

\* Mutated form: any other combination is taken for a state of the manager.
StateOfAsReported(combined) == IF combined = "Ready" THEN "Configured" ELSE combined

StateOf(combined) ==
  CASE combined = "Ready"   -> "Configured"
    [] combined = "Enabled" -> "Enabled"
    [] OTHER                -> "Halted"

\* The manager crashes and is restarted: Application::Application.  It asks for the
\* states unless timeOfUpdate_, which nobody has set yet, happens to be a recent time.
ManagerRestarts ==
  /\ nFaults < MaxFaults
  /\ nFaults' = nFaults + 1
  /\ \E asked \in BOOLEAN :
       /\ initialState' = IF asked THEN StateOf(CombinedState) ELSE "Halted"
       /\ disturbed' = IF initialState' = "Halted" THEN Apps ELSE {}
  /\ fsm' = initialState'
  /\ inFSMTransition' = FALSE
  /\ pc' = [d \in Drivers |-> "idle"]
  /\ event' = [d \in Drivers |-> "Halt"]
  /\ todo' = [d \in Drivers |-> {}]
  /\ haltFailed' = [d \in Drivers |-> FALSE]
  /\ wdPc' = "idle"
  /\ wdTodo' = {}
  /\ seen' = [a \in Apps |-> "other"]
  /\ UNCHANGED app
-----------------------------------------------------------------------------
Drive(d) ==
  \/ \E e \in Events : Begin(d, e) \/ NoAction(d, e)
  \/ GenerateRunStopTime(d) \/ CommandNext(d) \/ CommandFails(d)
  \/ HaltFails(d) \/ Finish(d)

Watchdog == TimeExpires \/ Patrol \/ Look \/ WatchdogSends

Next ==
  \/ \E d \in Drivers : Drive(d)
  \/ Reset \/ ResetNext \/ ResetFSM
  \/ Watchdog
  \/ \E a \in Apps : AppFails(a) \/ AppRestarts(a)
  \/ ManagerRestarts

Spec == Init /\ [][Next]_vars

\* The timer goes on, and its thread does not stop.
FairSpec == Spec /\ WF_vars(Watchdog)
-----------------------------------------------------------------------------
\* Nobody is driving the manager.
Settled == \A d \in Drivers : pc[d] = "idle"

\* Every variable has its type.
TypeOK ==
  /\ fsm \in States
  /\ initialState \in States \ {"Failed"}
  /\ inFSMTransition \in BOOLEAN
  /\ pc \in [Drivers -> {"idle", "firing", "stamping", "commanding", "resetting"}]
  /\ event \in [Drivers -> Events]
  /\ todo \in [Drivers -> SUBSET Apps]
  /\ haltFailed \in [Drivers -> BOOLEAN]
  /\ app \in [Apps -> AppStates]
  /\ wdPc \in {"idle"} \cup UNION {{r.patrol, r.look, r.act} : r \in Rounds}
  /\ wdTodo \subseteq Apps
  /\ seen \in [Apps -> {"Halted", "Ready", "other"}]
  /\ disturbed \subseteq Apps
  /\ nFaults \in 0 .. MaxFaults

\* configureAction to haltAction, with the watchdog and Reset in other threads: when
\* nobody drives the manager, an application that was not disturbed runs if the
\* manager is Enabled and does not if it is Halted.
AppsFollow ==
  Settled =>
    \A a \in Apps \ disturbed :
      /\ fsm = "Enabled" => app[a] = "Enabled"
      /\ fsm = "Halted"  => app[a] # "Enabled"

\* The watchdog's own words: "herd them back to the proper FSM state".  An application
\* that has come back does not stay behind a manager that nobody drives any more.
HerdedBack ==
  \A a \in Apps :
    /\ <>[](Settled /\ fsm = "Configured") => []<>(app[a] # "Halted")
    /\ <>[](Settled /\ fsm = "Enabled")    => []<>(app[a] \notin {"Halted", "Ready"})

\* timeExpired: "Hold back the watchdog while daq::manager is in state transitions",
\* or it herds applications where they do not belong: with one driver and nothing
\* failing, none runs behind a manager that is Halted and driven by nobody.
HeldBack == Settled /\ fsm = "Halted" => \A a \in Apps : app[a] # "Enabled"
=============================================================================
