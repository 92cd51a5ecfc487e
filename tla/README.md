# EmuLib: the CSC endcap muon system's online software in TLA+

This directory holds TLA+ modules for the core of the repository's data acquisition, the
TLC configurations that check them on small instances, and proofs that TLAPS checks for
every value of the constants. `PROJECT.json` maps each definition to the lines it models
and names the mutated form that each checked property catches.

## 1. The system

The repository (`src/TriDAS/emu`) steers and reads out the cathode strip chambers of CMS.
Its processes are XDAQ applications: each answers SOAP commands and I2O messages in
threads of the framework, runs work loops of its own, and has a finite state machine
(mostly Halted, Ready, Enabled, Failed).

    Level-1 function manager --SOAP--> Supervisor --SOAP--> DAQ manager, crate managers, TTC/LTC
                                                               |
          DAQ manager --SOAP--> TA, EVM, RUI (one per DDU or DCC), BU, FU; watchdog
                                                               |
    hardware -> device reader -> RUI --I2O--> RU (event builder) -> BU -> FU
                                  |---> data file (all events, or bad ones with context)
                                  `---> clients (DQM, displays) over I2O or SOAP, for credits

### Inventory

| Component | State it keeps | Operations | How it interacts | What is hard | What makes it correct |
|---|---|---|---|---|---|
| **RUI**: bad event buffering (`daq/rui` EventBufferRing, Ring, EventBuffer, BadEventCount) | ring of event buffers, counters since and of bad events, the limiter's verdict | Configure, write a block with context | called from the readout for each block | the ring grows between runs; an event may pass from buffered to direct writing in its middle | blocks in the file once, in order, without holes; context sizes as configured |
| **RUI**: super-fragments | deque of blocks, event numbers, "pending" flag, memory pool | read a block, finalise, send next block, Halt | device reader in, RU out (I2O), pool shared with the peer transport | events without header or trailer, wrap-around of the event number, pool limit; what is held at a Halt, which discards it, and at a failure or Reset, which does not | the RU gets whole super-fragments with contiguous numbers |
| **RUI**: threads | FSM, `applicationBSem_`, work loop flags | FSM commands, Reset, readout pass, credit messages, failures | shared memory between the framework's threads and the work loops | every path must give the semaphore once, exceptions included; resubmission of the work loop's action | mutual exclusion, no lost semaphore, the readout of an enabled run goes on |
| **Data servers** (`daq/server` Base, I2O, SOAP) | queue of messages, credits, prescaling factor, event counter | add block, mark end, send, add credits | the RUI (and FU) adds blocks, the client grants credits, a post may fail | the decision is taken per block, the end of an event may be known later than its last block | a credit per event; events in order, not mixed unless prescaled, and in the end delivered |
| **Device readers** (`daq/reader`) | file or driver position, ring shared with the driver | enable, read next event | hardware, RUI | ring overrun by the driver | blocks of the ring are read once, overruns flagged |
| **Writers** (`daq/writer`) | open file, event counts, rate per second | start event, write, veto | RUI | file split between events | files split only between events, rate held |
| **TA** (`daq/ta`) | run number, start and stop time, trigger credits | FSM commands, credits from EVM | DAQ manager, EVM, RUI (asks for times) | commands against generated triggers | triggers never exceed credits |
| **FU** (`daq/fu`) | super-fragments under assembly, servers | FSM commands, take messages, discard | BU in, clients out | chains of blocks, resources returned to the BU | each event returned exactly once |
| **DAQ manager** (`daq/manager`, Watchdog, AppStates) | FSM, states of all applications, flags of the run | FSM commands, polling, patrol of the watchdog | SOAP to all DAQ applications, run database | check-then-act between timer thread and transitions; combined state computed from stale states | no command to an application in the wrong state; the combined state says what is documented |
| **Supervisor** (`supervisor`) | FSM, calibration parameters and counters, state table | web and SOAP commands, calibration work loop, refresh of the table | SOAP to everything below | web, SOAP and work loop threads fire the FSM concurrently; a Halt racing the calibration sequence | a Halt ends the sequence; the table's semaphore balanced |
| **STEP** (`step` Manager, Tester; `rui` STEPEventCounter) | test plan, state of testers, events per input | configure, enable, halt, test done | SOAP, RUI | testers finishing at different times | a test ends when every input has its events |
| **Farmer** (`farmer`) | table of processes | start, kill, poll | job control daemons | polling against commands | a command reaches each process once |
| **FED crates: interrupt threads** (`emuDCS/FEDApps` IRQThreadManager, IRQData) | per crate: errors last seen, count of chambers in error; shared: counts, errors of two resets back, barrier | start, wait for interrupts, count, release the FMMs, start anew, end | VME; Communicator's actions start and end them | threads count while others clear; barrier met by threads that start anew, die or are cancelled | the FMMs are released when the threshold is reached and for no less; the threads can be ended |
| **FED crates: the rest** (Communicator, Manager) | FSM, crate configuration | FSM commands, FMM reset | VME, Supervisor, threads | configuration over VME may fail anywhere | crates configured before they are enabled |
| **Peripheral crates** (`emuDCS/PeripheralApps`, `PeripheralCore`, `odmbdev`, `me11dev`) | hardware registers | configuration, scans, firmware | VME | effect is in the hardware | not in reach of a model |
| **DQM, displays** (`dqm`, `web_csc_display`, `fast_daq`) | histograms | unpack, fill, draw | data servers' clients | data transformation | not modelled |
| **SOAP toolbox, base** (`soap`, `base`) | none, or facts for the expert system | compose, send | all | - | not modelled |
| **Drivers** (`drivers`) | kernel ring buffers | interrupts, mmap | hardware | kernel code | not modelled |
| **Level-1 FM** (`cscLevelOneFM`, Java) | FSM of run control | event handlers | Supervisor | - | later |

`src/xdaq` holds headers of the framework (FSM engine, work loops, semaphore, memory
pools). They are the environment of the models, taken from how the code uses them.

The hazards, each with its line and with the properties that would show it going wrong,
are listed in `PROJECT.json`.

## 2. The modules

| Module | Models | Composed of |
|---|---|---|
| `EventBufferRing` | the ring of event buffers, as operators | |
| `BadEventContext` | `writeDataWithContextToFile` over a readout of arbitrary blocks, runs following each other | extends `EventBufferRing` |
| `BadEventContextProofs` | theorems `Types`, `RingStaysInOrder`, `FileStaysInOrder`, `WindowsHaveNoHoles`, `NoTails` | extends `BadEventContext` |
| `SuperFragment` | `continueConstructionOfSuperFrag`, `ensureContiguousEventNumber`, `finalizeSuperFragment`, `sendNextPendingBlock`, Configure, Enable, Halt, failures, Reset | |
| `SuperFragmentProofs` | theorems `Types`, `PendingBlocksAreThere`, `NumbersAreContiguous`, `SuperFragmentsAreWhole` | extends `SuperFragment` |
| `DataServer` | abstract specification: what `server::Base` promises a client | |
| `I2OServer` | `server::I2O` with the part of the readout and of the message handlers that drives it | implements `DataServer` |
| `I2OServerProofs` | theorems `Types`, `EndsCounted`, `CreditsAreBalanced`, `CreditsAreReported`, `Implements`, `EventsStayApart`, `EventsStayInOrder` | extends `I2OServer` |
| `SOAPServer` | `server::SOAP`, with the two kinds of clients | implements `DataServer` |
| `SOAPServerProofs` | theorems `CreditsAreBalanced`, `Implements`, `TypesAreKept`, `EventsStayApart`, `EventsStayInOrder` | extends `SOAPServer` |
| `RuiThreads` | the RUI's threads, FSM and semaphore | |
| `RuiThreadsProofs` | theorems `Types`, `SemaphoreIsNotLost`, `Exclusion`, `ReadoutNeedsEnabled`, `LoopIsAlive` | extends `RuiThreads` |
| `DaqManager` | the DAQ manager with its work loop, Reset and watchdog, and the applications it drives | |
| `DaqManagerProofs` | theorems `Types`, `Follow` | extends `DaqManager` |
| `Supervisor` | the supervisor's state machine, its work loop, calibration runs and the sequencer of all of them | |
| `SupervisorProofs` | theorems `Types`, `TakesAll` | extends `Supervisor` |
| `IRQThreads` | the threads that watch the FED crates, their barrier, start and end | |
| `IRQThreadsProofs` | theorems `Types`, `NoneMissed`, `NoneForNothing` | extends `IRQThreads` |

`MC*.tla` instantiate them for TLC, one `.cfg` per run. Operators commented *Mutated form*
are what a plausible mistake would make of the definition below them; no specification
uses them.

### How state and actions correspond to the code

**EventBufferRing, BadEventContext.** `buf` is the `std::list` of buffers, each the sequence
of its blocks; `cur` is the iterator `current_`. A block stands for its bytes: it carries
its ordinal in the readout and the number of headers seen up to it. The action `ReadBlock`
is one pass of the readout with a header, a trailer, both or neither, and its four
alternatives are the four ways through `writeDataWithContextToFile`. `Configure` is the
end of `configureAction`. `Verdicts` is what the rate limiter may answer; `file` holds what was
put to the data file, vetoed blocks marked. Writes to disk succeed.

**SuperFragment.** `superFragBlocks` and the event numbers are the fields of the same name; `fsm`
is the state machine with Failed. `heldByRU` counts posted blocks that still occupy the pool.
`ReadBlock` is the whole of a pass that reads: closing of an event without trailer, empty
super-fragments for skipped numbers, appending or dropping the block, finalising.
`SendNextPendingBlock` is the pass that finds blocks pending; a post that fails changes nothing
(a stutter). `SendFromEmptyDeque` is `front()` of an empty deque: undefined, and represented by a
crash. A run ends in three ways: `Halt` discards what is held and sets the numbers back; `Fail`
(`failAction`, `moveToFailedState`) and `Reset` (`onReset`) change nothing but the state, so that blocks,
pending flag and numbers are there when `Configure` begins the next run, which forgets only
`insideEvent_` and the count of events. `sent` is what the RU has got since the last Halt, over all
runs in between. History variables, since the last Halt: `dropped`, the pool made the readout drop
a block; `recurred`, a number has come back among the blocks held, with blocks of others in between;
`torn`, a run began with blocks of an event that a failure or Reset had cut off. A pass is atomic
here; that commands wait for its end, and which do not, is `RuiThreads`'s business.

**I2OServer.** `server` has the queue of (block, position) and the counters of the class. A
pass of the readout is split where a post may fail: `ReadBlock` (or `StartSending`, for a
pass that reads nothing) enters `sendData`, then `SendMessage`, `FailToSendMessage`,
`FailToMerge` are the turns of its loop, and `StopSending` ends it. Other handlers wait
meanwhile (`~sending`), as the semaphore makes them do; that it does is `RuiThreads`'s
business. Memory is counted in blocks: queued, posted (`heldByClient`), leaked. A client may change
its prescaling factor with each credit message, in the middle of an event too; `parted` (history)
holds the events of which a block was queued and a later one refused, by the prescaling or by the
pool.

**SOAPServer.** `messages` and `message` are the queue and the message under construction.
Each handler holds the semaphore from start to end and is one action. A client that is an
application is sent data by `SendData` (`serverLoopAction`); another gets it in the reply
to its credit message (`AddCreditsAndGet`). A client that cannot be reached is a stutter:
the message stays. Prescaling and `parted` are as in `I2OServer`, but that room and credits never
part an event.

**DataServer.** Credits granted, credits held, events transmitted. `Transmit` costs a credit,
and needs one if data is sent on request only. The refinement mappings are
`credits <- server.credits, transmitted <- Len(sent)` for I2O, and
`transmitted <- Len(sent) - refused` for SOAP: a message answered with a fault is not paid.

**RuiThreads.** `full` is the semaphore: a process-private pthread mutex whose `give` unlocks
without asking who took it. `pc` is where each thread is; the steps are cut at each access
to the FSM, which has no lock. `submitted` counts the actions in the work loop's queue.
`ActionFails` covers an exception at any point of Configure or Enable, with `failAction`
giving the semaphore early; `LoopMoveToFailed` does the same from inside a pass of the
readout. `Access` is a handler that takes the semaphore for anything else, and `AccessFails` the way
out of `onSOAPClientCreditMsg` that rethrows behind the take and before the give
(Application.cc:281). `Reset` does not take the semaphore, as in the code. History variables:
`disturbed`, something has failed or a Reset has come; `forgotten`, a thread has left with the
semaphore and nobody has given it since.

**DaqManager.** `fsm`, `initialState` and `inFSMTransition` are the fields of the manager, `app` the
states of the TA and of the RUIs. A *driver* is a thread that fires the manager's state machine:
"loop" is `workLoop_`, in which the SOAP handlers of Configure, Enable and Halt have their work
done, "request" is the thread of the Reset message and of the web page. A command is a SOAP
message and its reply, and one step; between two commands anything may happen. `Begin`,
`CommandNext`, `CommandFails`, `HaltFails`, `Finish` are the course of `configureDAQ`, `startDAQ` and
`stopDAQ`: the TA first to be started and last to be stopped, a RUI that does not halt passed over
until all were told. The watchdog's `TimeExpires`, `Patrol`, `Look` and `WatchdogSends` are cut where
`timeExpired` reads what the others write. Applications crash, fail and are restarted; the
manager crashes and learns its state from them. `disturbed` (history) holds the applications
that crashed, failed or were commanded by two threads at once since the last command that a
driver began alone. Event building is off: EVM, BUs and FUs take no part.

**Supervisor.** `queue` and `wl` are the work loop `wl_`, the sequencer is the thread of `calib_wl_`.
Requests submit at any time; `WlFires` takes an action and enters the transition, `WlSucceeds`
and `WlFails` end it, `CalibrationBegins`, `CalibrationStep`, `CalibrationFails` and `CalibrationEnds`
are `calibrationAction`. The subsystems have one state in common (`apps`), the state table (`table`)
is as old as its last refresh. The minute after which `waitForAppsToReach` gives up may pass
at any time, as configuring may take longer. `taken`, `configuredFor`, `quitBefore`, `disturbed`
and `derailed` are history variables. Start, Stop and Halt on the web page, which fire the state
machine from the page's own thread, are left out.

**IRQThreads.** One thread and one DDU per crate. `pc` has a label between any two accesses to
what the threads share: `errorCount` and `ignErrCnt` (under `errorCountMutex`), `currErr`, `firstErr`,
`secondErr` (`lastErrors`, under `lastErrMutex`), and the barrier's `resetCount`. `mutexLost` says
that a thread which is no more has `resetCountMutex`. A thread is cancelled where it calls
`pthread_testcancel` and in `pthread_cond_wait`; that a log message may be a cancellation point
too is left out. The hardware is what a VME access sees: chambers in error, a pending
interrupt, an L1A counter that a resync may have set back. `failedSince`, `forgotten` and
`requested` are history variables. Left out: track finder crates, the watch over DDUs stuck in
warning and over the DCCs, facts and alarms.

## 3. What the runs check

Bounds are small, but each was chosen so that the interesting case happens, which the
mutants confirm: every property of a passing run fails when a definition of the model is
replaced by its mutated form under the same bounds.

| Run | Bounds | Shows |
|---|---|---|
| `bad_event_context` | 2 runs of 6 blocks, leading context 1 or 3, trailing context 1, prescaling base 2, buffers of 3 blocks, any verdict of the limiter | `RingInOrder`, `FileInOrder`, `WindowContiguous`, `NoTailWithoutHead`. Two runs suffice for the ring to grow once with its write position anywhere; six blocks are enough for two selected bad events with context, for one that prescaling drops (base 2 instead of 10), and for an event cut off by its buffer. |
| `super_fragment` | 4 blocks over 2 runs, 6 event numbers, steps of up to 2, pool threshold 5, Halt, failure and Reset at any time | `SentWhole`, `ContiguousButForZero`, `PendingBlocksExistUnlessDropped`, and the liveness `PendingIsSent` (681,097 states). The runs start at 0 or 4, so that numbers wrap around within four headers, also from a run to the next one that takes over its numbers. The pool holds no more than five blocks: numbers can come back while the first ones are held, and blocks are dropped. Two runs are one end of a run, of each kind, with anything held. |
| `i2o_server` | 2 runs of 5 blocks, 3 credits, prescaling by 1 and 2, pool of 6 with threshold 3 | accounts of credits, `EventsNotMixed`, `EventsInOrder`, the liveness `CompleteEventsAreSent`, and `ImplementsDataServer` (880,864 states). Five blocks make two events that need merging and one that does not, or an event parted by the prescaling and a later one that is merged with it; three credits are one more than is needed to overdraw. |
| `soap_server` | 2 runs of 5 blocks, 4 credits, prescaling by 1 and 2, 2 messages pending | the same for SOAP (176,504 states). |
| `rui_threads` | 1 server thread, Reset, failures of actions, devices and replies, 3 Configures | `MutualExclusion` and `ReadsOnlyWhenEnabled` until something fails, `SemaphoreNotLost`, `LoopAlive`, `MessagesAnswered` (18,696 states). The third Configure is the first that can meet a readout action left over by a run that was left by a Reset. |
| `daq_manager` | TA and one RUI, both drivers, Reset, 2 faults | `AppsFollow`, and the liveness `HerdedBack`. One fault takes an application down during a run, the other hits the manager or the application again while it is herded back. |
| `supervisor` | 2 calibration runs of 1 step, 4 requests, 1 failure | `SequenceTakesAll`, and the liveness `SequenceEndsAtLast`, `HaltsItself`. Two runs are what it takes for one to be skipped, repeated or taken with the other's configuration; four requests can start a sequence and interfere with it three times. |
| `irq_threads` | 2 crates of 2 chambers, threshold 2, 3 failures of chambers, 1 resync, 2 runs on the same data, VME failures, spurious wakeups | `NotMissed`, `ReleasedForCause`. Neither crate needs to reach the threshold by itself, three failures make a repeated offender, and one resync makes a thread start anew against another that is counting. |

Deadlock checking is off in all of them: each model stops where its bound on blocks, faults or
commands is reached, and the programs stop as well when data and commands cease.

The runs that end in a violation each show a disagreement between the code and what it says
of itself:

| Run | Comment | Code |
|---|---|---|
| `soap_on_request` | keeps transmitting if not on request only | a pointer is tested instead of its value; nothing is sent without credits |
| `daq_reset` | the watchdog is held back during state transitions | not during a Reset, which runs with `inFSMTransition_` false: applications just reset are configured and enabled again |
| `supervisor_after_halt` | takes all calibration runs in an automatic sequence | takes none after a Halt: `quit_calibration_` stays set, and only the start of a calibration run clears it |
| `irq_end` | "The threads should be stopping now. Let's join them." | a thread cancelled in `pthread_cond_wait` ends with `resetCountMutex`; the next one to come to the barrier waits for it in `pthread_mutex_lock`, where it cannot be cancelled, and `pthread_join` never returns |

More disagreements follow from the models. Some are seen when a bound or a condition is
changed:

- `EventsNotMixed` fails in both servers without its exception. With a prescaling factor n a client is
  to get "only every nth" event (Base.h:32), but `addData` decides block by block, while the count of
  events rises with the block that has the trailer (Application.cc:2572): of an event of two
  blocks, one is queued and the other refused, and what was queued is merged with the next event that
  is taken. The property names those events, `parted`, and says that no other is mixed with a
  later one. In the I2O server the pool's threshold parts events as well.
- `SemaphoreNotLost` and `MessagesAnswered` fail without theirs: when `onSOAPClientCreditMsg` cannot
  create its reply, it rethrows with the semaphore taken (Application.cc:281 against the give at 287).
  Unless another thread inside gives it, the
  readout and all messages but Reset wait for ever.
- `MutualExclusion` fails once something fails or is reset: `failAction` and `moveToFailedState` give
  the semaphore in the middle of what it protects (Application.cc:1632). `SemaphoreNotLost` remains
  true then.
- `LoopAlive` fails with two server threads and failures: Configure and Enable of different messages
  overtake each other.
- `PendingBlocksExistUnlessDropped` fails without its second half: the pending flag is also set when
  the pool made the readout drop the event's only block, and the front of an empty deque is
  posted (`SendFromEmptyDeque`).
- `SentWhole` fails without its first exception (`recurred`): a run that begins with a block without a header is
  taken to continue event 1, the number that Halt leaves (Application.cc:1585); if the first header
  has number 0, empty super-fragments fill all numbers between, and event 1, when it comes, is
  finalised together with the first block, as `finalizeSuperFragment` compares numbers only
  (Application.cc:3340). The readout unit then gets two distant parts of one super-fragment.
- `SentWhole` and `ContiguousButForZero` fail without their second one (`torn`): a failure or Reset
  in the middle of an event leaves its blocks in `superFragBlocks_`, `configureAction` clears
  `insideEvent_` (but not the blocks), and so the next header does not close that event: its blocks
  are sent with zeros for their number and count, in front of the new event's.
- `ContiguousButForZero` fails without its third one: a gap behind event number 0 is not
  filled, since 0 also means that no event was read yet (Application.cc:2931).

Others are plain from a definition: `nToWriteAfterBadEvent_` events are to follow a bad one, and
one more does (Application.cc:2231); the ring never shrinks, so that a run with a smaller
`nToWriteBeforeBadEvent_` than an earlier one writes more leading context than asked for
(EventBufferRing.cc:27 against Application.h:171); an end of event is counted twice when the
next header closes an event of which nothing was queued, so that `nEventsInQueue_` exceeds
the queue's size (I2O.cc:321 against I2O.h:35); `workLoopStarted_` is cleared although the
readout's action is still rescheduled, so that each run adds one (Application.cc:1390); and since
a failure or Reset leaves the old event number, the next run, if it begins below it, first sends
an empty super-fragment for each number up to the wrap-around and on to its own, which may be
2^24 of them (Application.cc:2931).

### Fairness

- `SuperFragment`: weak fairness of sending. The work loop reschedules itself, and while
  blocks are pending each pass of an enabled RUI tries to send one; a failing post is tried
  again, and is assumed to succeed in the end. `PendingIsSent` is about behaviours in which the RUI
  is enabled in the end, after any failures and Resets.
- `I2OServer`: weak fairness of entering and leaving `sendData` (the same work loop) and of
  the release of posted memory (the peer transport); strong fairness of a successful post,
  as it is only attempted when the loop is there, and may fail any finite number of times.
  `CompleteEventsAreSent` assumes that events fit the pool and that no frame has leaked
  (`EventsFit`): without it the property fails, as the code lets an event of more than 30% of
  the pool block the queue.
- `SOAPServer`: weak fairness of `SendData`: `serverLoopAction` always returns true.
- `RuiThreads`: threads do not stop (weak fairness of their steps), and one that waits for
  the semaphore gets it if it is free again and again (strong fairness). A mutex does not
  promise the latter; the code pauses after each pass without data for this reason.
- `DaqManager`: weak fairness of the watchdog: its timer is periodic and its thread does not
  stop. Drivers and applications may take as long as they like.
- `Supervisor`: weak fairness of the two work loops, whose threads do nothing else. Nothing makes a
  request come.
- `IRQThreads` (`irq_end` only): weak fairness of each thread and of `endThreads`. None of a VME
  failure, an interrupt or a mutex beyond what a thread that can go on does.

## 4. What is proved

Every theorem is `Spec => []P` or `Spec => P` for all values of the constants that satisfy the
named assumption of the module, and what the last column adds.

| Module | Theorem | Property | Assumes besides |
|---|---|---|---|
| `BadEventContextProofs` | `Types` | `TypeOK` | |
| | `RingStaysInOrder` | `RingInOrder` | |
| | `FileStaysInOrder` | `FileInOrder` | |
| | `WindowsHaveNoHoles` | `WindowContiguous` | |
| | `NoTails` | `NoTailWithoutHead` | |
| `SuperFragmentProofs` | `Types` | `TypeOK` | |
| | `PendingBlocksAreThere` | `PendingBlocksExistUnlessDropped` | |
| | `NumbersAreContiguous` | `ContiguousButForZero` | |
| | `SuperFragmentsAreWhole` | `SentWhole` | |
| `I2OServerProofs` | `Types` | `TypeOK` | |
| | `EndsCounted` | `EndsAreCounted` | |
| | `CreditsAreBalanced` | `CreditsBalance` | |
| | `CreditsAreReported` | `CreditsReported` | |
| | `Implements` | `ImplementsDataServer` | |
| | `EventsStayApart` | `EventsNotMixed` | |
| | `EventsStayInOrder` | `EventsInOrder` | |
| `SOAPServerProofs` | `CreditsAreBalanced` | `CreditsBalance` | |
| | `Implements` | `ImplementsDataServer` | |
| | `TypesAreKept` | `TypeOK` | |
| | `EventsStayApart` | `EventsNotMixed` | |
| | `EventsStayInOrder` | `EventsInOrder` | |
| `RuiThreadsProofs` | `Types` | `TypeOK` | |
| | `SemaphoreIsNotLost` | `SemaphoreNotLost` | |
| | `Exclusion` | `MutualExclusion` | |
| | `ReadoutNeedsEnabled` | `ReadsOnlyWhenEnabled` | |
| | `LoopIsAlive` | `LoopAlive` | at most one server thread |
| `DaqManagerProofs` | `Types` | `TypeOK` | |
| | `Follow` | `AppsFollow` | |
| `SupervisorProofs` | `Types` | `TypeOK` | |
| | `TakesAll` | `SequenceTakesAll` | |
| `IRQThreadsProofs` | `Types` | `TypeOK` | |
| | `NoneMissed` | `NotMissed` | |
| | `NoneForNothing` | `ReleasedForCause` | |

**The ring.** `RingInOrder` is not inductive: `AddData` appends a block numbered one above all
read so far, so the invariant adds that the ring holds only blocks read (`UpTo`), that it is
a ring with its write position inside (`IsRing`). Three lemmas say that enlarging, emptying
and adding keep the three. The case that matters is moving on to the oldest buffer, which
goes from the farthest behind to the nearest: emptying it on the way is what keeps the order.

**The data file.** What is written is the ring, buffer after buffer, and then the event itself, so the
file's properties rest on how the buffers hang together. Counted by age (`Aged`), the youngest
so many buffers are filled, each with consecutive blocks of one event, and each begins with the block
behind the last one of the older buffer, unless that one is full (`Chained`); the youngest ends with
the last block read, or is full (`Current`). Where the file ends, what is in the ring begins
(`NotYetIn`), or, while trailing context is written, the next block read (`Trailing`). The file itself is
`Proper`, which are the three properties as they are kept when it is extended. The proof of a
step has one lemma for each of the four ways of a block: written out with the ring before it
(`WriteAll`), written as trailing context, buffered, dropped. What `FlattenSeq` makes of
the buffers, and that the file stays proper while it takes buffer after buffer, are inductions.

**Super-fragments in sequence.** Contiguity is a property of what was sent *and* of what waits: of
`Whole == sent \o superFragBlocks`, each block of which joins the next one (`Chained`). A new
block joins the last one since the latter belongs to the current event (`LastIsCurrent`), behind
which `ensureContiguousEventNumber` has filled the gap; sending moves the border between the two
halves, and finalising changes no event number. `HeldInside` says that blocks wait only inside an
event or while sending is due. A failure or Reset leaves all of this as it is; `Configure` clears
`insideEvent`, so that what it takes over is either a whole super-fragment still to be sent, behind
which the new run's numbers follow, or an event cut off (`torn`).

**Super-fragments whole.** Between two reads, what was sent is whole super-fragments, and what is held
would be whole ones if the event being read ended here: the invariant speaks of
`Finalize(superFragBlocks, eventNumber)`, not of the blocks, which carry zeros until then
(`FragmentsSoFar`). The case that matters is `FinalizeWhole`: to number the blocks of an event inside
whole super-fragments leaves them whole if the event's blocks are an interval, as its first
block is then the first of a super-fragment already or stands behind a complete one, and so is
the block behind its last. That they are one is what `recurred` says; that nothing is held outside
an event when the next block is read, what `torn` says. Without them the property is false
(section 3).

**The I2O server's credits.** A credit may be promised to an event before its end is known: the
readout marks the last block of the queue when the next header comes. So the invariant has a
credit for each end in the queue *and* for a last block that may still become one (`Paid`), the
counter of events is no less than the ends (`Counted`, as ends may be counted twice), and
queued, posted and leaked blocks fit the pool (`Memory`). The refinement uses the same invariant: a
step that transmits maps to `Transmit`, which needs a credit; a message lost in merging maps to a
stutter, as no credit is paid for it.

**The I2O server's order.** The events of the blocks in the queue never fall; they rise where an event
ends, and elsewhere only behind blocks of an event in `parted` (`Joined`, `Apart`). The last block, if
open, is of the event being read or of a parted one (`LastIsCurrent`). The events of a message that
was sent are earlier than all that waits and than those of later messages, and all but the last
were parted (`SentBefore`). Prescaling may be anything, and change at any time. The hard case is a later block
refused for want of credits: an open block would be left, and the next event merged with it though
neither prescaling nor the pool refused anything. It does not arise, since while an event is open the credits
exceed the events queued (part of `LastIsCurrent`): sending an event lowers both by one, and new credits
only add. A header met inside an event closes it, and a post that fails loses whole messages.

**The SOAP server.** The sum of credits and paid messages is kept by each action
only if a delivery never finds the credits at zero, which is the second half of
`CreditsBalance`: a credit is there for every message waiting and for the one under
construction. That half is kept because `addData` admits a block only if the number of
*complete* messages is below the credits; a message completed by the next header turns one
under construction into a complete one. Order: events rise along what was sent and what waits, from
message to message (`Rising`, `AllBefore`); the message under construction may hold beginnings of
parted events and the event being read, its last block the newest (`CurrentMessage`). That nothing but
the prescaling parts an event follows from the invariant of the credits: where a message is under
construction, there is room and a credit for it.

**The semaphore.** A semaphore that cannot be taken was forgotten, or some thread is at a place from
which it goes on to give it (`SemInv`); hence it is free, or forgotten, when nobody is inside
(`SemaphoreIsNotLost`). Besides the handlers' common end, `AccessFails` is the only way to leave
such a place, and it sets `forgotten`. Until something fails or is reset, the semaphore is taken
exactly when some thread is inside (`Exclusion`): each `Take` finds nobody inside, and `Give` is done by the only one inside.

**The readout action.** `LoopAlive` needs to know, in each state of the machine and in each place of
the command's thread, whether the work loop has an action that will be rescheduled: while the
machine is configured or about to be (`Armed`) and the work loop was started, one is submitted
besides the one that is just ending (`OneLeft`). Commands must not overtake each other, hence one
server thread.

**The DAQ manager.** The invariant says that of two drivers at work together nothing is said
(`OneDriver`), that `inFSMTransition` is set during a transition driven alone (`Held`), and, for each
application that was not disturbed, that it is where the state of the manager has it, or is still
to be commanded by the one who drives (`Following`). To be stopped is more than not to be Enabled:
an application that is Ready must not be about to be enabled by a round of the watchdog that
began before, in any of the places this round can be in (`Stopped`), for which it matters that
what the first half of the round configures was seen Halted (`SeenHalted`) and so cannot be
seen Ready twice.

**The calibration sequence.** For an undisturbed sequence the queue, the work loop, the run type and
the states of the subsystems are known in each place of the sequencer (`Configuring`, `Halting`): the
Configure, the Start, the calibration or the Halt of run `seqRun` is what waits or runs, and
`taken` holds the runs before it.

**The interrupt threads.** What a thread has told the others (`errorCount`, `ignErrCnt`) is about what
it noted when it last looked, and leaves out at most what was in error before (`Counted`); with no
interrupt pending it has noted every chamber in error (`Noted`). Now two threads may count at
the same time, each having read the other's old count. `Below` says why one of them sees the sum:
before a release, the counts of all threads that are not bound to release (`Bound`) add up to less than
the threshold. A thread that becomes not bound has just added up all counts with its own new one
in it and found too little; the bound ones are left out until they begin anew with zero. So
when all threads rest, the sum of all counts is below the threshold, or somebody has released. The
other direction needs only that no count exceeds the chambers that failed since it was cleared
(`Caused`). Both rest on lemmas about sums over the crates, and on what the manager of the threads may
do to them (`Managed`).

Two of these proofs are inductions over data: `Sum` in `IRQThreads` and `FlattenSeq` in
`EventBufferRing`. The induction theorems of the library take an operator as a parameter and cannot be
used; instead the instances in question are made a set that is closed under the step
(`NumbersByInduction`, `CratesByInduction`), from the well-foundedness of a relation on sets.

Only model-checked: liveness (`PendingIsSent`, `CompleteEventsAreSent`, `MessagesAnswered`, `HerdedBack`,
`SequenceEndsAtLast`, `HaltsItself`), which needs fairness and ENABLED. Every other property of a
passing run has a theorem.

## 5. What is not modelled

- Of the RUI: STEP runs (`continueSTEPRun`, `STEPEventCounter`), the SOAP servers' work
  loops as threads, failing writes to disk, file names, web pages, monitoring.
- Of the SOAP server: persistent clients that are not XDAQ applications.
- Of the DAQ manager: event building (EVM, BUs, FUs), run numbers and the run database, STEP runs,
  the web page's display. `getCombinedState` is modelled as far as the states agree.
- Of the supervisor: the web page's Start, Stop and Halt, the trigger throttling state, run numbers.
- Of the interrupt threads: crates of several DDUs, the track finder, DDUs stuck in warning, DCCs.
- `STEPEventCounter`, the STEP `Manager` and `Tester`; the `Spy` reader's ring, `RateLimiter` and
  `RawDataFile`; `TriggerAdapter` and `FilterUnit`; the FED `Communicator` and `Manager`; `Farmer`; the
  level-1 function manager: small state machines and counters that could be modelled. They come
  after those above since fewer threads meet in them.
- Hardware access, kernel drivers, unpacking and histogramming, displays and HTML are left out for
  good: their state is in the hardware, or they transform data without interaction. They make up
  most of the repository's lines.

## 6. Plan

1. Done: the RUI (bad events, super-fragments, data servers, threads), with the abstract
   `DataServer`, its two refinements and their proofs.
2. Done: `DaqManager` with watchdog, Reset and crashes; `Supervisor` with the calibration sequence;
   and `IRQThreads`, with proofs.
3. Open, in this order: the web page's thread in `Supervisor`, and its composition with `DaqManager`;
   `STEPEventCounter` against a reference definition; `Spy`, `RateLimiter`; `FilterUnit` on top of
   `I2OServer`; `TriggerAdapter`; the FED `Communicator` around `IRQThreads`; `Farmer`.
4. Proofs: done for every safety property of the runs. Open: `LoopAlive` for several server
   threads as long as nothing fails, and `SuperFragment` composed with `RuiThreads`, where a pass of
   the readout that goes on after `moveToFailedState` has given the semaphore may meet a handler.
