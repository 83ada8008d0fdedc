# Sen, specified in TLA+

Sen is a C++ runtime for distributed simulation: a *kernel* process loads *components*, runs each in a
thread of its own in cycles (drain inputs, update, commit), lets them publish *objects* on *buses* that
belong to *sessions*, and connects processes through a transport. This directory holds TLA+
specifications of its concurrent core, the TLC configurations that check them, and TLAPS proofs.
`PROJECT.json` maps every definition to the lines it models, and lists runs, mutants, findings,
hazards and theorems.

## 1. Inventory

### The kernel process (`libs/kernel/src`)

| part | state | operations | what is hard | what makes it right |
|---|---|---|---|---|
| lifecycle: `KernelImpl`, `Executor`, `Runner` | `isRunning_`, `isStopping_`, `stopRequested_`, exit code, `usageMutex_`, `group_`; per runner `state_`, `stopFlag_`, thread handle | `run`, `requestStop`, group-wise preload/load/init/run and stop/unload/clean-up, `doRun`, `toErrorState` | stop requests from any thread, also from the components; failures while coming up or going down; state read, then read again | groups go down in order; nobody joins itself; a failure or request ends the process with its exit code |
| virtual time | promises `barrierForWorker_`, `barrierForCaller_`, command, target time, distance to the next cycle | `advanceVirtualTime`, `commitVirtualTime`, `virtualTimeExecLoop`, master clock | promises replaced while others set them; rounding; stop in the middle of a step | phases do not overlap; no cycle is lost; steps and stops end |
| real-time loop | schedule, calibration | `realTimeExecLoop` | clock jumps, oversleeping, missed cycles | schedule only moves forward, the stop flag is read in bounded time |
| a runner's objects | `objectsList_`, `objectsMap_`, pre-drain list, in-flight batches, cursors | `registerObjects`, `unregisterObjects`, the cycle's walks | hooks that add, remove, walk and throw inside the walks | lists agree, no dangling cursor, what is published is driven |
| work queue (`libs/core/src/obj`) | bounded multi-producer queue, enabled flag | `push`, `executeAll`, `clear`, `disable` | check-then-act on an approximate size, nested drains | calls run once, bounds, nothing after the stop |
| message dispatcher | queue and at least two workers | `enqueueMessage`, `start`, `stop` | reordering, dropping under pressure, work left at the stop | control messages of a participant keep their order |
| sessions: `SessionManager`, `SourceInfo` | locally open sessions, remote processes per session, pending additions and removals per runner | `getOrOpenSession`, `sessionDeleted`, `remoteProcessDetected`/`Lost`, `drainInputs` | three locks, reopening while closing, callbacks under a lock | every runner knows which sessions there are |
| `Session`, `Bus`, `LocalParticipant` | buses, participants, pending remotes, object names | joins, leaves, publication, tear-down | dispatcher threads against component threads, lost processes against queued joins | no participant survives its process; a name has one owner |
| publication: `ObjectFilter`, `ProxyManager`, `ObjectList`, `ObjectMux` | new, current and deleted objects, providers with what they track, the snapshot for late subscribers, a manager's pending actions, lists | `add`, `remove`, rejection, commit, `evaluate`, `addSubscriber`, drains | subscriptions on one thread while the other commits, callbacks that add and remove, several producers of one queue | what is published and matches is in the list, and nothing else |
| remote participants, interests, proxies | hand-shake, pending additions, monitored data, tracked proxies; known objects and links | `remoteParticipantReady`, interests started and stopped, publications, class and state requests, updates, timeouts | messages crossing, late answers, proxies destroyed a cycle late | no proxy without a publication; one that appears has its state |
| boot loader, configuration, packages, plugins, crash reporter, OS layer | — | sequential set-up | — | — |

### Other parts

`libs/core`: type system, languages, streams (sequential), and the object providers, filters and mux
(see *publication*). `components/ether`: discovery by periodic beams with expiry timers, one TCP
connection per pair of processes with a hand-shake and announcements, UDP for data; the discovery
thread, the transport's i/o thread and the threads of the session meet in it. `components/recorder`, `replayer`, `libs/db`: recordings.
`components/jsonrpc`, `rest`, `shell`, `py`: access from outside. `explorer`, `term`, `influx`,
`logmaster`, `tracy`, `webexplorer`: displays and exporters. `libs/gen`, `apps`: generator, command
line and the MCP gateway. `libs/util`: dead reckoning.

### How the parts interact

The thread in `Kernel::run()` walks the runners through the executor. Each component's thread runs its
cycle, in which it drains the session list, its participants and its work queue, and calls hooks of
objects, which call back into the participants and the runner. The ether component's threads report
processes to the session manager (under its locks, from where the runners are told) and queue inbound
messages for the dispatcher's workers, which reach sessions, buses and participants. In virtual time the
components' threads wait for a driver, which is the thread in `run()` or the kernel component.

## 2. Modules

| module | models | composition |
|---|---|---|
| `KernelLifecycle` | `kernel_impl.cpp`, `executor.cpp`, the life of `Runner`, start and stop of the message workers | proved about in `KernelLifecycleProofs`, instantiated in `MCKernelLifecycle` |
| `VirtualTime` | the promise hand-shake of `Runner`, its driver and the stop | `VirtualTimeProofs`, `MCVirtualTime` |
| `RunnerObjects` | registration and the walks of `Runner`, add/remove of `LocalParticipant` | `RunnerObjectsProofs`, `MCRunnerObjects` |
| `Sessions` | `SessionManager`, `SourceInfo`, `~Session` | `DiscoveryProofs`, `MCSessions` |
| `WorkQueue` | `work_queue.cpp`, the thread that drains it and the stop | implements `CallLedger`; `WorkQueueProofs`, `MCWorkQueue` |
| `CallLedger` | what a work queue promises about a call | abstract specification, refined by `WorkQueue` |
| `SessionBuses` | `Session`, `Bus`, the bus side of `LocalParticipant`, the dispatcher's workers | `SessionBusesProofs`, `MCSessionBuses` |
| `EtherConnections` | discovery, transport and process handlers of two kernels | `EtherConnectionsProofs`, `MCEtherConnections` |
| `Publication` | objects of a `LocalParticipant`, its flush, `ObjectFilter` | part of `ObjectFlow` |
| `Views` | `ProxyManager`, `ObjectList`, `ObjectMux` | part of `ObjectFlow` |
| `ObjectFlow` | a publisher and a subscriber of one process | composes `Publication` and `Views`; `ObjectFlowProofs`, `MCObjectFlow` |
| `RemoteObjects` | `RemoteParticipant` on both sides, the proxies of the consumer, the filter of the publisher | `DiscoveryProofs`, `MCRemoteObjects` |

The chain of a remote object runs through the modules: `EtherConnections` tells a session who is there, `SessionBuses` makes the
participants, `RemoteObjects` exchanges their objects, `Publication` decides what is offered and `Views` what a component sees. Each
module takes its neighbour as the weaker of what that one provides and names the difference as *external*.

Definitions beginning with a comment *mutant* are variants of the definition that follows: plausible
mistakes in that code, which make the property named for them in `PROJECT.json` fail.

**KernelLifecycle.** One program counter per thread: callers of `run()`, other threads that request the
stop, and the component threads. An action is the code between two accesses to state that another
thread reads or writes, so `doStop` is compare-exchange, stopping the messages, taking `usageMutex_`, and
the walk, whose steps per runner are the reading of its state (`StopRunner`), the second reading
and the signal (`Signal`), the join and the unload. Within a group the runners are taken in any order,
which covers every order of the configuration file. What may go wrong in a behaviour (a hook or the
creation of a thread reports an error, `run()` does, somebody asks for the stop) is chosen initially as
a scenario. An exception thrown by user code ends the process by design and is not modelled, nor is a
second `run()` on the same kernel after a stop, which the dispatcher asserts against.

**VirtualTime.** A promise is a Boolean: it has its value or not. Setting a value twice throws,
which `UnblockWorker` ignores, like the code, and which ends the driver's step in `Command` (`StepThrows`). The driver then goes on: an exception of
`processNoFlush` is answered to the client (`kernel_component.cpp:251-254`), who may step again, one of `flushOutputs` is dropped by `soonestStep`, and
`virtualTimeRunnersFutures_` keeps the futures of the step (`futures`), of which one whose promise is replaced makes the next wait throw (`spoilt`, `WaitThrows`). After a throw
no flush is ever completed, so the next steps keep the length the throw left. `throws` counts such steps, `MaxThrows` bounds them. Time counts in
fractions of a millisecond (`Grain`); `PeriodAssumption` asks for periods of at least a millisecond, below which
rounding up to milliseconds must lose cycles. In runMode `virtualTime` the client that steps the master clock may do so
at any time, and a step of it is a step of `singleStep` with one kernel clock.

**RunnerObjects.** Single-threaded, with an explicit stack of the calls in progress. A frame of an add
is the batch with its cancelled members, of a remove the members left, of a walk its cursor. The lists are sets of numbered
nodes. Every hook may make any call, or throw to whoever catches. An object's local name is its own with the prefix of the participant that
added it last (`localPrefix`): a refused add clears the prefix (`local_participant.cpp:188-189`), and a removal erases the name the object has then (`:296`).
A batch names an object once.
`strayed` records, per object, what lies outside `PublishedAreDriven`: a throw that left a call
about it, a removal through another participant (which the code accepts, by its comment), an add during
the object's removal, and a removal under another name than it was published with (section 6).

**Sessions.** One session name, since names share nothing but locks; holders are the components that
keep the session open, the locks are variables, except `localSessionsMutex_`, under which no other lock
is taken. `raced` marks two windows the code leaves open, between the halves of opening and of closing
a session (`session_manager.cpp:199-205` and `259-266`): a first process detected in the former is announced by
nobody, and a session reopened in the latter is retired although it lives. `AnnouncementsAreRight` is stated outside them.

**WorkQueue.** A push is its steps: is the queue enabled, is there room, drop the oldest, enqueue. The
queue of the library is external: first-in first-out per producer, of which a consumer may take any
head, behind a semaphore; a bulk reserves at the semaphore and then takes its elements. Drains are a stack
of frames, since a call may drain again (`forAllClocks` in `kernel_component.cpp`). `CallLedger` is the
abstract specification: a call is new, accepted, run or lost, and only moves forward; `LedgerKept` is
the refinement, mapping a call to the place it is in. `straggling` and `enabledLate` record the two ways a call
can be left behind by a stop.

**SessionBuses.** The transport's thread, two workers of the dispatcher and component threads. A work item
is run under `busesMutex_`, and only what lies after its release (the destruction of a participant) is a step of
its own; a join is two steps because a subscription takes neither lock. Participants
are numbered instances, so that two for one address are told apart. Info providers are made and deleted at any time; each has its own record of
the buses it was told of (`told`), which a new one gets from `buses_` alone (`session.cpp:76-92`). `late`, `split`, `overtaken`, `orphaned` and
`between` record the windows the properties leave out (section 6).

**EtherConnections.** Two kernels and one session. A track of the other kernel stands for its beams, an expiry
that is queued cannot be taken back; a connection has a handler at each end and TCP is two streams. The discovery thread
disconnects in two steps, between which the i/o thread may still handle the message it has (`late`). The Hello of a connection that is no longer
connected makes `remote_endpoint` throw (`process_handler.cpp:304`, `HelloThrows`); nobody catches it but the i/o thread's function, which ends
(`ether_transport.cpp:284-299`, `IoThreadEnds`): its sockets stay open and nothing is read from them or written to them (*stuck*), as every write is posted to that thread,
until the transport is started again. A connection on which nobody says Hello is not accepted in the model. Faults are beams that are
lost, connections that break, transports that are stopped and started again and kernels that vanish without closing anything.

**Publication, Views, ObjectFlow.** The flush of a participant is split where other threads or its own
callbacks may act: the objects are committed, its own filter stops and starts and evaluates (with callbacks that
add and remove), the filter for the others evaluates under its lock, the sets are merged. A worker's rejection comes anywhere.
In the views the order of one producer is kept and the order between two is not; a drain takes any prefix of each. Lists and mux keep
their number of entries, since an addition of an object that is listed makes a second one.

**RemoteObjects.** Both sides of one pair of participants. Messages are records in two first-in first-out channels and a
message for a participant that is not there yet is lost. An object's state is a number that each commit raises,
so that *populated* means that the proxy holds the last one; a state and its time stamp are
read together. An unsubscription only destroys the manager with its proxies (`local_participant.cpp:578-632`, `proxy_manager.cpp:85-94`): the publisher is not told, and the
provider stays with its `currentAdditions_`, which keep following the publisher and which the next subscription is given again (`remote_participant.cpp:203-215`). The messages that stop an interest
are sent when a participant is removed (`local_participant.cpp:717, 746`), which is outside this module. A removal may be handled by a worker between the
registration of a new manager and the repetition to it (`SubscribeMeetsRemoval`, recorded in `crossed`). A cycle drains the managers in any order. The class of the objects is one, known or not; a timer that fired runs its callback although it
may have been cancelled.

## 3. Runs

| run | instance | result |
|---|---|---|
| `lifecycle_safety` | 3 components in 2 groups, 2 requesters, a component that asks, a failure, both block modes, real-time and start-and-stop | group order, quiet unload and clean-up, no self-join, first exit code |
| `lifecycle_progress` | the same components; a failure, a request, or failing hooks, one kind per behaviour | a failed start-up unwinds; requests and failures end a blocking kernel |
| `virtual_time_steps` | periods of 2 ms and 1.5 ms, 6 ms, both modes, stops and failures | up to a step that throws phases are separate, steps complete and no cycle lost; steps end, a self-driving kernel stops |
| `runner_objects` | 3 objects, 2 participants, 4 nested calls or throws, batches of 2 | lists, map and cursors agree; walks reach all; what is published is driven |
| `sessions` | 2 components, one perhaps a watcher, 2 processes | announcements and lists are right outside the windows |
| `work_queue` | the component and another producer, 3 calls, bound 1, bulks of 2, drains 2 deep, a stop at any time | the bound up to concurrent pushes, order per producer, every call settled, refinement of `CallLedger` |
| `session_buses` | 2 remotes of a process, a local, an info provider, 2 workers, 4 events, bulks of 2 | locals hold exactly the remotes of their bus, no remote is lost between pending and open, subscriptions listen, bus lists follow |
| `ether` | 2 kernels, 1 participant, 2 connections, 1 fault | agreement of connected kernels, no ghosts, kernels whose i/o threads live meet, gone ones are forgotten |
| `object_flow` | 1 object, a plain and a conditional interest, 3 calls, a change, a rejection, 2 subscriptions | what a filter shows reaches managers, lists and mux; what stays published is seen |
| `object_flow_list` | 1 object, 1 conditional interest, 3 changes | violated: an entry stays in the list of an object that went |
| `remote_objects` | 1 object, 1 interest subscribed to three times, 3 commits, 1 timeout | no ghosts, populated on first appearance, matching objects appear |
| `remote_objects_arrival` | 1 object, 1 interest, 3 commits | violated: an object that appears again has no state |

*Bounds.* Two groups are the least with an order between them, two components in one group the least
for which a group is half up; two requesters race with each other and with a component. One failure at a time
(`MaxFaults`) leaves each failure's handling to be followed to its end. Periods of 4 and 3 half-milliseconds repeat
after 6 ms (`MaxTime` = 12) and include one that is not a whole number of milliseconds. Four calls allow an add whose
hook removes, whose hook adds, inside a walk; `MaxNumber` bounds list nodes. Two processes tell "the first detected" and "the last
lost" from the others. A work queue of size 1 is full after one call, with a second producer to exceed it, and a nested drain
finds a call that the drain around it has not taken. Four events are a join, a leave, a join and the loss of the
process, or two joins with messages between them, for two workers with bulks of two. One fault on top of the
handshake suffices for an expiry, a break, a restart or a crash at any moment of a
connection and for the second connection that follows. Three calls are an add, its removal and the next add, over two subscriptions; three commits of a
remote object are a match, its end and the next match, the second subscription is one to a provider that outlived its manager, and a third follows what that one left.
Two steps that throw (`MaxThrows`) are one on a promise the stop had set and one on the futures the first left behind. One provider is enough, since providers do not interact, and it may be deleted and made again. The windows that need a bound of their own (a second appearance)
have it in the violation runs. The largest spaces are those of `runner_objects` (786 000 states) and `session_buses` (727 000). *Symmetry* is used for requesters and for the two objects of one participant, in runs of safety properties only.

*Fairness.* Weak fairness of every thread's next step: the operating system runs a thread that can run.
A component returns from `run()` once its stop flag is set (`component.h`, and `execLoop` reads it each cycle);
it is strong fairness because a request of its own may interrupt it. A component drains its managers and its work queue in each cycle;
a call that the work queue runs returns (strong, because it may push or drain on its way). Beams are sent in every period, so a track that is
missing is made; TCP reports a connection that was closed, but nothing is assumed of one whose peer
vanished. No fairness is assumed of failures, requests, pushes, early returns, subscriptions, timers that may fire, or of
processes and participants coming and going.

*Deadlock checking* is off throughout: a stopped kernel or queue, connected kernels with nothing to say, the bounds, and for
`Sessions` the lock inversion, are states without a next step.

## 4. Proofs

Each component has a module `...Proofs` that extends it; `DiscoveryProofs` extends both `Sessions` and `RemoteObjects` (whence the longer names in
`Sessions`) and proves about each by itself. All results hold for every value of the constants that satisfies the assumptions
named in the component's module, hence for any number of components, threads, objects, connections and bulks where the runs have two or three.
A proof is an inductive invariant with one lemma per action (`...Keeps`, `...Inv`); frame lemmas say
which part of the state a part of the invariant depends on.

| module | theorem | property |
|---|---|---|
| `KernelLifecycleProofs` | `TypeCorrect`, `OneWalkAtATime`, `ComponentsDoNotShutDown`, `GroupsAreOrdered`, `UnloadsAreQuiet`, `FailedStartupsUnwind`, `FirstCodeStands` | `TypeOK`, -, `ComponentsNeverStopKernel`, `LowerGroupsOutlive`, `UnloadedIsQuiet`, `FailedStartupUnwinds`, `FirstExitCodeStands` |
| `VirtualTimeProofs` | `StepTypes`, `UpdatesAndCommitsAreSeparate`, `StepsLeaveNothing`, `NoCycleIsSkipped`, `OnlyAStopIntrudes` | `TypeOK`, `PhasesAreSeparate`, `StepsAreComplete`, `NoCycleSkipped`, - |
| `DiscoveryProofs` on `Sessions` | `SessionTypes`, `DrainedListsAreRight`, `AnnouncementsStayRight` | `SessionsTypeOK`, `ListFollowsAnnouncements`, `AnnouncementsAreRight` |
| `DiscoveryProofs` on `RemoteObjects` | `RemoteTypes`, `InterestsAgree`, `RemoteViews`, `ArrivalPopulates` | -, -, `RemoteViewsAreSound`, `AppearsPopulated` |
| `WorkQueueProofs` | `CallsRunInOrder`, `QueueKeepsLedger`, `QueueStaysSound` | `OrderKept`, `LedgerKept`, `QueueIsSound` |
| `SessionBusesProofs` | `KnownStayRight`, `BusesStaySound`, `SubscribersKeepListening`, `ProvidersStayTold` | `KnownAreThere`, `BusesAreSound`, `SubscribersListen`, `ProvidersAreTold` |
| `RunnerObjectsProofs` | `RunnerStaysConsistent`, `WalksLeaveNoneOut`, `PublishedStayDriven` | `RunnerIsConsistent`, `WalksReachAll`, `PublishedAreDriven` |
| `ObjectFlowProofs` | `FlowStaysSound`, `ShownBecomePresent`, `PresentStayListed`, `MuxKeepsCount` | `FlowIsSound`, `ShownArePresent`, `PresentAreListed`, `MuxCountsInterests` |
| `EtherConnectionsProofs` | `ConnectionsStaySound`, `ParticipantsStayAgreed` | `ConnectionsAreSound`, `ParticipantsAgree` |

**KernelLifecycle.** `TypeOK` alone is not inductive: `GroupDown` decrements `group_`, which stays a group only if a thread
inside a group's walk finds it positive, which needs mutual exclusion of the walks (`Exclusion`, `WalksAGroup`).
For the rest one thread calls `run()` (`SingleCaller`). `requestStop` recognises a component by its thread
handle, assigned after the thread has started; a request is recorded only when the kernel is running, hence after start-up
(`RunningIsStarted`), when every thread has its handle (`HandleAssigned`, `DecideHasHandle`). The same fact keeps the
exit code: the reset at start-up is over before the first request (`RequestsAreLate`, `FirstCodeStands`).
The order of the groups is a description of every runner's state by the place of the walk: `StartShape` during a start-up, where the
groups below the current one are up and those above untouched, `StopShape` and `WalkShape` during a shutdown, where `group_` separates what is up from what is gone, and
`QuietShape` for the unloads. `GroupsAreOrdered` holds up to a failed start-up, whose own group is left alone; `FailedStartupsUnwind` is for behaviours in which no component fails by itself
(otherwise the walk may throw, section 6). With a second caller of `run()` the argument fails at its first step; `kernel.h`
calls `run()` thread-safe, but the code only guards against a kernel that is already running.

**VirtualTime.** Types, phases and times are one induction, since the length of a step is a natural number only if no cycle
is overdue between steps. A worker is *active* when it executes a command or its promise has a value that is not merely the stop's. `Commanded` says
that nobody is active between steps and that whoever is active in a phase was commanded in it and has not answered; `OneCommand` is what two active workers have in common.
Of these only the types outlast a step that throws; `OnlyAStopIntrudes` says which behaviours that leaves whole: every one of a kernel that drives its own time, and
every one in which nobody asks to stop. `UnblocksStopped` keeps the stop from looking like a command; `AdvanceTimes` and `CommitTimes` relate the times of the workers already commanded, answered and not yet told.
`NoCycleIsSkipped` adds `Counting`: from its first cycle on a component has run one per period (`Counted`), and a step goes no further than its own distance
rounded up (`Ready`, `Expected`). Rounding adds less than a millisecond and no period is shorter, so a step crosses at most one boundary;
the lemma about division says what that does to the quotient and the remainder.

**Sessions.** The lists follow from `PendingIsNews` (a pending addition is of a session not listed, a pending removal of one listed) and `PendingIsTold`
(what is pending was told last, unless opposites met). The announcements need the locks: whoever announces holds the mutex and all it has told
so far is the same (`TellersHoldTheLock`), outside the two windows nobody opens a session that a closing found unlisted (`UnlistedAreClosed`), and what was last announced is
true up to an opening or a closing that has yet to announce (`AnnouncedIsTrue`).

**WorkQueue.** `OrderInv` orders the places a call goes through: a producer's queue, the buffers of the nested drains (an inner one's calls are
later than those of the drains around it), the calls run; a call that is overtaken is in the buffer of an outer drain (`OvertakenFromWithin`). The
refinement uses the same invariant: no call is in two places, so that every step moves at most the calls that `CallLedger` lets move. The bound and the stop rest on `CountInv`: the
semaphore counts what is queued and not reserved, only the innermost drain reserves, and what is left after `clear` was being pushed when it began.

**SessionBuses.** Work is numbered as it is reported. `QueueInv`, `Alone` and `GotInv` give the order of what was handed on for remotes
that were never split between workers; `Verdict` says that the last join or leave still to be run is what the transport said last, `CountInv` that every participant made or
waiting had a join of its own, `Placed` and `Single` that an address is in one place, per provider that it was told of what is open and, unless it was made too late, of what waits, `HoldsInv` and `ListenInv` what is true in the middle of a join.

**RunnerObjects.** `ListInv` is about the containers: numbers ascend, list and map correspond node by node, a pre-drain entry is of a registered object. `StackInv` is about the calls in progress: all but the innermost are in a
hook, one call makes a registration, a walk stands on a node that exists, and what it has not driven is to come. `PublishInv` accounts for one object of
one participant: named and not registered means exactly one call is about to register it, registered and not named that one is about to remove it.

**ObjectFlow.** `PublisherInv`: the snapshot for late subscribers and every provider cover what is published, before the evaluation the current objects and after it those that will be
current at the end of the commit. The views need what a bulk does: `processPendingActions` is a fold, and its
lemma is a balance (what an object was plus what came is what it is plus what went), proved by induction on the length of the bulk with the set of counterexamples and its
least element (`Inductive`). `WillBePresent` follows an object that a filter shows through the queues of three threads, of which a drain takes any prefixes in any merge.

**EtherConnections.** Two kernels, any number of connections, faults and participants. `ConnInv` describes the streams: the messages
a handler has read and those that wait are together Hello, Ready and announcements (`InOrder`), and end where the other handler is (`EndsAt`).
`KnownInv`: who is known, and who is announced to, has a connection that *counts*, one that knows its process and whose last read is still to be
handled; this is what the cancelled read of a disconnected handler is for. `AgreeInv` holds until a connection becomes ready before the one it replaces is gone (`overlapped`): one connection
is live, and what a handler *will know* when it has read all that waits is what the other has announced (`WillAgree`).

**RemoteObjects.** Both properties are about a settled state, so the invariant has to say of the two channels, the monitored data and the pending actions what they will
lead to. It is built in layers. *Types* (`Types`) is needed in full because a drain is a fold over a bulk of any length: `Reached` says what each prefix of it has made of
the views, by induction on its length. *Order* (`Order`): of the values an object's messages carry none is older than one before it, nor than what the proxy or the
monitored data hold, nor newer than the committed value; this is why the largest is the last. *Handshake* and *agreement* (`Handshake`, `Agreement`): until the handshake only greetings
travel and what waits is sent with the answer; whatever has a provider is started or its start is on its way, and nothing else is. Together they are `Exchange`, which gives `RemoteTypes` and `InterestsAgree` for any number of interests.
*No ghosts* (`NoGhostsComing`): whatever a view holds or will hold, whatever a provider keeps, also one without a manager, (`Pledged`) and whatever object a served state on its way is about is either offered or taken
back by a later message; since messages are handled in the order they were sent, the removal comes after the answer. *Populated*: without a timeout no object that is offered loses its link
(`Calm`), so the newest value of an object that is known is held by the proxy, kept with the monitored data, on its way, or about to be sent, or the object is about to be taken back
(`ServedLatest`, `ShownLatest`, `ComingLatest`). What a kept provider will repeat to the next manager counts as coming (`Awaited`), which is why the removal that crosses the repetition is excluded. That monitoring stops when a late proxy is destroyed does not reach an object that never appeared.

`RemoteViews` and `ArrivalPopulates` assume at most one interest (`\A i, j \in Interests : i = j`), and any number of objects, commits, subscriptions and timeouts. The
assumption is needed: with two interests TLC finds a ghost. One interest loses the object and the other gains it; a state request made for the first before that is answered all the same, since
`knownLocalObjects_` is kept per participant, and the answer reaches the consumer after the removal did.

The assumptions are those named in the modules: groups in range, disjoint kinds of threads, periods of at least a
millisecond, at least one component, finite sets of producers, workers, objects, interests and participants' owners, two kernels, and
markers (`None`, `Nobody`) that are not values.

*Only model-checked.* Liveness under fairness (`RequestedStopHappens`, `FailureEndsRun`, `StepsEnd`, `RunningKernelStops`, `CallsAreSettled`, `MeetOrOutlived`, `GoneIsForgotten`,
`PublishedAreSeen`, `MatchingAppear`), which is beyond the prover. Every invariant and every action property
that a passing run checks is stated by a theorem.

## 5. Not modelled

- Data: properties, events, method calls, encodings, types, configuration; logging, tracing, monitoring.
- The real-time loop (arithmetic on the wall clock), UDP, multicast and the output queues of the ether, the discovery hub, recordings,
  the query machine, front ends, generators (reasons in `PROJECT.json`).
- Removal of a participant as `RemoteObjects` would see it, and the messages that stop an interest, which it alone sends. The publication side of a refused add (`Publication.Add`) leaves the object's
  prefix alone; names are the subject of `RunnerObjects`, and no property of `ObjectFlow` is about them.
- A call of the work queue that throws out of `executeAll`; the exceptions that components let escape end the process.
- Data races as undefined behaviour: `providers_` and `currentAdditions_` of a remote filter are read by a subscriber's thread and written by a worker without a common lock
  (`remote_participant.cpp:203-215`, `1159-1181`), and a worker may call a manager that is being destroyed. `RemoteObjects` has their interleavings, not torn reads.
- Closing a bus: only the destruction of its session does it. Broadcast messages. Late listeners of the mux.
- Two overlapping interests of one consumer on one publisher are expressible in `RemoteObjects`, and its types and the agreement on interests are proved for them, but its
  passing run has one: with two, the records kept per participant rather than per interest (`knownLocalObjects_`, one timer per object) break `NoGhosts` (section 4).
- The arbitration of repeated names by registration time; `Publication` has a rejection as an event. Two equal
  times (`local_participant.cpp:353`) would leave both objects in place.
- A session manager's `setTransportFactory` also takes `usageMutex_`; components call it in their preload hook, before sessions are opened.

## 6. Disagreements and limits

Two runs keep a disagreement between the code and its documentation: an object that leaves and enters an interest between two drains
of its subscriber leaves an entry behind in the `ObjectList` (`object_flow_list`), and an object that appears again while its
former proxy waits for its destruction has no state (`remote_objects_arrival`). The models reach others,
which the properties leave out by the history variable or condition named here:

- *Lifecycle.* `Runner::run` stores *running* over the error state of a component that failed in the meantime
  (`runner.cpp:390`), so the re-read announced at `kernel_impl.cpp:113` does not see it. Members of a group that failed to come up are
  not in the walk, and `postUnloadCleanup` runs while they do (`executor.cpp:259`; `StartupFailed`). A component that fails
  between the two readings of its state makes the walk throw (`executor.cpp:231`, `ShutdownThrows`). In `doNotBlock` two requests may run
  the shutdown one after the other, the second with nothing left but the clean-up hooks. Two threads in `run()` may both pass the check of `isRunning_`;
  `kernel.h:52` also says -1 is returned when the kernel is running, and the code returns 0.
- *Virtual time.* A component whose `run()` fails before its loop never answers the driver of a self-driving kernel (`kernel_impl.h:224`), whose stop request
  is then not read. In runMode `virtualTime` a stop during a client's step may set the promise of a worker before the driver does: `set_value` throws (`runner.h:685`, `698`) in the middle of the step, and
the steps the client still has queued run before the kernel component's own stop flag is set. They find workers that updated and did not commit, run their cycle a second time,
advance one while another commits, and may throw again on the futures that were left (`throws`). The kernel component may also be left waiting for workers that are gone, and the stop with it.
- *Runner's objects.* An object added again while the removal of its batch is under way is accepted and then unregistered (`strayed`), although
  `object_source.h:47-49` promises otherwise. Adding a published object again is refused, but not without effect, as the same lines have it: the prefix of its local name is cleared (`local_participant.cpp:189`), so that its
  removal unregisters the object and erases another name (`:296`), and its own stays in use (*renamed* in `strayed`).
- *Sessions.* Opposite announcements between two drains do not cancel (`source_info.cpp:123`); a discoverer's callback that opens the session and an
  announcement take two locks in opposite order (`source_info.cpp:110`, `session_manager.cpp:202`); two windows of `raced`.
- *Dispatcher and buses.* Two workers may run a join and a leave, or two messages, of one participant in the other order (`split`; `main_concepts.md:60`
  speaks of one order); the loss of a process overtakes its queued joins, which then bring a participant back (`overtaken`); a remote that joins while a
  subscription is made may be missed or listened to twice (`between`); a bus whose last pending remote was lost with its process stays in the bus lists (`orphaned`); an info provider made while remotes wait for a bus is not told of that bus until
  another remote joins it or somebody opens it (`late`).
- *Ether.* A connection that breaks while beams go on is not opened again (`Outlived`; compare `main_concepts.md:107`); a kernel that vanishes is found by the process
  information of its beams, which carry the process's own name while the Hello carries the configured one (`util.cpp:231-242`, `ether_transport.cpp:495`; `named`), so with a
  configured name its participants stay. A Hello handled after its connection broke ends the i/o thread of the transport, which the kernel does not notice: the other handlers stay
  open, nothing more is read, and both liveness properties are about kernels to which this does not happen (`ioEnded`).
- *Work queue.* A bounded queue that drops the oldest may drop a call whose caller waits for the answer (`work_queue.cpp:92`); the component's thread may
  enable the queue after its stop disabled it (`enabledLate`).
- *Remote objects.* A removal that a worker handles between the registration of a new manager and the repetition of what the provider has (`remote_participant.cpp:203-215`) reaches the manager before the addition, and
  the object stays shown although nobody offers it (`crossed`). The callback of a resolution timer that was cancelled too late erases the data of the object and stops its updates (`timeouts`); `remoteObjectsRemoved` erases from a container while
  it ranges over it (`remote_participant.cpp:1205`), which the model treats as the erasure it is meant to be.

## 7. Plan

1. Abstract specifications for the lifecycle (groups in order) and for virtual time (a barrier of lock-step phases), with their refinements.
2. The data plane: method calls and their answers through two work queues, events; the arbitration of names by registration time between two publishers.
3. The schedule arithmetic of the real-time loop as operators checked against a reference, and the states of the replayer.
