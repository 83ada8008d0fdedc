-------------------------- MODULE KernelLifecycle --------------------------
(***************************************************************************)
(* The life of a sen kernel process: KernelImpl (libs/kernel/src/          *)
(* kernel_impl.cpp) bringing the component runners up and down through the *)
(* Executor (executor.cpp), and the Runner (runner.cpp) each component     *)
(* lives in, with the component's own thread.                              *)
(*                                                                         *)
(* Three kinds of thread run this code: Callers call Kernel::run(),        *)
(* Requesters call Kernel::requestStop() from outside the components, and  *)
(* every component in Runners has a thread of its own once it is run.  One *)
(* pc per thread; a step of the model is the code between two accesses to  *)
(* state another thread reads or writes.                                   *)
(*                                                                         *)
(* The executor walks a group in the order of its runners_ vector, which   *)
(* is the order of the configuration file.  Here a walk takes the members  *)
(* of a group in any order, which covers every configuration.              *)
(***************************************************************************)
EXTENDS Integers, FiniteSets

CONSTANTS
    Runners,     \* the components, one Runner each
    Group,       \* ComponentConfig::group of each runner
    MaxGroup,    \* Executor::computeMaxGroup
    Callers,     \* threads that call Kernel::run()
    Requesters,  \* other threads that call Kernel::requestStop()
    Askers,      \* the components that call RunApi::requestKernelStop
    BlockModes,  \* the KernelBlockMode values run() is called with
    RunModes,    \* configured RunMode: realTime, startAndStop (virtual time: see VirtualTime)
    Scenarios,   \* what may happen in a behaviour: sets of Happenings
    MaxFaults,   \* bound: how many times a component's run() may report an error
    None

Actors == Callers \union Requesters \union Runners

\* a start-up hook or the creation of a thread reports an error, a component's run() does, a
\* component or an embedder's thread asks for the stop
Happenings == {"preload", "load", "init", "thread", "run", "ask"}

ASSUME GroupAssumption ==
    /\ MaxGroup \in Nat \ {0}
    /\ Group \in [Runners -> 1..MaxGroup]
ASSUME ThreadAssumption ==
    /\ Callers \intersect Requesters = {}
    /\ Callers \intersect Runners = {}
    /\ Requesters \intersect Runners = {}
    /\ Askers \subseteq Runners
    /\ None \notin Actors
ASSUME ModeAssumption ==
    /\ BlockModes \subseteq {"doBlock", "doNotBlock"}
    /\ RunModes \subseteq {"realTime", "startAndStop"}
    /\ Scenarios \subseteq SUBSET Happenings
    /\ MaxFaults \in Nat

componentFailureExitCode == 70

VARIABLES
    \* KernelImpl
    blockMode_, runMode,
    scenario,       \* what may happen in this behaviour
    isRunning_, isStopping_, stopRequested_, requestedExitCode_,
    usageMutex_,    \* the thread holding it, or None
    dispatcher,     \* the session manager's message workers: off, on, stopped
    \* Executor
    group_,
    \* Runner, per component
    state_, stopFlag_,
    thread_,        \* whether the handle names the component's thread
    workQueueEnabled,
    cleanedUp,      \* whether postUnloadCleanup was called
    \* per thread
    pc,
    todo,           \* the runners left in the walk the thread is making
    cur,            \* the runner the walk is at
    at,             \* the group a startup is at
    code,           \* the exit code of the stop request being made
    result,         \* what run() returned or threw, per caller
    faults          \* errors reported by run() so far

setup  == <<blockMode_, runMode, scenario>>
kernel == <<isRunning_, isStopping_, stopRequested_, requestedExitCode_, dispatcher>>
runner == <<state_, stopFlag_, thread_, workQueueEnabled>>
walk   == <<todo, cur, at>>
vars   == <<setup, kernel, usageMutex_, group_, runner, cleanedUp, pc, walk, code, result, faults>>

ComponentStates ==
    {"unloaded", "preloaded", "loading", "loaded", "initializing", "initialized",
     "running", "stopping", "stopped", "unloading", "error"}

StartLabels == {"run", "reset", "lock", "preload", "load", "init", "spawn", "spawned",
                "messages", "setRunning", "reread", "apply"}
RequestLabels == {"request", "decide"}
StopLabels == {"cas", "stopMessages", "lockStop", "walk", "stop", "joinFaulted", "signal",
               "join", "unload", "cleanup", "notRunning", "notStopping"}
ThreadLabels == {"none", "begin", "looping"}
EndLabels == {"idle", "done", "threw", "finished"}
Labels == StartLabels \union RequestLabels \union StopLabels \union ThreadLabels \union EndLabels

Init ==
    /\ blockMode_ \in BlockModes /\ runMode \in RunModes /\ scenario \in Scenarios
    /\ isRunning_ = FALSE /\ isStopping_ = FALSE /\ stopRequested_ = FALSE
    /\ requestedExitCode_ = 0
    /\ usageMutex_ = None
    /\ dispatcher = "off"
    /\ group_ = 0
    /\ state_ = [r \in Runners |-> "unloaded"]
    /\ stopFlag_ = [r \in Runners |-> FALSE]
    /\ thread_ = [r \in Runners |-> FALSE]
    /\ workQueueEnabled = [r \in Runners |-> FALSE]
    /\ cleanedUp = [r \in Runners |-> FALSE]
    /\ pc = [a \in Actors |-> CASE a \in Callers    -> "run"
                                [] a \in Requesters -> "idle"
                                [] OTHER            -> "none"]
    /\ todo = [a \in Actors |-> {}]
    /\ cur = [a \in Actors |-> None]
    /\ at = [a \in Actors |-> 0]
    /\ code = [a \in Actors |-> 0]
    /\ result = [a \in Callers |-> "none"]
    /\ faults = 0

Goto(a, label) == pc' = [pc EXCEPT ![a] = label]
SetState(r, s) == state_' = [state_ EXCEPT ![r] = s]

\* getRunnersAt
RunnersAt(g) == {r \in Runners : Group[r] = g}

----------------------------------------------------------------------------
(* Kernel::run(), start-up *)

\* if (isRunning_) return 0;  A kernel runs once: MessageDispatcher::start asserts that the
\* dispatcher was not stopped before.
RunCheck(c) ==
    /\ pc[c] = "run"
    /\ dispatcher # "stopped"
    /\ IF isRunning_
         THEN Goto(c, "done") /\ result' = [result EXCEPT ![c] = "alreadyRunning"]
         ELSE Goto(c, "reset") /\ UNCHANGED result
    /\ UNCHANGED <<setup, kernel, usageMutex_, group_, runner, cleanedUp, walk, code, faults>>

RunReset(c) ==
    /\ pc[c] = "reset"
    /\ isStopping_' = FALSE
    /\ requestedExitCode_' = 0
    /\ Goto(c, "lock")
    /\ UNCHANGED <<setup, isRunning_, stopRequested_, dispatcher, usageMutex_, group_, runner, cleanedUp,
                   walk, code, result, faults>>

\* Lock lock(usageMutex_), configure(), and into Executor::startUp
RunLock(c) ==
    /\ pc[c] = "lock"
    /\ usageMutex_ = None
    /\ usageMutex_' = c
    /\ todo' = [todo EXCEPT ![c] = Runners]
    /\ Goto(c, "preload")
    /\ UNCHANGED <<setup, kernel, group_, runner, cleanedUp, cur, at, code, result, faults>>

\* mutant: the components that are already up are left alone
StartupThrowsOnly(c) ==
    /\ result' = [result EXCEPT ![c] = "startupError"]
    /\ Goto(c, "threw")
    /\ todo' = [todo EXCEPT ![c] = {}]

\* a start-up hook failed: startUp catches, shuts the executor down and rethrows
StartupThrows(c) ==
    /\ result' = [result EXCEPT ![c] = "startupError"]
    /\ Goto(c, "walk")
    /\ todo' = [todo EXCEPT ![c] = {}]

\* the walk of a start-up phase is past runner r
Past(c, r) ==
    /\ todo' = [todo EXCEPT ![c] = @ \ {r}]
    /\ UNCHANGED <<setup, pc, result>>

\* preloadRunners and Runner::preload
Preload(c, r) ==
    /\ pc[c] = "preload" /\ r \in todo[c]
    /\ \/ state_[r] \in {"error", "preloaded"} /\ Past(c, r) /\ UNCHANGED state_
       \/ state_[r] = "unloaded" /\ SetState(r, "preloaded") /\ Past(c, r)
       \/ state_[r] = "unloaded" /\ "preload" \in scenario /\ StartupThrows(c) /\ UNCHANGED state_
       \/ state_[r] \notin {"error", "preloaded", "unloaded"} /\ StartupThrows(c) /\ UNCHANGED state_
    /\ UNCHANGED <<setup, kernel, usageMutex_, group_, stopFlag_, thread_, workQueueEnabled, cleanedUp,
                   cur, at, code, faults>>

\* loadRunners and Runner::load
Load(c, r) ==
    /\ pc[c] = "load" /\ r \in todo[c]
    /\ \/ state_[r] \in {"error", "loaded"} /\ Past(c, r) /\ UNCHANGED state_
       \/ state_[r] = "preloaded" /\ SetState(r, "loaded") /\ Past(c, r)
       \/ state_[r] = "preloaded" /\ "load" \in scenario /\ SetState(r, "loading") /\ StartupThrows(c)
       \/ state_[r] \notin {"error", "loaded", "preloaded"} /\ StartupThrows(c) /\ UNCHANGED state_
    /\ UNCHANGED <<setup, kernel, usageMutex_, group_, stopFlag_, thread_, workQueueEnabled, cleanedUp,
                   cur, at, code, faults>>

\* initRunners, initPass and Runner::init: a runner that is not finished is tried again
InitRunner(c, r) ==
    /\ pc[c] = "init" /\ r \in todo[c]
    /\ \/ state_[r] \in {"error", "initialized"} /\ Past(c, r) /\ UNCHANGED state_
       \/ state_[r] \in {"loaded", "initializing"} /\ SetState(r, "initialized") /\ Past(c, r)
       \/ state_[r] = "loaded" /\ SetState(r, "initializing") /\ UNCHANGED <<pc, todo, result>>
       \/ /\ state_[r] \in {"loaded", "initializing"} /\ "init" \in scenario
          /\ SetState(r, "initializing") /\ StartupThrows(c)
       \/ /\ state_[r] \notin {"error", "initialized", "loaded", "initializing"}
          /\ StartupThrows(c) /\ UNCHANGED state_
    /\ UNCHANGED <<setup, kernel, usageMutex_, group_, stopFlag_, thread_, workQueueEnabled, cleanedUp,
                   cur, at, code, faults>>

\* runRunners and Runner::run up to os_.createThread: the component's thread exists from here,
\* while the state still says initialized and the handle does not name the thread.  A creation
\* error goes through toErrorState, whose stop request finds the kernel not running.
Spawn(c, r) ==
    /\ pc[c] = "spawn" /\ r \in todo[c]
    /\ \/ /\ state_[r] \in {"error", "running"}
          /\ Past(c, r) /\ UNCHANGED <<state_, thread_, cur>>
       \/ /\ state_[r] = "initialized"
          /\ pc' = [pc EXCEPT ![c] = "spawned", ![r] = "begin"]
          /\ cur' = [cur EXCEPT ![c] = r]
          /\ thread_' = [thread_ EXCEPT ![r] = FALSE]
          /\ UNCHANGED <<state_, todo, result>>
       \/ /\ state_[r] = "initialized" /\ "thread" \in scenario
          /\ SetState(r, "error") /\ StartupThrows(c) /\ UNCHANGED <<thread_, cur>>
       \/ /\ state_[r] \notin {"error", "running", "initialized"}
          /\ StartupThrows(c) /\ UNCHANGED <<state_, thread_, cur>>
    /\ UNCHANGED <<setup, kernel, usageMutex_, group_, stopFlag_, workQueueEnabled, cleanedUp,
                   at, code, faults>>

\* Runner::run after os_.createThread: thread_ = ...; state_.store(running)
Spawned(c) ==
    /\ pc[c] = "spawned"
    /\ thread_' = [thread_ EXCEPT ![cur[c]] = TRUE]
    /\ SetState(cur[c], "running")
    /\ todo' = [todo EXCEPT ![c] = @ \ {cur[c]}]
    /\ cur' = [cur EXCEPT ![c] = None]
    /\ Goto(c, "spawn")
    /\ UNCHANGED <<setup, kernel, usageMutex_, group_, stopFlag_, workQueueEnabled, cleanedUp, at, code,
                   result, faults>>

\* bringGroupsUp: from one walk to the next, and from one group to the next
NextPhase(c) ==
    /\ pc[c] \in {"preload", "load", "init", "spawn"} /\ todo[c] = {}
    /\ LET g == at[c] + 1 IN
       CASE pc[c] = "load" ->
              /\ Goto(c, "init") /\ todo' = [todo EXCEPT ![c] = RunnersAt(at[c])]
              /\ UNCHANGED <<at, group_>>
         [] pc[c] = "init" ->
              /\ Goto(c, "spawn") /\ todo' = [todo EXCEPT ![c] = RunnersAt(at[c])]
              /\ UNCHANGED <<at, group_>>
         [] OTHER ->
              /\ group_' = IF RunnersAt(at[c]) # {} THEN at[c] ELSE group_
              /\ IF g <= MaxGroup
                   THEN /\ at' = [at EXCEPT ![c] = g]
                        /\ todo' = [todo EXCEPT ![c] = RunnersAt(g)]
                        /\ Goto(c, "load")
                   ELSE Goto(c, "messages") /\ UNCHANGED <<at, todo>>
    /\ UNCHANGED <<setup, kernel, usageMutex_, runner, cleanedUp, cur, code, result, faults>>

\* startMessageProcessing, which asserts that it was not started before, and the end of the
\* lock's scope
StartMessages(c) ==
    /\ pc[c] = "messages"
    /\ dispatcher' = IF dispatcher = "off" THEN "on" ELSE dispatcher
    /\ Goto(c, IF dispatcher = "off" THEN "setRunning" ELSE "threw")
    /\ usageMutex_' = None
    /\ UNCHANGED <<setup, isRunning_, isStopping_, stopRequested_, requestedExitCode_, group_, runner,
                   cleanedUp, walk, code, result, faults>>

SetRunning(c) ==
    /\ pc[c] = "setRunning"
    /\ isRunning_' = TRUE
    /\ Goto(c, "reread")
    /\ UNCHANGED <<setup, isStopping_, stopRequested_, requestedExitCode_, dispatcher, usageMutex_, group_,
                   runner, cleanedUp, walk, code, result, faults>>

\* mutant: the states are not read again
RereadNothing(c) ==
    /\ pc[c] = "reread"
    /\ Goto(c, "apply")
    /\ UNCHANGED <<setup, kernel, usageMutex_, group_, runner, cleanedUp, walk, code, result, faults>>

\* the states are read again now that a request would be heard
Reread(c) ==
    /\ pc[c] = "reread"
    /\ IF \E r \in Runners : state_[r] = "error"
         THEN Goto(c, "request") /\ code' = [code EXCEPT ![c] = componentFailureExitCode]
         ELSE Goto(c, "apply") /\ UNCHANGED code
    /\ UNCHANGED <<setup, kernel, usageMutex_, group_, runner, cleanedUp, walk, result, faults>>

\* applyRunMode: startAndStop goes straight on, a blocking run waits in idleThread, and a
\* non-blocking one returns
ApplyRunMode(c) ==
    /\ pc[c] = "apply"
    /\ IF runMode = "realTime" /\ blockMode_ = "doNotBlock"
         THEN /\ Goto(c, "done")
              /\ result' = [result EXCEPT ![c] = IF requestedExitCode_ = 0 THEN "success" ELSE "failure"]
         ELSE /\ runMode = "startAndStop" \/ stopRequested_
              /\ Goto(c, "cas") /\ UNCHANGED result
    /\ code' = [code EXCEPT ![c] = 0]
    /\ UNCHANGED <<setup, kernel, usageMutex_, group_, runner, cleanedUp, walk, faults>>

----------------------------------------------------------------------------
(* KernelImpl::requestStop *)

\* where a thread goes on when requestStop or doStop returns: run() called requestStop from
\* Reread with the failure's code, and doStop at its own end
AfterStop(a) ==
    LET failing == code[a] = componentFailureExitCode IN
    CASE a \in Callers    -> IF failing THEN "apply" ELSE "done"
      [] a \in Requesters -> "done"
      [] OTHER            -> IF failing THEN "finished" ELSE "looping"

\* return requestedExitCode_, once the thread is through with run()
Return(a) ==
    /\ Goto(a, AfterStop(a))
    /\ result' = IF a \in Callers /\ AfterStop(a) = "done"
                   THEN [result EXCEPT ![a] = IF requestedExitCode_ = 0 THEN "success" ELSE "failure"]
                   ELSE result

\* mutant: the last request wins
LastExitCode(a) == code[a]

\* if (!stopRequested_) requestedExitCode_ = exitCode;
ExitCode(a) == IF stopRequested_ THEN requestedExitCode_ ELSE code[a]

\* the part under stopRequestedConditionMutex_
RequestStop(a) ==
    /\ pc[a] = "request"
    /\ IF ~isRunning_ \/ isStopping_
         THEN Goto(a, AfterStop(a)) /\ UNCHANGED <<stopRequested_, requestedExitCode_>>
         ELSE /\ Goto(a, "decide")
              /\ stopRequested_' = TRUE
              /\ requestedExitCode_' = ExitCode(a)
    /\ UNCHANGED <<setup, isRunning_, isStopping_, dispatcher, usageMutex_, group_, runner, cleanedUp, walk,
                   code, result, faults>>

\* mutant: components are not recognised
NoThreadIsAComponent(a) == FALSE

\* Executor::isCurrentThreadAComponent
IsCurrentThreadAComponent(a) == a \in Runners /\ thread_[a]

\* only a doNotBlock kernel is shut down by the thread that asks, unless it is a component's
RequestDecide(a) ==
    /\ pc[a] = "decide"
    /\ Goto(a, IF blockMode_ # "doNotBlock" \/ IsCurrentThreadAComponent(a)
                 THEN AfterStop(a) ELSE "cas")
    /\ UNCHANGED <<setup, kernel, usageMutex_, group_, runner, cleanedUp, walk, code, result, faults>>

\* an embedder's thread asks for the stop
AskToStop(q) ==
    /\ pc[q] = "idle" /\ "ask" \in scenario
    /\ Goto(q, "request")
    /\ UNCHANGED <<setup, kernel, usageMutex_, group_, runner, cleanedUp, walk, code, result, faults>>

----------------------------------------------------------------------------
(* KernelImpl::doStop and Executor::shutDown *)

StopCas(a) ==
    /\ pc[a] = "cas"
    /\ IF isStopping_
         THEN Return(a) /\ UNCHANGED isStopping_
         ELSE Goto(a, "stopMessages") /\ isStopping_' = TRUE /\ UNCHANGED result
    /\ UNCHANGED <<setup, isRunning_, stopRequested_, requestedExitCode_, dispatcher, usageMutex_, group_,
                   runner, cleanedUp, walk, code, faults>>

\* mutant: the message workers are not joined
StopMessagesLater(a) ==
    /\ pc[a] = "stopMessages"
    /\ Goto(a, "lockStop")
    /\ UNCHANGED <<setup, kernel, usageMutex_, group_, runner, cleanedUp, walk, code, result, faults>>

\* sessionManager_.stopMessageProcessing(): joins the message workers
StopMessages(a) ==
    /\ pc[a] = "stopMessages"
    /\ dispatcher' = IF dispatcher = "on" THEN "stopped" ELSE dispatcher
    /\ Goto(a, "lockStop")
    /\ UNCHANGED <<setup, isRunning_, isStopping_, stopRequested_, requestedExitCode_, usageMutex_, group_,
                   runner, cleanedUp, walk, code, result, faults>>

StopLock(a) ==
    /\ pc[a] = "lockStop"
    /\ usageMutex_ = None
    /\ usageMutex_' = a
    /\ Goto(a, "walk")
    /\ UNCHANGED <<setup, kernel, group_, runner, cleanedUp, walk, code, result, faults>>

\* mutant: the walk does not stop below the first group
WalkGroupOn(a) ==
    /\ pc[a] = "walk"
    /\ Goto(a, "stop") /\ todo' = [todo EXCEPT ![a] = RunnersAt(group_)]
    /\ UNCHANGED <<setup, kernel, usageMutex_, group_, runner, cleanedUp, cur, at, code, result, faults>>

\* while (true) { if (group_ == 0U) break; ... }
WalkGroup(a) ==
    /\ pc[a] = "walk"
    /\ IF group_ = 0
         THEN Goto(a, "cleanup") /\ UNCHANGED todo
         ELSE Goto(a, "stop") /\ todo' = [todo EXCEPT ![a] = RunnersAt(group_)]
    /\ UNCHANGED <<setup, kernel, usageMutex_, group_, runner, cleanedUp, cur, at, code, result, faults>>

\* the stop loop reads the runner's state: a faulted one is only joined
StopRunner(a, r) ==
    /\ pc[a] = "stop" /\ r \in todo[a]
    /\ cur' = [cur EXCEPT ![a] = r]
    /\ todo' = [todo EXCEPT ![a] = @ \ {r}]
    /\ Goto(a, IF state_[r] = "error" THEN "joinFaulted" ELSE "signal")
    /\ UNCHANGED <<setup, kernel, usageMutex_, group_, runner, cleanedUp, at, code, result, faults>>

\* mutant: a faulted runner is skipped with its thread
SkipFaulted(a) ==
    /\ pc[a] = "joinFaulted"
    /\ Goto(a, "stop")
    /\ UNCHANGED <<setup, kernel, usageMutex_, group_, runner, cleanedUp, walk, code, result, faults>>

\* joinFaultedThread: nothing to join when the thread was never created
JoinFaulted(a) ==
    /\ pc[a] = "joinFaulted"
    /\ pc[cur[a]] \in {"none", "finished"}
    /\ Goto(a, "stop")
    /\ UNCHANGED <<setup, kernel, usageMutex_, group_, runner, cleanedUp, walk, code, result, faults>>

\* an exception leaves the shutdown walk; the lock's scope ends with it
ShutdownThrows(a) ==
    /\ Goto(a, "threw")
    /\ usageMutex_' = None

\* mutant: the thread is not told
MarkStopping(r) ==
    /\ workQueueEnabled' = [workQueueEnabled EXCEPT ![r] = FALSE]
    /\ SetState(r, "stopping")
    /\ UNCHANGED stopFlag_

\* what signalThreadToStop does to a running runner
TellToStop(r) ==
    /\ workQueueEnabled' = [workQueueEnabled EXCEPT ![r] = FALSE]
    /\ SetState(r, "stopping")
    /\ stopFlag_' = [stopFlag_ EXCEPT ![r] = TRUE]

\* stopThread up to the join: signalThreadToStop reads the state a second time
Signal(a) ==
    /\ pc[a] = "signal"
    /\ LET r == cur[a] IN
       \/ /\ state_[r] = "stopped"
          /\ Goto(a, "stop")
          /\ UNCHANGED <<runner, usageMutex_>>
       \/ /\ state_[r] = "stopping"
          /\ Goto(a, "join")
          /\ UNCHANGED <<runner, usageMutex_>>
       \/ /\ state_[r] = "running"
          /\ TellToStop(r)
          /\ Goto(a, "join")
          /\ UNCHANGED <<thread_, usageMutex_>>
       \/ /\ state_[r] \notin {"stopped", "stopping", "running"}
          /\ ShutdownThrows(a)
          /\ UNCHANGED runner
    /\ UNCHANGED <<setup, kernel, group_, cleanedUp, walk, code, result, faults>>

\* stopThread from the join: a thread that joins itself gets an error back, and toErrorState's
\* request finds the kernel stopping
Join(a) ==
    /\ pc[a] = "join"
    /\ \/ cur[a] = a /\ SetState(a, "error")
       \/ pc[cur[a]] = "finished" /\ SetState(cur[a], "stopped")
    /\ Goto(a, "stop")
    /\ UNCHANGED <<setup, kernel, usageMutex_, group_, stopFlag_, thread_, workQueueEnabled, cleanedUp,
                   walk, code, result, faults>>

StopsDone(a) ==
    /\ pc[a] = "stop" /\ todo[a] = {}
    /\ todo' = [todo EXCEPT ![a] = RunnersAt(group_)]
    /\ Goto(a, "unload")
    /\ UNCHANGED <<setup, kernel, usageMutex_, group_, runner, cleanedUp, cur, at, code, result, faults>>

\* Runner::unload; an error or an exception of the hook is only recorded
Unload(a, r) ==
    /\ pc[a] = "unload" /\ r \in todo[a]
    /\ todo' = [todo EXCEPT ![a] = @ \ {r}]
    /\ \/ state_[r] \in {"error", "unloaded"} /\ UNCHANGED <<state_, pc, usageMutex_>>
       \/ state_[r] = "stopped" /\ SetState(r, "unloaded") /\ UNCHANGED <<pc, usageMutex_>>
       \/ /\ state_[r] \notin {"error", "unloaded", "stopped"}
          /\ ShutdownThrows(a) /\ UNCHANGED state_
    /\ UNCHANGED <<setup, kernel, group_, stopFlag_, thread_, workQueueEnabled, cleanedUp, cur, at, code,
                   result, faults>>

\* group_--
GroupDown(a) ==
    /\ pc[a] = "unload" /\ todo[a] = {}
    /\ group_' = group_ - 1
    /\ Goto(a, "walk")
    /\ UNCHANGED <<setup, kernel, usageMutex_, runner, cleanedUp, walk, code, result, faults>>

\* postUnloadCleanup of every runner, then the lock goes; a failed start-up rethrows
Cleanup(a) ==
    /\ pc[a] = "cleanup"
    /\ cleanedUp' = [r \in Runners |-> TRUE]
    /\ usageMutex_' = None
    /\ Goto(a, IF a \in Callers /\ result[a] = "startupError" THEN "threw" ELSE "notRunning")
    /\ UNCHANGED <<setup, kernel, group_, runner, walk, code, result, faults>>

StopNotRunning(a) ==
    /\ pc[a] = "notRunning"
    /\ isRunning_' = FALSE
    /\ Goto(a, "notStopping")
    /\ UNCHANGED <<setup, isStopping_, stopRequested_, requestedExitCode_, dispatcher, usageMutex_, group_,
                   runner, cleanedUp, walk, code, result, faults>>

StopNotStopping(a) ==
    /\ pc[a] = "notStopping"
    /\ isStopping_' = FALSE
    /\ Return(a)
    /\ UNCHANGED <<setup, isRunning_, stopRequested_, requestedExitCode_, dispatcher, usageMutex_, group_,
                   runner, cleanedUp, walk, code, faults>>

----------------------------------------------------------------------------
(* A component's own thread: Runner::doRun *)

\* workQueue_.enable(), then into the component's run()
ThreadBegin(r) ==
    /\ pc[r] = "begin"
    /\ workQueueEnabled' = [workQueueEnabled EXCEPT ![r] = TRUE]
    /\ Goto(r, "looping")
    /\ UNCHANGED <<setup, kernel, usageMutex_, group_, state_, stopFlag_, thread_, cleanedUp, walk, code,
                   result, faults>>

\* run() returns Ok: it shall when the stop flag is set, and it may at any time
ThreadReturn(r) ==
    /\ pc[r] = "looping"
    /\ Goto(r, "finished")
    /\ UNCHANGED <<setup, kernel, usageMutex_, group_, runner, cleanedUp, walk, code, result, faults>>

\* RunApi::requestKernelStop from the component's loop
ThreadAsksToStop(r) ==
    /\ pc[r] = "looping" /\ r \in Askers /\ "ask" \in scenario
    /\ code' = [code EXCEPT ![r] = 0]
    /\ Goto(r, "request")
    /\ UNCHANGED <<setup, kernel, usageMutex_, group_, runner, cleanedUp, walk, result, faults>>

\* run() reports an error: toErrorState stores the state and requests a stop
ThreadFails(r) ==
    /\ pc[r] = "looping"
    /\ "run" \in scenario /\ faults < MaxFaults
    /\ faults' = faults + 1
    /\ SetState(r, "error")
    /\ code' = [code EXCEPT ![r] = componentFailureExitCode]
    /\ Goto(r, "request")
    /\ UNCHANGED <<setup, kernel, usageMutex_, group_, stopFlag_, thread_, workQueueEnabled, cleanedUp,
                   walk, result>>

----------------------------------------------------------------------------

CallerStep(c) ==
    \/ RunCheck(c) \/ RunReset(c) \/ RunLock(c) \/ NextPhase(c) \/ Spawned(c)
    \/ \E r \in Runners : Preload(c, r) \/ Load(c, r) \/ InitRunner(c, r) \/ Spawn(c, r)
    \/ StartMessages(c) \/ SetRunning(c) \/ Reread(c) \/ ApplyRunMode(c)

StopStep(a) ==
    \/ RequestStop(a) \/ RequestDecide(a)
    \/ StopCas(a) \/ StopMessages(a) \/ StopLock(a) \/ WalkGroup(a)
    \/ \E r \in Runners : StopRunner(a, r) \/ Unload(a, r)
    \/ JoinFaulted(a) \/ Signal(a) \/ Join(a) \/ StopsDone(a) \/ GroupDown(a)
    \/ Cleanup(a) \/ StopNotRunning(a) \/ StopNotStopping(a)

ThreadStep(r) ==
    ThreadBegin(r) \/ ThreadReturn(r) \/ ThreadAsksToStop(r) \/ ThreadFails(r)

Next ==
    \/ \E c \in Callers : CallerStep(c)
    \/ \E a \in Actors : StopStep(a)
    \/ \E q \in Requesters : AskToStop(q)
    \/ \E r \in Runners : ThreadStep(r)

Spec == Init /\ [][Next]_vars

\* The operating system runs every thread that can take a step, and Component::run "shall end
\* the execution thread when the stopFlag is set": execLoop reads the flag in every cycle.  No
\* fairness for what a thread need not do: failing, returning early, asking to stop.
Fairness ==
    /\ \A c \in Callers : WF_vars(CallerStep(c))
    /\ \A a \in Actors : WF_vars(StopStep(a))
    /\ \A r \in Runners : WF_vars(ThreadBegin(r)) /\ SF_vars(stopFlag_[r] /\ ThreadReturn(r))

FairSpec == Spec /\ Fairness

----------------------------------------------------------------------------
(* Properties *)

TypeOK ==
    /\ blockMode_ \in BlockModes /\ runMode \in RunModes /\ scenario \in Scenarios
    /\ isRunning_ \in BOOLEAN /\ isStopping_ \in BOOLEAN /\ stopRequested_ \in BOOLEAN
    /\ requestedExitCode_ \in {0, componentFailureExitCode}
    /\ usageMutex_ \in Actors \union {None}
    /\ dispatcher \in {"off", "on", "stopped"}
    /\ group_ \in 0..MaxGroup
    /\ state_ \in [Runners -> ComponentStates]
    /\ stopFlag_ \in [Runners -> BOOLEAN]
    /\ thread_ \in [Runners -> BOOLEAN]
    /\ workQueueEnabled \in [Runners -> BOOLEAN]
    /\ cleanedUp \in [Runners -> BOOLEAN]
    /\ pc \in [Actors -> Labels]
    /\ todo \in [Actors -> SUBSET Runners]
    /\ cur \in [Actors -> Runners \union {None}]
    /\ at \in [Actors -> 0..MaxGroup]
    /\ code \in [Actors -> {0, componentFailureExitCode}]
    /\ result \in [Callers -> {"none", "alreadyRunning", "startupError", "success", "failure"}]
    /\ faults \in 0..MaxFaults

Live(r) == pc[r] \notin {"none", "finished"}

\* No component's thread ever runs the shutdown, which would join that very thread: requestStop
\* from a component only records the request, even though the thread handle it recognises the
\* caller by is assigned after the thread was started.
ComponentsNeverStopKernel == \A r \in Runners : pc[r] \notin StopLabels

\* As long as a component's thread lives, every component of a lower group is still up (or has
\* failed by itself): groups come up in order and go down in the reverse order, and a group is
\* left only when its threads, the failed ones too, have been joined.
LowerGroupsOutlive ==
    \A q, r \in Runners : Live(r) /\ Group[q] < Group[r] => state_[q] \in {"running", "error"}

StartupFailed == scenario \intersect {"preload", "load", "init", "thread"} # {}

\* A component that has run is unloaded only when its thread is gone and no message worker is
\* left that could reach it, and its postUnloadCleanup() waits for the end of its thread too,
\* also when it failed by itself and is never unloaded; unless the start-up failed.
UnloadedIsQuiet ==
    \A r \in Runners :
        /\ thread_[r] /\ state_[r] = "unloaded" => ~Live(r) /\ dispatcher # "on"
        /\ cleanedUp[r] => ~Live(r) \/ StartupFailed

\* A start-up that failed leaves no component of the groups below the failing one up.
FailedStartupUnwinds ==
    \A c \in Callers, r \in Runners :
        pc[c] = "threw" /\ Group[r] < at[c] => state_[r] \in {"unloaded", "error"} /\ ~Live(r)

\* The exit code of the first stop request stands.
FirstExitCodeStands == [][stopRequested_ => requestedExitCode_' = requestedExitCode_]_vars

Down == \A r \in Runners : ~Live(r) /\ state_[r] \in {"unloaded", "error"}

\* A recorded stop request of a blocking kernel ends in every component being down.
RequestedStopHappens ==
    (stopRequested_ /\ blockMode_ = "doBlock") ~> (Down /\ ~isRunning_)

\* A component that fails while the kernel runs brings a blocking kernel down, and run()
\* reports the failure.
FailureEndsRun ==
    (isRunning_ /\ blockMode_ = "doBlock" /\ \E r \in Runners : state_[r] = "error")
        ~> (Down /\ \A c \in Callers : result[c] = "failure")

============================================================================
