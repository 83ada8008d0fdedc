---------------------------- MODULE VirtualTime ----------------------------
(***************************************************************************)
(* Stepped execution: the thread that drives virtual time commands the     *)
(* components' threads through a pair of promises per Runner               *)
(* (libs/kernel/src/runner.h, runner.cpp: advanceVirtualTime,              *)
(* commitVirtualTime, virtualTimeExecLoop) and waits for all of them       *)
(* (kernel_impl.h: advanceTimeDrainInputsAndUpdate, flushVirtualTime).     *)
(*                                                                         *)
(* In runMode virtualTimeRunning the driver is the thread in Kernel::run() *)
(* and also runs the shutdown; in virtualTime it is the kernel component's *)
(* thread, when a client steps the master clock, and the shutdown runs in  *)
(* another thread.  A behaviour starts when the kernel is running; the     *)
(* workers may be slow to reach their loop.                                *)
(*                                                                         *)
(* There the stop may set the promise of a worker the driver is about to   *)
(* command.  The command then throws and the driver goes on with its next  *)
(* step: an exception of processNoFlush goes to the client, who may step   *)
(* again, and one of flushOutputs is dropped by soonestStep.               *)
(*                                                                         *)
(* Time is in units of a fraction of a millisecond: Grain units are one    *)
(* millisecond, to which the distance to the next cycle is rounded up.     *)
(***************************************************************************)
EXTENDS Integers, FiniteSets, FiniteSetsExt

CONSTANTS
    Workers,    \* the runners that follow virtual time
    Period,     \* cycle time of each
    Grain,      \* units in a millisecond
    MaxTime,    \* bound: no step begins at or after this time
    MaxThrows,  \* bound: no step begins after so many that threw
    Modes,      \* virtualTime, virtualTimeRunning
    Scenarios,  \* what may happen: "stop" (a stop request), "fail" (run() reports an error)
    None

ASSUME PeriodAssumption ==
    /\ Grain \in Nat \ {0} /\ MaxTime \in Nat /\ MaxThrows \in Nat
    /\ Workers # {} /\ IsFiniteSet(Workers)
    /\ Period \in [Workers -> Nat \ {0}]
    /\ \A w \in Workers : Period[w] >= Grain

VARIABLES
    mode, scenario,
    stopRequested_,
    \* Runner, per worker
    barrierForWorker_, barrierForCaller_,    \* whether the promise has its value
    workerCommand_, targetVirtualTime_, time_, nextExecutionDeltaTime_,
    updated, stopFlag_,
    pc,          \* the worker's thread
    cycles,      \* history: how many cycles the worker has run
    \* the driver
    driver, todo, delta,
    futures,     \* whose answer virtualTimeRunnersFutures_ waits for, those of a step that threw too
    spoilt,      \* a future in there has lost its promise, or was read already
    throws,      \* history: how many steps threw
    \* the thread in doStop
    stopper, cur, toStop,
    kernelStopFlag   \* stopFlag_ of the kernel component

promises == <<barrierForWorker_, barrierForCaller_>>
command  == <<workerCommand_, targetVirtualTime_>>
work     == <<time_, nextExecutionDeltaTime_, updated, cycles>>
drive    == <<driver, todo, delta, futures, spoilt, throws>>
stop     == <<stopper, cur, toStop, kernelStopFlag>>
vars == <<mode, scenario, stopRequested_, promises, command, work, stopFlag_, pc, drive, stop>>

Init ==
    /\ mode \in Modes /\ scenario \in Scenarios
    /\ stopRequested_ = FALSE
    /\ barrierForWorker_ = [w \in Workers |-> FALSE]
    /\ barrierForCaller_ = [w \in Workers |-> FALSE]
    /\ workerCommand_ = [w \in Workers |-> "advance"]
    /\ targetVirtualTime_ = [w \in Workers |-> 0]
    /\ time_ = [w \in Workers |-> 0]
    /\ nextExecutionDeltaTime_ = [w \in Workers |-> 0]
    /\ updated = [w \in Workers |-> FALSE]
    /\ stopFlag_ = [w \in Workers |-> FALSE]
    /\ pc = [w \in Workers |-> "start"]
    /\ cycles = [w \in Workers |-> 0]
    /\ driver = "rest" /\ todo = {} /\ delta = 0
    /\ futures = {} /\ spoilt = FALSE /\ throws = 0
    /\ stopper = "idle" /\ cur = None /\ toStop = Workers /\ kernelStopFlag = FALSE

----------------------------------------------------------------------------
(* The worker: Runner::doRun and virtualTimeExecLoop *)

\* the component's run() calls execLoop
WorkerEnters(w) ==
    /\ pc[w] = "start"
    /\ pc' = [pc EXCEPT ![w] = "wait"]
    /\ UNCHANGED <<mode, scenario, stopRequested_, promises, command, work, stopFlag_, drive, stop>>

\* run() reports an error before its loop: toErrorState asks the kernel to stop
WorkerFails(w) ==
    /\ pc[w] = "start" /\ "fail" \in scenario
    /\ pc' = [pc EXCEPT ![w] = "gone"]
    /\ stopRequested_' = TRUE
    /\ UNCHANGED <<mode, scenario, promises, command, work, stopFlag_, drive, stop>>

\* the wait is over: a new promise, and the stop flag is read
WorkerWakes(w) ==
    /\ pc[w] = "wait" /\ barrierForWorker_[w]
    /\ barrierForWorker_' = [barrierForWorker_ EXCEPT ![w] = FALSE]
    /\ pc' = [pc EXCEPT ![w] = IF stopFlag_[w] THEN "gone" ELSE workerCommand_[w]]
    /\ UNCHANGED <<mode, scenario, stopRequested_, barrierForCaller_, command, work, stopFlag_,
                   drive, stop>>

\* commandTimeAdvance: drain, update and work when the cycle is due
WorkerAdvances(w) ==
    /\ pc[w] = "advance"
    /\ LET next == nextExecutionDeltaTime_[w] - (targetVirtualTime_[w] - time_[w]) IN
       /\ nextExecutionDeltaTime_' = [nextExecutionDeltaTime_ EXCEPT ![w] = next]
       /\ updated' = [updated EXCEPT ![w] = @ \/ next <= 0]
       /\ cycles' = IF next <= 0 THEN [cycles EXCEPT ![w] = @ + 1] ELSE cycles
    /\ time_' = [time_ EXCEPT ![w] = targetVirtualTime_[w]]
    /\ pc' = [pc EXCEPT ![w] = "notify"]
    /\ UNCHANGED <<mode, scenario, stopRequested_, promises, command, stopFlag_, drive, stop>>

\* mutant: the update is forgotten before it is committed
WorkerCommitsNothing(w) ==
    /\ pc[w] = "commit"
    /\ pc' = [pc EXCEPT ![w] = "notify"]
    /\ UNCHANGED <<mode, scenario, stopRequested_, promises, command, work, stopFlag_, drive, stop>>

\* commandCommit: only what was updated is committed
WorkerCommits(w) ==
    /\ pc[w] = "commit"
    /\ nextExecutionDeltaTime_' =
         IF updated[w]
           THEN [nextExecutionDeltaTime_ EXCEPT ![w] = Period[w] - (time_[w] % Period[w])]
           ELSE nextExecutionDeltaTime_
    /\ updated' = [updated EXCEPT ![w] = FALSE]
    /\ pc' = [pc EXCEPT ![w] = "notify"]
    /\ UNCHANGED <<mode, scenario, stopRequested_, promises, command, time_, cycles, stopFlag_,
                   drive, stop>>

\* mutant: the worker goes back to its wait without an answer
WorkerKeepsSilent(w) ==
    /\ pc[w] = "notify"
    /\ pc' = [pc EXCEPT ![w] = "wait"]
    /\ UNCHANGED <<mode, scenario, stopRequested_, promises, command, work, stopFlag_, drive, stop>>

\* barrierForCaller_.set_value()
WorkerNotifies(w) ==
    /\ pc[w] = "notify"
    /\ barrierForCaller_' = [barrierForCaller_ EXCEPT ![w] = TRUE]
    /\ pc' = [pc EXCEPT ![w] = "wait"]
    /\ UNCHANGED <<mode, scenario, stopRequested_, barrierForWorker_, command, work, stopFlag_,
                   drive, stop>>

----------------------------------------------------------------------------
(* The driver: applyRunMode's loop, or VirtualKernelClock under the master clock *)

\* mutant: the wrong sign
RoundWithWrongSign(d) == (d - Grain + 1) - ((d - Grain + 1) % Grain)

RoundUpToMilliseconds(d) == (d + Grain - 1) - ((d + Grain - 1) % Grain)

\* mutant: the largest distance
LargestDelta == Max({RoundUpToMilliseconds(nextExecutionDeltaTime_[w]) : w \in Workers})

\* computeNextExecutionDeltaTime
NextDelta == Min({RoundUpToMilliseconds(nextExecutionDeltaTime_[w]) : w \in Workers})

\* a step begins; its length is the smallest distance any worker reports.  A client may ask for
\* several steps, which no stop interrupts.  After a step that threw, stepDuration_ is what the
\* throw left.
StepBegins ==
    /\ driver = "rest"
    /\ mode = "virtualTimeRunning" => ~stopRequested_
    /\ \A w \in Workers : time_[w] < MaxTime
    /\ throws < MaxThrows
    /\ delta' = IF throws = 0 THEN NextDelta ELSE delta
    /\ todo' = Workers
    /\ driver' = "advance"
    /\ UNCHANGED <<mode, scenario, stopRequested_, promises, command, work, stopFlag_, pc, stop,
                   futures, spoilt, throws>>

\* the exception leaves the step; without an answer of flushOutputs the next step has no length
StepThrows ==
    /\ driver' = "rest" /\ throws' = throws + 1
    /\ delta' = IF driver = "commit" THEN 0 ELSE delta

\* advanceVirtualTime and commitVirtualTime: a fresh promise for the answer, the command, and the
\* worker's promise, which throws when it already has its value.  A future that still waits for
\* the promise that is replaced is spoilt.
Command(w) ==
    /\ driver \in {"advance", "commit"} /\ w \in todo
    /\ todo' = todo \ {w}
    /\ spoilt' = (spoilt \/ (w \in futures /\ ~barrierForCaller_[w]))
    /\ barrierForCaller_' = [barrierForCaller_ EXCEPT ![w] = FALSE]
    /\ targetVirtualTime_' = IF driver = "advance"
                               THEN [targetVirtualTime_ EXCEPT ![w] = time_[w] + delta]
                               ELSE targetVirtualTime_
    /\ workerCommand_' = [workerCommand_ EXCEPT ![w] = driver]
    /\ barrierForWorker_' = [barrierForWorker_ EXCEPT ![w] = TRUE]
    /\ IF barrierForWorker_[w]
         THEN StepThrows /\ futures' = futures \ {w}
         ELSE futures' = futures \union {w} /\ UNCHANGED <<driver, throws, delta>>
    /\ UNCHANGED <<mode, scenario, stopRequested_, work, stopFlag_, pc, stop>>

\* mutant: one answer is enough
FirstAnswer == \E w \in Workers : barrierForCaller_[w]

\* future.get() on all
EveryAnswer == \A w \in Workers : barrierForCaller_[w]

AllAnswered ==
    /\ driver \in {"advance", "commit"} /\ todo = {}
    /\ EveryAnswer /\ ~spoilt
    /\ IF driver = "advance"
         THEN driver' = "commit" /\ todo' = Workers
         ELSE driver' = "rest" /\ UNCHANGED todo
    /\ futures' = {}
    /\ UNCHANGED <<mode, scenario, stopRequested_, promises, command, work, stopFlag_, pc, delta,
                   spoilt, throws, stop>>

\* future.get() of one that is spoilt; those of earlier steps come first in the vector
WaitThrows ==
    /\ driver = "advance" /\ todo = {} /\ spoilt
    /\ StepThrows
    /\ UNCHANGED <<mode, scenario, stopRequested_, promises, command, work, stopFlag_, pc, todo,
                   futures, spoilt, stop>>

\* the kernel component's loop sees its stop flag between two calls
DriverEnds ==
    /\ mode = "virtualTime" /\ driver = "rest" /\ kernelStopFlag
    /\ driver' = "gone"
    /\ UNCHANGED <<mode, scenario, stopRequested_, promises, command, work, stopFlag_, pc, todo,
                   delta, futures, spoilt, throws, stop>>

----------------------------------------------------------------------------
(* The stop: requestStop, and doStop's walk with signalThreadToStop *)

AskToStop ==
    /\ "stop" \in scenario /\ ~stopRequested_
    /\ stopRequested_' = TRUE
    /\ UNCHANGED <<mode, scenario, promises, command, work, stopFlag_, pc, drive, stop>>

\* applyRunMode leaves its loop, or idleThread returns
StopBegins ==
    /\ stopper = "idle" /\ stopRequested_
    /\ mode = "virtualTimeRunning" => driver = "rest"
    /\ stopper' = "walk"
    /\ UNCHANGED <<mode, scenario, stopRequested_, promises, command, work, stopFlag_, pc, drive,
                   cur, toStop, kernelStopFlag>>

\* the next runner of the walk: its stop flag first; one that failed is only joined
StopWorker(w) ==
    /\ stopper = "walk" /\ w \in toStop
    /\ cur' = w /\ toStop' = toStop \ {w}
    /\ IF pc[w] = "gone"
         THEN stopper' = "join" /\ UNCHANGED stopFlag_
         ELSE stopper' = "unblock" /\ stopFlag_' = [stopFlag_ EXCEPT ![w] = TRUE]
    /\ UNCHANGED <<mode, scenario, stopRequested_, promises, command, work, pc, drive,
                   kernelStopFlag>>

\* mutant: a worker that waits is not woken
LeaveWorkerWaiting ==
    /\ stopper = "unblock"
    /\ stopper' = "join"
    /\ UNCHANGED <<mode, scenario, stopRequested_, promises, command, work, stopFlag_, pc, drive,
                   cur, toStop, kernelStopFlag>>

\* then the promise, where an error is ignored
UnblockWorker ==
    /\ stopper = "unblock"
    /\ barrierForWorker_' = [barrierForWorker_ EXCEPT ![cur] = TRUE]
    /\ stopper' = "join"
    /\ UNCHANGED <<mode, scenario, stopRequested_, barrierForCaller_, command, work, stopFlag_, pc,
                   drive, cur, toStop, kernelStopFlag>>

JoinWorker ==
    /\ stopper = "join" /\ pc[cur] = "gone"
    /\ stopper' = "walk"
    /\ UNCHANGED <<mode, scenario, stopRequested_, promises, command, work, stopFlag_, pc, drive,
                   cur, toStop, kernelStopFlag>>

\* the kernel component comes last
StopKernelComponent ==
    /\ stopper = "walk" /\ toStop = {}
    /\ kernelStopFlag' = TRUE
    /\ stopper' = "joinKernel"
    /\ UNCHANGED <<mode, scenario, stopRequested_, promises, command, work, stopFlag_, pc, drive,
                   cur, toStop>>

JoinKernelComponent ==
    /\ stopper = "joinKernel"
    /\ mode = "virtualTime" => driver = "gone"
    /\ stopper' = "done"
    /\ UNCHANGED <<mode, scenario, stopRequested_, promises, command, work, stopFlag_, pc, drive,
                   cur, toStop, kernelStopFlag>>

----------------------------------------------------------------------------

WorkerStep(w) ==
    WorkerEnters(w) \/ WorkerWakes(w) \/ WorkerAdvances(w) \/ WorkerCommits(w) \/ WorkerNotifies(w)
DriverStep == StepBegins \/ (\E w \in Workers : Command(w)) \/ AllAnswered \/ WaitThrows \/ DriverEnds
StopStep ==
    \/ StopBegins \/ UnblockWorker \/ JoinWorker \/ StopKernelComponent \/ JoinKernelComponent
    \/ \E w \in Workers : StopWorker(w)

Next ==
    \/ \E w \in Workers : WorkerStep(w) \/ WorkerFails(w)
    \/ DriverStep
    \/ AskToStop
    \/ StopStep

\* Every thread that can take a step takes it.  No fairness for requests and failures.
Fairness ==
    /\ \A w \in Workers : WF_vars(WorkerStep(w))
    /\ WF_vars(DriverStep)
    /\ WF_vars(StopStep)

Spec == Init /\ [][Next]_vars /\ Fairness

----------------------------------------------------------------------------
(* Properties *)

TypeOK ==
    /\ stopRequested_ \in BOOLEAN /\ kernelStopFlag \in BOOLEAN
    /\ barrierForWorker_ \in [Workers -> BOOLEAN] /\ barrierForCaller_ \in [Workers -> BOOLEAN]
    /\ workerCommand_ \in [Workers -> {"advance", "commit"}]
    /\ targetVirtualTime_ \in [Workers -> Nat] /\ time_ \in [Workers -> Nat]
    /\ nextExecutionDeltaTime_ \in [Workers -> Int]
    /\ updated \in [Workers -> BOOLEAN] /\ stopFlag_ \in [Workers -> BOOLEAN]
    /\ pc \in [Workers -> {"start", "wait", "advance", "commit", "notify", "gone"}]
    /\ cycles \in [Workers -> Nat]
    /\ driver \in {"rest", "advance", "commit", "gone"}
    /\ todo \subseteq Workers /\ delta \in Nat
    /\ futures \subseteq Workers /\ spoilt \in BOOLEAN /\ throws \in Nat
    /\ stopper \in {"idle", "walk", "unblock", "join", "joinKernel", "done"}
    /\ cur \in Workers \union {None} /\ toStop \subseteq Workers

\* No component updates while another commits: what a component reads during its update was
\* fixed before the update began.  Like the two below this is up to the first step that threw: the
\* step after it commands some workers while others still do what the last one told them.
PhasesAreSeparate ==
    throws = 0 => \A v, w \in Workers : ~(pc[v] = "advance" /\ pc[w] = "commit")

\* Between two steps all components agree on the time, and nothing that was updated is left
\* uncommitted, as long as no step threw.
StepsAreComplete ==
    (driver = "rest" /\ throws = 0) => \A v, w \in Workers : time_[v] = time_[w] /\ ~updated[v]

\* No cycle is ever skipped, and none runs twice, as long as no step threw: between two steps every
\* component has run one cycle for each of its periods up to the current time, although the steps
\* follow the component that is due first and are rounded up to whole milliseconds.
NoCycleSkipped ==
    (driver = "rest" /\ throws = 0 /\ \E v \in Workers : cycles[v] > 0) =>
        \A w \in Workers : cycles[w] = (time_[w] \div Period[w]) + 1

\* Every step comes to its end as long as no component fails and nobody asks to stop.
StepsEnd == (scenario = {}) => []<>(driver = "rest")

\* A stop request ends a kernel that drives its own virtual time, with no component failing.
RunningKernelStops ==
    (stopRequested_ /\ mode = "virtualTimeRunning" /\ "fail" \notin scenario) ~> (stopper = "done")

============================================================================
