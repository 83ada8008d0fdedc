----------------------- MODULE KernelLifecycleProofs -----------------------
(***************************************************************************)
(* Proofs about KernelLifecycle for any number of components, groups and   *)
(* stopping threads: the type invariant, that one thread at a time walks   *)
(* the components, that no component's thread ever runs the shutdown, that *)
(* the groups go down in the reverse of the order they came up in, that    *)
(* what is unloaded is quiet, and what a failed start-up leaves.           *)
(***************************************************************************)
EXTENDS KernelLifecycle, TLAPS

(* The labels under usageMutex_, and of those the ones inside a group of the shutdown walk. *)
InGroupLabels == {"stop", "joinFaulted", "signal", "join", "unload"}
LockedLabels ==
    {"preload", "load", "init", "spawn", "spawned", "messages", "walk", "cleanup"}
        \union InGroupLabels

(* At most one thread walks the components up or down: the lifecycle mutex is held there. *)
Exclusion == \A x \in Actors : pc[x] \in LockedLabels => usageMutex_ = x

(* The walk is inside a group only when group_ names one. *)
WalksAGroup == \A x \in Actors : pc[x] \in InGroupLabels => group_ # 0

Inv1 == TypeOK /\ Exclusion /\ WalksAGroup

(* Where a thread goes on after requestStop or doStop: a component's goes back to its own run(). *)
LEMMA AfterStopLabels ==
    ASSUME NEW x \in Actors
    PROVE  /\ AfterStop(x) \in {"apply", "done", "finished", "looping"}
           /\ x \in Runners => AfterStop(x) \in {"finished", "looping"}
BY ThreadAssumption DEF ThreadAssumption, AfterStop, Actors

(* The first invariant holds when the kernel is constructed. *)
LEMMA InitInv1 == Init => Inv1
<1> SUFFICES ASSUME Init PROVE Inv1
  OBVIOUS
<1>1. pc \in [Actors -> {"run", "idle", "none"}]
  BY DEF Init
<1>2. 0 \in 0..MaxGroup /\ 0 \in 0..MaxFaults
  BY GroupAssumption, ModeAssumption DEF GroupAssumption, ModeAssumption
<1>3. pc \in [Actors -> Labels]
  BY <1>1 DEF Labels, StartLabels, ThreadLabels, EndLabels
<1>4. TypeOK
  BY <1>2, <1>3 DEF Init, TypeOK, ComponentStates, componentFailureExitCode
<1>5. Exclusion /\ WalksAGroup
  BY <1>1 DEF Exclusion, WalksAGroup, LockedLabels, InGroupLabels
<1> QED
  BY <1>4, <1>5 DEF Inv1

(* A thread that goes to a place outside the walks disturbs neither of the two. *)
LEMMA Moves ==
    ASSUME Inv1, NEW x \in Actors, NEW l \in Labels \ LockedLabels,
           pc' = [pc EXCEPT ![x] = l], UNCHANGED <<usageMutex_, group_>>
    PROVE  pc' \in [Actors -> Labels] /\ Exclusion' /\ WalksAGroup'
BY DEF Inv1, TypeOK, Exclusion, WalksAGroup, LockedLabels

(* One lemma per step of run(); the conjuncts an action cannot disturb follow from UNCHANGED. *)
LEMMA CallerStepInv1 ==
    ASSUME Inv1, NEW c \in Callers, CallerStep(c)
    PROVE  Inv1'
<1> USE GroupAssumption, ThreadAssumption, ModeAssumption
    DEF Inv1, TypeOK, Exclusion, WalksAGroup, Labels, StartLabels, RequestLabels, StopLabels,
        ThreadLabels, EndLabels, ComponentStates, LockedLabels, InGroupLabels, Actors,
        componentFailureExitCode, setup, kernel, runner, walk, Goto, SetState,
        GroupAssumption, ThreadAssumption, ModeAssumption
<1>1. CASE RunCheck(c)
  BY <1>1, SMTT(40) DEF RunCheck
<1>2. CASE RunReset(c)
  BY <1>2 DEF RunReset
<1>3. CASE RunLock(c)
  BY <1>3 DEF RunLock
<1>4. CASE NextPhase(c)
  <2>0. c \in Actors /\ at[c] \in 0..MaxGroup /\ group_ \in 0..MaxGroup
    OBVIOUS
  <2>1. todo' \in [Actors -> SUBSET Runners]
    <3>1. \A g : RunnersAt(g) \in SUBSET Runners
      BY DEF RunnersAt
    <3> HIDE DEF Inv1, Labels
    <3>2. todo \in [Actors -> SUBSET Runners]
      BY DEF Inv1
    <3>3. \/ UNCHANGED todo
          \/ \E g : todo' = [todo EXCEPT ![c] = RunnersAt(g)]
      BY <1>4 DEF NextPhase
    <3> QED
      BY <3>1, <3>2, <3>3
  <2>6. at' \in [Actors -> 0..MaxGroup]
    <3>1. UNCHANGED at \/ (at[c] + 1 <= MaxGroup /\ at' = [at EXCEPT ![c] = at[c] + 1])
      BY <1>4 DEF NextPhase
    <3>2. at[c] + 1 <= MaxGroup => at[c] + 1 \in 0..MaxGroup
      BY <2>0
    <3> QED
      BY <3>1, <3>2
  <2>7. group_' \in 0..MaxGroup
    <3>1. group_' \in {group_, at[c]}
      BY <1>4 DEF NextPhase
    <3> QED
      BY <2>0, <3>1
  <2>2. PICK l \in {"init", "spawn", "load", "messages"} : pc' = [pc EXCEPT ![c] = l]
    BY <1>4 DEF NextPhase
  <2>3. pc' \in [Actors -> Labels] /\ usageMutex_ = c /\ UNCHANGED usageMutex_
    BY <1>4, <2>2 DEF NextPhase
  <2>4. Exclusion' /\ WalksAGroup'
    BY <1>4, <2>2, <2>3 DEF NextPhase
  <2>5. UNCHANGED <<setup, kernel, usageMutex_, runner, cleanedUp, cur, code, result, faults>>
    BY <1>4 DEF NextPhase
  <2> QED
    BY <2>1, <2>3, <2>4, <2>5, <2>6, <2>7
<1>5. CASE Spawned(c)
  <2>1. /\ thread_' \in [Runners -> BOOLEAN] /\ state_' \in [Runners -> ComponentStates]
        /\ todo' \in [Actors -> SUBSET Runners] /\ cur' \in [Actors -> Runners \union {None}]
    BY <1>5 DEF Spawned
  <2>2. pc' \in [Actors -> Labels] /\ Exclusion' /\ WalksAGroup'
    BY <1>5 DEF Spawned
  <2> QED
    BY <1>5, <2>1, <2>2 DEF Spawned
<1>6. ASSUME NEW r \in Runners, Preload(c, r) PROVE Inv1'
  <2>1. CASE UNCHANGED pc
    BY <1>6, <2>1 DEF Preload, Past, StartupThrows
  <2>2. CASE StartupThrows(c)
    BY <1>6, <2>2 DEF Preload, Past, StartupThrows
  <2> QED
    BY <1>6, <2>1, <2>2 DEF Preload, Past
<1>7. ASSUME NEW r \in Runners, Load(c, r) PROVE Inv1'
  <2>1. CASE UNCHANGED pc
    BY <1>7, <2>1 DEF Load, Past, StartupThrows
  <2>2. CASE StartupThrows(c)
    BY <1>7, <2>2 DEF Load, Past, StartupThrows
  <2> QED
    BY <1>7, <2>1, <2>2 DEF Load, Past
<1>8. ASSUME NEW r \in Runners, InitRunner(c, r) PROVE Inv1'
  <2>1. CASE UNCHANGED pc
    BY <1>8, <2>1, SMTT(40) DEF InitRunner, Past, StartupThrows
  <2>2. CASE StartupThrows(c)
    <3>1. state_' \in [Runners -> ComponentStates]
      BY <1>8 DEF InitRunner
    <3> QED
      BY <1>8, <2>2, <3>1 DEF InitRunner, StartupThrows
  <2> QED
    BY <1>8, <2>1, <2>2 DEF InitRunner, Past
<1>9. ASSUME NEW r \in Runners, Spawn(c, r) PROVE Inv1'
  <2>1. CASE UNCHANGED pc
    BY <1>9, <2>1, SMTT(40) DEF Spawn, Past, StartupThrows
  <2>2. CASE StartupThrows(c)
    <3>1. state_' \in [Runners -> ComponentStates]
      BY <1>9 DEF Spawn
    <3> QED
      BY <1>9, <2>2, <3>1 DEF Spawn, StartupThrows
  <2>3. CASE pc' = [pc EXCEPT ![c] = "spawned", ![r] = "begin"]
    <3>1. /\ c \in Actors /\ r \in Actors /\ c # r
          /\ pc'[c] = "spawned" /\ pc'[r] = "begin"
          /\ \A x \in Actors \ {c, r} : pc'[x] = pc[x]
      BY <2>3
    <3>2. /\ pc[c] = "spawn"
          /\ cur' \in [Actors -> Runners \union {None}]
          /\ thread_' \in [Runners -> BOOLEAN]
          /\ UNCHANGED <<setup, kernel, usageMutex_, group_, state_, stopFlag_, workQueueEnabled,
                         cleanedUp, todo, at, code, result, faults>>
      <4>1. pc' # pc
        BY <1>9, <2>3 DEF Spawn
      <4>2. ~StartupThrows(c)
        BY <3>1 DEF StartupThrows
      <4>3. /\ pc[c] = "spawn"
            /\ cur' = [cur EXCEPT ![c] = r]
            /\ thread_' = [thread_ EXCEPT ![r] = FALSE]
            /\ UNCHANGED <<state_, todo, result>>
        BY <1>9, <4>1, <4>2 DEF Spawn, Past
      <4> QED
        BY <1>9, <4>3 DEF Spawn
    <3>3. pc' \in [Actors -> Labels]
      BY <2>3
    <3>4. TypeOK'
      BY <3>2, <3>3
    <3> QED
      BY <3>1, <3>2, <3>4
  <2> QED
    BY <1>9, <2>1, <2>2, <2>3 DEF Spawn, Past
<1>10. CASE StartMessages(c)
  BY <1>10 DEF StartMessages
<1>11. CASE SetRunning(c)
  BY <1>11 DEF SetRunning
<1>12. CASE Reread(c)
  BY <1>12 DEF Reread
<1>13. CASE ApplyRunMode(c)
  BY <1>13 DEF ApplyRunMode
<1> QED
  BY <1>1, <1>2, <1>3, <1>4, <1>5, <1>6, <1>7, <1>8, <1>9, <1>10, <1>11, <1>12, <1>13
  DEF CallerStep

(* requestStop, doStop and the shutdown walk preserve the first invariant, whoever runs them. *)
LEMMA StopStepInv1 ==
    ASSUME Inv1, NEW x \in Actors, StopStep(x)
    PROVE  Inv1'
<1> USE GroupAssumption, ThreadAssumption, ModeAssumption
    DEF Inv1, TypeOK, Exclusion, WalksAGroup, Labels, StartLabels, RequestLabels, StopLabels,
        ThreadLabels, EndLabels, ComponentStates, LockedLabels, InGroupLabels, Actors,
        componentFailureExitCode, setup, kernel, runner, walk, Goto, SetState,
        GroupAssumption, ThreadAssumption, ModeAssumption
<1>a. AfterStop(x) \in {"apply", "done", "finished", "looping"}
  BY AfterStopLabels
<1>r. ASSUME Return(x)
      PROVE  /\ pc' = [pc EXCEPT ![x] = AfterStop(x)]
             /\ result' \in [Callers -> {"none", "alreadyRunning", "startupError", "success", "failure"}]
  BY <1>r DEF Return
<1>1. CASE RequestStop(x)
  <2>1. requestedExitCode_' \in {0, componentFailureExitCode}
    BY <1>1 DEF RequestStop, ExitCode, Actors
  <2>2. stopRequested_' \in BOOLEAN
    BY <1>1 DEF RequestStop
  <2>3. PICK l \in {AfterStop(x), "decide"} : pc' = [pc EXCEPT ![x] = l]
    BY <1>1 DEF RequestStop
  <2>4. pc' \in [Actors -> Labels] /\ Exclusion' /\ WalksAGroup'
    <3>1. l \in Labels \ LockedLabels
      BY <1>a
    <3>2. UNCHANGED <<usageMutex_, group_>>
      BY <1>1 DEF RequestStop
    <3> QED
      BY <2>3, <3>1, <3>2, Moves
  <2> QED
    BY <1>1, <2>1, <2>2, <2>4 DEF RequestStop
<1>2. CASE RequestDecide(x)
  BY <1>2, <1>a DEF RequestDecide
<1>3. CASE StopCas(x)
  <2>1. isStopping_' \in BOOLEAN
    BY <1>3 DEF StopCas
  <2>2. result' \in [Callers -> {"none", "alreadyRunning", "startupError", "success", "failure"}]
    BY <1>3, <1>r DEF StopCas
  <2>3. PICK l \in {AfterStop(x), "stopMessages"} : pc' = [pc EXCEPT ![x] = l]
    BY <1>3, <1>r DEF StopCas
  <2>4. pc' \in [Actors -> Labels] /\ Exclusion' /\ WalksAGroup'
    <3>1. l \in Labels \ LockedLabels
      BY <1>a
    <3>2. UNCHANGED <<usageMutex_, group_>>
      BY <1>3 DEF StopCas
    <3> QED
      BY <2>3, <3>1, <3>2, Moves
  <2> QED
    BY <1>3, <2>1, <2>2, <2>4 DEF StopCas
<1>4. CASE StopMessages(x)
  BY <1>4 DEF StopMessages
<1>5. CASE StopLock(x)
  BY <1>5 DEF StopLock
<1>6. CASE WalkGroup(x)
  BY <1>6 DEF WalkGroup, RunnersAt
<1>7. ASSUME NEW r \in Runners, StopRunner(x, r) PROVE Inv1'
  BY <1>7 DEF StopRunner
<1>8. ASSUME NEW r \in Runners, Unload(x, r) PROVE Inv1'
  BY <1>8, SMTT(40) DEF Unload, ShutdownThrows
<1>9. CASE JoinFaulted(x)
  BY <1>9 DEF JoinFaulted
<1>10. CASE Signal(x)
  <2>1. /\ state_' \in [Runners -> ComponentStates]
        /\ stopFlag_' \in [Runners -> BOOLEAN]
        /\ thread_' \in [Runners -> BOOLEAN]
        /\ workQueueEnabled' \in [Runners -> BOOLEAN]
    <3>1. CASE UNCHANGED runner
      BY <3>1
    <3>2. CASE /\ state_' = [state_ EXCEPT ![cur[x]] = "stopping"]
               /\ stopFlag_' = [stopFlag_ EXCEPT ![cur[x]] = TRUE]
               /\ workQueueEnabled' = [workQueueEnabled EXCEPT ![cur[x]] = FALSE]
               /\ UNCHANGED thread_
      BY <3>2
    <3> QED
      BY <1>10, <3>1, <3>2 DEF Signal, TellToStop
  <2>2. CASE ShutdownThrows(x)
    BY <1>10, <2>1, <2>2 DEF Signal, ShutdownThrows
  <2>3. CASE UNCHANGED usageMutex_ /\ \E l \in {"stop", "join"} : Goto(x, l)
    BY <1>10, <2>1, <2>3 DEF Signal, TellToStop
  <2> QED
    BY <1>10, <2>2, <2>3 DEF Signal, TellToStop
<1>11. CASE Join(x)
  BY <1>11 DEF Join
<1>12. CASE StopsDone(x)
  BY <1>12 DEF StopsDone, RunnersAt
<1>13. CASE GroupDown(x)
  BY <1>13 DEF GroupDown
<1>14. CASE Cleanup(x)
  BY <1>14 DEF Cleanup
<1>15. CASE StopNotRunning(x)
  BY <1>15 DEF StopNotRunning
<1>16. CASE StopNotStopping(x)
  <2>1. pc' = [pc EXCEPT ![x] = AfterStop(x)] /\ UNCHANGED <<usageMutex_, group_>>
    BY <1>16, <1>r DEF StopNotStopping
  <2>2. AfterStop(x) \in Labels \ LockedLabels
    BY <1>a
  <2>3. pc' \in [Actors -> Labels] /\ Exclusion' /\ WalksAGroup'
    BY <2>1, <2>2, Moves
  <2>4. result' \in [Callers -> {"none", "alreadyRunning", "startupError", "success", "failure"}]
    BY <1>16, <1>r DEF StopNotStopping
  <2> QED
    BY <1>16, <2>3, <2>4 DEF StopNotStopping
<1> QED
  BY <1>1, <1>2, <1>3, <1>4, <1>5, <1>6, <1>7, <1>8, <1>9, <1>10, <1>11, <1>12, <1>13, <1>14,
     <1>15, <1>16
  DEF StopStep

(* So do the components' own threads and the embedder's requests. *)
LEMMA OtherStepInv1 ==
    ASSUME Inv1, (\E q \in Requesters : AskToStop(q)) \/ (\E r \in Runners : ThreadStep(r))
    PROVE  Inv1'
<1> USE DEF Inv1, TypeOK, Exclusion, WalksAGroup, Labels, StartLabels, RequestLabels, StopLabels,
        ThreadLabels, EndLabels, ComponentStates, LockedLabels, InGroupLabels, Actors,
        componentFailureExitCode, setup, kernel, runner, walk, Goto, SetState
<1>1. ASSUME NEW q \in Requesters, AskToStop(q) PROVE Inv1'
  BY <1>1 DEF AskToStop
<1>2. ASSUME NEW r \in Runners, ThreadBegin(r) PROVE Inv1'
  BY <1>2 DEF ThreadBegin
<1>3. ASSUME NEW r \in Runners, ThreadReturn(r) PROVE Inv1'
  BY <1>3 DEF ThreadReturn
<1>4. ASSUME NEW r \in Runners, ThreadAsksToStop(r) PROVE Inv1'
  BY <1>4 DEF ThreadAsksToStop
<1>5. ASSUME NEW r \in Runners, ThreadFails(r) PROVE Inv1'
  BY <1>5, ModeAssumption DEF ThreadFails, ModeAssumption
<1> QED
  BY <1>1, <1>2, <1>3, <1>4, <1>5 DEF ThreadStep

(* And steps of the environment. *)
LEMMA StutterInv1 == ASSUME Inv1, UNCHANGED vars PROVE Inv1'
BY DEF Inv1, TypeOK, Exclusion, WalksAGroup, vars, setup, kernel, runner, walk

(* The first invariant holds for any number of threads calling run() and requestStop(). *)
LEMMA Invariant1 == Spec => []Inv1
<1>1. ASSUME Inv1, [Next]_vars PROVE Inv1'
  BY <1>1, CallerStepInv1, StopStepInv1, OtherStepInv1, StutterInv1 DEF Next
<1> QED
  BY <1>1, InitInv1, PTL DEF Spec

(* Every variable of the lifecycle keeps its type. *)
THEOREM TypeCorrect == Spec => []TypeOK
BY Invariant1, PTL DEF Inv1

(* Whatever threads call run() and requestStop(), at most one of them is bringing components up *)
(* or down at any time.                                                                         *)
THEOREM OneWalkAtATime ==
    Spec => [](\A x, y \in Actors : pc[x] \in LockedLabels /\ pc[y] \in LockedLabels => x = y)
<1>1. Inv1 => \A x, y \in Actors : pc[x] \in LockedLabels /\ pc[y] \in LockedLabels => x = y
  BY DEF Inv1, Exclusion
<1> QED
  BY <1>1, Invariant1, PTL

----------------------------------------------------------------------------
(***************************************************************************)
(* No component's thread runs the shutdown.  requestStop recognises a      *)
(* component by the handle its runner holds, and the handle is assigned    *)
(* after the thread was created; what makes it work is that a request is   *)
(* dropped until isRunning_ is set, which happens after the last handle    *)
(* was assigned.                                                           *)
(***************************************************************************)

SingleCaller == \A c, d \in Callers : c = d

EarlyLabels == StartLabels \ {"reread", "apply"}

(* A running kernel is through with its start-up. *)
RunningIsStarted == isRunning_ => \A c \in Callers : pc[c] \notin EarlyLabels

(* A thread without a handle belongs to the runner the start-up is just creating. *)
HandleAssigned ==
    \A r \in Runners : pc[r] # "none" /\ ~thread_[r] =>
        \E c \in Callers : pc[c] = "spawned" /\ cur[c] = r

DecideHasHandle == \A r \in Runners : pc[r] = "decide" => thread_[r]

Inv2 == /\ RunningIsStarted
        /\ HandleAssigned
        /\ DecideHasHandle
        /\ ComponentsNeverStopKernel

(* The second invariant holds when the kernel is constructed. *)
LEMMA InitInv2 == Init => Inv2
<1> SUFFICES ASSUME Init PROVE Inv2
  OBVIOUS
<1>1. \A r \in Runners : pc[r] = "none"
  BY ThreadAssumption DEF Init, Actors, ThreadAssumption
<1> QED
  BY <1>1 DEF Init, Inv2, RunningIsStarted, HandleAssigned, DecideHasHandle,
      ComponentsNeverStopKernel, StopLabels

(* The start-up preserves the second invariant: isRunning_ is set after the last handle. *)
LEMMA CallerStepInv2 ==
    ASSUME SingleCaller, Inv1, Inv2, NEW c \in Callers, CallerStep(c)
    PROVE  Inv2'
<1>a. pc \in [Actors -> Labels] /\ thread_ \in [Runners -> BOOLEAN]
      /\ cur \in [Actors -> Runners \union {None}] /\ c \in Actors
  BY DEF Inv1, TypeOK, Actors
<1>b. \A d \in Callers : d = c
  BY DEF SingleCaller
<1>c. Callers \intersect Runners = {} /\ Runners \subseteq Actors
  BY ThreadAssumption DEF ThreadAssumption, Actors
(* a step that is not about a thread's creation *)
<1>d. ASSUME pc[c] # "spawned", NEW l \in Labels \ {"spawned"}, pc' = [pc EXCEPT ![c] = l],
             UNCHANGED <<thread_, cur>>,
             isRunning_' => l \notin EarlyLabels
      PROVE  Inv2'
  <2>1. \A r \in Runners : pc'[r] = pc[r] /\ thread_'[r] = thread_[r]
    BY <1>a, <1>c, <1>d
  <2>2. pc'[c] = l
    BY <1>a, <1>d
  <2> QED
    BY <1>b, <1>d, <2>1, <2>2
    DEF Inv2, RunningIsStarted, HandleAssigned, DecideHasHandle, ComponentsNeverStopKernel
<1>e. ASSUME pc[c] # "spawned", UNCHANGED <<pc, thread_, cur, isRunning_>>
      PROVE  Inv2'
  BY <1>e DEF Inv2, RunningIsStarted, HandleAssigned, DecideHasHandle, ComponentsNeverStopKernel
<1>f. isRunning_ => pc[c] \notin EarlyLabels
  BY DEF Inv2, RunningIsStarted
<1> USE DEF Labels, StartLabels, RequestLabels, StopLabels, ThreadLabels, EndLabels, EarlyLabels,
        kernel, runner, walk, Goto
<1>1. CASE RunCheck(c)
  BY <1>1, <1>d, <1>f DEF RunCheck
<1>2. CASE RunReset(c)
  BY <1>2, <1>d, <1>f DEF RunReset
<1>3. CASE RunLock(c)
  BY <1>3, <1>d, <1>f DEF RunLock
<1>4. CASE NextPhase(c)
  BY <1>4, <1>d, <1>f DEF NextPhase
<1>5. CASE Spawned(c)
  <2>1. /\ pc' = [pc EXCEPT ![c] = "spawn"]
        /\ thread_' = [thread_ EXCEPT ![cur[c]] = TRUE]
        /\ pc[c] = "spawned" /\ UNCHANGED isRunning_
    BY <1>5 DEF Spawned
  <2>2. \A r \in Runners : pc'[r] = pc[r] /\ (thread_[r] => thread_'[r])
    BY <1>a, <1>c, <2>1
  <2>3. cur[c] \in Runners => thread_'[cur[c]]
    BY <1>a, <2>1
  <2>4. \A r \in Runners : pc[r] # "none" /\ ~thread_[r] => r = cur[c]
    BY <1>b DEF Inv2, HandleAssigned
  <2>5. HandleAssigned'
    BY <2>2, <2>3, <2>4 DEF HandleAssigned
  <2>6. ~isRunning_'
    BY <1>f, <2>1
  <2> QED
    BY <2>2, <2>5, <2>6
    DEF Inv2, RunningIsStarted, DecideHasHandle, ComponentsNeverStopKernel
<1>6. ASSUME NEW r \in Runners, Preload(c, r) PROVE Inv2'
  BY <1>6, <1>d, <1>e, <1>f DEF Preload, Past, StartupThrows
<1>7. ASSUME NEW r \in Runners, Load(c, r) PROVE Inv2'
  BY <1>7, <1>d, <1>e, <1>f DEF Load, Past, StartupThrows
<1>8. ASSUME NEW r \in Runners, InitRunner(c, r) PROVE Inv2'
  BY <1>8, <1>d, <1>e, <1>f DEF InitRunner, Past, StartupThrows
<1>9. ASSUME NEW r \in Runners, Spawn(c, r) PROVE Inv2'
  <2>1. CASE UNCHANGED <<pc, thread_, cur>>
    BY <1>9, <2>1, <1>e DEF Spawn
  <2>2. CASE StartupThrows(c) /\ UNCHANGED <<thread_, cur>>
    BY <1>9, <2>2, <1>d, <1>f DEF Spawn, StartupThrows
  <2>3. CASE /\ pc' = [pc EXCEPT ![c] = "spawned", ![r] = "begin"]
             /\ cur' = [cur EXCEPT ![c] = r]
             /\ thread_' = [thread_ EXCEPT ![r] = FALSE]
    <3>1. pc'[c] = "spawned" /\ pc'[r] = "begin" /\ cur'[c] = r
      BY <1>a, <1>c, <2>3
    <3>2. \A q \in Runners \ {r} : pc'[q] = pc[q] /\ thread_'[q] = thread_[q]
      BY <1>a, <1>c, <2>3
    <3>3. ~isRunning_'
      BY <1>9, <1>f DEF Spawn
    <3>4. pc[c] # "spawned"
      BY <1>9 DEF Spawn
    <3>5. \A q \in Runners : pc[q] # "none" => thread_[q]
      BY <1>b, <3>4 DEF Inv2, HandleAssigned
    <3>6. HandleAssigned'
      BY <3>1, <3>2, <3>5 DEF HandleAssigned
    <3> QED
      BY <3>1, <3>2, <3>3, <3>6
      DEF Inv2, RunningIsStarted, DecideHasHandle, ComponentsNeverStopKernel
  <2> QED
    BY <1>9, <2>1, <2>2, <2>3 DEF Spawn, Past
<1>10. CASE StartMessages(c)
  BY <1>10, <1>d, <1>f DEF StartMessages
<1>11. CASE SetRunning(c)
  BY <1>11, <1>d DEF SetRunning
<1>12. CASE Reread(c)
  BY <1>12, <1>d DEF Reread
<1>13. CASE ApplyRunMode(c)
  BY <1>13, <1>d DEF ApplyRunMode
<1> QED
  BY <1>1, <1>2, <1>3, <1>4, <1>5, <1>6, <1>7, <1>8, <1>9, <1>10, <1>11, <1>12, <1>13
  DEF CallerStep

(* A step of a thread that is not starting the kernel up. *)
LEMMA MovesInv2 ==
    ASSUME Inv1, Inv2, NEW x \in Actors, NEW l \in Labels \ (EarlyLabels \union {"none"}),
           pc[x] \notin EarlyLabels, pc' = [pc EXCEPT ![x] = l],
           \A y \in Actors \ {x} : cur'[y] = cur[y], UNCHANGED thread_, isRunning_' => isRunning_,
           x \in Runners => pc[x] # "none" /\ l \notin StopLabels /\ (l = "decide" => thread_[x])
    PROVE  Inv2'
<1>1. pc \in [Actors -> Labels] /\ Runners \subseteq Actors /\ Callers \subseteq Actors
  BY DEF Inv1, TypeOK, Actors
<1>2. pc'[x] = l /\ \A y \in Actors \ {x} : pc'[y] = pc[y]
  BY <1>1
<1>3. RunningIsStarted'
  BY <1>1, <1>2 DEF Inv2, RunningIsStarted
<1>4. HandleAssigned'
  <2> SUFFICES ASSUME NEW r \in Runners, pc'[r] # "none", ~thread_[r]
               PROVE  \E c \in Callers : pc'[c] = "spawned" /\ cur'[c] = r
    BY DEF HandleAssigned
  <2>1. PICK c \in Callers : pc[c] = "spawned" /\ cur[c] = r
    BY <1>1, <1>2 DEF Inv2, HandleAssigned
  <2>2. c # x
    BY <2>1 DEF EarlyLabels, StartLabels
  <2> QED
    BY <1>1, <1>2, <2>1, <2>2
<1>5. DecideHasHandle'
  BY <1>1, <1>2 DEF Inv2, DecideHasHandle
<1>6. ComponentsNeverStopKernel'
  BY <1>1, <1>2 DEF Inv2, ComponentsNeverStopKernel
<1> QED
  BY <1>3, <1>4, <1>5, <1>6 DEF Inv2

(* Stop requests and the shutdown walk preserve it: a component's request is only recorded. *)
LEMMA StopStepInv2 ==
    ASSUME Inv1, Inv2, NEW x \in Actors, StopStep(x)
    PROVE  Inv2'
<1>a. /\ AfterStop(x) \in {"apply", "done", "finished", "looping"}
      /\ x \in Runners => AfterStop(x) \in {"finished", "looping"}
  BY AfterStopLabels
<1>b. /\ x \in Runners => pc[x] \notin StopLabels
      /\ x \in Runners /\ pc[x] = "decide" => thread_[x]
  BY DEF Inv2, ComponentsNeverStopKernel, DecideHasHandle
<1>c. ASSUME x \in Runners, pc[x] = "request", isRunning_ PROVE thread_[x]
  BY <1>c DEF Inv2, RunningIsStarted, HandleAssigned, EarlyLabels, StartLabels
<1>d. cur \in [Actors -> Runners \union {None}]
  BY DEF Inv1, TypeOK
<1>e. ASSUME UNCHANGED <<pc, thread_, cur, isRunning_>> PROVE Inv2'
  BY <1>e DEF Inv2, RunningIsStarted, HandleAssigned, DecideHasHandle, ComponentsNeverStopKernel
<1> USE DEF Labels, StartLabels, RequestLabels, StopLabels, ThreadLabels, EndLabels, EarlyLabels,
        kernel, runner, walk, Goto
<1>1. CASE RequestStop(x)
  BY <1>1, <1>a, <1>c, MovesInv2 DEF RequestStop
<1>2. CASE RequestDecide(x)
  BY <1>2, <1>a, <1>b, MovesInv2 DEF RequestDecide, IsCurrentThreadAComponent
<1>3. CASE StopCas(x)
  BY <1>3, <1>a, <1>b, MovesInv2 DEF StopCas, Return
<1>4. CASE StopMessages(x)
  BY <1>4, <1>b, MovesInv2 DEF StopMessages
<1>5. CASE StopLock(x)
  BY <1>5, <1>b, MovesInv2 DEF StopLock
<1>6. CASE WalkGroup(x)
  BY <1>6, <1>b, MovesInv2 DEF WalkGroup
<1>7. ASSUME NEW r \in Runners, StopRunner(x, r) PROVE Inv2'
  BY <1>7, <1>b, <1>d, MovesInv2 DEF StopRunner
<1>8. ASSUME NEW r \in Runners, Unload(x, r) PROVE Inv2'
  BY <1>8, <1>b, <1>e, MovesInv2 DEF Unload, ShutdownThrows
<1>9. CASE JoinFaulted(x)
  BY <1>9, <1>b, MovesInv2 DEF JoinFaulted
<1>10. CASE Signal(x)
  BY <1>10, <1>b, MovesInv2 DEF Signal, TellToStop, ShutdownThrows
<1>11. CASE Join(x)
  BY <1>11, <1>b, MovesInv2 DEF Join
<1>12. CASE StopsDone(x)
  BY <1>12, <1>b, MovesInv2 DEF StopsDone
<1>13. CASE GroupDown(x)
  BY <1>13, <1>b, MovesInv2 DEF GroupDown
<1>14. CASE Cleanup(x)
  BY <1>14, <1>b, MovesInv2 DEF Cleanup
<1>15. CASE StopNotRunning(x)
  BY <1>15, <1>b, MovesInv2 DEF StopNotRunning
<1>16. CASE StopNotStopping(x)
  BY <1>16, <1>a, <1>b, MovesInv2 DEF StopNotStopping, Return
<1> QED
  BY <1>1, <1>2, <1>3, <1>4, <1>5, <1>6, <1>7, <1>8, <1>9, <1>10, <1>11, <1>12, <1>13, <1>14,
     <1>15, <1>16
  DEF StopStep

(* So do the components' own threads and the embedder's requests. *)
LEMMA OtherStepInv2 ==
    ASSUME Inv1, Inv2,
           (\E q \in Requesters : AskToStop(q)) \/ (\E r \in Runners : ThreadStep(r))
    PROVE  Inv2'
<1> USE MovesInv2
    DEF Labels, StartLabels, RequestLabels, StopLabels, ThreadLabels, EndLabels, EarlyLabels,
        kernel, runner, walk, Goto, Actors
<1>1. ASSUME NEW q \in Requesters, AskToStop(q) PROVE Inv2'
  BY <1>1, ThreadAssumption DEF AskToStop, ThreadAssumption
<1>2. ASSUME NEW r \in Runners, ThreadBegin(r) PROVE Inv2'
  BY <1>2 DEF ThreadBegin
<1>3. ASSUME NEW r \in Runners, ThreadReturn(r) PROVE Inv2'
  BY <1>3 DEF ThreadReturn
<1>4. ASSUME NEW r \in Runners, ThreadAsksToStop(r) PROVE Inv2'
  BY <1>4 DEF ThreadAsksToStop
<1>5. ASSUME NEW r \in Runners, ThreadFails(r) PROVE Inv2'
  BY <1>5 DEF ThreadFails
<1> QED
  BY <1>1, <1>2, <1>3, <1>4, <1>5 DEF ThreadStep

(* With one thread calling run() the second invariant holds. *)
LEMMA Invariant2 ==
    ASSUME SingleCaller
    PROVE  Spec => []Inv2
<1>1. ASSUME Inv1, Inv2, UNCHANGED vars PROVE Inv2'
  BY <1>1 DEF Inv2, RunningIsStarted, HandleAssigned, DecideHasHandle, ComponentsNeverStopKernel,
              vars, kernel, runner, walk
<1>2. ASSUME Inv1, Inv2, [Next]_vars PROVE Inv2'
  BY <1>1, <1>2, SingleCaller, CallerStepInv2, StopStepInv2, OtherStepInv2 DEF Next
<1> QED
  BY <1>2, InitInv2, Invariant1, PTL DEF Spec

(* With one thread calling run(), no component's thread ever runs the shutdown, and so none *)
(* joins itself.                                                                            *)
THEOREM ComponentsDoNotShutDown ==
    ASSUME SingleCaller
    PROVE  Spec => []ComponentsNeverStopKernel
<1>1. Inv2 => ComponentsNeverStopKernel
  BY DEF Inv2
<1> QED
  BY <1>1, Invariant2, PTL

(* A request is recorded only once the start-up is through. *)
RequestsAreLate == stopRequested_ => \A c \in Callers : pc[c] \notin EarlyLabels

(* What the exit code depends on in a step: a start-up is not begun again, a request is recorded *)
(* while the kernel runs, and the code is written by a reset or with the first request.          *)
CodeStep ==
    /\ \A c \in Callers : pc'[c] \in EarlyLabels => pc[c] \in EarlyLabels
    /\ stopRequested_' => stopRequested_ \/ isRunning_
    /\ requestedExitCode_' # requestedExitCode_ =>
         ~stopRequested_ \/ \E c \in Callers : pc[c] = "reset"

(* A thread that moves on does not go back to the start-up. *)
LEMMA MovesCode ==
    ASSUME Inv1, NEW x \in Actors, NEW l \in Labels, pc' = [pc EXCEPT ![x] = l],
           l \in EarlyLabels => pc[x] \in EarlyLabels, UNCHANGED <<stopRequested_, requestedExitCode_>>
    PROVE  CodeStep
BY DEF CodeStep, Inv1, TypeOK, Actors

(* The start-up, *)
LEMMA CallerStepCode ==
    ASSUME Inv1, NEW c \in Callers, CallerStep(c)
    PROVE  CodeStep
<1>a. pc \in [Actors -> Labels] /\ c \in Actors /\ Callers \subseteq Actors /\ Runners \subseteq Actors
  BY DEF Inv1, TypeOK, Actors
<1>b. ASSUME UNCHANGED <<pc, stopRequested_, requestedExitCode_>> PROVE CodeStep
  BY <1>b DEF CodeStep
<1> USE DEF Labels, StartLabels, RequestLabels, StopLabels, ThreadLabels, EndLabels, EarlyLabels,
        kernel, Goto
<1>1. CASE RunCheck(c)
  BY <1>1, <1>a, MovesCode DEF RunCheck
<1>2. CASE RunReset(c)
  BY <1>2, <1>a DEF RunReset, CodeStep
<1>3. CASE RunLock(c)
  BY <1>3, <1>a, MovesCode DEF RunLock
<1>4. CASE NextPhase(c)
  BY <1>4, <1>a, MovesCode DEF NextPhase
<1>5. CASE Spawned(c)
  BY <1>5, <1>a, MovesCode DEF Spawned
<1>6. ASSUME NEW r \in Runners, Preload(c, r) PROVE CodeStep
  BY <1>6, <1>a, <1>b, MovesCode DEF Preload, Past, StartupThrows
<1>7. ASSUME NEW r \in Runners, Load(c, r) PROVE CodeStep
  BY <1>7, <1>a, <1>b, MovesCode DEF Load, Past, StartupThrows
<1>8. ASSUME NEW r \in Runners, InitRunner(c, r) PROVE CodeStep
  BY <1>8, <1>a, <1>b, MovesCode DEF InitRunner, Past, StartupThrows
<1>9. ASSUME NEW r \in Runners, Spawn(c, r) PROVE CodeStep
  <2>1. CASE UNCHANGED pc
    BY <1>9, <2>1, <1>b DEF Spawn
  <2>2. CASE StartupThrows(c)
    BY <1>9, <2>2, <1>a, MovesCode DEF Spawn, StartupThrows
  <2>3. CASE pc' = [pc EXCEPT ![c] = "spawned", ![r] = "begin"]
    <3>1. \A d \in Callers : pc'[d] \in EarlyLabels => pc[d] \in EarlyLabels
      BY <1>9, <1>a, <2>3 DEF Spawn
    <3> QED
      BY <1>9, <3>1 DEF Spawn, CodeStep
  <2> QED
    BY <1>9, <2>1, <2>2, <2>3 DEF Spawn, Past
<1>10. CASE StartMessages(c)
  BY <1>10, <1>a, MovesCode DEF StartMessages
<1>11. CASE SetRunning(c)
  BY <1>11, <1>a, MovesCode DEF SetRunning
<1>12. CASE Reread(c)
  BY <1>12, <1>a, MovesCode DEF Reread
<1>13. CASE ApplyRunMode(c)
  BY <1>13, <1>a, MovesCode DEF ApplyRunMode
<1> QED
  BY <1>1, <1>2, <1>3, <1>4, <1>5, <1>6, <1>7, <1>8, <1>9, <1>10, <1>11, <1>12, <1>13
  DEF CallerStep

(* the requests and the shutdown, of which only a request writes the code, *)
LEMMA StopStepCode ==
    ASSUME Inv1, NEW x \in Actors, StopStep(x)
    PROVE  CodeStep
<1>a. AfterStop(x) \in {"apply", "done", "finished", "looping"}
  BY AfterStopLabels
<1>b. ASSUME UNCHANGED <<pc, stopRequested_, requestedExitCode_>> PROVE CodeStep
  BY <1>b DEF CodeStep
<1>c. pc \in [Actors -> Labels] /\ Callers \subseteq Actors
  BY DEF Inv1, TypeOK, Actors
<1> USE DEF Labels, StartLabels, RequestLabels, StopLabels, ThreadLabels, EndLabels, EarlyLabels,
        kernel, Goto
<1>1. CASE RequestStop(x)
  <2>1. CASE UNCHANGED <<stopRequested_, requestedExitCode_>>
    BY <1>1, <1>a, <2>1, MovesCode DEF RequestStop
  <2>2. CASE isRunning_ /\ pc' = [pc EXCEPT ![x] = "decide"] /\ requestedExitCode_' = ExitCode(x)
    <3>1. \A c \in Callers : pc'[c] \in EarlyLabels => pc[c] \in EarlyLabels
      BY <1>c, <2>2
    <3> QED
      BY <2>2, <3>1 DEF CodeStep, ExitCode
  <2> QED
    BY <1>1, <2>1, <2>2 DEF RequestStop
<1>2. CASE RequestDecide(x)
  BY <1>2, <1>a, MovesCode DEF RequestDecide
<1>3. CASE StopCas(x)
  BY <1>3, <1>a, MovesCode DEF StopCas, Return
<1>4. CASE StopMessages(x)
  BY <1>4, MovesCode DEF StopMessages
<1>5. CASE StopLock(x)
  BY <1>5, MovesCode DEF StopLock
<1>6. CASE WalkGroup(x)
  BY <1>6, MovesCode DEF WalkGroup
<1>7. ASSUME NEW r \in Runners, StopRunner(x, r) PROVE CodeStep
  BY <1>7, MovesCode DEF StopRunner
<1>8. ASSUME NEW r \in Runners, Unload(x, r) PROVE CodeStep
  BY <1>8, <1>b, MovesCode DEF Unload, ShutdownThrows
<1>9. CASE JoinFaulted(x)
  BY <1>9, MovesCode DEF JoinFaulted
<1>10. CASE Signal(x)
  BY <1>10, MovesCode DEF Signal, TellToStop, ShutdownThrows
<1>11. CASE Join(x)
  BY <1>11, MovesCode DEF Join
<1>12. CASE StopsDone(x)
  BY <1>12, MovesCode DEF StopsDone
<1>13. CASE GroupDown(x)
  BY <1>13, MovesCode DEF GroupDown
<1>14. CASE Cleanup(x)
  BY <1>14, MovesCode DEF Cleanup
<1>15. CASE StopNotRunning(x)
  BY <1>15, MovesCode DEF StopNotRunning
<1>16. CASE StopNotStopping(x)
  BY <1>16, <1>a, MovesCode DEF StopNotStopping, Return
<1> QED
  BY <1>1, <1>2, <1>3, <1>4, <1>5, <1>6, <1>7, <1>8, <1>9, <1>10, <1>11, <1>12, <1>13, <1>14,
     <1>15, <1>16
  DEF StopStep

(* the other threads, and a step of nobody. *)
LEMMA OtherStepCode ==
    ASSUME Inv1, \/ \E q \in Requesters : AskToStop(q)
                 \/ \E r \in Runners : ThreadStep(r)
                 \/ UNCHANGED vars
    PROVE  CodeStep
<1> USE MovesCode
    DEF Labels, StartLabels, RequestLabels, StopLabels, ThreadLabels, EndLabels, EarlyLabels,
        kernel, Goto, Actors
<1>1. ASSUME NEW q \in Requesters, AskToStop(q) PROVE CodeStep
  BY <1>1 DEF AskToStop
<1>2. ASSUME NEW r \in Runners, ThreadBegin(r) PROVE CodeStep
  BY <1>2 DEF ThreadBegin
<1>3. ASSUME NEW r \in Runners, ThreadReturn(r) PROVE CodeStep
  BY <1>3 DEF ThreadReturn
<1>4. ASSUME NEW r \in Runners, ThreadAsksToStop(r) PROVE CodeStep
  BY <1>4 DEF ThreadAsksToStop
<1>5. ASSUME NEW r \in Runners, ThreadFails(r) PROVE CodeStep
  BY <1>5 DEF ThreadFails
<1>6. CASE UNCHANGED vars
  BY <1>6 DEF vars, CodeStep
<1> QED
  BY <1>1, <1>2, <1>3, <1>4, <1>5, <1>6 DEF ThreadStep

(* With one thread calling run(), whoever asks for the stop and however often, the exit code of  *)
(* the first request is the one that stands: a start-up, which resets it, is over before the     *)
(* first request is recorded (kernel_impl.cpp: run, requestStop).                                *)
THEOREM FirstCodeStands ==
    ASSUME SingleCaller
    PROVE  Spec => FirstExitCodeStands
<1>1. ASSUME Inv1, [Next]_vars PROVE CodeStep
  BY <1>1, CallerStepCode, StopStepCode, OtherStepCode DEF Next
<1>2. ASSUME Inv2, RequestsAreLate, CodeStep PROVE RequestsAreLate'
  BY <1>2 DEF Inv2, RunningIsStarted, RequestsAreLate, CodeStep
<1>3. ASSUME RequestsAreLate, CodeStep
      PROVE  stopRequested_ => requestedExitCode_' = requestedExitCode_
  BY <1>3 DEF RequestsAreLate, CodeStep, EarlyLabels, StartLabels
<1>4. Init => RequestsAreLate
  BY DEF Init, RequestsAreLate
<1> QED
  BY <1>1, <1>2, <1>3, <1>4, Invariant1, Invariant2, PTL DEF Spec, FirstExitCodeStands

----------------------------------------------------------------------------
(***************************************************************************)
(* The order of the groups.  The two invariants the runs check speak of    *)
(* threads and states only; what keeps them is where the start-up and the  *)
(* shutdown are.  Below, the state of every runner is given as a function  *)
(* of the place of the thread that walks: Executor::group_ separates the   *)
(* groups that are up from those that are down, except for the one group   *)
(* a walk is in.  A start-up that failed leaves its own group outside      *)
(* group_: the walk that follows is about the groups below it.             *)
(***************************************************************************)

Up(r) == state_[r] \in {"running", "error"}

(* a runner whose thread was joined, and one that was not started *)
Halted(r) == ~Live(r) /\ state_[r] \in {"stopped", "error"}
Gone(r) == ~Live(r) /\ state_[r] \in {"unloaded", "error"}
Unstarted(r, s) == pc[r] = "none" /\ state_[r] = s

Failed(c) == c \in Callers /\ result[c] = "startupError"

(* the runners a shutdown is about *)
Walked(r) == \A c \in Callers : Failed(c) => Group[r] < at[c]

Started == \A c \in Callers : pc[c] \notin EarlyLabels

(* The threads between winning the exchange of isStopping_ and giving it back; one that an *)
(* exception took out of the walk never gives it back.                                     *)
StopperLabels ==
    {"stopMessages", "lockStop", "walk", "cleanup", "notRunning", "notStopping", "threw"}
        \union InGroupLabels

BeforeGroups == {"run", "reset", "lock", "preload"}
GroupPhases  == {"load", "init", "spawn", "spawned"}
AllUpLabels  == {"messages", "setRunning"}

(* where a start-up is: the groups below the one it is at are those up to group_ *)
StartPlace(c) ==
    /\ pc[c] # "setRunning" => dispatcher = "off"
    /\ \A r \in Runners : ~cleanedUp[r]
    /\ pc[c] \in BeforeGroups => at[c] = 0 /\ group_ = 0
    /\ pc[c] \in GroupPhases =>
           /\ todo[c] \subseteq RunnersAt(at[c])
           /\ group_ < at[c]
           /\ \A r \in Runners : Group[r] < at[c] => Group[r] <= group_
    /\ pc[c] = "spawned" => cur[c] \in todo[c]
    /\ pc[c] \in AllUpLabels => \A r \in Runners : Group[r] <= group_

(* the runners of the group the start-up is at *)
StartGroup(c, r) ==
    /\ pc[c] = "load" => Unstarted(r, IF r \in todo[c] THEN "preloaded" ELSE "loaded")
    /\ pc[c] = "init" =>
           /\ pc[r] = "none"
           /\ state_[r] \in IF r \in todo[c] THEN {"loaded", "initializing"} ELSE {"initialized"}
    /\ pc[c] = "spawn" => IF r \in todo[c] THEN Unstarted(r, "initialized") ELSE Up(r)
    /\ pc[c] = "spawned" =>
           IF r = cur[c] THEN state_[r] \in {"initialized", "error"}
           ELSE IF r \in todo[c] THEN Unstarted(r, "initialized") ELSE Up(r)

(* every runner during a start-up *)
StartState(c, r) ==
    /\ pc[c] \in {"run", "reset", "lock"} => Unstarted(r, "unloaded")
    /\ pc[c] = "preload" => Unstarted(r, IF r \in todo[c] THEN "unloaded" ELSE "preloaded")
    /\ pc[c] \in GroupPhases =>
           /\ Group[r] < at[c] => Up(r)
           /\ Group[r] = at[c] => StartGroup(c, r)
           /\ Group[r] > at[c] => Unstarted(r, "preloaded")
    /\ pc[c] \in AllUpLabels => Up(r)

StartShape ==
    \A c \in Callers : pc[c] \in EarlyLabels => StartPlace(c) /\ \A r \in Runners : StartState(c, r)

(* nobody shuts down before the start-up is through, and one thread at a time *)
StopPlace ==
    /\ \A x \in Actors : pc[x] \in StopperLabels \union {"decide", "cas"} => Started
    /\ \A x \in Actors : pc[x] \in StopperLabels => isStopping_ \/ Failed(x)
    /\ \A x, y \in Actors : pc[x] \in StopperLabels /\ pc[y] \in StopperLabels => x = y
    /\ \A x \in Actors : pc[x] \in StopperLabels \ {"stopMessages"} => dispatcher # "on"
    /\ \A x \in Actors : pc[x] = "cleanup" => group_ = 0
    /\ \A c \in Callers : Failed(c) =>
           /\ pc[c] \in InGroupLabels \union {"walk", "cleanup", "threw"}
           /\ group_ = 0 \/ group_ < at[c]
           /\ ~isRunning_
           /\ \A x \in Actors \ {c} : pc[x] \notin StopperLabels \union {"decide", "cas"}

(* group_ separates the groups *)
GroupShape(r) ==
    /\ Group[r] < group_ => Up(r)
    /\ Group[r] > group_ => Gone(r)
    /\ Group[r] = group_ /\ (\A x \in Actors : pc[x] \notin InGroupLabels \union {"threw"}) => Up(r)

(* the runners of the group a shutdown is in *)
StopGroup(x, r) ==
    /\ pc[x] \in {"stop", "joinFaulted", "signal", "join"} =>
           /\ r \in todo[x] => Up(r)
           /\ r \notin todo[x] /\ (pc[x] = "stop" \/ r # cur[x]) => Halted(r)
    /\ pc[x] = "joinFaulted" /\ r = cur[x] => state_[r] = "error"
    /\ pc[x] = "signal" /\ r = cur[x] => state_[r] \in {"running", "error"}
    /\ pc[x] = "join" /\ r = cur[x] => state_[r] \in {"stopping", "error"}
    /\ pc[x] = "unload" => IF r \in todo[x] THEN Halted(r) ELSE Gone(r)

WalkShape ==
    \A x \in Actors :
        /\ pc[x] \in InGroupLabels =>
               /\ todo[x] \subseteq RunnersAt(group_)
               /\ \A r \in RunnersAt(group_) : StopGroup(x, r)
        /\ pc[x] \in {"joinFaulted", "signal", "join"} => cur[x] \in RunnersAt(group_) \ todo[x]

StopShape == Started => \A r \in Runners : Walked(r) => GroupShape(r)

QuietShape ==
    \A r \in Runners : /\ state_[r] = "unloaded" => ~Live(r) /\ dispatcher # "on"
                       /\ cleanedUp[r] /\ Walked(r) => ~Live(r)

Inv3 == /\ StartShape
        /\ StopPlace
        /\ StopShape
        /\ WalkShape
        /\ QuietShape

(* The third invariant holds when the kernel is constructed. *)
LEMMA InitInv3 == Init => Inv3
<1> SUFFICES ASSUME Init PROVE Inv3
  OBVIOUS
<1>1. /\ \A r \in Runners : pc[r] = "none"
      /\ \A c \in Callers : pc[c] = "run" /\ at[c] = 0
      /\ \A x \in Actors : pc[x] \in {"run", "idle", "none"}
  BY ThreadAssumption DEF Init, Actors, ThreadAssumption
<1>2. \A r \in Runners : state_[r] = "unloaded" /\ ~cleanedUp[r] /\ ~Live(r)
  BY <1>1 DEF Init, Live
<1>3. group_ = 0 /\ dispatcher = "off" /\ \A r \in Runners : Group[r] \in Nat /\ Group[r] > 0
  BY GroupAssumption DEF Init, GroupAssumption
<1>4. StartShape
  BY <1>1, <1>2, <1>3
  DEF StartShape, StartPlace, StartState, Unstarted, BeforeGroups, GroupPhases, AllUpLabels
<1>5. StopPlace /\ WalkShape
  <2>1. \A c \in Callers : ~Failed(c)
    BY DEF Init, Failed
  <2> QED
    BY <1>1, <2>1 DEF StopPlace, WalkShape, StopperLabels, InGroupLabels
<1>6. StopShape /\ QuietShape
  BY <1>2, <1>3 DEF StopShape, GroupShape, QuietShape, Gone
<1> QED
  BY <1>4, <1>5, <1>6 DEF Inv3

(* A step of a thread that neither starts the kernel up nor shuts it down: a component's may *)
(* report an error.                                                                          *)
LEMMA OutsideStep ==
    ASSUME SingleCaller, Inv1, Inv3, NEW x \in Actors, NEW l \in Labels, pc' = [pc EXCEPT ![x] = l],
           pc[x] \notin EarlyLabels \union StopperLabels,
           l \notin EarlyLabels \union StopperLabels \union {"none"},
           l \in {"decide", "cas"} => Started,
           x \in Runners => Live(x),
           state_' = state_ \/ (x \in Runners /\ state_' = [state_ EXCEPT ![x] = "error"]),
           \A c \in Callers : Failed(c)' <=> Failed(c),
           l \in {"decide", "cas"} => isRunning_ \/ pc[x] \in {"decide", "cas"} \/ x \in Callers,
           UNCHANGED <<isRunning_, isStopping_, dispatcher, group_, cleanedUp, todo, cur, at>>
    PROVE  Inv3'
<1>1. /\ pc \in [Actors -> Labels] /\ Runners \subseteq Actors /\ Callers \subseteq Actors
      /\ state_ \in [Runners -> ComponentStates]
  BY DEF Inv1, TypeOK, Actors
<1>2. pc'[x] = l /\ \A y \in Actors \ {x} : pc'[y] = pc[y]
  BY <1>1
<1>3. /\ \A y \in Actors : pc'[y] \in EarlyLabels <=> pc[y] \in EarlyLabels
      /\ \A y \in Actors : pc[y] \in EarlyLabels => y # x /\ pc'[y] = pc[y]
      /\ \A y \in Actors : pc'[y] \in StopperLabels <=> pc[y] \in StopperLabels
      /\ \A y \in Actors : pc'[y] \in StopperLabels => y # x /\ pc'[y] = pc[y]
  BY <1>2
<1>4. Started' <=> Started
  BY <1>1, <1>3 DEF Started
<1>5. \A r \in Runners : /\ ~Live(r) => ~Live(r)' /\ state_'[r] = state_[r]
                         /\ pc[r] = "none" <=> pc'[r] = "none"
                         /\ pc[r] = "none" => ~Live(r)
                         /\ state_'[r] \in {state_[r], "error"}
  BY <1>1, <1>2 DEF Live
<1>6. \A r \in Runners : /\ Up(r) => Up(r)'
                         /\ Gone(r) => Gone(r)'
                         /\ Halted(r) => Halted(r)'
                         /\ \A s : Unstarted(r, s) => Unstarted(r, s)'
  BY <1>5 DEF Up, Gone, Halted, Unstarted
<1>7. StartShape'
  <2> SUFFICES ASSUME NEW c \in Callers, pc'[c] \in EarlyLabels
               PROVE  StartPlace(c)' /\ \A r \in Runners : StartState(c, r)'
    BY DEF StartShape
  <2>1. pc'[c] = pc[c] /\ pc[c] \in EarlyLabels
    BY <1>1, <1>3
  <2>2. StartPlace(c) /\ \A r \in Runners : StartState(c, r)
    BY <2>1 DEF Inv3, StartShape
  <2>3. StartPlace(c)'
    BY <2>1, <2>2 DEF StartPlace
  <2>4. ASSUME NEW r \in Runners, pc[c] \in GroupPhases, Group[r] = at[c] PROVE StartGroup(c, r)'
    <3>1. StartGroup(c, r)
      BY <2>2, <2>4 DEF StartState
    <3> QED
      BY <2>1, <3>1, <1>5, <1>6 DEF StartGroup
  <2>5. ASSUME NEW r \in Runners PROVE StartState(c, r)'
    BY <2>1, <2>2, <2>4, <1>6 DEF StartState
  <2> QED
    BY <2>3, <2>5
<1>w. \A r \in Runners : Walked(r)' <=> Walked(r)
  BY DEF Walked
<1>8. StopPlace'
  <2>0. \A y \in Actors : Failed(y)' <=> Failed(y)
    BY DEF Failed
  <2>1. \A y \in Actors : pc'[y] \in {"decide", "cas"} => Started
    BY <1>2 DEF Inv3, StopPlace
  <2>2. \A y \in Actors : pc'[y] = "cleanup" => pc[y] = "cleanup"
    BY <1>3 DEF StopperLabels
  <2>3. ASSUME NEW c \in Callers, Failed(c)
        PROVE  /\ c # x /\ pc'[c] = pc[c]
               /\ \A y \in Actors \ {c} : pc'[y] \notin StopperLabels \union {"decide", "cas"}
    <3>1. /\ pc[c] \in StopperLabels /\ ~isRunning_
          /\ \A y \in Actors \ {c} : pc[y] \notin StopperLabels \union {"decide", "cas"}
      BY <2>3 DEF Inv3, StopPlace, StopperLabels
    <3>2. c # x
      BY <3>1
    <3>3. x \notin Callers
      BY <3>1, <3>2, <2>3, SingleCaller DEF SingleCaller
    <3>4. l \notin {"decide", "cas"}
      BY <3>1, <3>2, <3>3
    <3> QED
      BY <1>1, <1>2, <1>3, <3>1, <3>2, <3>4
  <2> QED
    BY <1>3, <1>4, <2>0, <2>1, <2>2, <2>3 DEF Inv3, StopPlace
<1>9. StopShape'
  <2>1. InGroupLabels \union {"threw"} \subseteq StopperLabels
    BY DEF StopperLabels
  <2>2. \A y \in Actors : pc'[y] \in InGroupLabels \union {"threw"}
                            <=> pc[y] \in InGroupLabels \union {"threw"}
    BY <1>3, <2>1
  <2> QED
    BY <1>4, <1>6, <1>w, <2>2 DEF Inv3, StopShape, GroupShape
<1>10. WalkShape'
  <2> SUFFICES ASSUME NEW y \in Actors, pc'[y] \in InGroupLabels
               PROVE  /\ todo[y] \subseteq RunnersAt(group_)
                      /\ \A r \in RunnersAt(group_) : StopGroup(y, r)'
                      /\ pc'[y] \in {"joinFaulted", "signal", "join"} =>
                             cur[y] \in RunnersAt(group_) \ todo[y]
    BY DEF WalkShape, InGroupLabels, RunnersAt
  <2>1. pc'[y] = pc[y]
    BY <1>3 DEF StopperLabels
  <2>2. \A r \in RunnersAt(group_) : r \in Runners /\ StopGroup(y, r)
    BY <2>1 DEF Inv3, WalkShape, RunnersAt
  <2>3. \A r \in RunnersAt(group_) : StopGroup(y, r)'
    BY <1>5, <1>6, <2>1, <2>2 DEF StopGroup
  <2> QED
    BY <2>1, <2>3 DEF Inv3, WalkShape
<1>11. QuietShape'
  BY <1>5, <1>w DEF Inv3, QuietShape
<1> QED
  BY <1>7, <1>8, <1>9, <1>10, <1>11 DEF Inv3

(* A step of the thread that shuts down: nobody else does, the start-up is over, and no *)
(* component's thread moves.                                                            *)
LEMMA StopperStep ==
    ASSUME Inv1, Inv2, Inv3, NEW x \in Actors, NEW l \in Labels, pc' = [pc EXCEPT ![x] = l],
           pc[x] \in StopLabels, l \notin EarlyLabels
    PROVE  /\ x \notin Runners
           /\ Started /\ Started' /\ StartShape'
           /\ pc'[x] = l /\ \A y \in Actors \ {x} : pc'[y] = pc[y]
           /\ pc[x] # "cas" => \A y \in Actors \ {x} : pc'[y] \notin StopperLabels
           /\ \A r \in Runners : pc'[r] = pc[r] /\ (Live(r)' <=> Live(r))
<1>1. pc \in [Actors -> Labels] /\ Runners \subseteq Actors /\ Callers \subseteq Actors
  BY DEF Inv1, TypeOK, Actors
<1>2. pc'[x] = l /\ \A y \in Actors \ {x} : pc'[y] = pc[y]
  BY <1>1
<1>3. x \notin Runners
  BY DEF Inv2, ComponentsNeverStopKernel
<1>4. Started
  BY DEF Inv3, StopPlace, StopLabels, StopperLabels, InGroupLabels
<1>5. Started' /\ StartShape'
  BY <1>1, <1>2, <1>4 DEF Started, StartShape
<1>6. pc[x] # "cas" => \A y \in Actors \ {x} : pc'[y] \notin StopperLabels
  BY <1>2 DEF Inv3, StopPlace, StopLabels, StopperLabels, InGroupLabels
<1>7. \A r \in Runners : pc'[r] = pc[r] /\ (Live(r)' <=> Live(r))
  BY <1>1, <1>2, <1>3 DEF Live
<1> QED
  BY <1>2, <1>3, <1>4, <1>5, <1>6, <1>7

(* The one who shuts down goes on, and stays the only one. *)
LEMMA StopperStays ==
    ASSUME Inv1, Inv2, Inv3, NEW x \in Actors, NEW l \in StopperLabels,
           pc' = [pc EXCEPT ![x] = l], pc[x] \in StopLabels \ {"cas"},
           UNCHANGED <<isStopping_, result, at>>, isRunning_' => isRunning_,
           l # "stopMessages" => dispatcher' # "on", l = "cleanup" => group_' = 0,
           Failed(x) => l \in InGroupLabels \union {"walk", "cleanup", "threw"},
           group_' = group_ \/ (group_ # 0 /\ group_' = group_ - 1)
    PROVE  StopPlace'
<1>1. l \in Labels /\ l \notin EarlyLabels
  BY DEF StopperLabels, InGroupLabels, EarlyLabels, StartLabels, Labels, StopLabels, EndLabels
<1>2. /\ Started'
      /\ pc'[x] = l /\ \A y \in Actors \ {x} : pc'[y] \notin StopperLabels
  BY <1>1, StopperStep
<1>3. isStopping_ \/ Failed(x)
  BY DEF Inv3, StopPlace, StopLabels, StopperLabels, InGroupLabels
<1>4. \A y \in Actors \ {x} : pc'[y] # "cleanup"
  BY <1>2 DEF StopperLabels
<1>5. \A y \in Actors : Failed(y)' <=> Failed(y)
  BY DEF Failed
<1>6. \A c \in Callers : Failed(c) => c = x
  BY DEF Inv3, StopPlace, StopLabels, StopperLabels, InGroupLabels
<1>7. ASSUME NEW c \in Callers, Failed(c)
      PROVE  /\ ~isRunning_' /\ (group_' = 0 \/ group_' < at'[c])
             /\ \A y \in Actors \ {c} : pc'[y] \notin StopperLabels \union {"decide", "cas"}
  <2>1. /\ ~isRunning_ /\ (group_ = 0 \/ group_ < at[c])
        /\ \A y \in Actors \ {c} : pc[y] \notin StopperLabels \union {"decide", "cas"}
    BY <1>7 DEF Inv3, StopPlace
  <2>2. group_ \in Nat /\ at[c] \in Nat
    BY GroupAssumption DEF Inv1, TypeOK, GroupAssumption, Actors
  <2>3. \A y \in Actors \ {x} : pc'[y] = pc[y]
    BY <1>1, StopperStep
  <2> QED
    BY <1>6, <1>7, <2>1, <2>2, <2>3
<1>8. \A c \in Callers : Failed(c)' => pc'[c] \in InGroupLabels \union {"walk", "cleanup", "threw"}
  BY <1>2, <1>5, <1>6 DEF Failed
<1>9. /\ \A y \in Actors : pc'[y] \in StopperLabels => y = x
      /\ \A y \in Actors : pc'[y] = "cleanup" => group_' = 0
      /\ \A c \in Callers : Failed(c)' => Failed(c)
  BY <1>2, <1>4, <1>5 DEF Failed
<1> HIDE DEF StopperLabels, InGroupLabels
<1> QED
  BY <1>2, <1>3, <1>5, <1>7, <1>8, <1>9 DEF StopPlace

(* Outside the groups the shutdown changes nothing that the shapes speak of. *)
LEMMA OutsideGroups ==
    ASSUME Inv1, Inv2, Inv3, NEW x \in Actors, NEW l \in Labels, pc' = [pc EXCEPT ![x] = l],
           pc[x] \in StopLabels \ InGroupLabels, l \notin EarlyLabels \union InGroupLabels,
           l # "threw", dispatcher' = "on" => dispatcher = "on",
           \A r \in Runners : Walked(r)' <=> Walked(r),
           UNCHANGED <<state_, group_, todo, cur>>
    PROVE  /\ WalkShape' /\ StopShape'
           /\ UNCHANGED cleanedUp => QuietShape'
<1>1. /\ Started /\ pc'[x] = l /\ \A y \in Actors \ {x} : pc'[y] = pc[y]
      /\ \A r \in Runners : pc'[r] = pc[r] /\ (Live(r)' <=> Live(r))
  BY StopperStep
<1>2. \A y \in Actors : pc'[y] \in InGroupLabels \union {"threw"}
                          <=> pc[y] \in InGroupLabels \union {"threw"}
  BY <1>1 DEF StopLabels
<1>3. \A r \in Runners : (Up(r)' <=> Up(r)) /\ (Gone(r)' <=> Gone(r)) /\ (Halted(r)' <=> Halted(r))
  BY <1>1 DEF Up, Gone, Halted
<1>4. StopShape'
  BY <1>1, <1>2, <1>3 DEF Inv3, StopShape, GroupShape
<1>5. WalkShape'
  <2> SUFFICES ASSUME NEW y \in Actors, pc'[y] \in InGroupLabels
               PROVE  /\ todo[y] \subseteq RunnersAt(group_)
                      /\ \A r \in RunnersAt(group_) : StopGroup(y, r)'
                      /\ pc'[y] \in {"joinFaulted", "signal", "join"} =>
                             cur[y] \in RunnersAt(group_) \ todo[y]
    BY DEF WalkShape, InGroupLabels, RunnersAt
  <2>1. pc'[y] = pc[y]
    BY <1>1
  <2>2. \A r \in RunnersAt(group_) : r \in Runners /\ StopGroup(y, r)
    BY <2>1 DEF Inv3, WalkShape, RunnersAt
  <2>3. \A r \in RunnersAt(group_) : StopGroup(y, r)'
    BY <1>3, <2>1, <2>2 DEF StopGroup
  <2> QED
    BY <2>1, <2>3 DEF Inv3, WalkShape
<1>6. UNCHANGED cleanedUp => QuietShape'
  BY <1>1 DEF Inv3, QuietShape
<1> QED
  BY <1>4, <1>5, <1>6

(* The part of doStop around the walk. *)
LEMMA DoStopInv3 ==
    ASSUME SingleCaller, Inv1, Inv2, Inv3, NEW x \in Actors,
           \/ StopCas(x) \/ StopMessages(x) \/ StopLock(x) \/ Cleanup(x)
           \/ StopNotRunning(x) \/ StopNotStopping(x)
    PROVE  Inv3'
<1>a. AfterStop(x) \in {"apply", "done", "finished", "looping"}
  BY AfterStopLabels
<1>b. \A m \in {"apply", "done", "finished", "looping"} :
          m \in Labels /\ m \notin EarlyLabels \union InGroupLabels \union StopperLabels
            /\ m \notin {"threw", "decide", "cas", "none"}
  BY DEF Labels, StartLabels, EarlyLabels, ThreadLabels, EndLabels, InGroupLabels, StopperLabels
<1>c. \A m \in {"stopMessages", "lockStop", "walk", "cleanup", "notRunning", "notStopping"} :
          m \in Labels /\ m \notin EarlyLabels \union InGroupLabels /\ m \in StopperLabels
            /\ m # "threw"
  BY DEF Labels, StartLabels, EarlyLabels, StopLabels, InGroupLabels, StopperLabels
<1>d. pc[x] \in StopperLabels \ {"stopMessages"} => dispatcher # "on"
  BY DEF Inv3, StopPlace
<1>e. ASSUME pc[x] \in {"cas", "notStopping"}, Return(x)
      PROVE  \A c \in Callers : Failed(c)' <=> Failed(c)
  <2>1. \A c \in Callers : c # x => result'[c] = result[c]
    BY <1>e DEF Return, Inv1, TypeOK
  <2>2. ASSUME x \in Callers PROVE ~Failed(x) /\ ~Failed(x)'
    <3>1. ~Failed(x)
      BY <1>e, <2>2 DEF Inv3, StopPlace, InGroupLabels
    <3> QED
      BY <1>e, <3>1 DEF Return, Failed, Inv1, TypeOK
  <2> QED
    BY <2>1, <2>2 DEF Failed
<1>f. (\A c \in Callers : Failed(c)' <=> Failed(c)) /\ UNCHANGED at
        => \A r \in Runners : Walked(r)' <=> Walked(r)
  BY DEF Walked
<1>g. UNCHANGED result => \A c \in Callers : Failed(c)' <=> Failed(c)
  BY DEF Failed
<1>h. pc[x] \in {"stopMessages", "lockStop", "notRunning", "notStopping", "cas"} => ~Failed(x)
  BY DEF Inv3, StopPlace, InGroupLabels, Failed
<1>1. CASE StopCas(x)
  <2>1. CASE isStopping_
    <3>1. /\ pc[x] = "cas" /\ pc' = [pc EXCEPT ![x] = AfterStop(x)]
          /\ UNCHANGED <<state_, isRunning_, isStopping_, dispatcher, group_, cleanedUp, todo, cur, at>>
          /\ \A c \in Callers : Failed(c)' <=> Failed(c)
      BY <1>1, <1>e, <2>1 DEF StopCas, Return, Goto, runner, walk
    <3>2. x \notin Runners
      BY <3>1 DEF Inv2, ComponentsNeverStopKernel, StopLabels
    <3>3. pc[x] \notin EarlyLabels \union StopperLabels
      BY <3>1 DEF EarlyLabels, StartLabels, StopperLabels, InGroupLabels
    <3> HIDE DEF StopperLabels, EarlyLabels
    <3> QED
      BY <1>a, <1>b, <3>1, <3>2, <3>3, OutsideStep
  <2>2. CASE ~isStopping_
    <3>1. /\ pc[x] = "cas" /\ pc' = [pc EXCEPT ![x] = "stopMessages"] /\ isStopping_'
          /\ UNCHANGED <<state_, isRunning_, dispatcher, group_, cleanedUp, todo, cur, at, result>>
      BY <1>1, <2>2 DEF StopCas, Goto, runner, walk
    <3>2. pc[x] \in StopLabels \ InGroupLabels
      BY <3>1 DEF StopLabels, InGroupLabels
    <3>3. WalkShape' /\ StopShape' /\ QuietShape'
      BY <1>c, <1>f, <1>g, <3>1, <3>2, OutsideGroups
    <3>4. Started' /\ StartShape' /\ pc'[x] = "stopMessages" /\ \A y \in Actors \ {x} : pc'[y] = pc[y]
      BY <1>c, <3>1, <3>2, StopperStep
    <3>5. \A c \in Callers : ~Failed(c)
      BY <1>h, <3>1 DEF Inv3, StopPlace
    <3>6. \A y \in Actors : pc[y] \notin StopperLabels
      BY <2>2, <3>5 DEF Inv3, StopPlace, Failed
    <3>7. StopPlace'
      BY <1>g, <3>1, <3>4, <3>5, <3>6 DEF StopPlace, StopperLabels
    <3> QED
      BY <3>3, <3>4, <3>7 DEF Inv3
  <2> QED
    BY <2>1, <2>2
<1>2. ASSUME NEW l \in {"lockStop", "walk", "notStopping"}, pc' = [pc EXCEPT ![x] = l],
             pc[x] \in {"stopMessages", "lockStop", "notRunning"}, dispatcher' # "on",
             isRunning_' => isRunning_,
             UNCHANGED <<state_, isStopping_, group_, cleanedUp, todo, cur, at, result>>
      PROVE  Inv3'
  <2>1. pc[x] \in StopLabels \ InGroupLabels /\ pc[x] # "cas" /\ l # "cleanup"
    BY <1>2 DEF StopLabels, InGroupLabels
  <2>2. WalkShape' /\ StopShape' /\ QuietShape'
    BY <1>2, <1>c, <1>f, <1>g, <2>1, OutsideGroups
  <2>3. StopPlace'
    BY <1>2, <1>c, <1>h, <2>1, StopperStays
  <2>4. StartShape'
    BY <1>2, <1>c, <2>1, StopperStep
  <2> QED
    BY <2>2, <2>3, <2>4 DEF Inv3
<1>3. CASE StopMessages(x)
  BY <1>2, <1>3 DEF StopMessages, Goto, runner, walk
<1>4. CASE StopLock(x)
  BY <1>2, <1>4, <1>d DEF StopLock, Goto, runner, walk, kernel, StopperLabels
<1>5. CASE StopNotRunning(x)
  BY <1>2, <1>5, <1>d DEF StopNotRunning, Goto, runner, walk, StopperLabels
<1>6. CASE Cleanup(x)
  <2>1. PICK l \in {"threw", "notRunning"} : pc' = [pc EXCEPT ![x] = l]
    BY <1>6 DEF Cleanup, Goto
  <2>2. /\ pc[x] = "cleanup" /\ cleanedUp' = [r \in Runners |-> TRUE]
        /\ UNCHANGED <<state_, isRunning_, isStopping_, dispatcher, group_, todo, cur, at, result>>
        /\ Failed(x) => l = "threw"
    BY <1>6, <2>1 DEF Cleanup, runner, walk, kernel, Goto, Failed, Inv1, TypeOK
  <2>3. group_ = 0 /\ dispatcher # "on" /\ pc[x] \in StopLabels \ {"cas"}
    BY <2>2, <1>d DEF Inv3, StopPlace, StopperLabels, StopLabels
  <2>4. l \in StopperLabels /\ l \in Labels /\ l \notin EarlyLabels /\ l \notin InGroupLabels
    BY DEF StopperLabels, Labels, StopLabels, EndLabels, EarlyLabels, StartLabels, InGroupLabels
  <2>5. StopPlace'
    BY <2>1, <2>2, <2>3, <2>4, StopperStays
  <2>6. /\ Started /\ StartShape'
        /\ pc'[x] = l /\ \A y \in Actors \ {x} : pc'[y] \notin StopperLabels
        /\ \A r \in Runners : pc'[r] = pc[r] /\ (Live(r)' <=> Live(r))
    BY <2>1, <2>2, <2>3, <2>4, StopperStep
  <2>7. WalkShape'
    BY <2>4, <2>6 DEF WalkShape, InGroupLabels, StopperLabels
  <2>8. \A r \in Runners : Group[r] \in Nat /\ Group[r] > 0
    BY GroupAssumption DEF GroupAssumption
  <2>9. \A r \in Runners : (Walked(r)' <=> Walked(r)) /\ (Walked(r) => Gone(r))
    BY <1>f, <1>g, <2>2, <2>3, <2>6, <2>8 DEF Inv3, StopShape, GroupShape
  <2>10. StopShape'
    BY <2>2, <2>3, <2>6, <2>8, <2>9 DEF StopShape, GroupShape, Gone
  <2>11. QuietShape'
    BY <2>2, <2>3, <2>6, <2>9 DEF Inv3, QuietShape, Gone
  <2> QED
    BY <2>5, <2>6, <2>7, <2>10, <2>11 DEF Inv3
<1>7. CASE StopNotStopping(x)
  <2>1. /\ pc[x] = "notStopping" /\ pc' = [pc EXCEPT ![x] = AfterStop(x)]
        /\ UNCHANGED <<state_, dispatcher, group_, cleanedUp, todo, cur, at>>
        /\ \A c \in Callers : Failed(c)' <=> Failed(c)
    BY <1>7, <1>e DEF StopNotStopping, Return, Goto, runner, walk
  <2>2. pc[x] \in StopLabels \ InGroupLabels
    BY <2>1 DEF StopLabels, InGroupLabels
  <2>3. WalkShape' /\ StopShape' /\ QuietShape'
    BY <1>a, <1>b, <1>f, <2>1, <2>2, OutsideGroups
  <2>4. /\ Started' /\ StartShape' /\ pc'[x] = AfterStop(x)
        /\ \A y \in Actors \ {x} : pc'[y] \notin StopperLabels
    BY <1>a, <1>b, <2>1, <2>2, StopperStep
  <2>5. \A y \in Actors : pc'[y] \notin StopperLabels /\ pc'[y] # "cleanup"
    BY <1>a, <1>b, <2>4 DEF StopperLabels
  <2>6. \A c \in Callers : ~Failed(c)
    BY <1>h, <2>1 DEF Inv3, StopPlace, StopperLabels
  <2>7. StopPlace'
    BY <2>1, <2>4, <2>5, <2>6 DEF StopPlace, Inv3
  <2> QED
    BY <2>3, <2>4, <2>7 DEF Inv3
<1> QED
  BY <1>1, <1>3, <1>4, <1>5, <1>6, <1>7

(* What the shutdown walk changes is the group it is in. *)
LEMMA WalkStep ==
    ASSUME Inv1, Inv2, Inv3, NEW x \in Actors, NEW l \in InGroupLabels \union {"threw"},
           pc' = [pc EXCEPT ![x] = l], pc[x] \in InGroupLabels,
           \A r \in Runners : Group[r] # group_ => state_'[r] = state_[r],
           UNCHANGED <<isRunning_, isStopping_, dispatcher, group_, cleanedUp, at, result>>
    PROVE  /\ x \notin Runners /\ pc'[x] = l
           /\ \A r \in Runners : pc'[r] = pc[r] /\ (Live(r)' <=> Live(r))
           /\ todo[x] \subseteq RunnersAt(group_)
           /\ \A r \in RunnersAt(group_) : StopGroup(x, r)
           /\ StartShape' /\ StopPlace' /\ StopShape'
           /\ (\A r \in RunnersAt(group_) : state_'[r] = "unloaded" => ~Live(r)) => QuietShape'
           /\ \/ l = "threw"
              \/ /\ todo'[x] \subseteq RunnersAt(group_)
                 /\ \A r \in RunnersAt(group_) : StopGroup(x, r)'
                 /\ l \in {"joinFaulted", "signal", "join"} =>
                        cur'[x] \in RunnersAt(group_) \ todo'[x]
              => WalkShape'
<1>1. /\ l \in Labels /\ l \notin EarlyLabels /\ l \in StopperLabels /\ l # "cleanup"
      /\ l # "stopMessages"
      /\ pc[x] \in StopLabels \ {"cas"} /\ pc[x] \in StopperLabels \ {"stopMessages"}
  BY DEF Labels, StartLabels, EarlyLabels, StopLabels, EndLabels, StopperLabels, InGroupLabels
<1>2. /\ x \notin Runners
      /\ Started /\ Started' /\ StartShape'
      /\ pc'[x] = l /\ \A y \in Actors \ {x} : pc'[y] \notin StopperLabels
      /\ \A r \in Runners : pc'[r] = pc[r] /\ (Live(r)' <=> Live(r))
  BY <1>1, StopperStep
<1>3. dispatcher # "on"
  BY <1>1 DEF Inv3, StopPlace
<1>4. StopPlace'
  BY <1>1, <1>3, StopperStays
<1>w. \A r \in Runners : Walked(r)' <=> Walked(r)
  BY DEF Walked, Failed
<1>5. StopShape'
  <2>1. \A r \in Runners : Group[r] # group_ => (Up(r)' <=> Up(r)) /\ (Gone(r)' <=> Gone(r))
    BY <1>2 DEF Up, Gone
  <2>2. \A r \in Runners : Group[r] \in Nat
    BY GroupAssumption DEF GroupAssumption
  <2>3. group_ \in Nat
    BY GroupAssumption DEF GroupAssumption, Inv1, TypeOK
  <2> QED
    BY <1>2, <1>w, <2>1, <2>2, <2>3 DEF Inv3, StopShape, GroupShape
<1>6. ASSUME \A r \in RunnersAt(group_) : state_'[r] = "unloaded" => ~Live(r) PROVE QuietShape'
  BY <1>2, <1>3, <1>6, <1>w DEF Inv3, QuietShape, RunnersAt
<1>7. /\ todo[x] \subseteq RunnersAt(group_)
      /\ \A r \in RunnersAt(group_) : StopGroup(x, r)
  BY DEF Inv3, WalkShape
<1>8. \A y \in Actors \ {x} : pc'[y] \notin InGroupLabels
  BY <1>2 DEF StopperLabels
<1>9. ASSUME l = "threw" PROVE WalkShape'
  BY <1>2, <1>8, <1>9 DEF WalkShape, InGroupLabels
<1>10. ASSUME todo'[x] \subseteq RunnersAt(group_),
              \A r \in RunnersAt(group_) : StopGroup(x, r)',
              l \in {"joinFaulted", "signal", "join"} => cur'[x] \in RunnersAt(group_) \ todo'[x]
       PROVE  WalkShape'
  <2>1. RunnersAt(group_)' = RunnersAt(group_)
    BY DEF RunnersAt
  <2>2. \A y \in Actors \ {x} : pc'[y] \notin {"joinFaulted", "signal", "join"}
    BY <1>8 DEF InGroupLabels
  <2> QED
    BY <1>2, <1>8, <1>10, <2>1, <2>2 DEF WalkShape
<1> QED
  BY <1>2, <1>4, <1>5, <1>6, <1>7, <1>9, <1>10

(* The stop loop over the members of a group. *)
LEMMA StopLoopInv3 ==
    ASSUME Inv1, Inv2, Inv3, NEW x \in Actors,
           (\E r \in Runners : StopRunner(x, r)) \/ JoinFaulted(x) \/ Signal(x) \/ Join(x)
    PROVE  Inv3'
<1>a. /\ state_ \in [Runners -> ComponentStates] /\ todo \in [Actors -> SUBSET Runners]
      /\ cur \in [Actors -> Runners \union {None}] /\ pc \in [Actors -> Labels]
  BY DEF Inv1, TypeOK
<1>b. \A r \in RunnersAt(group_) : r \in Runners /\ Group[r] = group_
  BY DEF RunnersAt
<1>c. pc[x] \in {"joinFaulted", "signal", "join"} => cur[x] \in RunnersAt(group_) \ todo[x]
  BY DEF Inv3, WalkShape
<1>1. ASSUME NEW r \in Runners, StopRunner(x, r) PROVE Inv3'
  <2>1. PICK l \in {"joinFaulted", "signal"} :
          /\ pc' = [pc EXCEPT ![x] = l]
          /\ l = "joinFaulted" <=> state_[r] = "error"
    BY <1>1 DEF StopRunner, Goto
  <2>2. /\ pc[x] = "stop" /\ r \in todo[x] /\ cur'[x] = r /\ todo'[x] = todo[x] \ {r}
        /\ UNCHANGED <<state_, isRunning_, isStopping_, dispatcher, group_, cleanedUp, at, result>>
    BY <1>1, <1>a DEF StopRunner, runner, kernel
  <2>3. l \in InGroupLabels /\ pc[x] \in InGroupLabels
    BY <2>2 DEF InGroupLabels
  <2>4. /\ pc'[x] = l /\ \A q \in Runners : pc'[q] = pc[q] /\ (Live(q)' <=> Live(q))
        /\ todo[x] \subseteq RunnersAt(group_) /\ \A q \in RunnersAt(group_) : StopGroup(x, q)
        /\ StartShape' /\ StopPlace' /\ StopShape'
        /\ (\A q \in RunnersAt(group_) : state_'[q] = "unloaded" => ~Live(q)) => QuietShape'
        /\ /\ todo'[x] \subseteq RunnersAt(group_)
           /\ \A q \in RunnersAt(group_) : StopGroup(x, q)'
           /\ cur'[x] \in RunnersAt(group_) \ todo'[x]
           => WalkShape'
    BY <2>1, <2>2, <2>3, WalkStep
  <2>5. \A q \in RunnersAt(group_) : (Up(q)' <=> Up(q)) /\ (Halted(q)' <=> Halted(q))
    BY <1>b, <2>2, <2>4 DEF Up, Halted
  <2>6. Up(r)
    BY <2>2, <2>4 DEF StopGroup
  <2>7. \A q \in RunnersAt(group_) : StopGroup(x, q)'
    BY <2>1, <2>2, <2>4, <2>5, <2>6 DEF StopGroup, Up
  <2>8. QuietShape'
    BY <1>b, <2>2, <2>4 DEF Inv3, QuietShape
  <2> QED
    BY <2>2, <2>4, <2>7, <2>8 DEF Inv3
(* the walk is through with runner cur[x], whose thread is gone *)
<1>2. ASSUME pc[x] \in {"joinFaulted", "join"}, pc' = [pc EXCEPT ![x] = "stop"],
             NEW s \in {"stopped", "error"}, state_' = [state_ EXCEPT ![cur[x]] = s],
             ~Live(cur[x]), UNCHANGED <<isRunning_, isStopping_, dispatcher, group_, cleanedUp, todo, cur, at, result>>
      PROVE  Inv3'
  <2>1. pc[x] \in InGroupLabels /\ "stop" \in InGroupLabels /\ cur[x] \in RunnersAt(group_) \ todo[x]
    BY <1>2, <1>c DEF InGroupLabels
  <2>2. \A q \in Runners : Group[q] # group_ => state_'[q] = state_[q]
    BY <1>a, <1>b, <1>2, <2>1
  <2>3. /\ pc'[x] = "stop" /\ \A q \in Runners : pc'[q] = pc[q] /\ (Live(q)' <=> Live(q))
        /\ todo[x] \subseteq RunnersAt(group_) /\ \A q \in RunnersAt(group_) : StopGroup(x, q)
        /\ StartShape' /\ StopPlace' /\ StopShape'
        /\ (\A q \in RunnersAt(group_) : state_'[q] = "unloaded" => ~Live(q)) => QuietShape'
        /\ /\ todo'[x] \subseteq RunnersAt(group_)
           /\ \A q \in RunnersAt(group_) : StopGroup(x, q)'
           => WalkShape'
    BY <1>2, <2>1, <2>2, WalkStep
  <2>4. \A q \in RunnersAt(group_) : q # cur[x] => state_'[q] = state_[q]
    BY <1>a, <1>b, <1>2, <2>1
  <2>5. state_'[cur[x]] = s
    BY <1>a, <1>b, <1>2, <2>1
  <2>6. \A q \in RunnersAt(group_) : q # cur[x] => (Up(q)' <=> Up(q)) /\ (Halted(q)' <=> Halted(q))
    BY <1>b, <2>3, <2>4 DEF Up, Halted
  <2>7. Halted(cur[x])'
    BY <1>2, <1>b, <2>1, <2>3, <2>5 DEF Halted
  <2>8. \A q \in RunnersAt(group_) : StopGroup(x, q)'
    BY <1>2, <2>1, <2>3, <2>6, <2>7 DEF StopGroup
  <2>9. QuietShape'
    BY <1>b, <2>3, <2>4, <2>5 DEF Inv3, QuietShape
  <2> QED
    BY <1>2, <2>3, <2>8, <2>9 DEF Inv3
<1>3. CASE JoinFaulted(x)
  <2>1. /\ pc[x] = "joinFaulted" /\ pc[cur[x]] \in {"none", "finished"}
        /\ pc' = [pc EXCEPT ![x] = "stop"]
        /\ UNCHANGED <<state_, isRunning_, isStopping_, dispatcher, group_, cleanedUp, todo, cur, at, result>>
    BY <1>3 DEF JoinFaulted, Goto, runner, kernel, walk
  <2>2. StopGroup(x, cur[x]) /\ cur[x] \in Runners
    BY <1>b, <1>c, <2>1 DEF Inv3, WalkShape, InGroupLabels
  <2>3. state_[cur[x]] = "error"
    BY <2>1, <2>2 DEF StopGroup
  <2>4. state_' = [state_ EXCEPT ![cur[x]] = "error"]
    BY <1>a, <2>1, <2>2, <2>3
  <2> QED
    BY <1>2, <2>1, <2>4 DEF Live
<1>4. CASE Join(x)
  <2>1. /\ pc[x] = "join" /\ pc' = [pc EXCEPT ![x] = "stop"]
        /\ UNCHANGED <<isRunning_, isStopping_, dispatcher, group_, cleanedUp, todo, cur, at, result>>
    BY <1>4 DEF Join, Goto, kernel, walk
  <2>2. cur[x] # x
    BY <1>b, <1>c, <2>1 DEF Inv2, ComponentsNeverStopKernel, StopLabels
  <2>3. pc[cur[x]] = "finished" /\ state_' = [state_ EXCEPT ![cur[x]] = "stopped"]
    BY <1>4, <2>2 DEF Join, SetState
  <2> QED
    BY <1>2, <2>1, <2>3 DEF Live
<1>5. CASE Signal(x)
  <2>1. pc[x] = "signal" /\ UNCHANGED <<isRunning_, isStopping_, dispatcher, group_, cleanedUp, todo, cur, at, result>>
    BY <1>5 DEF Signal, kernel, walk
  <2>2. cur[x] \in RunnersAt(group_) \ todo[x] /\ cur[x] \in Runners /\ pc[x] \in InGroupLabels
    BY <1>b, <1>c, <2>1 DEF InGroupLabels
  <2>3. \A q \in RunnersAt(group_) : StopGroup(x, q)
    BY <2>2 DEF Inv3, WalkShape
  <2>4. state_[cur[x]] \in {"running", "error"}
    BY <2>1, <2>2, <2>3 DEF StopGroup
  <2>5. CASE state_[cur[x]] = "running"
    <3>1. pc' = [pc EXCEPT ![x] = "join"] /\ state_' = [state_ EXCEPT ![cur[x]] = "stopping"]
      BY <1>5, <2>5 DEF Signal, TellToStop, Goto, SetState
    <3>2. \A q \in Runners : Group[q] # group_ => state_'[q] = state_[q]
      BY <1>a, <1>b, <2>2, <3>1
    <3>3. /\ pc'[x] = "join" /\ \A q \in Runners : pc'[q] = pc[q] /\ (Live(q)' <=> Live(q))
          /\ todo[x] \subseteq RunnersAt(group_)
          /\ StartShape' /\ StopPlace' /\ StopShape'
          /\ (\A q \in RunnersAt(group_) : state_'[q] = "unloaded" => ~Live(q)) => QuietShape'
          /\ /\ todo'[x] \subseteq RunnersAt(group_)
             /\ \A q \in RunnersAt(group_) : StopGroup(x, q)'
             /\ cur'[x] \in RunnersAt(group_) \ todo'[x]
             => WalkShape'
      <4>1. "join" \in InGroupLabels
        BY DEF InGroupLabels
      <4> QED
        BY <2>1, <2>2, <3>1, <3>2, <4>1, WalkStep
    <3>4. \A q \in RunnersAt(group_) : q # cur[x] => state_'[q] = state_[q]
      BY <1>a, <1>b, <2>2, <3>1
    <3>5. state_'[cur[x]] = "stopping"
      BY <1>a, <2>2, <3>1
    <3>6. \A q \in RunnersAt(group_) :
            q # cur[x] => (Up(q)' <=> Up(q)) /\ (Halted(q)' <=> Halted(q))
      BY <1>b, <3>3, <3>4 DEF Up, Halted
    <3>7. \A q \in RunnersAt(group_) : StopGroup(x, q)'
      BY <2>1, <2>2, <2>3, <3>3, <3>5, <3>6 DEF StopGroup
    <3>8. QuietShape'
      BY <1>b, <3>3, <3>4, <3>5 DEF Inv3, QuietShape
    <3> QED
      BY <2>1, <2>2, <3>3, <3>7, <3>8 DEF Inv3
  <2>6. CASE state_[cur[x]] = "error"
    <3>1. pc' = [pc EXCEPT ![x] = "threw"] /\ UNCHANGED state_
      BY <1>5, <2>6 DEF Signal, ShutdownThrows, Goto, runner
    <3>2. \A q \in Runners : Group[q] # group_ => state_'[q] = state_[q]
      BY <3>1
    <3>3. /\ StartShape' /\ StopPlace' /\ StopShape' /\ WalkShape'
          /\ (\A q \in RunnersAt(group_) : state_'[q] = "unloaded" => ~Live(q)) => QuietShape'
      BY <2>1, <2>2, <3>1, <3>2, WalkStep
    <3>4. QuietShape'
      BY <1>b, <3>1, <3>3 DEF Inv3, QuietShape
    <3> QED
      BY <3>3, <3>4 DEF Inv3
  <2> QED
    BY <2>4, <2>5, <2>6
<1> QED
  BY <1>1, <1>3, <1>4, <1>5

(* From one group to the next: into a group, from its stops to its unloads, and out of it. *)
LEMMA GroupWalkInv3 ==
    ASSUME Inv1, Inv2, Inv3, NEW x \in Actors,
           WalkGroup(x) \/ StopsDone(x) \/ (\E r \in Runners : Unload(x, r)) \/ GroupDown(x)
    PROVE  Inv3'
<1>a. /\ state_ \in [Runners -> ComponentStates] /\ todo \in [Actors -> SUBSET Runners]
      /\ pc \in [Actors -> Labels] /\ group_ \in 0..MaxGroup /\ MaxGroup \in Nat
  BY GroupAssumption DEF Inv1, TypeOK, GroupAssumption
<1>b. \A r \in RunnersAt(group_) : r \in Runners /\ Group[r] = group_
  BY DEF RunnersAt
<1>c. \A r \in Runners : Group[r] \in Nat /\ Group[r] > 0
  BY GroupAssumption DEF GroupAssumption
<1>d. \A l \in {"walk", "cleanup", "stop"} :
          l \in Labels /\ l \notin EarlyLabels /\ l \in StopperLabels /\ l # "stopMessages"
  BY DEF Labels, StartLabels, EarlyLabels, StopLabels, StopperLabels, InGroupLabels
<1>e. \A l \in {"walk", "cleanup", "stop"} : l \in InGroupLabels \union {"walk", "cleanup", "threw"}
  BY DEF InGroupLabels
<1>f. UNCHANGED <<at, result>> => \A r \in Runners : Walked(r)' <=> Walked(r)
  BY DEF Walked, Failed
<1>g. pc[x] \in InGroupLabels \union {"walk"} => \A r \in RunnersAt(group_) : Walked(r)
  <2>1. pc[x] \in InGroupLabels \union {"walk"} => pc[x] \in StopperLabels
    BY DEF StopperLabels
  <2>2. ASSUME NEW r \in RunnersAt(group_), NEW c \in Callers, Failed(c) PROVE Group[r] < at[c]
    BY <1>b, <1>c, <2>2 DEF Inv3, StopPlace
  <2> QED
    BY <2>2 DEF Walked
<1>1. CASE WalkGroup(x)
  <2>1. /\ pc[x] = "walk"
        /\ UNCHANGED <<state_, isRunning_, isStopping_, dispatcher, group_, cleanedUp, cur, at, result>>
    BY <1>1 DEF WalkGroup, runner, kernel, walk
  <2>2. dispatcher # "on" /\ pc[x] \in StopLabels \ {"cas"} /\ pc[x] \notin InGroupLabels
    BY <2>1 DEF Inv3, StopPlace, StopperLabels, StopLabels, InGroupLabels
  <2>3. CASE group_ = 0
    <3>1. pc' = [pc EXCEPT ![x] = "cleanup"] /\ UNCHANGED todo
      BY <1>1, <2>3 DEF WalkGroup, Goto
    <3>2. StopPlace'
      BY <1>d, <1>e, <2>1, <2>2, <2>3, <3>1, StopperStays
    <3>3. StartShape'
      BY <1>d, <2>2, <3>1, StopperStep
    <3>4. WalkShape' /\ StopShape' /\ QuietShape'
      <4>1. "cleanup" \notin InGroupLabels
        BY DEF InGroupLabels
      <4> QED
        BY <1>d, <1>f, <2>1, <2>2, <3>1, <4>1, OutsideGroups
    <3> QED
      BY <3>2, <3>3, <3>4 DEF Inv3
  <2>4. CASE group_ # 0
    <3>1. pc' = [pc EXCEPT ![x] = "stop"] /\ todo'[x] = RunnersAt(group_)
      BY <1>1, <1>a, <2>4 DEF WalkGroup, Goto
    <3>2. StopPlace'
      BY <1>d, <1>e, <2>1, <2>2, <3>1, StopperStays
    <3>3. /\ Started /\ StartShape' /\ pc'[x] = "stop"
          /\ \A y \in Actors \ {x} : pc'[y] = pc[y] /\ pc'[y] \notin StopperLabels
          /\ \A r \in Runners : pc'[r] = pc[r] /\ (Live(r)' <=> Live(r))
      BY <1>d, <2>2, <3>1, StopperStep
    <3>4. \A y \in Actors : pc[y] \notin InGroupLabels \union {"threw"}
      BY <2>1, <3>3 DEF StopperLabels, InGroupLabels
    <3>5. \A r \in Runners : /\ Walked(r) => GroupShape(r)
                             /\ Walked(r)' <=> Walked(r)
                             /\ Up(r)' <=> Up(r)
                             /\ Gone(r)' <=> Gone(r)
      BY <1>f, <2>1, <3>3 DEF Inv3, StopShape, Up, Gone
    <3>6. \A r \in RunnersAt(group_) : Up(r)'
      BY <1>b, <1>g, <2>1, <3>4, <3>5 DEF GroupShape
    <3>7. StopShape'
      BY <2>1, <3>5, <3>6 DEF StopShape, GroupShape, RunnersAt
    <3>8. \A r \in RunnersAt(group_) : StopGroup(x, r)'
      BY <3>1, <3>3, <3>6 DEF StopGroup
    <3>9. \A y \in Actors \ {x} : pc'[y] \notin InGroupLabels
      BY <3>3 DEF StopperLabels
    <3>10. WalkShape'
      <4>1. RunnersAt(group_)' = RunnersAt(group_)
        BY <2>1 DEF RunnersAt
      <4>2. \A y \in Actors : pc'[y] \notin {"joinFaulted", "signal", "join"}
        BY <3>3, <3>9 DEF InGroupLabels
      <4> QED
        BY <3>1, <3>8, <3>9, <4>1, <4>2 DEF WalkShape
    <3>11. QuietShape'
      BY <2>1, <3>3, <3>5 DEF Inv3, QuietShape
    <3> QED
      BY <3>2, <3>3, <3>7, <3>10, <3>11 DEF Inv3
  <2> QED
    BY <2>3, <2>4
<1>2. CASE StopsDone(x)
  <2>1. /\ pc[x] = "stop" /\ todo[x] = {} /\ todo'[x] = RunnersAt(group_)
        /\ pc' = [pc EXCEPT ![x] = "unload"]
        /\ UNCHANGED <<state_, isRunning_, isStopping_, dispatcher, group_, cleanedUp, at, result>>
    BY <1>2, <1>a DEF StopsDone, Goto, runner, kernel
  <2>2. "unload" \in InGroupLabels /\ pc[x] \in InGroupLabels
    BY <2>1 DEF InGroupLabels
  <2>3. /\ pc'[x] = "unload" /\ \A q \in Runners : pc'[q] = pc[q] /\ (Live(q)' <=> Live(q))
        /\ \A q \in RunnersAt(group_) : StopGroup(x, q)
        /\ StartShape' /\ StopPlace' /\ StopShape'
        /\ (\A q \in RunnersAt(group_) : state_'[q] = "unloaded" => ~Live(q)) => QuietShape'
        /\ /\ todo'[x] \subseteq RunnersAt(group_)
           /\ \A q \in RunnersAt(group_) : StopGroup(x, q)'
           => WalkShape'
    BY <2>1, <2>2, WalkStep
  <2>4. \A q \in RunnersAt(group_) : Halted(q)'
    BY <1>b, <2>1, <2>3 DEF StopGroup, Halted
  <2>5. \A q \in RunnersAt(group_) : StopGroup(x, q)'
    BY <2>1, <2>3, <2>4 DEF StopGroup
  <2>6. QuietShape'
    BY <1>b, <2>1, <2>3 DEF Inv3, QuietShape
  <2> QED
    BY <2>1, <2>3, <2>5, <2>6 DEF Inv3
<1>3. ASSUME NEW r \in Runners, Unload(x, r) PROVE Inv3'
  <2>1. /\ pc[x] = "unload" /\ r \in todo[x] /\ todo'[x] = todo[x] \ {r}
        /\ UNCHANGED <<isRunning_, isStopping_, dispatcher, group_, cleanedUp, at, result>>
    BY <1>3, <1>a DEF Unload, kernel
  <2>2. pc[x] \in InGroupLabels
    BY <2>1 DEF InGroupLabels
  <2>3. /\ todo[x] \subseteq RunnersAt(group_) /\ r \in RunnersAt(group_)
        /\ \A q \in RunnersAt(group_) : StopGroup(x, q)
    BY <2>1, <2>2 DEF Inv3, WalkShape
  <2>4. Halted(r)
    BY <2>1, <2>3 DEF StopGroup
  <2>5. UNCHANGED pc /\ state_' = [state_ EXCEPT ![r] = IF @ = "stopped" THEN "unloaded" ELSE @]
    BY <1>3, <1>a, <2>4 DEF Unload, Halted, SetState
  <2>6. pc' = [pc EXCEPT ![x] = "unload"]
    BY <1>a, <2>1, <2>5
  <2>7. \A q \in Runners \ {r} : state_'[q] = state_[q]
    BY <1>a, <2>5
  <2>8. /\ \A q \in Runners : pc'[q] = pc[q] /\ (Live(q)' <=> Live(q))
        /\ StartShape' /\ StopPlace' /\ StopShape'
        /\ (\A q \in RunnersAt(group_) : state_'[q] = "unloaded" => ~Live(q)) => QuietShape'
        /\ /\ todo'[x] \subseteq RunnersAt(group_)
           /\ \A q \in RunnersAt(group_) : StopGroup(x, q)'
           => WalkShape'
    BY <1>b, <2>1, <2>2, <2>3, <2>6, <2>7, WalkStep DEF InGroupLabels
  <2>9. Gone(r)'
    BY <1>a, <2>4, <2>5, <2>8 DEF Gone, Halted
  <2>10. \A q \in RunnersAt(group_) : q # r => (Gone(q)' <=> Gone(q)) /\ (Halted(q)' <=> Halted(q))
    BY <1>b, <2>7, <2>8 DEF Gone, Halted
  <2>11. \A q \in RunnersAt(group_) : StopGroup(x, q)'
    BY <2>1, <2>3, <2>5, <2>9, <2>10 DEF StopGroup
  <2>12. QuietShape'
    BY <1>b, <2>4, <2>7, <2>8 DEF Inv3, QuietShape, Halted
  <2> QED
    BY <2>1, <2>3, <2>8, <2>11, <2>12 DEF Inv3
<1>4. CASE GroupDown(x)
  <2>1. /\ pc[x] = "unload" /\ todo[x] = {} /\ group_' = group_ - 1
        /\ pc' = [pc EXCEPT ![x] = "walk"]
        /\ UNCHANGED <<state_, isRunning_, isStopping_, dispatcher, cleanedUp, at, result>>
    BY <1>4 DEF GroupDown, Goto, runner, kernel, walk
  <2>2. /\ dispatcher # "on" /\ pc[x] \in StopLabels \ {"cas"} /\ pc[x] \in InGroupLabels
    BY <2>1 DEF Inv3, StopPlace, StopperLabels, StopLabels, InGroupLabels
  <2>7. group_ # 0
    BY <2>2 DEF Inv1, WalksAGroup
  <2>3. StopPlace'
    BY <1>d, <1>e, <2>1, <2>2, <2>7, StopperStays
  <2>4. /\ Started /\ StartShape' /\ pc'[x] = "walk"
        /\ \A y \in Actors \ {x} : pc'[y] \notin StopperLabels
        /\ \A r \in Runners : pc'[r] = pc[r] /\ (Live(r)' <=> Live(r))
    BY <1>d, <2>1, <2>2, StopperStep
  <2>5. \A r \in Runners : /\ Walked(r) => GroupShape(r)
                           /\ Walked(r)' <=> Walked(r)
                           /\ Up(r)' <=> Up(r)
                           /\ Gone(r)' <=> Gone(r)
    BY <1>f, <2>1, <2>4 DEF Inv3, StopShape, Up, Gone
  <2>6. \A r \in RunnersAt(group_) : Gone(r)
    BY <2>1, <2>2 DEF Inv3, WalkShape, StopGroup
  <2>8. StopShape'
    <3> SUFFICES ASSUME NEW r \in Runners, Walked(r) PROVE GroupShape(r)'
      BY <2>5 DEF StopShape
    <3>1. CASE Group[r] < group_
      BY <1>a, <1>c, <2>1, <2>5, <3>1 DEF GroupShape
    <3>2. CASE Group[r] >= group_
      <4>1. Gone(r)
        BY <1>a, <1>c, <2>5, <2>6, <3>2 DEF GroupShape, RunnersAt
      <4> QED
        BY <1>a, <1>c, <2>1, <2>5, <3>2, <4>1 DEF GroupShape
    <3> QED
      BY <1>a, <1>c, <3>1, <3>2
  <2>9. WalkShape'
    BY <2>4 DEF WalkShape, StopperLabels, InGroupLabels
  <2>10. QuietShape'
    BY <2>1, <2>4, <2>5 DEF Inv3, QuietShape
  <2> QED
    BY <2>3, <2>4, <2>8, <2>9, <2>10 DEF Inv3
<1> QED
  BY <1>1, <1>2, <1>3, <1>4

(* While the kernel starts up nobody shuts down. *)
LEMMA StartupAlone ==
    ASSUME SingleCaller, Inv1, Inv3, NEW c \in Callers, pc[c] \in EarlyLabels,
           pc'[c] \in EarlyLabels \union {"reread"},
           \A y \in Actors \ {c} : pc'[y] = pc[y] \/ pc'[y] = "begin", UNCHANGED result
    PROVE  /\ StartPlace(c) /\ \A r \in Runners : StartState(c, r)
           /\ \A r \in Runners : Walked(r) /\ Walked(r)'
           /\ StopPlace' /\ WalkShape'
           /\ pc'[c] \in EarlyLabels => StopShape'
           /\ StartPlace(c)' /\ (\A r \in Runners : StartState(c, r)') => StartShape'
<1>1. \A y \in Actors : pc[y] \notin StopperLabels \union {"decide", "cas"}
  BY DEF Inv3, StopPlace, Started
<1>2. \A y \in Actors : pc'[y] \notin StopperLabels \union {"decide", "cas"}
  BY <1>1 DEF EarlyLabels, StartLabels, StopperLabels, InGroupLabels
<1>3. \A y \in Actors : pc'[y] \notin InGroupLabels \union {"cleanup", "joinFaulted", "signal", "join"}
  BY <1>2 DEF StopperLabels, InGroupLabels
<1>f. \A d \in Callers : ~Failed(d) /\ ~Failed(d)'
  <2>1. ~Failed(c)
    BY DEF Inv3, StopPlace, EarlyLabels, StartLabels, InGroupLabels
  <2> QED
    BY <2>1 DEF Failed, SingleCaller
<1>4. StopPlace'
  BY <1>2, <1>3, <1>f DEF StopPlace
<1>5. WalkShape'
  BY <1>3 DEF WalkShape
<1>6. pc'[c] \in EarlyLabels => StopShape'
  BY DEF StopShape, Started
<1>7. \A d \in Callers : d = c
  BY DEF SingleCaller
<1>8. StartPlace(c) /\ \A r \in Runners : StartState(c, r)
  BY DEF Inv3, StartShape
<1>9. StartPlace(c)' /\ (\A r \in Runners : StartState(c, r)') => StartShape'
  BY <1>7 DEF StartShape
<1>10. \A r \in Runners : Walked(r) /\ Walked(r)'
  BY <1>f DEF Walked
<1> QED
  BY <1>4, <1>5, <1>6, <1>8, <1>9, <1>10

(* Before the groups, and once they are all up. *)
LEMMA StartEndsInv3 ==
    ASSUME SingleCaller, Inv1, Inv2, Inv3, NEW c \in Callers,
           \/ RunCheck(c) \/ RunReset(c) \/ RunLock(c) \/ StartMessages(c) \/ SetRunning(c)
    PROVE  Inv3'
<1>a. /\ pc \in [Actors -> Labels] /\ c \in Actors /\ c \notin Runners /\ Runners \subseteq Actors
      /\ todo \in [Actors -> SUBSET Runners]
  BY ThreadAssumption DEF Inv1, TypeOK, Actors, ThreadAssumption
<1>b. isRunning_ => pc[c] \notin EarlyLabels
  BY DEF Inv2, RunningIsStarted
<1>c. \A l \in {"run", "reset", "lock", "preload", "messages", "setRunning"} : l \in EarlyLabels
  BY DEF EarlyLabels, StartLabels
<1>1. ASSUME NEW l, pc' = [pc EXCEPT ![c] = l], UNCHANGED <<state_, group_, cleanedUp, at, result>>,
             \/ /\ pc[c] = "run" /\ l = "reset" /\ UNCHANGED <<dispatcher, todo>>
             \/ /\ pc[c] = "reset" /\ l = "lock" /\ UNCHANGED <<dispatcher, todo>>
             \/ /\ pc[c] = "lock" /\ l = "preload" /\ UNCHANGED dispatcher
                /\ todo' = [todo EXCEPT ![c] = Runners]
             \/ /\ pc[c] = "messages" /\ l = "setRunning"
      PROVE  Inv3'
  <2>1. /\ pc'[c] = l /\ \A y \in Actors \ {c} : pc'[y] = pc[y]
        /\ \A r \in Runners : pc'[r] = pc[r] /\ (Live(r)' <=> Live(r))
    BY <1>1, <1>a DEF Live
  <2>2. pc[c] \in EarlyLabels /\ pc'[c] \in EarlyLabels
    BY <1>1, <1>c, <2>1
  <2>3. /\ StartPlace(c) /\ \A r \in Runners : StartState(c, r)
        /\ (\A r \in Runners : Walked(r) /\ Walked(r)') /\ StopPlace' /\ WalkShape' /\ StopShape'
        /\ StartPlace(c)' /\ (\A r \in Runners : StartState(c, r)') => StartShape'
    BY <1>1, <2>1, <2>2, <1>a, StartupAlone
  <2>4. \A r \in Runners : /\ \A s : Unstarted(r, s)' <=> Unstarted(r, s)
                           /\ Up(r)' <=> Up(r)
    BY <1>1, <2>1 DEF Unstarted, Up
  <2>5. StartPlace(c)'
    BY <1>1, <1>a, <2>1, <2>3 DEF StartPlace, BeforeGroups, GroupPhases, AllUpLabels
  <2>6. \A r \in Runners : StartState(c, r)'
    BY <1>1, <1>a, <2>1, <2>3, <2>4 DEF StartState, GroupPhases, AllUpLabels
  <2>7. QuietShape'
    <3>1. ASSUME pc[c] = "messages" PROVE \A r \in Runners : state_[r] # "unloaded"
      BY <2>3, <3>1 DEF StartState, AllUpLabels, Up
    <3> QED
      BY <1>1, <2>1, <2>3, <3>1 DEF Inv3, QuietShape
  <2> QED
    BY <2>3, <2>5, <2>6, <2>7 DEF Inv3
<1>2. CASE RunCheck(c)
  <2>1. ~isRunning_
    BY <1>2, <1>b, <1>c DEF RunCheck
  <2> QED
    BY <1>1, <1>2, <2>1 DEF RunCheck, Goto, kernel, runner, walk
<1>3. CASE RunReset(c)
  BY <1>1, <1>3 DEF RunReset, Goto, kernel, runner, walk
<1>4. CASE RunLock(c)
  BY <1>1, <1>4 DEF RunLock, Goto, kernel, runner, walk
<1>5. CASE StartMessages(c)
  <2>1. dispatcher = "off"
    BY <1>5, <1>c DEF StartMessages, Inv3, StartShape, StartPlace
  <2> QED
    BY <1>1, <1>5, <2>1 DEF StartMessages, Goto, kernel, runner, walk
<1>6. CASE SetRunning(c)
  <2>1. /\ pc[c] = "setRunning" /\ pc' = [pc EXCEPT ![c] = "reread"]
        /\ UNCHANGED <<state_, group_, cleanedUp, dispatcher, result>>
    BY <1>6 DEF SetRunning, Goto, runner
  <2>2. /\ pc'[c] = "reread" /\ \A y \in Actors \ {c} : pc'[y] = pc[y]
        /\ \A r \in Runners : pc'[r] = pc[r] /\ (Live(r)' <=> Live(r))
    BY <1>a, <2>1 DEF Live
  <2>3. /\ StartPlace(c) /\ \A r \in Runners : StartState(c, r)
        /\ (\A r \in Runners : Walked(r) /\ Walked(r)') /\ StopPlace' /\ WalkShape'
    BY <1>a, <1>c, <2>1, <2>2, StartupAlone
  <2>4. StartShape'
    BY <2>2 DEF SingleCaller, StartShape, EarlyLabels
  <2>5. \A r \in Runners : Up(r) /\ Group[r] <= group_ /\ Group[r] \in Nat
    BY <2>1, <2>3, GroupAssumption DEF StartPlace, StartState, AllUpLabels, GroupAssumption
  <2>6. group_ \in Nat
    BY GroupAssumption DEF Inv1, TypeOK, GroupAssumption
  <2>7. StopShape'
    BY <2>1, <2>5, <2>6 DEF StopShape, GroupShape, Up
  <2>8. QuietShape'
    BY <2>1, <2>2, <2>3 DEF Inv3, QuietShape
  <2> QED
    BY <2>3, <2>4, <2>7, <2>8 DEF Inv3
<1> QED
  BY <1>2, <1>3, <1>4, <1>5, <1>6

(* One runner of a start-up phase: the phase is past it, or has begun to initialise it. *)
LEMMA PhaseInv3 ==
    ASSUME SingleCaller, Inv1, Inv2, Inv3, NEW c \in Callers, NEW r \in Runners,
           Preload(c, r) \/ Load(c, r) \/ InitRunner(c, r), ~Failed(c)'
    PROVE  Inv3'
<1>a. /\ pc \in [Actors -> Labels] /\ c \in Actors /\ c \notin Runners /\ Runners \subseteq Actors
      /\ todo \in [Actors -> SUBSET Runners] /\ state_ \in [Runners -> ComponentStates]
  BY ThreadAssumption DEF Inv1, TypeOK, Actors, ThreadAssumption
<1>b. pc[c] \in {"preload", "load", "init"} /\ r \in todo[c] /\ pc[c] \in EarlyLabels
  BY DEF Preload, Load, InitRunner, EarlyLabels, StartLabels
<1>c. StartPlace(c) /\ \A q \in Runners : StartState(c, q)
  BY <1>b DEF Inv3, StartShape
<1>d. pc[c] \in {"load", "init"} => Group[r] = at[c]
  BY <1>b, <1>c DEF StartPlace, GroupPhases, RunnersAt
<1>e. /\ pc[c] = "preload" => state_[r] = "unloaded"
      /\ pc[c] = "load" => state_[r] = "preloaded"
      /\ pc[c] = "init" => state_[r] \in {"loaded", "initializing"}
      /\ pc[r] = "none"
  BY <1>b, <1>c, <1>d DEF StartState, StartGroup, Unstarted, GroupPhases
<1>1. PICK s \in {"preloaded", "loaded", "initialized", "initializing"} :
        /\ state_' = [state_ EXCEPT ![r] = s]
        /\ UNCHANGED <<pc, dispatcher, group_, cleanedUp, cur, at, result>>
        /\ \/ s = "preloaded" /\ pc[c] = "preload" /\ todo'[c] = todo[c] \ {r}
           \/ s = "loaded" /\ pc[c] = "load" /\ todo'[c] = todo[c] \ {r}
           \/ s = "initialized" /\ pc[c] = "init" /\ todo'[c] = todo[c] \ {r}
           \/ s = "initializing" /\ pc[c] = "init" /\ UNCHANGED todo
  <2>1. ~StartupThrows(c)
    BY DEF StartupThrows, Failed, Inv1, TypeOK
  <2>2. CASE Preload(c, r)
    BY <1>a, <1>e, <2>1, <2>2 DEF Preload, Past, SetState, kernel
  <2>3. CASE Load(c, r)
    BY <1>a, <1>e, <2>1, <2>3 DEF Load, Past, SetState, kernel
  <2>4. CASE InitRunner(c, r)
    BY <1>a, <1>e, <2>1, <2>4 DEF InitRunner, Past, SetState, kernel
  <2> QED
    BY <2>2, <2>3, <2>4
<1>2. /\ state_'[r] = s /\ \A q \in Runners \ {r} : state_'[q] = state_[q]
      /\ \A q \in Runners : Live(q)' <=> Live(q)
  BY <1>1, <1>a DEF Live
<1>3. /\ StopPlace' /\ WalkShape' /\ StopShape'
      /\ StartPlace(c)' /\ (\A q \in Runners : StartState(c, q)') => StartShape'
  BY <1>1, <1>a, <1>b, StartupAlone
<1>w. \A q \in Runners : Walked(q) /\ Walked(q)'
  BY <1>1, <1>a, <1>b, StartupAlone
<1>4. StartPlace(c)'
  <2>1. pc[c] # "spawned" /\ todo'[c] \subseteq todo[c]
    BY <1>1, <1>b
  <2>2. RunnersAt(at[c])' = RunnersAt(at[c])
    BY <1>1 DEF RunnersAt
  <2> QED
    BY <1>1, <1>c, <2>1, <2>2 DEF StartPlace
<1>5. ASSUME NEW q \in Runners, q # r PROVE StartState(c, q)'
  <2>1. /\ \A v : Unstarted(q, v)' <=> Unstarted(q, v)
        /\ Up(q)' <=> Up(q)
        /\ q \in todo'[c] <=> q \in todo[c]
        /\ state_'[q] = state_[q]
    BY <1>1, <1>2, <1>5 DEF Unstarted, Up
  <2>2. StartState(c, q)
    BY <1>c
  <2>3. StartGroup(c, q) => StartGroup(c, q)'
    BY <1>1, <2>1 DEF StartGroup
  <2> QED
    BY <1>1, <2>1, <2>2, <2>3 DEF StartState
<1>6. StartState(c, r)'
  <2>1. GroupPhases = {"load", "init", "spawn", "spawned"} /\ AllUpLabels = {"messages", "setRunning"}
    BY DEF GroupPhases, AllUpLabels
  <2>2. pc'[c] = pc[c] /\ at'[c] = at[c] /\ pc'[r] = "none" /\ state_'[r] = s
    BY <1>1, <1>2, <1>e
  <2>3. CASE pc[c] = "preload"
    BY <1>1, <2>1, <2>2, <2>3 DEF StartState, Unstarted
  <2>4. CASE pc[c] \in {"load", "init"}
    <3>1. Group[r] = at[c] /\ Group[r] \in Nat
      BY <1>d, <2>4, GroupAssumption DEF GroupAssumption
    <3>2. StartGroup(c, r)'
      BY <1>1, <1>b, <2>2, <2>4 DEF StartGroup, Unstarted
    <3> QED
      BY <2>1, <2>2, <2>4, <3>1, <3>2 DEF StartState
  <2> QED
    BY <1>b, <2>3, <2>4
<1>7. QuietShape'
  BY <1>1, <1>2, <1>w DEF Inv3, QuietShape
<1> QED
  BY <1>3, <1>4, <1>5, <1>6, <1>7 DEF Inv3

(* The creation of a component's thread, in two steps. *)
LEMMA SpawnInv3 ==
    ASSUME SingleCaller, Inv1, Inv2, Inv3, NEW c \in Callers,
           (\E r \in Runners : Spawn(c, r)) \/ Spawned(c), ~Failed(c)'
    PROVE  Inv3'
<1>a. /\ pc \in [Actors -> Labels] /\ c \in Actors /\ c \notin Runners /\ Runners \subseteq Actors
      /\ todo \in [Actors -> SUBSET Runners] /\ state_ \in [Runners -> ComponentStates]
      /\ cur \in [Actors -> Runners \union {None}]
  BY ThreadAssumption DEF Inv1, TypeOK, Actors, ThreadAssumption
<1>b. pc[c] \in {"spawn", "spawned"} /\ pc[c] \in EarlyLabels
  BY DEF Spawn, Spawned, EarlyLabels, StartLabels
<1>c. StartPlace(c) /\ \A q \in Runners : StartState(c, q)
  BY <1>b DEF Inv3, StartShape
<1>d. todo[c] \subseteq RunnersAt(at[c]) /\ \A q \in RunnersAt(at[c]) : q \in Runners /\ Group[q] = at[c]
  BY <1>b, <1>c DEF StartPlace, GroupPhases, RunnersAt
<1>e. \A q \in RunnersAt(at[c]) : StartGroup(c, q)
  BY <1>b, <1>c, <1>d DEF StartState, GroupPhases
<1>f. \A r \in Runners : Group[r] \in Nat
  BY GroupAssumption DEF GroupAssumption
<1>g. /\ "spawn" \in EarlyLabels /\ "spawned" \in EarlyLabels
      /\ GroupPhases = {"load", "init", "spawn", "spawned"} /\ AllUpLabels = {"messages", "setRunning"}
      /\ BeforeGroups = {"run", "reset", "lock", "preload"}
  BY DEF EarlyLabels, StartLabels, GroupPhases, AllUpLabels, BeforeGroups
<1>1. ASSUME NEW r \in Runners, Spawn(c, r) PROVE Inv3'
  <2>1. pc[c] = "spawn" /\ r \in todo[c]
    BY <1>1 DEF Spawn
  <2>2. pc[r] = "none" /\ state_[r] = "initialized"
    BY <1>d, <1>e, <2>1 DEF StartGroup, Unstarted
  <2>3. /\ pc' = [pc EXCEPT ![c] = "spawned", ![r] = "begin"]
        /\ cur' = [cur EXCEPT ![c] = r]
        /\ UNCHANGED <<state_, todo, dispatcher, group_, cleanedUp, at, result>>
    <3>1. ~StartupThrows(c)
      BY DEF StartupThrows, Failed, Inv1, TypeOK
    <3> QED
      BY <1>1, <2>2, <3>1 DEF Spawn, kernel
  <2>4. /\ pc'[c] = "spawned" /\ cur'[c] = r
        /\ \A y \in Actors \ {c} : pc'[y] = pc[y] \/ pc'[y] = "begin"
        /\ \A q \in Runners \ {r} : pc'[q] = pc[q] /\ (Live(q)' <=> Live(q))
    BY <1>a, <2>3 DEF Live
  <2>5. /\ StopPlace' /\ WalkShape' /\ StopShape'
        /\ StartPlace(c)' /\ (\A q \in Runners : StartState(c, q)') => StartShape'
    BY <1>a, <1>b, <1>g, <2>3, <2>4, StartupAlone
  <2>6. StartPlace(c)'
    <3>1. RunnersAt(at[c])' = RunnersAt(at[c]) /\ todo'[c] = todo[c] /\ at'[c] = at[c]
      BY <2>3 DEF RunnersAt
    <3>2. /\ dispatcher = "off" /\ (\A q \in Runners : ~cleanedUp[q]) /\ group_ < at[c]
          /\ \A q \in Runners : Group[q] < at[c] => Group[q] <= group_
      BY <1>c, <1>g, <2>1 DEF StartPlace
    <3>3. /\ todo'[c] \subseteq RunnersAt(at[c])' /\ cur'[c] \in todo'[c] /\ group_' < at'[c]
          /\ dispatcher' = "off"
          /\ \A q \in Runners : ~cleanedUp'[q] /\ (Group[q] < at'[c] => Group[q] <= group_')
      BY <1>d, <2>1, <2>3, <2>4, <3>1, <3>2
    <3> QED
      BY <1>g, <2>4, <3>3 DEF StartPlace
  <2>7. \A q \in Runners \ {r} : /\ \A v : Unstarted(q, v)' <=> Unstarted(q, v)
                                 /\ Up(q)' <=> Up(q)
    BY <2>3, <2>4 DEF Unstarted, Up
  <2>8. \A q \in RunnersAt(at[c]) : StartGroup(c, q)'
    BY <1>d, <1>e, <2>1, <2>2, <2>3, <2>4, <2>7 DEF StartGroup
  <2>9. \A q \in Runners : StartState(c, q)'
    <3> SUFFICES ASSUME NEW q \in Runners PROVE StartState(c, q)'
      OBVIOUS
    <3>1. CASE Group[q] = at[c]
      <4>1. StartGroup(c, q)'
        BY <2>8, <3>1 DEF RunnersAt
      <4> QED
        BY <1>f, <1>g, <2>3, <2>4, <3>1, <4>1 DEF StartState
    <3>2. CASE Group[q] # at[c]
      <4>1. q # r
        BY <1>d, <2>1, <3>2
      <4> QED
        BY <1>c, <1>g, <2>1, <2>3, <2>4, <2>7, <3>2, <4>1 DEF StartState
    <3> QED
      BY <3>1, <3>2
  <2>10. QuietShape'
    BY <1>c, <2>2, <2>3, <2>4 DEF Inv3, QuietShape, StartPlace
  <2> QED
    BY <2>5, <2>6, <2>9, <2>10 DEF Inv3
<1>2. CASE Spawned(c)
  <2>0. PICK k \in Runners :
        /\ k = cur[c] /\ k \in todo[c] /\ Group[k] = at[c]
        /\ \A q \in RunnersAt(at[c]) : /\ q # k /\ q \in todo[c] => Unstarted(q, "initialized")
                                       /\ q # k /\ q \notin todo[c] => Up(q)
    BY <1>2, <1>c, <1>d, <1>e DEF Spawned, StartPlace, StartGroup
  <2>1. /\ pc[c] = "spawned" /\ pc' = [pc EXCEPT ![c] = "spawn"]
        /\ state_' = [state_ EXCEPT ![k] = "running"] /\ todo'[c] = todo[c] \ {k}
        /\ UNCHANGED <<dispatcher, group_, cleanedUp, at, result>>
    BY <1>2, <1>a, <2>0 DEF Spawned, Goto, SetState, kernel
  <2>3. /\ pc'[c] = "spawn" /\ \A y \in Actors \ {c} : pc'[y] = pc[y]
        /\ \A q \in Runners : pc'[q] = pc[q] /\ (Live(q)' <=> Live(q))
        /\ state_'[k] = "running" /\ \A q \in Runners \ {k} : state_'[q] = state_[q]
    BY <1>a, <2>1, <2>0 DEF Live
  <2>4. /\ StopPlace' /\ WalkShape' /\ StopShape'
        /\ StartPlace(c)' /\ (\A q \in Runners : StartState(c, q)') => StartShape'
    BY <1>a, <1>b, <1>g, <2>1, <2>3, StartupAlone
  <2>5. StartPlace(c)'
    <3>1. RunnersAt(at[c])' = RunnersAt(at[c])
      BY <2>1 DEF RunnersAt
    <3> QED
      BY <1>c, <1>d, <1>g, <2>1, <2>3, <3>1 DEF StartPlace
  <2>6. /\ Up(k)'
        /\ \A q \in Runners \ {k} : /\ \A v : Unstarted(q, v)' <=> Unstarted(q, v)
                                    /\ Up(q)' <=> Up(q)
    BY <2>1, <2>3 DEF Unstarted, Up
  <2>7. \A q \in RunnersAt(at[c]) : StartGroup(c, q)'
    <3> SUFFICES ASSUME NEW q \in RunnersAt(at[c]) PROVE StartGroup(c, q)'
      OBVIOUS
    <3>1. IF q \in todo'[c] THEN Unstarted(q, "initialized")' ELSE Up(q)'
      BY <1>d, <2>0, <2>1, <2>6
    <3> QED
      BY <2>3, <3>1 DEF StartGroup
  <2>8. \A q \in Runners : StartState(c, q)'
    <3> SUFFICES ASSUME NEW q \in Runners PROVE StartState(c, q)'
      OBVIOUS
    <3>1. CASE Group[q] = at[c]
      <4>1. StartGroup(c, q)'
        BY <2>7, <3>1 DEF RunnersAt
      <4> QED
        BY <1>f, <1>g, <2>1, <2>3, <3>1, <4>1 DEF StartState
    <3>2. CASE Group[q] # at[c]
      BY <1>c, <1>g, <2>1, <2>0, <2>3, <2>6, <3>2 DEF StartState
    <3> QED
      BY <3>1, <3>2
  <2>9. QuietShape'
    BY <1>c, <2>1, <2>0, <2>3 DEF Inv3, QuietShape, StartPlace
  <2> QED
    BY <2>4, <2>5, <2>8, <2>9 DEF Inv3
<1> QED
  BY <1>1, <1>2

(* From one walk of the start-up to the next: a group that is through is up. *)
LEMMA NextPhaseInv3 ==
    ASSUME SingleCaller, Inv1, Inv2, Inv3, NEW c \in Callers, NextPhase(c)
    PROVE  Inv3'
<1>a. /\ pc \in [Actors -> Labels] /\ c \in Actors /\ c \notin Runners /\ Runners \subseteq Actors
      /\ todo \in [Actors -> SUBSET Runners] /\ state_ \in [Runners -> ComponentStates]
      /\ at \in [Actors -> 0..MaxGroup] /\ group_ \in 0..MaxGroup /\ MaxGroup \in Nat \ {0}
  BY ThreadAssumption, GroupAssumption DEF Inv1, TypeOK, Actors, ThreadAssumption, GroupAssumption
<1>b. /\ pc[c] \in {"preload", "load", "init", "spawn"} /\ todo[c] = {} /\ pc[c] \in EarlyLabels
      /\ UNCHANGED <<state_, dispatcher, cleanedUp, cur, result>>
  BY DEF NextPhase, EarlyLabels, StartLabels, kernel, runner
<1>c. StartPlace(c) /\ \A q \in Runners : StartState(c, q)
  BY <1>b DEF Inv3, StartShape
<1>d. \A r \in Runners : Group[r] \in 1..MaxGroup
  BY GroupAssumption DEF GroupAssumption
<1>e. at[c] \in 0..MaxGroup /\ at[c] \in Nat /\ group_ \in Nat
  BY <1>a
<1>g. /\ GroupPhases = {"load", "init", "spawn", "spawned"} /\ AllUpLabels = {"messages", "setRunning"}
      /\ BeforeGroups = {"run", "reset", "lock", "preload"}
      /\ \A l \in {"load", "init", "spawn", "messages"} : l \in EarlyLabels
  BY DEF EarlyLabels, StartLabels, GroupPhases, AllUpLabels, BeforeGroups
<1>1. ASSUME NEW l \in {"load", "init", "spawn", "messages"}, pc' = [pc EXCEPT ![c] = l]
      PROVE  /\ pc'[c] = l /\ \A r \in Runners : pc'[r] = pc[r] /\ (Live(r)' <=> Live(r))
             /\ \A q \in Runners : /\ \A v : Unstarted(q, v)' <=> Unstarted(q, v)
                                   /\ Up(q)' <=> Up(q)
             /\ StartPlace(c)' /\ (\A q \in Runners : StartState(c, q)') => Inv3'
  <2>1. /\ pc'[c] = l /\ \A y \in Actors \ {c} : pc'[y] = pc[y]
        /\ \A r \in Runners : pc'[r] = pc[r] /\ (Live(r)' <=> Live(r))
    BY <1>1, <1>a DEF Live
  <2>2. /\ StopPlace' /\ WalkShape' /\ StopShape'
        /\ StartPlace(c)' /\ (\A q \in Runners : StartState(c, q)') => StartShape'
    BY <1>a, <1>b, <1>g, <2>1, StartupAlone
  <2>3. \A q \in Runners : (\A v : Unstarted(q, v)' <=> Unstarted(q, v)) /\ (Up(q)' <=> Up(q))
    BY <1>b, <2>1 DEF Unstarted, Up
  <2>4. QuietShape'
    BY <1>b, <1>c, <2>1 DEF Inv3, QuietShape, StartPlace
  <2> QED
    BY <2>1, <2>2, <2>3, <2>4 DEF Inv3
<1>2. CASE pc[c] \in {"load", "init"}
  <2>1. PICK l \in {"init", "spawn"} :
          /\ pc' = [pc EXCEPT ![c] = l] /\ (l = "init" <=> pc[c] = "load")
          /\ todo'[c] = RunnersAt(at[c]) /\ UNCHANGED <<at, group_>>
    BY <1>2, <1>a DEF NextPhase, Goto
  <2>2. /\ pc'[c] = l /\ \A r \in Runners : pc'[r] = pc[r]
        /\ \A q \in Runners : (\A v : Unstarted(q, v)' <=> Unstarted(q, v)) /\ (Up(q)' <=> Up(q))
        /\ StartPlace(c)' /\ (\A q \in Runners : StartState(c, q)') => Inv3'
    BY <1>1, <2>1
  <2>3. StartPlace(c)'
    <3>1. RunnersAt(at[c])' = RunnersAt(at[c])
      BY <2>1 DEF RunnersAt
    <3> QED
      BY <1>b, <1>c, <1>g, <1>2, <2>1, <2>2, <3>1 DEF StartPlace
  <2>4. ASSUME NEW q \in Runners PROVE StartState(c, q)'
    <3>1. CASE Group[q] = at[c]
      <4>1. q \in todo'[c] /\ StartGroup(c, q)
        BY <1>2, <1>c, <1>g, <2>1, <3>1 DEF StartState, RunnersAt
      <4>2. StartGroup(c, q)'
        BY <1>2, <1>b, <2>1, <2>2, <4>1 DEF StartGroup, Unstarted
      <4> QED
        BY <1>d, <1>g, <2>1, <2>2, <3>1, <4>2 DEF StartState
    <3>2. CASE Group[q] # at[c]
      BY <1>2, <1>c, <1>g, <2>1, <2>2, <3>2 DEF StartState
    <3> QED
      BY <3>1, <3>2
  <2> QED
    BY <2>2, <2>3, <2>4
<1>3. CASE pc[c] \in {"preload", "spawn"}
  <2>1. group_' = IF RunnersAt(at[c]) # {} THEN at[c] ELSE group_
    BY <1>3 DEF NextPhase
  <2>2. \A r \in Runners : Group[r] <= at[c] => Group[r] <= group_'
    <3>1. CASE pc[c] = "preload"
      BY <1>c, <1>d, <1>g, <3>1 DEF StartPlace
    <3>2. CASE pc[c] = "spawn"
      <4> SUFFICES ASSUME NEW r \in Runners, Group[r] <= at[c] PROVE Group[r] <= group_'
        OBVIOUS
      <4>1. CASE Group[r] = at[c]
        <5>1. RunnersAt(at[c]) # {}
          BY <4>1 DEF RunnersAt
        <5> QED
          BY <1>d, <1>e, <2>1, <4>1, <5>1
      <4>2. CASE Group[r] < at[c]
        BY <1>c, <1>d, <1>e, <1>g, <2>1, <3>2, <4>2 DEF StartPlace
      <4> QED
        BY <1>d, <1>e, <4>1, <4>2
    <3> QED
      BY <1>3, <3>1, <3>2
  <2>3. group_' \in Nat /\ group_' <= at[c]
    BY <1>3, <1>c, <1>e, <1>g, <2>1 DEF StartPlace
  <2>4. \A q \in Runners : Group[q] <= at[c] => Up(q)
    <3>1. CASE pc[c] = "preload"
      BY <1>c, <1>d, <1>g, <3>1 DEF StartPlace
    <3>2. CASE pc[c] = "spawn"
      BY <1>b, <1>c, <1>d, <1>e, <1>g, <3>2 DEF StartState, StartGroup
    <3> QED
      BY <1>3, <3>1, <3>2
  <2>5. \A q \in Runners : Group[q] > at[c] => Unstarted(q, "preloaded")
    BY <1>3, <1>b, <1>c, <1>g DEF StartState
  <2>6. CASE at[c] + 1 <= MaxGroup
    <3>1. /\ pc' = [pc EXCEPT ![c] = "load"] /\ todo'[c] = RunnersAt(at[c] + 1)
          /\ at'[c] = at[c] + 1
      BY <1>3, <1>a, <2>6 DEF NextPhase, Goto
    <3>2. /\ pc'[c] = "load"
          /\ \A q \in Runners : (\A v : Unstarted(q, v)' <=> Unstarted(q, v)) /\ (Up(q)' <=> Up(q))
          /\ StartPlace(c)' /\ (\A q \in Runners : StartState(c, q)') => Inv3'
      BY <1>1, <3>1
    <3>3. StartPlace(c)'
      <4>1. RunnersAt(at[c])' = RunnersAt(at[c] + 1)
        BY <3>1 DEF RunnersAt
      <4>2. \A r \in Runners : Group[r] < at[c] + 1 => Group[r] <= group_'
        BY <1>d, <1>e, <2>2
      <4>3. group_' < at[c] + 1
        BY <1>e, <2>3
      <4>4. dispatcher = "off" /\ \A r \in Runners : ~cleanedUp[r]
        BY <1>3, <1>c DEF StartPlace
      <4> QED
        BY <1>b, <1>g, <3>1, <3>2, <4>1, <4>2, <4>3, <4>4 DEF StartPlace
    <3>4. ASSUME NEW q \in Runners PROVE StartState(c, q)'
      <4>1. Group[q] < at'[c] => Up(q)'
        BY <1>d, <1>e, <2>4, <3>1, <3>2
      <4>2. Group[q] > at[c] => Unstarted(q, "preloaded")'
        BY <2>5, <3>2
      <4>3. Group[q] = at'[c] => q \in todo'[c] /\ Group[q] > at[c]
        BY <1>d, <1>e, <3>1 DEF RunnersAt
      <4>4. Group[q] > at'[c] => Group[q] > at[c]
        BY <1>d, <1>e, <3>1
      <4>5. Group[q] = at'[c] => StartGroup(c, q)'
        BY <3>2, <4>2, <4>3 DEF StartGroup
      <4> QED
        BY <1>g, <3>2, <4>1, <4>2, <4>4, <4>5 DEF StartState
    <3> QED
      BY <3>2, <3>3, <3>4
  <2>7. CASE ~(at[c] + 1 <= MaxGroup)
    <3>1. pc' = [pc EXCEPT ![c] = "messages"]
      BY <1>3, <2>7 DEF NextPhase, Goto
    <3>2. /\ pc'[c] = "messages"
          /\ \A q \in Runners : Up(q)' <=> Up(q)
          /\ StartPlace(c)' /\ (\A q \in Runners : StartState(c, q)') => Inv3'
      BY <1>1, <3>1
    <3>3. \A q \in Runners : Group[q] <= at[c]
      BY <1>a, <1>d, <1>e, <2>7
    <3>4. StartPlace(c)'
      <4>1. dispatcher = "off" /\ \A r \in Runners : ~cleanedUp[r]
        BY <1>3, <1>c DEF StartPlace
      <4> QED
        BY <1>b, <1>g, <2>2, <3>2, <3>3, <4>1 DEF StartPlace
    <3>5. \A q \in Runners : StartState(c, q)'
      BY <1>g, <2>4, <3>2, <3>3 DEF StartState
    <3> QED
      BY <3>2, <3>4, <3>5
  <2> QED
    BY <2>6, <2>7
<1> QED
  BY <1>b, <1>2, <1>3

(* A start-up that fails: the groups below the one it is at are up, and group_ names the *)
(* highest of them, so that the walk down that follows takes all of them.                *)
LEMMA StartupFailsInv3 ==
    ASSUME SingleCaller, Inv1, Inv2, Inv3, NEW c \in Callers, NEW r \in Runners,
           Preload(c, r) \/ Load(c, r) \/ InitRunner(c, r) \/ Spawn(c, r), StartupThrows(c)
    PROVE  Inv3'
<1>a. /\ pc \in [Actors -> Labels] /\ c \in Actors /\ c \notin Runners /\ Runners \subseteq Actors
      /\ state_ \in [Runners -> ComponentStates] /\ result' = [result EXCEPT ![c] = "startupError"]
      /\ Callers \subseteq Actors
  BY ThreadAssumption DEF Inv1, TypeOK, Actors, ThreadAssumption, StartupThrows
<1>b. pc[c] \in {"preload", "load", "init", "spawn"} /\ r \in todo[c] /\ pc[c] \in EarlyLabels
  BY DEF Preload, Load, InitRunner, Spawn, EarlyLabels, StartLabels
<1>c. StartPlace(c) /\ \A q \in Runners : StartState(c, q)
  BY <1>b DEF Inv3, StartShape
<1>d. pc' = [pc EXCEPT ![c] = "walk"]
  BY DEF StartupThrows, Goto
<1>e. /\ state_' = state_ \/ \E s \in {"loading", "initializing", "error"} : state_' = [state_ EXCEPT ![r] = s]
      /\ UNCHANGED <<isRunning_, dispatcher, group_, cleanedUp, at>>
  <2>1. CASE Preload(c, r)
    BY <2>1, <1>a, <1>b, <1>d DEF Preload, Past, SetState, kernel
  <2>2. CASE Load(c, r)
    BY <2>2, <1>a, <1>b, <1>d DEF Load, Past, SetState, kernel
  <2>3. CASE InitRunner(c, r)
    BY <2>3, <1>a, <1>b, <1>d DEF InitRunner, Past, SetState, kernel
  <2>4. CASE Spawn(c, r)
    <3>1. pc'[c] = "walk"
      BY <1>a, <1>d
    <3>2. ~(pc' = [pc EXCEPT ![c] = "spawned", ![r] = "begin"])
      BY <1>a, <3>1
    <3> QED
      BY <2>4, <1>a, <1>b, <1>d, <3>1, <3>2 DEF Spawn, Past, SetState, kernel
  <2> QED
    BY <2>1, <2>2, <2>3, <2>4
<1>1. /\ pc'[c] = "walk" /\ \A y \in Actors \ {c} : pc'[y] = pc[y]
      /\ \A q \in Runners : pc'[q] = pc[q] /\ (Live(q)' <=> Live(q))
  BY <1>a, <1>d DEF Live
<1>2. \A y \in Actors \ {c} : pc'[y] \notin StopperLabels \union {"decide", "cas"}
  BY <1>1, <1>b DEF Inv3, StopPlace, Started
<1>3. ~isRunning_' /\ dispatcher' = "off"
  BY <1>b, <1>c, <1>e DEF Inv2, RunningIsStarted, StartPlace
<1>4. (\A d \in Callers : d = c) /\ Failed(c)' /\ (\A x \in Actors : Failed(x)' => x = c)
  BY <1>a DEF SingleCaller, Failed, Inv1, TypeOK
<1>5. StartShape'
  BY <1>1, <1>4 DEF StartShape, EarlyLabels, StartLabels
<1>6. group_' = 0 \/ group_' < at'[c]
  BY <1>b, <1>c, <1>e DEF StartPlace, BeforeGroups, GroupPhases
<1>7. StopPlace'
  <2>1. Started'
    BY <1>1, <1>4 DEF Started, EarlyLabels, StartLabels
  <2>2. \A x \in Actors : pc'[x] # "cleanup"
    BY <1>1, <1>2 DEF StopperLabels
  <2> QED
    BY <1>1, <1>2, <1>3, <1>4, <1>6, <2>1, <2>2 DEF StopPlace
<1>8. WalkShape'
  BY <1>1, <1>2 DEF WalkShape, StopperLabels, InGroupLabels
<1>9. \A q \in Runners : Group[q] < at[c] => Up(q)' /\ Group[q] <= group_'
  <2> SUFFICES ASSUME NEW q \in Runners, Group[q] < at[c] PROVE Up(q)' /\ Group[q] <= group_'
    OBVIOUS
  <2>1. Group[q] \in Nat /\ Group[q] > 0
    BY GroupAssumption DEF GroupAssumption
  <2>2. pc[c] \in GroupPhases
    BY <1>b, <1>c, <2>1 DEF StartPlace, BeforeGroups, GroupPhases
  <2>3. q # r
    BY <1>b, <1>c, <2>1, <2>2 DEF StartPlace, RunnersAt
  <2>4. Up(q) /\ Group[q] <= group_
    BY <1>c, <2>2 DEF StartPlace, StartState
  <2> QED
    BY <1>a, <1>e, <2>3, <2>4 DEF Up
<1>10. StopShape'
  <2>1. \A q \in Runners : Walked(q)' => Group[q] < at[c]
    BY <1>4, <1>e DEF Walked
  <2>2. \A q \in Runners : Group[q] \in Nat
    BY GroupAssumption DEF GroupAssumption
  <2>3. group_' \in Nat
    BY <1>e, GroupAssumption DEF Inv1, TypeOK, GroupAssumption
  <2> QED
    BY <1>9, <2>1, <2>2, <2>3 DEF StopShape, GroupShape
<1>11. QuietShape'
  BY <1>1, <1>a, <1>c, <1>e DEF Inv3, QuietShape, StartPlace
<1> QED
  BY <1>5, <1>7, <1>8, <1>10, <1>11 DEF Inv3

(* Every step keeps the third invariant. *)
LEMMA StepInv3 ==
    ASSUME SingleCaller, Inv1, Inv2, Inv3, [Next]_vars
    PROVE  Inv3'
<1>a. \A l \in {"reread", "apply", "idle", "begin", "looping", "request", "decide", "cas", "finished",
                "done"} :
          l \in Labels /\ l \notin EarlyLabels \union StopperLabels \union {"none"}
  BY DEF Labels, StartLabels, EarlyLabels, RequestLabels, StopLabels, ThreadLabels, EndLabels,
         StopperLabels, InGroupLabels
<1>b. \A x \in Actors : AfterStop(x) \in {"apply", "done", "finished", "looping"}
  BY AfterStopLabels
<1>c. /\ Callers \subseteq Actors /\ Requesters \subseteq Actors /\ Runners \subseteq Actors
      /\ \A x \in Callers \union Requesters : x \notin Runners
  BY ThreadAssumption DEF Actors, ThreadAssumption
<1>f. UNCHANGED result => \A c \in Callers : Failed(c)' <=> Failed(c)
  BY DEF Failed
<1>1. ASSUME NEW c \in Callers, CallerStep(c) PROVE Inv3'
  <2>1. CASE Reread(c) \/ ApplyRunMode(c)
    <3>1. pc[c] \in {"reread", "apply"}
      BY <2>1 DEF Reread, ApplyRunMode
    <3>2. Started
      BY <1>a, <3>1 DEF SingleCaller, Started
    <3>3. PICK l \in {"request", "apply", "done", "cas"} : pc' = [pc EXCEPT ![c] = l]
      BY <2>1 DEF Reread, ApplyRunMode, Goto
    <3>4. UNCHANGED <<state_, isRunning_, isStopping_, dispatcher, group_, cleanedUp, todo, cur, at>>
      BY <2>1 DEF Reread, ApplyRunMode, kernel, runner, walk
    <3>5. \A d \in Callers : Failed(d)' <=> Failed(d)
      <4>1. ~Failed(c)
        BY <3>1 DEF Inv3, StopPlace, InGroupLabels
      <4>2. result' = result \/ \E v \in {"success", "failure"} : result' = [result EXCEPT ![c] = v]
        BY <2>1 DEF Reread, ApplyRunMode
      <4> QED
        BY <4>1, <4>2 DEF Failed, Inv1, TypeOK
    <3> QED
      BY <1>a, <1>c, <3>1, <3>2, <3>3, <3>4, <3>5, OutsideStep
  <2>2. ASSUME NEW r \in Runners, Preload(c, r) \/ Load(c, r) \/ InitRunner(c, r) \/ Spawn(c, r)
        PROVE  Inv3'
    <3>1. CASE StartupThrows(c)
      BY <2>2, <3>1, StartupFailsInv3
    <3>2. CASE ~StartupThrows(c)
      <4>1. UNCHANGED result
        BY <2>2, <3>2 DEF Preload, Load, InitRunner, Spawn, Past
      <4>2. ~Failed(c)'
        BY <2>2, <4>1 DEF Preload, Load, InitRunner, Spawn, Inv3, StopPlace, InGroupLabels, Failed
      <4> QED
        BY <2>2, <4>2, PhaseInv3, SpawnInv3
    <3> QED
      BY <3>1, <3>2
  <2>3. CASE Spawned(c)
    <3>1. ~Failed(c)'
      BY <2>3 DEF Spawned, Inv3, StopPlace, InGroupLabels, Failed
    <3> QED
      BY <2>3, <3>1, SpawnInv3
  <2> QED
    BY <1>1, <2>1, <2>2, <2>3, StartEndsInv3, NextPhaseInv3 DEF CallerStep
<1>2. ASSUME NEW x \in Actors, StopStep(x) PROVE Inv3'
  <2>1. CASE RequestStop(x) \/ RequestDecide(x)
    <3>1. pc[x] \in {"request", "decide"}
      BY <2>1 DEF RequestStop, RequestDecide
    <3>2. PICK l \in {AfterStop(x), "decide", "cas"} : /\ pc' = [pc EXCEPT ![x] = l]
                                                       /\ l \in {"decide", "cas"} =>
                                                              Started /\ (isRunning_ \/ pc[x] = "decide")
      <4>1. CASE RequestStop(x)
        BY <4>1, <1>b DEF RequestStop, Goto, Inv2, RunningIsStarted, Started
      <4>2. CASE RequestDecide(x)
        BY <4>2, <1>b DEF RequestDecide, Goto, Inv3, StopPlace
      <4> QED
        BY <2>1, <4>1, <4>2
    <3>3. UNCHANGED <<state_, isRunning_, isStopping_, dispatcher, group_, cleanedUp, todo, cur, at, result>>
      BY <2>1 DEF RequestStop, RequestDecide, kernel, runner, walk
    <3>4. l \in {"apply", "done", "finished", "looping", "decide", "cas"} /\ (x \in Runners => Live(x))
      BY <1>b, <3>1 DEF Live
    <3> QED
      BY <1>a, <1>f, <3>1, <3>2, <3>3, <3>4, OutsideStep
  <2> QED
    BY <1>2, <2>1, DoStopInv3, StopLoopInv3, GroupWalkInv3 DEF StopStep
<1>3. ASSUME NEW q \in Requesters, AskToStop(q) PROVE Inv3'
  <2>1. /\ pc[q] = "idle" /\ pc' = [pc EXCEPT ![q] = "request"]
        /\ UNCHANGED <<state_, isRunning_, isStopping_, dispatcher, group_, cleanedUp, todo, cur, at, result>>
    BY <1>3 DEF AskToStop, Goto, kernel, runner, walk
  <2> QED
    BY <1>a, <1>c, <1>f, <2>1, OutsideStep
<1>4. ASSUME NEW r \in Runners, ThreadStep(r) PROVE Inv3'
  <2>1. PICK l \in {"looping", "finished", "request"} : pc' = [pc EXCEPT ![r] = l]
    BY <1>4 DEF ThreadStep, ThreadBegin, ThreadReturn, ThreadAsksToStop, ThreadFails, Goto
  <2>2. /\ pc[r] \in {"begin", "looping"}
        /\ state_' = state_ \/ state_' = [state_ EXCEPT ![r] = "error"]
        /\ UNCHANGED <<isRunning_, isStopping_, dispatcher, group_, cleanedUp, todo, cur, at, result>>
    BY <1>4 DEF ThreadStep, ThreadBegin, ThreadReturn, ThreadAsksToStop, ThreadFails, SetState,
                kernel, runner, walk
  <2>3. Live(r)
    BY <2>2 DEF Live
  <2> QED
    BY <1>a, <1>c, <1>f, <2>1, <2>2, <2>3, OutsideStep
<1>5. ASSUME UNCHANGED vars PROVE Inv3'
  <2>1. UNCHANGED <<pc, state_, isRunning_, isStopping_, dispatcher, group_, cleanedUp, todo, cur, at, result>>
    BY <1>5 DEF vars, kernel, runner, walk
  <2>2. StartShape'
    BY <2>1 DEF Inv3, StartShape, StartPlace, StartState, StartGroup, Unstarted, Up
  <2>3. StopPlace' /\ QuietShape'
    BY <2>1 DEF Inv3, StopPlace, Started, QuietShape, Live, Failed, Walked
  <2>4. StopShape' /\ WalkShape'
    BY <2>1 DEF Inv3, StopShape, Started, GroupShape, WalkShape, StopGroup, Up, Gone, Halted, Live,
                Failed, Walked
  <2> QED
    BY <2>2, <2>3, <2>4 DEF Inv3
<1> QED
  BY <1>1, <1>2, <1>3, <1>4, <1>5 DEF Next

(* With one thread calling run() the third invariant holds. *)
LEMMA Invariant3 ==
    ASSUME SingleCaller
    PROVE  Spec => []Inv3
<1>1. ASSUME Inv1, Inv2, Inv3, [Next]_vars PROVE Inv3'
  BY <1>1, SingleCaller, StepInv3
<1> QED
  BY <1>1, InitInv3, Invariant1, Invariant2, PTL DEF Spec

(* A start-up that failed had a reason to: no runner is found in a state its phase rejects. *)
FailedForAReason == \A c \in Callers : Failed(c) => StartupFailed

(* Only a hook or the creation of a thread makes a start-up fail. *)
LEMMA ReasonStep ==
    ASSUME Inv1, Inv3, FailedForAReason, [Next]_vars
    PROVE  FailedForAReason'
<1>a. result \in [Callers -> {"none", "alreadyRunning", "startupError", "success", "failure"}]
  BY DEF Inv1, TypeOK
<1>1. ASSUME NEW c \in Callers, NEW r \in Runners,
             Preload(c, r) \/ Load(c, r) \/ InitRunner(c, r) \/ Spawn(c, r)
      PROVE  FailedForAReason'
  <2>1. UNCHANGED scenario /\ pc[c] \in EarlyLabels
    BY <1>1 DEF Preload, Load, InitRunner, Spawn, setup, EarlyLabels, StartLabels
  <2>2. StartPlace(c) /\ StartState(c, r)
    BY <2>1 DEF Inv3, StartShape
  <2>3. pc[c] \in {"load", "init", "spawn"} => Group[r] = at[c]
    BY <1>1, <2>2 DEF StartPlace, GroupPhases, RunnersAt, Preload, Load, InitRunner, Spawn
  <2>4. (\E d \in Callers : Failed(d)' /\ ~Failed(d)) => StartupFailed
    <3>1. CASE Preload(c, r)
      <4>1. state_[r] = "unloaded"
        BY <2>2, <3>1 DEF Preload, StartState, Unstarted
      <4> QED
        BY <1>a, <3>1, <4>1 DEF Preload, Past, Failed, StartupFailed
    <3>2. CASE Load(c, r)
      <4>1. state_[r] = "preloaded"
        BY <2>2, <2>3, <3>2 DEF Load, StartState, StartGroup, Unstarted, GroupPhases
      <4> QED
        BY <1>a, <3>2, <4>1 DEF Load, Past, Failed, StartupFailed
    <3>3. CASE InitRunner(c, r)
      <4>1. state_[r] \in {"loaded", "initializing"}
        BY <2>2, <2>3, <3>3 DEF InitRunner, StartState, StartGroup, Unstarted, GroupPhases
      <4> QED
        BY <1>a, <3>3, <4>1 DEF InitRunner, Past, Failed, StartupFailed
    <3>4. CASE Spawn(c, r)
      <4>1. state_[r] = "initialized"
        BY <2>2, <2>3, <3>4 DEF Spawn, StartState, StartGroup, Unstarted, GroupPhases
      <4> QED
        BY <1>a, <3>4, <4>1 DEF Spawn, Past, Failed, StartupFailed
    <3> QED
      BY <1>1, <3>1, <3>2, <3>3, <3>4
  <2> QED
    BY <2>1, <2>4 DEF FailedForAReason, StartupFailed
<1>2. ASSUME UNCHANGED scenario, \A c \in Callers : Failed(c)' => Failed(c)
      PROVE  FailedForAReason'
  BY <1>2 DEF FailedForAReason, StartupFailed
<1>3. ASSUME NEW c \in Callers,
             RunCheck(c) \/ RunReset(c) \/ RunLock(c) \/ NextPhase(c) \/ Spawned(c)
               \/ StartMessages(c) \/ SetRunning(c) \/ Reread(c) \/ ApplyRunMode(c)
      PROVE  FailedForAReason'
  <2>1. UNCHANGED scenario
    BY <1>3 DEF RunCheck, RunReset, RunLock, NextPhase, Spawned, StartMessages, SetRunning, Reread,
                ApplyRunMode, setup
  <2>2. \/ UNCHANGED result
        \/ \E v \in {"alreadyRunning", "success", "failure"} : result' = [result EXCEPT ![c] = v]
    BY <1>3 DEF RunCheck, RunReset, RunLock, NextPhase, Spawned, StartMessages, SetRunning, Reread,
                ApplyRunMode
  <2> QED
    BY <1>a, <1>2, <2>1, <2>2 DEF Failed
<1>4. ASSUME NEW x \in Actors, StopStep(x) PROVE FailedForAReason'
  <2>1. UNCHANGED scenario
    BY <1>4 DEF StopStep, RequestStop, RequestDecide, StopCas, StopMessages, StopLock, WalkGroup,
                StopRunner, Unload, JoinFaulted, Signal, Join, StopsDone, GroupDown, Cleanup,
                StopNotRunning, StopNotStopping, setup
  <2>2. \/ UNCHANGED result
        \/ \E v \in {"success", "failure"} : result' = [result EXCEPT ![x] = v]
    BY <1>4 DEF StopStep, RequestStop, RequestDecide, StopCas, StopMessages, StopLock, WalkGroup,
                StopRunner, Unload, JoinFaulted, Signal, Join, StopsDone, GroupDown, Cleanup,
                StopNotRunning, StopNotStopping, Return
  <2> QED
    BY <1>a, <1>2, <2>1, <2>2 DEF Failed
<1>5. ASSUME \/ \E q \in Requesters : AskToStop(q)
             \/ \E r \in Runners : ThreadStep(r)
             \/ UNCHANGED vars
      PROVE  FailedForAReason'
  <2>1. UNCHANGED <<scenario, result>>
    BY <1>5 DEF AskToStop, ThreadStep, ThreadBegin, ThreadReturn, ThreadAsksToStop, ThreadFails,
                vars, setup
  <2> QED
    BY <1>2, <2>1 DEF Failed
<1> QED
  BY <1>1, <1>3, <1>4, <1>5 DEF Next, CallerStep

(* The shape of start-up and shutdown gives the properties. *)
LEMMA ShapeIsOrdered ==
    Inv1 /\ Inv3 /\ FailedForAReason =>
        /\ (\A c \in Callers : result[c] # "startupError") => LowerGroupsOutlive
        /\ UnloadedIsQuiet
<1> SUFFICES ASSUME Inv1, Inv3, FailedForAReason
             PROVE  /\ (\A c \in Callers : result[c] # "startupError") => LowerGroupsOutlive
                    /\ UnloadedIsQuiet
  OBVIOUS
<1>1. (\A r \in Runners : Group[r] \in Nat) /\ group_ \in Nat
  BY GroupAssumption DEF Inv1, TypeOK, GroupAssumption
<1>2. ASSUME Started, \A c \in Callers : result[c] # "startupError" PROVE LowerGroupsOutlive
  <2>1. \A r \in Runners : GroupShape(r)
    BY <1>2 DEF Inv3, StopShape, Walked, Failed
  <2> QED
    BY <1>1, <2>1 DEF GroupShape, Up, Gone, LowerGroupsOutlive
<1>3. ASSUME ~Started PROVE LowerGroupsOutlive
  <2>1. PICK c \in Callers : pc[c] \in EarlyLabels
    BY <1>3 DEF Started
  <2>2. (\A r \in Runners : StartState(c, r)) /\ at[c] \in Nat
    BY <2>1, GroupAssumption DEF Inv3, StartShape, Inv1, TypeOK, GroupAssumption, Actors
  <2>3. \A r \in Runners : \A s : Unstarted(r, s) => ~Live(r)
    BY DEF Unstarted, Live
  <2>4. pc[c] \in {"run", "reset", "lock", "preload"} \union GroupPhases \union AllUpLabels
    BY <2>1 DEF EarlyLabels, StartLabels, GroupPhases, AllUpLabels
  <2>5. ASSUME NEW q \in Runners, NEW r \in Runners, Live(r), Group[q] < Group[r] PROVE Up(q)
    <3>1. pc[c] \in GroupPhases \union AllUpLabels
      BY <2>2, <2>3, <2>4, <2>5 DEF StartState
    <3>2. pc[c] \in GroupPhases => Group[r] <= at[c]
      BY <1>1, <2>2, <2>3, <2>5 DEF StartState
    <3> QED
      BY <1>1, <2>2, <2>5, <3>1, <3>2 DEF StartState
  <2> QED
    BY <2>5 DEF LowerGroupsOutlive, Up
<1>4. UnloadedIsQuiet
  <2>1. \A r \in Runners : Walked(r) \/ StartupFailed
    BY DEF Walked, FailedForAReason
  <2> QED
    BY <2>1 DEF Inv3, QuietShape, UnloadedIsQuiet
<1> QED
  BY <1>2, <1>3, <1>4

(* Nobody reports a failed start-up without a reason. *)
LEMMA ReasonAlways ==
    ASSUME SingleCaller
    PROVE  Spec => []FailedForAReason
<1>1. Init => FailedForAReason
  BY DEF Init, FailedForAReason, Failed
<1> QED
  BY <1>1, ReasonStep, Invariant1, Invariant3, PTL DEF Spec

(* Groups come up in order and go down in the reverse order: as long as a component's thread *)
(* lives, every component of a lower group is up or has failed by itself, for any number of  *)
(* components, groups and threads that ask for the stop, and whenever components fail, up to *)
(* the point where a start-up fails, which leaves the threads of its own group alone.        *)
THEOREM GroupsAreOrdered ==
    ASSUME SingleCaller
    PROVE  Spec => []((\A c \in Callers : result[c] # "startupError") => LowerGroupsOutlive)
BY Invariant1, Invariant3, ReasonAlways, ShapeIsOrdered, PTL

(* A component that is unloaded has no thread left, and no message worker is there to reach *)
(* it; the clean-up after the unloads waits for all threads unless the start-up failed.     *)
THEOREM UnloadsAreQuiet ==
    ASSUME SingleCaller
    PROVE  Spec => []UnloadedIsQuiet
BY Invariant1, Invariant3, ReasonAlways, ShapeIsOrdered, PTL

----------------------------------------------------------------------------
(***************************************************************************)
(* A start-up that fails.  Components that do not fail by themselves are   *)
(* never found in the error state by the walk down, except the one whose   *)
(* thread could not be created, which is in the group above the walk; so   *)
(* the walk is not left by an exception before it has reached the bottom.  *)
(***************************************************************************)

WalkIsCalm ==
    "run" \notin scenario =>
        /\ \A r \in Runners : state_[r] = "error" => \E c \in Callers : Failed(c) /\ Group[r] = at[c]
        /\ \A x \in Actors : pc[x] = "threw" => Failed(x) /\ group_ = 0

(* A step that reports no error and leaves no walk. *)
LEMMA CalmStays ==
    ASSUME Inv1, Inv3, WalkIsCalm, UNCHANGED scenario,
           \A r \in Runners : state_'[r] = "error" => state_[r] = "error",
           \A x \in Actors : pc'[x] = "threw" => pc[x] = "threw",
           \A x \in Actors : Failed(x) => Failed(x)' /\ at'[x] = at[x],
           group_' = 0 \/ group_' = group_ \/ \A x \in Actors : pc[x] # "threw"
    PROVE  WalkIsCalm'
<1>1. Callers \subseteq Actors
  BY DEF Actors
<1> QED
  BY <1>1 DEF WalkIsCalm

(* The start-up: a thread that cannot be created is the only error it reports. *)
LEMMA CallerStepCalm ==
    ASSUME SingleCaller, Inv1, Inv2, Inv3, WalkIsCalm, NEW c \in Callers, CallerStep(c)
    PROVE  WalkIsCalm'
<1>a. /\ pc \in [Actors -> Labels] /\ c \in Actors /\ c \notin Runners /\ Runners \subseteq Actors
      /\ state_ \in [Runners -> ComponentStates] /\ at \in [Actors -> 0..MaxGroup]
      /\ result \in [Callers -> {"none", "alreadyRunning", "startupError", "success", "failure"}]
      /\ cur \in [Actors -> Runners \union {None}] /\ Callers \subseteq Actors
  BY ThreadAssumption DEF Inv1, TypeOK, Actors, ThreadAssumption
<1>b. \A x \in Actors : Failed(x) => x = c /\ pc[c] \in InGroupLabels \union {"walk", "cleanup", "threw"}
  BY DEF SingleCaller, Failed, Inv3, StopPlace
<1>c. pc[c] \in StartLabels
  BY DEF CallerStep, RunCheck, RunReset, RunLock, NextPhase, Spawned, Preload, Load, InitRunner, Spawn,
         StartMessages, SetRunning, Reread, ApplyRunMode, StartLabels
<1>d. \A x \in Actors : ~Failed(x)
  BY <1>b, <1>c DEF StartLabels, InGroupLabels
<1>e. pc[c] \in EarlyLabels => \A x \in Actors : pc[x] # "threw"
  BY DEF Inv3, StopPlace, Started, StopperLabels
<1>1. ASSUME NEW r \in Runners, Preload(c, r) \/ Load(c, r) \/ InitRunner(c, r) PROVE WalkIsCalm'
  <2>1. pc[c] \in EarlyLabels /\ UNCHANGED <<scenario, group_, at>>
    BY <1>1 DEF Preload, Load, InitRunner, EarlyLabels, StartLabels, setup
  <2>2. \A q \in Runners : state_'[q] = "error" => state_[q] = "error"
    BY <1>1, <1>a DEF Preload, Load, InitRunner, SetState
  <2>3. UNCHANGED pc \/ pc' = [pc EXCEPT ![c] = "walk"]
    BY <1>1 DEF Preload, Load, InitRunner, Past, StartupThrows, Goto
  <2>4. \A x \in Actors : pc'[x] = "threw" => pc[x] = "threw"
    BY <1>a, <2>3
  <2> QED
    BY <1>d, <2>1, <2>2, <2>4, CalmStays
<1>2. ASSUME NEW r \in Runners, Spawn(c, r) PROVE WalkIsCalm'
  <2>1. /\ pc[c] = "spawn" /\ pc[c] \in EarlyLabels /\ r \in todo[c]
        /\ UNCHANGED <<scenario, group_, at>>
    BY <1>2 DEF Spawn, EarlyLabels, StartLabels, setup
  <2>2. \/ UNCHANGED pc \/ pc' = [pc EXCEPT ![c] = "walk"]
        \/ pc' = [pc EXCEPT ![c] = "spawned", ![r] = "begin"]
    BY <1>2 DEF Spawn, Past, StartupThrows, Goto
  <2>3. \A x \in Actors : pc'[x] = "threw" => pc[x] = "threw"
    BY <1>a, <2>2
  <2>4. CASE UNCHANGED state_
    BY <1>d, <2>1, <2>3, <2>4, CalmStays
  <2>5. CASE state_' = [state_ EXCEPT ![r] = "error"] /\ StartupThrows(c)
    <3>1. Failed(c)'
      BY <1>a, <2>5 DEF StartupThrows, Failed
    <3>2. Group[r] = at[c]
      BY <2>1 DEF Inv3, StartShape, StartPlace, GroupPhases, RunnersAt
    <3>3. "run" \notin scenario => \A q \in Runners : state_[q] # "error"
      BY <1>a, <1>d DEF WalkIsCalm
    <3>4. \A q \in Runners : state_'[q] = "error" => q = r \/ state_[q] = "error"
      BY <1>a, <2>5
    <3>5. \A x \in Actors : pc'[x] # "threw"
      BY <1>e, <2>1, <2>3
    <3> QED
      BY <2>1, <3>1, <3>2, <3>3, <3>4, <3>5 DEF WalkIsCalm
  <2> QED
    BY <1>2, <2>4, <2>5 DEF Spawn, SetState
<1>3. CASE Spawned(c)
  <2>1. /\ pc[c] = "spawned" /\ pc[c] \in EarlyLabels
        /\ UNCHANGED <<scenario, group_, at>> /\ pc' = [pc EXCEPT ![c] = "spawn"]
        /\ state_' = [state_ EXCEPT ![cur[c]] = "running"]
    BY <1>3 DEF Spawned, EarlyLabels, StartLabels, setup, Goto, SetState
  <2>2. \A q \in Runners : state_'[q] = "error" => state_[q] = "error"
    BY <1>a, <2>1
  <2>3. \A x \in Actors : pc'[x] = "threw" => pc[x] = "threw"
    BY <1>a, <2>1
  <2> QED
    BY <1>d, <2>1, <2>2, <2>3, CalmStays
<1>4. CASE \/ RunCheck(c) \/ RunReset(c) \/ RunLock(c) \/ NextPhase(c) \/ StartMessages(c)
           \/ SetRunning(c) \/ Reread(c) \/ ApplyRunMode(c)
  <2>1. UNCHANGED <<scenario, state_>>
    BY <1>4 DEF RunCheck, RunReset, RunLock, NextPhase, StartMessages, SetRunning, Reread,
                ApplyRunMode, setup, runner
  <2>2. group_' = group_ \/ pc[c] \in EarlyLabels
    BY <1>4 DEF RunCheck, RunReset, RunLock, NextPhase, StartMessages, SetRunning, Reread,
                ApplyRunMode, EarlyLabels, StartLabels
  <2>3. \E l \in Labels \ {"threw"} : pc' = [pc EXCEPT ![c] = l]
    <3>1. ASSUME StartMessages(c) PROVE dispatcher = "off"
      BY <3>1 DEF StartMessages, Inv3, StartShape, StartPlace, EarlyLabels, StartLabels
    <3> QED
      BY <1>4, <3>1
      DEF RunCheck, RunReset, RunLock, NextPhase, StartMessages, SetRunning, Reread, ApplyRunMode,
          Goto, Labels, StartLabels, RequestLabels, StopLabels, EndLabels
  <2>4. \A x \in Actors : pc'[x] = "threw" => pc[x] = "threw"
    BY <1>a, <2>3
  <2> QED
    BY <1>d, <1>e, <2>1, <2>2, <2>4, CalmStays
<1> QED
  BY <1>1, <1>2, <1>3, <1>4 DEF CallerStep

(* The shutdown: no walk is left by an exception. *)
LEMMA StopStepCalm ==
    ASSUME SingleCaller, Inv1, Inv2, Inv3, WalkIsCalm, NEW x \in Actors, StopStep(x)
    PROVE  WalkIsCalm'
<1>a. /\ pc \in [Actors -> Labels] /\ Runners \subseteq Actors /\ Callers \subseteq Actors
      /\ state_ \in [Runners -> ComponentStates] /\ cur \in [Actors -> Runners \union {None}]
      /\ result \in [Callers -> {"none", "alreadyRunning", "startupError", "success", "failure"}]
  BY DEF Inv1, TypeOK, Actors
<1>b. AfterStop(x) \in {"apply", "done", "finished", "looping"}
  BY AfterStopLabels
<1>c. UNCHANGED <<scenario, at>>
  BY DEF StopStep, RequestStop, RequestDecide, StopCas, StopMessages, StopLock, WalkGroup,
         StopRunner, Unload, JoinFaulted, Signal, Join, StopsDone, GroupDown, Cleanup,
         StopNotRunning, StopNotStopping, setup, walk
<1>d. \A y \in Actors : Failed(y) => Failed(y)'
  <2>1. UNCHANGED result \/ (pc[x] \in {"cas", "notStopping"} /\ Return(x))
    BY DEF StopStep, RequestStop, RequestDecide, StopCas, StopMessages, StopLock, WalkGroup,
           StopRunner, Unload, JoinFaulted, Signal, Join, StopsDone, GroupDown, Cleanup,
           StopNotRunning, StopNotStopping
  <2>2. CASE UNCHANGED result
    BY <2>2 DEF Failed
  <2>3. CASE pc[x] \in {"cas", "notStopping"} /\ Return(x)
    <3>1. ~Failed(x)
      BY <2>3 DEF Inv3, StopPlace, InGroupLabels, Failed
    <3>2. \A y \in Callers : y # x => result'[y] = result[y]
      BY <1>a, <2>3 DEF Return
    <3> QED
      BY <3>1, <3>2 DEF Failed
  <2> QED
    BY <2>1, <2>2, <2>3
<1>e. group_' = group_ \/ \A y \in Actors : pc[y] # "threw"
  <2>1. ASSUME GroupDown(x), NEW y \in Actors, pc[y] = "threw" PROVE FALSE
    <3>1. x = y
      BY <2>1 DEF GroupDown, Inv3, StopPlace, StopperLabels, InGroupLabels
    <3> QED
      BY <2>1, <3>1 DEF GroupDown
  <2> QED
    BY <2>1 DEF StopStep, RequestStop, RequestDecide, StopCas, StopMessages, StopLock, WalkGroup,
           StopRunner, Unload, JoinFaulted, Signal, Join, StopsDone, Cleanup,
           StopNotRunning, StopNotStopping
<1>f. pc[x] \in InGroupLabels =>
        /\ todo[x] \subseteq RunnersAt(group_) /\ \A q \in RunnersAt(group_) : StopGroup(x, q)
        /\ pc[x] \in {"joinFaulted", "signal", "join"} => cur[x] \in RunnersAt(group_)
  BY DEF Inv3, WalkShape
<1>g. ASSUME "run" \notin scenario, pc[x] \in InGroupLabels, NEW r \in RunnersAt(group_)
      PROVE  state_[r] # "error"
  <2>1. r \in Runners /\ Group[r] = group_ /\ Group[r] \in Nat /\ Group[r] > 0
    BY <1>g, GroupAssumption DEF RunnersAt, GroupAssumption
  <2>2. \A c \in Callers : Failed(c) => group_ = 0 \/ group_ < at[c]
    BY DEF Inv3, StopPlace
  <2>3. \A c \in Callers : at[c] \in Nat
    BY GroupAssumption DEF Inv1, TypeOK, Actors, GroupAssumption
  <2> QED
    BY <1>g, <2>1, <2>2, <2>3 DEF WalkIsCalm
(* what such a step does to a walk that is calm *)
<1>h. ASSUME "run" \notin scenario
      PROVE  /\ \A r \in Runners : state_'[r] = "error" => state_[r] = "error"
             /\ \/ \A y \in Actors : pc'[y] = "threw" => pc[y] = "threw"
                \/ Cleanup(x)
  <2>1. CASE Signal(x)
    <3>1. cur[x] \in RunnersAt(group_) /\ cur[x] \in Runners /\ StopGroup(x, cur[x]) /\ pc[x] = "signal"
      BY <1>f, <2>1 DEF Signal, InGroupLabels, RunnersAt
    <3>2. state_[cur[x]] = "running"
      BY <1>g, <1>h, <3>1 DEF StopGroup, InGroupLabels
    <3>3. pc' = [pc EXCEPT ![x] = "join"] /\ state_' = [state_ EXCEPT ![cur[x]] = "stopping"]
      BY <2>1, <3>2 DEF Signal, TellToStop, Goto, SetState
    <3> QED
      BY <1>a, <3>1, <3>3
  <2>2. ASSUME NEW r \in Runners, Unload(x, r)
        PROVE  /\ \A q \in Runners : state_'[q] = "error" => state_[q] = "error"
               /\ \A y \in Actors : pc'[y] = "threw" => pc[y] = "threw"
    <3>1. pc[x] = "unload" /\ r \in todo[x] /\ StopGroup(x, r)
      BY <1>f, <2>2 DEF Unload, InGroupLabels
    <3>2. state_[r] \in {"stopped", "error"}
      BY <3>1 DEF StopGroup, Halted
    <3>3. UNCHANGED pc /\ (UNCHANGED state_ \/ state_' = [state_ EXCEPT ![r] = "unloaded"])
      BY <2>2, <3>2 DEF Unload, SetState
    <3> QED
      BY <1>a, <3>3
  <2>3. CASE Join(x)
    <3>1. cur[x] # x
      BY <1>f, <2>3 DEF Join, InGroupLabels, RunnersAt, Inv2, ComponentsNeverStopKernel, StopLabels
    <3>2. pc' = [pc EXCEPT ![x] = "stop"] /\ state_' = [state_ EXCEPT ![cur[x]] = "stopped"]
      BY <2>3, <3>1 DEF Join, Goto, SetState
    <3> QED
      BY <1>a, <3>2
  <2>4. CASE \/ RequestStop(x) \/ RequestDecide(x) \/ StopCas(x) \/ StopMessages(x) \/ StopLock(x)
             \/ WalkGroup(x) \/ (\E r \in Runners : StopRunner(x, r)) \/ JoinFaulted(x)
             \/ StopsDone(x) \/ GroupDown(x) \/ StopNotRunning(x) \/ StopNotStopping(x)
    <3>1. UNCHANGED state_
      BY <2>4 DEF RequestStop, RequestDecide, StopCas, StopMessages, StopLock, WalkGroup, StopRunner,
                  JoinFaulted, StopsDone, GroupDown, StopNotRunning, StopNotStopping, runner
    <3>2. \E l \in {AfterStop(x), "decide", "cas", "stopMessages", "lockStop", "walk", "cleanup", "stop",
                    "joinFaulted", "signal", "unload", "notStopping"} : pc' = [pc EXCEPT ![x] = l]
      BY <2>4 DEF RequestStop, RequestDecide, StopCas, StopMessages, StopLock, WalkGroup, StopRunner,
                  JoinFaulted, StopsDone, GroupDown, StopNotRunning, StopNotStopping, Return, Goto
    <3>3. \A y \in Actors : pc'[y] = "threw" => pc[y] = "threw"
      BY <1>a, <1>b, <3>2
    <3> QED
      BY <3>1, <3>3
  <2>5. CASE Cleanup(x)
    BY <2>5 DEF Cleanup, runner
  <2> QED
    BY <2>1, <2>2, <2>3, <2>4, <2>5 DEF StopStep
<1>i. ASSUME "run" \notin scenario, Cleanup(x) PROVE WalkIsCalm'
  <2>1. group_' = 0
    BY <1>i DEF Cleanup, Inv3, StopPlace
  <2>2. UNCHANGED <<state_, result>> /\ pc[x] = "cleanup"
    BY <1>i DEF Cleanup, runner
  <2>3. PICK l \in {"threw", "notRunning"} : pc' = [pc EXCEPT ![x] = l] /\ (l = "threw" <=> Failed(x))
    BY <1>i DEF Cleanup, Goto, Failed
  <2>4. \A y \in Actors : pc'[y] = "threw" => (y = x /\ Failed(x)) \/ pc[y] = "threw"
    BY <1>a, <2>3
  <2> QED
    BY <1>a, <1>c, <1>d, <1>i, <2>1, <2>2, <2>4 DEF WalkIsCalm
<1>1. CASE "run" \in scenario
  BY <1>c, <1>1 DEF WalkIsCalm
<1>2. CASE "run" \notin scenario /\ ~Cleanup(x)
  BY <1>c, <1>d, <1>e, <1>h, <1>2, CalmStays
<1> QED
  BY <1>1, <1>2, <1>i

(* With one thread calling run() the walks are always calm. *)
LEMMA CalmAlways ==
    ASSUME SingleCaller
    PROVE  Spec => []WalkIsCalm
<1>1. ASSUME Inv1, Inv2, Inv3, WalkIsCalm, [Next]_vars PROVE WalkIsCalm'
  <2>1. ASSUME \/ \E q \in Requesters : AskToStop(q)
               \/ \E r \in Runners : ThreadStep(r)
               \/ UNCHANGED vars
        PROVE  WalkIsCalm'
    <3>1. UNCHANGED <<scenario, result, at, group_>>
      BY <2>1 DEF AskToStop, ThreadStep, ThreadBegin, ThreadReturn, ThreadAsksToStop, ThreadFails,
                  vars, setup, walk
    <3>2. UNCHANGED state_ \/ "run" \in scenario
      BY <2>1 DEF AskToStop, ThreadStep, ThreadBegin, ThreadReturn, ThreadAsksToStop, ThreadFails,
                  vars, runner
    <3>3. UNCHANGED pc \/ \E x \in Actors, l \in {"request", "looping", "finished"} :
                              pc' = [pc EXCEPT ![x] = l]
      BY <2>1 DEF AskToStop, ThreadStep, ThreadBegin, ThreadReturn, ThreadAsksToStop, ThreadFails,
                  vars, Goto, Actors
    <3>4. \A x \in Actors : pc'[x] = "threw" => pc[x] = "threw"
      BY <1>1, <3>3 DEF Inv1, TypeOK
    <3>5. CASE "run" \in scenario
      BY <3>1, <3>5 DEF WalkIsCalm
    <3>6. CASE UNCHANGED state_
      BY <1>1, <3>1, <3>4, <3>6, CalmStays DEF Failed
    <3> QED
      BY <3>2, <3>5, <3>6
  <2> QED
    BY <1>1, <2>1, SingleCaller, CallerStepCalm, StopStepCalm DEF Next
<1>2. Init => WalkIsCalm
  <2>1. Init => \A x \in Actors : pc[x] # "threw"
    BY DEF Init
  <2> QED
    BY <2>1 DEF Init, WalkIsCalm
<1> QED
  BY <1>1, <1>2, Invariant1, Invariant2, Invariant3, PTL DEF Spec

(* A start-up that failed leaves no component of the groups below the failing one up, for   *)
(* any number of components and groups and whichever hook fails, as long as no component    *)
(* fails by itself: one that does between the two readings of its state takes the walk down *)
(* with it.                                                                                 *)
THEOREM FailedStartupsUnwind ==
    ASSUME SingleCaller
    PROVE  Spec => []("run" \notin scenario => FailedStartupUnwinds)
<1>1. ASSUME Inv1, Inv3, WalkIsCalm, "run" \notin scenario PROVE FailedStartupUnwinds
  <2> SUFFICES ASSUME NEW c \in Callers, NEW r \in Runners, pc[c] = "threw", Group[r] < at[c]
               PROVE  state_[r] \in {"unloaded", "error"} /\ ~Live(r)
    BY DEF FailedStartupUnwinds
  <2>1. Failed(c) /\ group_ = 0 /\ \A d \in Callers : d = c
    BY <1>1 DEF WalkIsCalm, Actors, SingleCaller
  <2>2. Walked(r)
    BY <2>1 DEF Walked
  <2>3. Started
    BY <2>1, <1>1 DEF Inv3, StopPlace, StopperLabels, Actors
  <2>4. Group[r] > group_
    BY <2>1, GroupAssumption DEF GroupAssumption
  <2>5. Gone(r)
    BY <1>1, <2>2, <2>3, <2>4 DEF Inv3, StopShape, GroupShape
  <2> QED
    BY <2>5 DEF Gone
<1>2. Inv1 /\ Inv3 /\ WalkIsCalm => ("run" \notin scenario => FailedStartupUnwinds)
  BY <1>1
<1> QED
  BY <1>2, Invariant1, Invariant3, CalmAlways, PTL

=============================================================================
