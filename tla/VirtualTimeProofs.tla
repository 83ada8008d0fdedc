------------------------- MODULE VirtualTimeProofs -------------------------
(***************************************************************************)
(* Proofs about VirtualTime for any set of components and any periods: the *)
(* type invariant, that updates and commits never overlap, that steps are  *)
(* complete and that no cycle is skipped or run twice.  The argument is    *)
(* about who has been told what: a worker that has something to do was     *)
(* commanded in the phase the driver is in, and has not answered.  The     *)
(* count of cycles rests on that and on the arithmetic of the rounding.    *)
(* Both end with the first step that throws, which only a stop in runMode  *)
(* virtualTime can bring about; the types go on.                           *)
(***************************************************************************)
EXTENDS VirtualTime, WellFoundedInduction, TLAPS

(* The worker's promise has its value, and not only because the worker is being stopped. *)
Pending(w) == barrierForWorker_[w] /\ ~stopFlag_[w]
Busy(w) == pc[w] \in {"advance", "commit", "notify"}
Active(w) == Busy(w) \/ Pending(w)

(* Nobody is active between two steps; in a phase, whoever is active was commanded in it and *)
(* has not answered; a worker does what it was commanded; one command at a time.             *)
Commanded ==
    \A w \in Workers :
        /\ Active(w) => driver # "rest"
        /\ Active(w) /\ driver \in {"advance", "commit"} =>
             w \notin todo /\ ~barrierForCaller_[w] /\ workerCommand_[w] = driver
        /\ pc[w] \in {"advance", "commit"} => pc[w] = workerCommand_[w]
        /\ ~(Busy(w) /\ Pending(w))

(* Whoever is active has the same command. *)
OneCommand ==
    \A v, w \in Workers : Active(v) /\ Active(w) => workerCommand_[v] = workerCommand_[w]

(* The stop wakes only workers whose stop flag is set. *)
UnblocksStopped == stopper = "unblock" => cur \in Workers /\ stopFlag_[cur]

(* The phase that advances: the workers not yet told share a time, the others a target one step *)
(* later, which those who are done have reached.                                                *)
AdvanceTimes ==
    driver = "advance" =>
        /\ \A v, w \in Workers :
             /\ v \in todo /\ w \in todo => time_[v] = time_[w]
             /\ v \in todo /\ w \notin todo => targetVirtualTime_[w] = time_[v] + delta
             /\ v \notin todo /\ w \notin todo => targetVirtualTime_[v] = targetVirtualTime_[w]
        /\ \A w \in Workers :
             w \notin todo /\ (barrierForCaller_[w] \/ pc[w] = "notify")
                => time_[w] = targetVirtualTime_[w]

(* The phase that commits: one time, and nothing uncommitted with those who are done. *)
CommitTimes ==
    driver = "commit" =>
        /\ \A v, w \in Workers : time_[v] = time_[w]
        /\ \A w \in Workers :
             w \notin todo /\ (barrierForCaller_[w] \/ pc[w] = "notify") => ~updated[w]

(* A cycle that is overdue was run. *)
OverdueIsUpdated == \A w \in Workers : nextExecutionDeltaTime_[w] < 0 => updated[w]

Times == AdvanceTimes /\ CommitTimes /\ StepsAreComplete /\ OverdueIsUpdated

Inv == TypeOK /\ Commanded /\ OneCommand /\ UnblocksStopped /\ Times

(* A stop flag is set by the stop alone, and no step is under way in virtualTimeRunning once the *)
(* stop has begun.  Futures of another phase are kept by a step that threw alone.               *)
StopIsAsked ==
    /\ stopper = "idle" => \A w \in Workers : ~stopFlag_[w]
    /\ stopper # "idle" =>
         stopRequested_ /\ (mode = "virtualTimeRunning" => driver \in {"rest", "gone"})
    /\ throws # 0 => stopper # "idle" /\ mode # "virtualTimeRunning"
    /\ spoilt => throws # 0
    /\ throws = 0 => futures \intersect todo = {} /\ (driver = "rest" => futures = {})

(* What holds throughout: the invariant above up to the first step that throws. *)
Whole == TypeOK /\ UnblocksStopped /\ StopIsAsked /\ (throws = 0 => Inv)

----------------------------------------------------------------------------
(* A distance that is not negative is rounded to one that is not either. *)
LEMMA RoundedIsNatural ==
    ASSUME NEW d \in Nat PROVE RoundUpToMilliseconds(d) \in Nat
<1> DEFINE x == d + Grain - 1
<1>1. x \in Nat /\ Grain \in Nat /\ Grain > 0
  BY PeriodAssumption DEF PeriodAssumption
<1>2. /\ x % Grain \in 0..(Grain - 1) /\ x \div Grain \in Int
      /\ x = Grain * (x \div Grain) + (x % Grain)
  BY <1>1
<1>3. x \div Grain >= 0
  BY <1>1, <1>2
<1>4. Grain * (x \div Grain) >= 0 /\ Grain * (x \div Grain) \in Int
  BY <1>1, <1>2, <1>3
<1>5. x - (x % Grain) \in Nat
  BY <1>1, <1>2, <1>4
<1> QED
  BY <1>5 DEF RoundUpToMilliseconds

(* The smallest of a set of natural numbers. *)
LEMMA MinOfNaturals ==
    ASSUME NEW S, S \subseteq Nat, S # {}
    PROVE  Min(S) \in S /\ \A y \in S : Min(S) =< y
<1> DEFINE R == {ss \in Nat \X Nat : ss[1] < ss[2]}
<1>1. IsWellFoundedOn(R, Nat)
  BY NatLessThanWellFounded, Zenon DEF OpToRel
<1> HIDE DEF R
<1>2. PICK x \in S : \A y \in S : ~(<<y, x>> \in R)
  BY <1>1, WFMin
<1>3. ASSUME NEW y \in S PROVE x =< y
  <2>1. ~(y < x)
    BY <1>2, Zenon DEF R
  <2> QED
    BY <2>1
<1> QED
  BY <1>3 DEF Min

(* The length of a step is a natural number when no cycle is overdue. *)
LEMMA NextDeltaIsNatural ==
    ASSUME \A w \in Workers : nextExecutionDeltaTime_[w] \in Nat PROVE NextDelta \in Nat
<1> DEFINE S == {RoundUpToMilliseconds(nextExecutionDeltaTime_[w]) : w \in Workers}
<1>1. S \subseteq Nat
  BY RoundedIsNatural
<1>2. S # {}
  BY PeriodAssumption DEF PeriodAssumption
<1> HIDE DEF S
<1>3. Min(S) \in Nat
  BY <1>1, <1>2, MinOfNaturals
<1> QED
  BY <1>3, Zenon DEF NextDelta, S

(* A step is no longer than the rounded distance of any component. *)
LEMMA NextDeltaIsSmallest ==
    ASSUME \A v \in Workers : nextExecutionDeltaTime_[v] \in Nat, NEW w \in Workers
    PROVE  NextDelta <= RoundUpToMilliseconds(nextExecutionDeltaTime_[w])
<1> DEFINE S == {RoundUpToMilliseconds(nextExecutionDeltaTime_[v]) : v \in Workers}
<1>1. S \subseteq Nat
  BY RoundedIsNatural
<1>2. RoundUpToMilliseconds(nextExecutionDeltaTime_[w]) \in S
  OBVIOUS
<1> HIDE DEF S
<1>3. Min(S) =< RoundUpToMilliseconds(nextExecutionDeltaTime_[w])
  BY <1>1, <1>2, MinOfNaturals, Zenon
<1> QED
  BY <1>3, Zenon DEF NextDelta, S

(* Rounding adds less than a millisecond, and nothing to zero. *)
LEMMA RoundedIsNear ==
    ASSUME NEW d \in Nat
    PROVE  /\ RoundUpToMilliseconds(d) <= d + Grain - 1
           /\ d = 0 => RoundUpToMilliseconds(d) = 0
<1> DEFINE x == d + Grain - 1
<1>1. x \in Nat /\ Grain \in Nat /\ Grain > 0
  BY PeriodAssumption DEF PeriodAssumption
<1>2. x % Grain \in 0..(Grain - 1)
  BY <1>1
<1>3. d = 0 => x % Grain = x
  BY <1>1
<1> QED
  BY <1>1, <1>2, <1>3 DEF RoundUpToMilliseconds

(* Quotient and remainder are unique. *)
LEMMA Division ==
    ASSUME NEW p \in Nat, p > 0, NEW q \in Nat, NEW r \in Nat, r < p
    PROVE  (p * q + r) \div p = q /\ (p * q + r) % p = r
<1> DEFINE x == p * q + r
           k == x \div p
           m == x % p
<1>0. p * q \in Nat
  OBVIOUS
<1>1. x \in Nat /\ k \in Int /\ m \in 0..(p - 1) /\ x = p * k + m
  BY <1>0
<1>2. x = p * q + r
  OBVIOUS
<1> HIDE DEF x, k, m
<1>3. ~(k >= q + 1)
  <2> SUFFICES ASSUME k >= q + 1 PROVE FALSE
    OBVIOUS
  <2>1. p * k >= p * (q + 1)
    BY <1>1
  <2>2. p * (q + 1) = p * q + p
    OBVIOUS
  <2> QED
    BY <1>0, <1>1, <1>2, <2>1, <2>2
<1>4. ~(q >= k + 1)
  <2> SUFFICES ASSUME q >= k + 1 PROVE FALSE
    OBVIOUS
  <2>1. p * q >= p * (k + 1)
    BY <1>1
  <2>2. p * (k + 1) = p * k + p
    BY <1>1
  <2> QED
    BY <1>0, <1>1, <1>2, <2>1, <2>2
<1>5. k = q
  BY <1>1, <1>3, <1>4
<1>6. m = r
  BY <1>0, <1>1, <1>2, <1>5
<1> QED
  BY <1>5, <1>6 DEF k, m, x

(* What a component's advance by d does to the count when d does not pass the next cycle by a *)
(* period: short of the cycle nothing, otherwise exactly one period more.                     *)
LEMMA OnePeriodAtMost ==
    ASSUME NEW p \in Nat, p > 0, NEW t \in Nat, NEW d \in Nat,
           d < (p - (t % p)) + p
    PROVE  /\ d < p - (t % p) => /\ (t + d) \div p = t \div p
                                /\ (t + d) % p = (t % p) + d
           /\ d >= p - (t % p) => (t + d) \div p = (t \div p) + 1
<1> DEFINE q == t \div p
           r == t % p
<1>1. q \in Int /\ r \in Nat /\ r < p /\ t = p * q + r
  OBVIOUS
<1>2. q \in Nat
  <2> SUFFICES ASSUME q <= -1 PROVE FALSE
    BY <1>1
  <2>1. p * q <= p * (-1)
    BY <1>1
  <2> QED
    BY <1>1, <2>1
<1> HIDE DEF q, r
<1>3. p * q \in Nat
  BY <1>2
<1>4. CASE d < p - r
  <2>1. t + d = p * q + (r + d) /\ r + d \in Nat /\ r + d < p
    BY <1>1, <1>3, <1>4
  <2>2. (t + d) \div p = q /\ (t + d) % p = r + d
    BY <1>2, <2>1, Division
  <2> QED
    BY <1>1, <1>4, <2>2 DEF q, r
<1>5. CASE d >= p - r
  <2>0. p * (q + 1) = p * q + p
    BY <1>2
  <2>1. t + d = p * (q + 1) + (r + d - p) /\ r + d - p \in Nat /\ r + d - p < p
    BY <1>1, <1>3, <1>5, <2>0 DEF r
  <2>2. q + 1 \in Nat
    BY <1>2
  <2>3. (t + d) \div p = q + 1
    BY <2>2, <2>1, Division
  <2> QED
    BY <1>1, <1>5, <2>3 DEF q, r
<1> QED
  BY <1>4, <1>5, <1>1

----------------------------------------------------------------------------
(* The invariant holds when the kernel starts running. *)
LEMMA InitInv == Init => Inv
<1> SUFFICES ASSUME Init PROVE Inv
  OBVIOUS
<1>1. TypeOK
  <2>1. /\ barrierForWorker_ \in [Workers -> BOOLEAN] /\ barrierForCaller_ \in [Workers -> BOOLEAN]
        /\ updated \in [Workers -> BOOLEAN] /\ stopFlag_ \in [Workers -> BOOLEAN]
        /\ stopRequested_ \in BOOLEAN /\ kernelStopFlag \in BOOLEAN /\ spoilt \in BOOLEAN
    BY Zenon DEF Init
  <2>2. /\ targetVirtualTime_ \in [Workers -> Nat] /\ time_ \in [Workers -> Nat]
        /\ nextExecutionDeltaTime_ \in [Workers -> Int] /\ cycles \in [Workers -> Nat]
        /\ delta \in Nat /\ throws \in Nat /\ futures \subseteq Workers
    BY DEF Init
  <2>3. /\ workerCommand_ \in [Workers -> {"advance", "commit"}]
        /\ pc \in [Workers -> {"start", "wait", "advance", "commit", "notify", "gone"}]
        /\ driver \in {"rest", "advance", "commit", "gone"}
        /\ stopper \in {"idle", "walk", "unblock", "join", "joinKernel", "done"}
        /\ todo \subseteq Workers /\ cur \in Workers \union {None} /\ toStop \subseteq Workers
    BY DEF Init
  <2> QED
    BY <2>1, <2>2, <2>3 DEF TypeOK
<1>2. Commanded /\ OneCommand /\ UnblocksStopped
  BY DEF Init, Commanded, OneCommand, UnblocksStopped, Active, Busy, Pending
<1>3. Times
  BY DEF Init, Times, AdvanceTimes, CommitTimes, StepsAreComplete, OverdueIsUpdated
<1> QED
  BY <1>1, <1>2, <1>3 DEF Inv
(* A worker's steps. *)
LEMMA WorkerStepInv ==
    ASSUME Inv, NEW w \in Workers, WorkerStep(w) \/ WorkerFails(w)
    PROVE  Inv'
<1> USE DEF Inv, promises, command, work, drive, stop
<1>1. CASE WorkerEnters(w)
  BY <1>1 DEF WorkerEnters, TypeOK, OneCommand, UnblocksStopped, Times, AdvanceTimes,
         CommitTimes, StepsAreComplete, OverdueIsUpdated, Commanded, Active, Busy, Pending
<1>2. CASE WorkerFails(w)
  BY <1>2 DEF WorkerFails, TypeOK, OneCommand, UnblocksStopped, Times, AdvanceTimes,
         CommitTimes, StepsAreComplete, OverdueIsUpdated, Commanded, Active, Busy, Pending
<1>3. CASE WorkerWakes(w)
  <2>1. TypeOK'
    BY <1>3 DEF WorkerWakes, TypeOK
  <2>2. Commanded'
    BY <1>3 DEF WorkerWakes, TypeOK, Commanded, Active, Busy, Pending, UnblocksStopped
  <2>3. OneCommand'
    BY <1>3 DEF WorkerWakes, TypeOK, OneCommand, Commanded, Active, Busy, Pending,
           UnblocksStopped
  <2>4. UnblocksStopped'
    BY <1>3 DEF WorkerWakes, TypeOK, UnblocksStopped
  <2>5. Times'
    BY <1>3 DEF WorkerWakes, TypeOK, Times, AdvanceTimes, CommitTimes, StepsAreComplete,
           OverdueIsUpdated, Commanded, Active, Busy, Pending
  <2> QED
    BY <2>1, <2>2, <2>3, <2>4, <2>5 DEF Inv
<1>4. CASE WorkerAdvances(w)
  <2>1. TypeOK'
    BY <1>4 DEF WorkerAdvances, TypeOK
  <2>2. Commanded'
    BY <1>4 DEF WorkerAdvances, TypeOK, Commanded, Active, Busy, Pending, UnblocksStopped
  <2>3. OneCommand'
    BY <1>4 DEF WorkerAdvances, TypeOK, OneCommand, Commanded, Active, Busy, Pending,
           UnblocksStopped
  <2>4. UnblocksStopped'
    BY <1>4 DEF WorkerAdvances, TypeOK, UnblocksStopped
  <2>5. Times'
    <3>1. driver # "commit" /\ driver # "rest"
      BY <1>4 DEF WorkerAdvances, Commanded, Active, Busy
    <3>2. ASSUME NEW v \in Workers PROVE nextExecutionDeltaTime_'[v] < 0 => updated'[v]
      <4>1. CASE v # w
        BY <1>4, <4>1 DEF WorkerAdvances, TypeOK, Times, OverdueIsUpdated
      <4>2. CASE v = w
        <5> DEFINE next == nextExecutionDeltaTime_[w] - (targetVirtualTime_[w] - time_[w])
        <5>1. next \in Int /\ nextExecutionDeltaTime_'[w] = next
          BY <1>4 DEF WorkerAdvances, TypeOK
        <5>2. next <= 0 => updated'[w]
          BY <1>4 DEF WorkerAdvances, TypeOK
        <5> HIDE DEF next
        <5>3. next < 0 => next <= 0
          BY <5>1
        <5> QED
          BY <4>2, <5>1, <5>2, <5>3
      <4> QED
        BY <4>1, <4>2
    <3>3. AdvanceTimes'
      BY <1>4 DEF WorkerAdvances, TypeOK, Times, AdvanceTimes, Commanded, Active, Busy
    <3>4. driver' = driver
      BY <1>4 DEF WorkerAdvances
    <3> QED
      BY <3>1, <3>2, <3>3, <3>4 DEF Times, CommitTimes, StepsAreComplete, OverdueIsUpdated
  <2> QED
    BY <2>1, <2>2, <2>3, <2>4, <2>5 DEF Inv
<1>5. CASE WorkerCommits(w)
  <2>1. Period[w] - (time_[w] % Period[w]) \in Nat
    <3>1. Period[w] \in Nat /\ Period[w] > 0 /\ time_[w] \in Nat
      BY PeriodAssumption DEF PeriodAssumption, TypeOK
    <3>2. time_[w] % Period[w] \in 0..(Period[w] - 1)
      BY <3>1
    <3> QED
      BY <3>1, <3>2
  <2>2. TypeOK'
    BY <1>5, <2>1 DEF WorkerCommits, TypeOK
  <2>3. Commanded'
    BY <1>5 DEF WorkerCommits, TypeOK, Commanded, Active, Busy, Pending, UnblocksStopped
  <2>4. OneCommand'
    BY <1>5 DEF WorkerCommits, TypeOK, OneCommand, Commanded, Active, Busy, Pending,
           UnblocksStopped
  <2>5. UnblocksStopped'
    BY <1>5 DEF WorkerCommits, TypeOK, UnblocksStopped
  <2>6. Times'
    <3>1. ASSUME NEW v \in Workers PROVE nextExecutionDeltaTime_'[v] < 0 => updated'[v]
      <4>1. CASE v # w
        BY <1>5, <4>1 DEF WorkerCommits, TypeOK, Times, OverdueIsUpdated
      <4>2. CASE v = w /\ updated[w]
        BY <1>5, <2>1, <4>2 DEF WorkerCommits, TypeOK
      <4>3. CASE v = w /\ ~updated[w]
        BY <1>5, <4>3 DEF WorkerCommits, TypeOK, Times, OverdueIsUpdated
      <4> QED
        BY <4>1, <4>2, <4>3
    <3>2. AdvanceTimes' /\ CommitTimes' /\ StepsAreComplete'
      BY <1>5 DEF WorkerCommits, TypeOK, Times, AdvanceTimes, CommitTimes, StepsAreComplete,
             Commanded, Active, Busy
    <3> QED
      BY <3>1, <3>2 DEF Times, OverdueIsUpdated
  <2> QED
    BY <2>2, <2>3, <2>4, <2>5, <2>6 DEF Inv
<1>6. CASE WorkerNotifies(w)
  <2>1. TypeOK'
    BY <1>6 DEF WorkerNotifies, TypeOK
  <2>2. Commanded'
    BY <1>6 DEF WorkerNotifies, TypeOK, Commanded, Active, Busy, Pending, UnblocksStopped
  <2>3. OneCommand'
    BY <1>6 DEF WorkerNotifies, TypeOK, OneCommand, Commanded, Active, Busy, Pending,
           UnblocksStopped
  <2>4. UnblocksStopped'
    BY <1>6 DEF WorkerNotifies, TypeOK, UnblocksStopped
  <2>5. Times'
    BY <1>6 DEF WorkerNotifies, TypeOK, Times, AdvanceTimes, CommitTimes, StepsAreComplete,
           OverdueIsUpdated, Commanded, Active, Busy, Pending
  <2> QED
    BY <2>1, <2>2, <2>3, <2>4, <2>5 DEF Inv
<1> QED
  BY <1>1, <1>2, <1>3, <1>4, <1>5, <1>6 DEF WorkerStep

(* The driver's command to one worker. *)
LEMMA CommandInv ==
    ASSUME Inv, NEW w \in Workers, Command(w), throws = 0, throws' = 0
    PROVE  Inv'
<1> USE DEF Inv, promises, command, work, drive, stop
<1>1. CASE Command(w)
  <2>0. ~barrierForWorker_[w] /\ UNCHANGED <<driver, throws, delta>>
    BY <1>1 DEF Command, StepThrows
  <2>1. TypeOK'
    BY <1>1, <2>0 DEF Command, TypeOK
  <2>2. Commanded'
    BY <1>1, <2>0 DEF Command, TypeOK, Commanded, Active, Busy, Pending, UnblocksStopped
  <2>3. OneCommand'
    BY <1>1, <2>0 DEF Command, TypeOK, OneCommand, Commanded, Active, Busy, Pending, UnblocksStopped
  <2>4. UnblocksStopped'
    BY <1>1, <2>0 DEF Command, TypeOK, UnblocksStopped
  <2>5. Times'
    BY <1>1, <2>0 DEF Command, TypeOK, Times, AdvanceTimes, CommitTimes, StepsAreComplete,
           OverdueIsUpdated, Commanded, Active, Busy, Pending
  <2> QED
    BY <2>1, <2>2, <2>3, <2>4, <2>5 DEF Inv
<1> QED
  BY <1>1

(* The driver's other steps. *)
LEMMA DriverStepInv ==
    ASSUME Inv, throws = 0, StepBegins \/ AllAnswered \/ DriverEnds
    PROVE  Inv'
<1> USE DEF Inv, promises, command, work, drive, stop
<1>1. CASE StepBegins
  <2>1. TypeOK'
    <3>1. \A v \in Workers : nextExecutionDeltaTime_[v] \in Nat
      BY <1>1 DEF StepBegins, TypeOK, Times, StepsAreComplete, OverdueIsUpdated
    <3>2. NextDelta \in Nat
      BY <3>1, NextDeltaIsNatural
    <3> QED
      BY <1>1, <3>2 DEF StepBegins, TypeOK
  <2>2. Commanded'
    BY <1>1 DEF StepBegins, TypeOK, Commanded, Active, Busy, Pending, UnblocksStopped
  <2>3. OneCommand'
    BY <1>1 DEF StepBegins, TypeOK, OneCommand, Commanded, Active, Busy, Pending,
           UnblocksStopped
  <2>4. UnblocksStopped'
    BY <1>1 DEF StepBegins, TypeOK, UnblocksStopped
  <2>5. Times'
    BY <1>1 DEF StepBegins, TypeOK, Times, AdvanceTimes, CommitTimes, StepsAreComplete,
           OverdueIsUpdated, Commanded, Active, Busy, Pending
  <2> QED
    BY <2>1, <2>2, <2>3, <2>4, <2>5 DEF Inv
<1>2. CASE AllAnswered
  <2>1. \A v \in Workers : ~Active(v)
    BY <1>2 DEF AllAnswered, EveryAnswer, Commanded, TypeOK
  <2>2. TypeOK'
    BY <1>2 DEF AllAnswered, TypeOK
  <2>3. Commanded'
    BY <1>2, <2>1 DEF AllAnswered, Commanded, Active, Busy, Pending
  <2>4. OneCommand'
    BY <1>2, <2>1 DEF AllAnswered, OneCommand, Active, Busy, Pending
  <2>5. UnblocksStopped'
    BY <1>2 DEF AllAnswered, TypeOK, UnblocksStopped
  <2>6. Times'
    BY <1>2 DEF AllAnswered, EveryAnswer, TypeOK, Times, AdvanceTimes, CommitTimes,
           StepsAreComplete, OverdueIsUpdated
  <2> QED
    BY <2>2, <2>3, <2>4, <2>5, <2>6 DEF Inv
<1>3. CASE DriverEnds
  <2>1. TypeOK'
    BY <1>3 DEF DriverEnds, TypeOK
  <2>2. Commanded'
    BY <1>3 DEF DriverEnds, TypeOK, Commanded, Active, Busy, Pending, UnblocksStopped
  <2>3. OneCommand'
    BY <1>3 DEF DriverEnds, TypeOK, OneCommand, Commanded, Active, Busy, Pending,
           UnblocksStopped
  <2>4. UnblocksStopped'
    BY <1>3 DEF DriverEnds, TypeOK, UnblocksStopped
  <2>5. Times'
    BY <1>3 DEF DriverEnds, TypeOK, Times, AdvanceTimes, CommitTimes, StepsAreComplete,
           OverdueIsUpdated, Commanded, Active, Busy, Pending
  <2> QED
    BY <2>1, <2>2, <2>3, <2>4, <2>5 DEF Inv
<1> QED
  BY <1>1, <1>2, <1>3

(* The stop, and the request for it. *)
LEMMA StopStepInv ==
    ASSUME Inv, AskToStop \/ StopStep
    PROVE  Inv'
<1> USE DEF Inv, promises, command, work, drive, stop
<1>1. CASE AskToStop
  BY <1>1 DEF AskToStop, TypeOK, OneCommand, UnblocksStopped, Times, AdvanceTimes, CommitTimes,
         StepsAreComplete, OverdueIsUpdated, Commanded, Active, Busy, Pending
<1>2. CASE StopBegins
  BY <1>2 DEF StopBegins, TypeOK, OneCommand, UnblocksStopped, Times, AdvanceTimes, CommitTimes,
         StepsAreComplete, OverdueIsUpdated, Commanded, Active, Busy, Pending
<1>3. CASE UnblockWorker
  <2>1. TypeOK'
    BY <1>3 DEF UnblockWorker, TypeOK
  <2>2. Commanded'
    BY <1>3 DEF UnblockWorker, TypeOK, Commanded, Active, Busy, Pending, UnblocksStopped
  <2>3. OneCommand'
    BY <1>3 DEF UnblockWorker, TypeOK, OneCommand, Commanded, Active, Busy, Pending,
           UnblocksStopped
  <2>4. UnblocksStopped'
    BY <1>3 DEF UnblockWorker, TypeOK, UnblocksStopped
  <2>5. Times'
    BY <1>3 DEF UnblockWorker, TypeOK, Times, AdvanceTimes, CommitTimes, StepsAreComplete,
           OverdueIsUpdated, Commanded, Active, Busy, Pending
  <2> QED
    BY <2>1, <2>2, <2>3, <2>4, <2>5 DEF Inv
<1>4. CASE JoinWorker
  BY <1>4 DEF JoinWorker, TypeOK, OneCommand, UnblocksStopped, Times, AdvanceTimes, CommitTimes,
         StepsAreComplete, OverdueIsUpdated, Commanded, Active, Busy, Pending
<1>5. CASE StopKernelComponent
  BY <1>5 DEF StopKernelComponent, TypeOK, OneCommand, UnblocksStopped, Times, AdvanceTimes,
         CommitTimes, StepsAreComplete, OverdueIsUpdated, Commanded, Active, Busy, Pending
<1>6. CASE JoinKernelComponent
  BY <1>6 DEF JoinKernelComponent, TypeOK, OneCommand, UnblocksStopped, Times, AdvanceTimes,
         CommitTimes, StepsAreComplete, OverdueIsUpdated, Commanded, Active, Busy, Pending
<1>7. ASSUME NEW w \in Workers, StopWorker(w) PROVE Inv'
  <2>1. TypeOK'
    BY <1>7 DEF StopWorker, TypeOK
  <2>2. Commanded'
    BY <1>7 DEF StopWorker, TypeOK, Commanded, Active, Busy, Pending, UnblocksStopped
  <2>3. OneCommand'
    BY <1>7 DEF StopWorker, TypeOK, OneCommand, Commanded, Active, Busy, Pending,
           UnblocksStopped
  <2>4. UnblocksStopped'
    BY <1>7 DEF StopWorker, TypeOK, UnblocksStopped
  <2>5. Times'
    BY <1>7 DEF StopWorker, TypeOK, Times, AdvanceTimes, CommitTimes, StepsAreComplete,
           OverdueIsUpdated, Commanded, Active, Busy, Pending
  <2> QED
    BY <2>1, <2>2, <2>3, <2>4, <2>5 DEF Inv
<1> QED
  BY <1>1, <1>2, <1>3, <1>4, <1>5, <1>6, <1>7 DEF StopStep

(* No step changes what kind of behaviour it is, and steps that threw are not forgotten. *)
LEMMA ThrowsStay ==
    ASSUME Whole, [Next]_vars
    PROVE  /\ mode' = mode
           /\ throws' = throws
                \/ /\ throws' = throws + 1 /\ WaitThrows
                \/ /\ throws' = throws + 1 /\ \E w \in Workers : Command(w) /\ barrierForWorker_[w]
<1> USE DEF promises, command, work, drive, stop
<1>1. CASE \E w \in Workers : WorkerStep(w) \/ WorkerFails(w)
  BY <1>1 DEF WorkerStep, WorkerEnters, WorkerWakes, WorkerAdvances, WorkerCommits, WorkerNotifies,
         WorkerFails
<1>2. CASE DriverStep
  BY <1>2 DEF DriverStep, StepBegins, Command, StepThrows, AllAnswered, WaitThrows, DriverEnds
<1>3. CASE AskToStop \/ StopStep \/ UNCHANGED vars
  BY <1>3 DEF AskToStop, StopStep, StopBegins, UnblockWorker, JoinWorker, StopKernelComponent,
         JoinKernelComponent, StopWorker, vars
<1> QED
  BY <1>1, <1>2, <1>3 DEF Next

(* The types need the invariant above in one place only: the length of a step that begins. *)
LEMMA TypesStay ==
    ASSUME Whole, [Next]_vars
    PROVE  TypeOK' /\ UnblocksStopped'
<1> USE DEF promises, command, work, drive, stop
<1>0. TypeOK /\ UnblocksStopped
  BY DEF Whole
<1>1. ASSUME NEW w \in Workers, WorkerStep(w) \/ WorkerFails(w) PROVE TypeOK' /\ UnblocksStopped'
  <2>1. CASE WorkerEnters(w)
    BY <1>0, <2>1 DEF WorkerEnters, TypeOK, UnblocksStopped
  <2>6. CASE WorkerFails(w)
    BY <1>0, <2>6 DEF WorkerFails, TypeOK, UnblocksStopped
  <2>4. CASE WorkerWakes(w)
    BY <1>0, <2>4 DEF WorkerWakes, TypeOK, UnblocksStopped
  <2>5. CASE WorkerNotifies(w)
    BY <1>0, <2>5 DEF WorkerNotifies, TypeOK, UnblocksStopped
  <2>2. CASE WorkerAdvances(w)
    BY <1>0, <2>2 DEF WorkerAdvances, TypeOK, UnblocksStopped
  <2>3. CASE WorkerCommits(w)
    <3>1. Period[w] \in Nat /\ Period[w] > 0 /\ time_[w] \in Nat
      BY <1>0, PeriodAssumption DEF PeriodAssumption, TypeOK
    <3>2. time_[w] % Period[w] \in Int
      BY <3>1
    <3> QED
      BY <1>0, <2>3, <3>1, <3>2 DEF WorkerCommits, TypeOK, UnblocksStopped
  <2> QED
    BY <1>1, <2>1, <2>2, <2>3, <2>4, <2>5, <2>6 DEF WorkerStep
<1>2. ASSUME NEW w \in Workers, Command(w) PROVE TypeOK' /\ UnblocksStopped'
  BY <1>0, <1>2 DEF Command, StepThrows, TypeOK, UnblocksStopped
<1>3. CASE StepBegins
  <2>1. delta' \in Nat
    <3>1. CASE throws = 0
      <4>1. \A v \in Workers : nextExecutionDeltaTime_[v] \in Nat
        BY <1>3, <3>1 DEF StepBegins, Whole, Inv, TypeOK, Times, StepsAreComplete, OverdueIsUpdated
      <4>2. NextDelta \in Nat
        BY <4>1, NextDeltaIsNatural
      <4> QED
        BY <1>3, <3>1, <4>2 DEF StepBegins
    <3>2. CASE throws # 0
      BY <1>0, <1>3, <3>2 DEF StepBegins, TypeOK
    <3> QED
      BY <3>1, <3>2
  <2> QED
    BY <1>0, <1>3, <2>1 DEF StepBegins, TypeOK, UnblocksStopped
<1>4. CASE AllAnswered \/ WaitThrows \/ DriverEnds
  <2>1. CASE AllAnswered
    BY <1>0, <2>1 DEF AllAnswered, TypeOK, UnblocksStopped
  <2>2. CASE WaitThrows
    BY <1>0, <2>2 DEF WaitThrows, StepThrows, TypeOK, UnblocksStopped
  <2>3. CASE DriverEnds
    BY <1>0, <2>3 DEF DriverEnds, TypeOK, UnblocksStopped
  <2> QED
    BY <1>4, <2>1, <2>2, <2>3
<1>5. ASSUME NEW w \in Workers, StopWorker(w) PROVE TypeOK' /\ UnblocksStopped'
  BY <1>0, <1>5 DEF StopWorker, TypeOK, UnblocksStopped
<1>6. CASE AskToStop \/ StopBegins \/ UnblockWorker \/ JoinWorker \/ StopKernelComponent
           \/ JoinKernelComponent
  <2>1. CASE AskToStop
    BY <1>0, <2>1 DEF AskToStop, TypeOK, UnblocksStopped
  <2>2. CASE StopBegins \/ JoinWorker
    BY <1>0, <2>2 DEF StopBegins, JoinWorker, TypeOK, UnblocksStopped
  <2>3. CASE UnblockWorker
    BY <1>0, <2>3 DEF UnblockWorker, TypeOK, UnblocksStopped
  <2>4. CASE StopKernelComponent \/ JoinKernelComponent
    BY <1>0, <2>4 DEF StopKernelComponent, JoinKernelComponent, TypeOK, UnblocksStopped
  <2> QED
    BY <1>6, <2>1, <2>2, <2>3, <2>4
<1>7. CASE UNCHANGED vars
  BY <1>0, <1>7 DEF vars, TypeOK, UnblocksStopped
<1> QED
  BY <1>1, <1>2, <1>3, <1>4, <1>5, <1>6, <1>7 DEF Next, DriverStep, StopStep

(* A command throws only where the stop has set the worker's promise: whoever was commanded in *)
(* the phase is no longer to be commanded, so nobody else has.                                 *)
LEMMA StopIsAskedStays ==
    ASSUME Whole, [Next]_vars
    PROVE  StopIsAsked'
<1> USE DEF promises, command, work, drive, stop
<1>0. TypeOK /\ StopIsAsked
  BY DEF Whole
<1>1. CASE \E w \in Workers : WorkerStep(w) \/ WorkerFails(w)
  BY <1>0, <1>1 DEF WorkerStep, WorkerEnters, WorkerWakes, WorkerAdvances, WorkerCommits,
         WorkerNotifies, WorkerFails, StopIsAsked
<1>2. ASSUME NEW w \in Workers, Command(w) PROVE StopIsAsked'
  <2>1. barrierForWorker_[w] => stopper # "idle"
    <3>1. CASE throws = 0
      BY <1>0, <1>2, <3>1 DEF Command, Whole, Inv, Commanded, Active, Pending, StopIsAsked
    <3>2. CASE throws # 0
      BY <1>0, <3>2 DEF StopIsAsked
    <3> QED
      BY <3>1, <3>2
  <2>2. stopper # "idle" => mode # "virtualTimeRunning"
    BY <1>0, <1>2 DEF Command, StopIsAsked
  <2>3. spoilt' => throws # 0
    <3>1. CASE throws = 0
      <4>1. w \notin futures \/ barrierForCaller_[w]
        BY <1>0, <1>2, <3>1 DEF Command, StopIsAsked
      <4> QED
        BY <1>0, <1>2, <4>1 DEF Command, StopIsAsked
    <3>2. CASE throws # 0
      BY <3>2
    <3> QED
      BY <3>1, <3>2
  <2>4. throws \in Nat /\ throws' \in {throws, throws + 1}
    BY <1>0, <1>2 DEF Command, StepThrows, TypeOK
  <2>5. throws' # 0 => throws # 0 \/ barrierForWorker_[w]
    BY <1>2 DEF Command, StepThrows
  <2>6. throws # 0 => throws' # 0
    BY <2>4
  <2> QED
    BY <1>0, <1>2, <2>1, <2>2, <2>3, <2>5, <2>6 DEF Command, StepThrows, StopIsAsked
<1>3. CASE StepBegins \/ AllAnswered \/ DriverEnds
  BY <1>0, <1>3 DEF StepBegins, AllAnswered, DriverEnds, StopIsAsked
<1>4. CASE WaitThrows
  <2>1. throws # 0 /\ throws' # 0
    BY <1>0, <1>4 DEF WaitThrows, StepThrows, StopIsAsked, TypeOK
  <2> QED
    BY <1>0, <1>4, <2>1 DEF WaitThrows, StepThrows, StopIsAsked
<1>5. ASSUME NEW w \in Workers, StopWorker(w) PROVE StopIsAsked'
  BY <1>0, <1>5 DEF StopWorker, StopIsAsked
<1>6. CASE AskToStop \/ StopBegins \/ UnblockWorker \/ JoinWorker \/ StopKernelComponent
           \/ JoinKernelComponent
  BY <1>0, <1>6 DEF AskToStop, StopBegins, UnblockWorker, JoinWorker, StopKernelComponent,
         JoinKernelComponent, StopIsAsked
<1>7. CASE UNCHANGED vars
  BY <1>0, <1>7 DEF vars, StopIsAsked
<1> QED
  BY <1>1, <1>2, <1>3, <1>4, <1>5, <1>6, <1>7 DEF Next, DriverStep, StopStep

(* The invariant holds throughout. *)
LEMMA Invariant == Spec => []Whole
<1>0. Init => Whole
  <2> SUFFICES ASSUME Init PROVE Whole
    OBVIOUS
  <2>1. Inv
    BY InitInv
  <2>2. StopIsAsked
    BY DEF Init, StopIsAsked
  <2> QED
    BY <2>1, <2>2 DEF Whole, Inv
<1>1. ASSUME Inv, UNCHANGED vars PROVE Inv'
  BY <1>1 DEF Inv, vars, promises, command, work, drive, stop, TypeOK, OneCommand,
         UnblocksStopped, Times, AdvanceTimes, CommitTimes, StepsAreComplete, OverdueIsUpdated,
         Commanded, Active, Busy, Pending
<1>2. ASSUME Whole, [Next]_vars PROVE Whole'
  <2>1. TypeOK' /\ UnblocksStopped' /\ StopIsAsked'
    BY <1>2, TypesStay, StopIsAskedStays
  <2>2. ASSUME throws' = 0 PROVE Inv'
    <3>1. throws \in Nat
      BY <1>2 DEF Whole, TypeOK
    <3>2. throws = 0 /\ ~WaitThrows
      BY <1>2, <2>2, <3>1, ThrowsStay DEF WaitThrows, StepThrows
    <3>3. Inv
      BY <1>2, <3>2 DEF Whole
    <3> QED
      BY <1>1, <1>2, <2>2, <3>2, <3>3, WorkerStepInv, CommandInv, DriverStepInv, StopStepInv
         DEF Next, DriverStep
  <2> QED
    BY <2>1, <2>2 DEF Whole
<1> QED
  BY <1>0, <1>2, PTL DEF Spec

(* Every variable of the stepped execution keeps its type; the length of a step is never *)
(* negative, although it is computed from distances that may be.                         *)
THEOREM StepTypes == Spec => []TypeOK
BY Invariant, PTL DEF Whole

(* A step throws in runMode virtualTime alone, and only after a stop was asked for: the         *)
(* statements below are about every behaviour of a kernel that drives its own time, and about   *)
(* every behaviour without a stop.                                                              *)
THEOREM OnlyAStopIntrudes ==
    Spec => [](throws # 0 => stopRequested_ /\ mode # "virtualTimeRunning")
<1>1. Whole => (throws # 0 => stopRequested_ /\ mode # "virtualTimeRunning")
  BY DEF Whole, StopIsAsked
<1> QED
  BY <1>1, Invariant, PTL

(* Whatever the components, their periods and the moment of a stop or a failure, no component *)
(* updates in advanceTimeDrainInputsAndUpdate while another commits in flushVirtualTime, up to *)
(* the first step that throws.                                                                *)
THEOREM UpdatesAndCommitsAreSeparate == Spec => []PhasesAreSeparate
<1>1. Whole => PhasesAreSeparate
  BY DEF Whole, Inv, PhasesAreSeparate, Commanded, OneCommand, Active, Busy
<1> QED
  BY <1>1, Invariant, PTL

(* Between two steps of the driver all components agree on the time, and each has committed *)
(* what it updated, as long as no step threw.                                               *)
THEOREM StepsLeaveNothing == Spec => []StepsAreComplete
<1>1. Whole => StepsAreComplete
  BY DEF Whole, Inv, Times, StepsAreComplete
<1> QED
  BY <1>1, Invariant, PTL

----------------------------------------------------------------------------
(* The count of cycles.  Before its first cycle a component stands at time 0 with nothing to   *)
(* wait for; from then on it has run one cycle per period, and the distance to the next one is *)
(* exact unless an update waits to be committed.                                               *)
Counted(w) ==
    IF cycles[w] = 0
      THEN time_[w] = 0 /\ nextExecutionDeltaTime_[w] = 0 /\ ~updated[w]
      ELSE /\ cycles[w] = (time_[w] \div Period[w]) + 1
           /\ updated[w] \/ nextExecutionDeltaTime_[w] = Period[w] - (time_[w] % Period[w])

(* A component about to advance has nothing uncommitted and goes no further than its own *)
(* distance rounded up.                                                                  *)
Ready(w) ==
    (pc[w] = "advance" \/ (Pending(w) /\ workerCommand_[w] = "advance")) =>
        /\ ~updated[w]
        /\ targetVirtualTime_[w] >= time_[w]
        /\ targetVirtualTime_[w] - time_[w]
             <= RoundUpToMilliseconds(nextExecutionDeltaTime_[w])

(* One that the driver has still to command would not go further either. *)
Expected(w) ==
    (driver = "advance" /\ w \in todo) =>
        ~updated[w] /\ delta <= RoundUpToMilliseconds(nextExecutionDeltaTime_[w])

(* The first step is everybody's: between two steps either all have run a cycle or none has. *)
FirstTogether ==
    /\ driver = "advance" =>
         \A w \in Workers :
            w \notin todo /\ (barrierForCaller_[w] \/ pc[w] = "notify") => cycles[w] # 0
    /\ driver = "commit" => \A w \in Workers : cycles[w] # 0
    /\ driver = "rest" => (\A w \in Workers : cycles[w] = 0) \/ (\A w \in Workers : cycles[w] # 0)

Counting == (\A w \in Workers : Counted(w) /\ Ready(w) /\ Expected(w)) /\ FirstTogether

(* It holds when the kernel starts running. *)
LEMMA InitCounting == Init => Counting
BY DEF Init, Counting, Counted, Ready, Expected, FirstTogether, Pending

(* One component's advance: the cycle runs exactly when the advance reaches it, and the advance *)
(* reaches one cycle at most because Grain is no more than the period.                          *)
LEMMA AdvanceCounts ==
    ASSUME Inv, NEW w \in Workers, Counted(w), Ready(w), WorkerAdvances(w)
    PROVE  Counted(w)' /\ cycles'[w] # 0
<1> DEFINE p == Period[w]
           t == time_[w]
           n == nextExecutionDeltaTime_[w]
           d == targetVirtualTime_[w] - time_[w]
           c == cycles[w]
<1>1. p \in Nat /\ p > 0 /\ p >= Grain /\ Grain \in Nat /\ Grain > 0
  BY PeriodAssumption DEF PeriodAssumption
<1>2. t \in Nat /\ n \in Int /\ c \in Nat /\ targetVirtualTime_[w] \in Nat
  BY DEF Inv, TypeOK
<1>3. ~updated[w] /\ d \in Nat /\ d <= RoundUpToMilliseconds(n) /\ targetVirtualTime_[w] = t + d
  BY <1>2 DEF Ready, WorkerAdvances
<1>4. /\ time_'[w] = t + d /\ nextExecutionDeltaTime_'[w] = n - d
      /\ n - d <= 0 => cycles'[w] = c + 1 /\ updated'[w]
      /\ ~(n - d <= 0) => cycles'[w] = c /\ ~updated'[w]
  BY <1>2, <1>3 DEF WorkerAdvances, Inv, TypeOK
<1>5. Counted(w)' <=>
        IF cycles'[w] = 0
          THEN time_'[w] = 0 /\ nextExecutionDeltaTime_'[w] = 0 /\ ~updated'[w]
          ELSE /\ cycles'[w] = (time_'[w] \div p) + 1
               /\ updated'[w] \/ nextExecutionDeltaTime_'[w] = p - (time_'[w] % p)
  BY DEF Counted
<1>6. CASE c = 0
  <2>1. t = 0 /\ n = 0
    BY <1>6 DEF Counted
  <2>2. d = 0
    BY <1>3, <2>1, RoundedIsNear
  <2>3. 0 \div p = 0
    BY <1>1
  <2> QED
    BY <1>4, <1>5, <1>6, <2>1, <2>2, <2>3
<1>7. CASE c # 0
  <2>1. c = (t \div p) + 1 /\ n = p - (t % p)
    BY <1>3, <1>7 DEF Counted
  <2>2. t % p \in 0..(p - 1) /\ t \div p \in Int
    BY <1>1, <1>2
  <2>3. n \in Nat /\ n > 0
    BY <1>1, <2>1, <2>2
  <2>4. RoundUpToMilliseconds(n) <= n + Grain - 1 /\ RoundUpToMilliseconds(n) \in Nat
    BY <2>3, RoundedIsNear, RoundedIsNatural
  <2>5. d < (p - (t % p)) + p
    BY <1>1, <1>3, <2>1, <2>2, <2>3, <2>4
  <2>6. /\ d < p - (t % p) => (t + d) \div p = t \div p /\ (t + d) % p = (t % p) + d
        /\ d >= p - (t % p) => (t + d) \div p = (t \div p) + 1
    BY <1>1, <1>2, <1>3, <2>5, OnePeriodAtMost
  <2> HIDE DEF p, t, n, d, c
  <2>7. CASE d < n
    <3>1. ~(n - d <= 0) /\ n - d = p - ((t + d) % p) /\ (t + d) \div p = t \div p
      BY <1>1, <1>3, <2>1, <2>2, <2>3, <2>6, <2>7
    <3>2. cycles'[w] = c /\ time_'[w] = t + d /\ nextExecutionDeltaTime_'[w] = n - d
      BY <1>4, <3>1
    <3> QED
      BY <1>5, <1>7, <2>1, <3>1, <3>2
  <2>8. CASE d >= n
    <3>1. n - d <= 0 /\ (t + d) \div p = (t \div p) + 1
      BY <1>1, <1>3, <2>1, <2>2, <2>3, <2>6, <2>8
    <3>2. cycles'[w] = c + 1 /\ time_'[w] = t + d /\ updated'[w]
      BY <1>4, <3>1
    <3>3. c + 1 # 0
      BY <1>2 DEF c
    <3> QED
      BY <1>5, <2>1, <3>1, <3>2, <3>3
  <2> QED
    BY <1>2, <1>3, <2>3, <2>7, <2>8 DEF d
<1> QED
  BY <1>6, <1>7

(* A step that leaves a component's work alone leaves its count alone. *)
LEMMA CountedFrame ==
    ASSUME NEW w \in Workers, Counted(w),
           cycles'[w] = cycles[w], time_'[w] = time_[w], updated'[w] = updated[w],
           nextExecutionDeltaTime_'[w] = nextExecutionDeltaTime_[w]
    PROVE  Counted(w)'
BY DEF Counted

(* A worker's steps. *)
LEMMA WorkerCounts ==
    ASSUME Inv, Counting, NEW w \in Workers, WorkerStep(w) \/ WorkerFails(w)
    PROVE  Counting'
<1> USE DEF promises, command, work, drive, stop
<1>0. /\ \A x \in Workers : Counted(x) /\ Ready(x) /\ Expected(x)
      /\ FirstTogether
  BY DEF Counting
<1>1. CASE WorkerEnters(w) \/ WorkerFails(w) \/ WorkerWakes(w)
  <2>1. UNCHANGED <<work, driver, todo, delta, command, barrierForCaller_, stopFlag_>>
    BY <1>1 DEF WorkerEnters, WorkerFails, WorkerWakes
  <2>2. ASSUME NEW x \in Workers PROVE Counted(x)' /\ Ready(x)' /\ Expected(x)'
    <3>1. Counted(x)'
      BY <1>0, <2>1, CountedFrame
    <3>2. Ready(x)'
      BY <1>0, <1>1, <2>1 DEF Ready, Pending, WorkerEnters, WorkerFails, WorkerWakes, Inv, TypeOK
    <3>3. Expected(x)'
      BY <1>0, <2>1 DEF Expected
    <3> QED
      BY <3>1, <3>2, <3>3
  <2>3. FirstTogether'
    <3>1. ASSUME NEW x \in Workers, pc'[x] = "notify" PROVE pc[x] = "notify"
      BY <1>1, <3>1 DEF WorkerEnters, WorkerFails, WorkerWakes, Inv, TypeOK
    <3> QED
      BY <1>0, <2>1, <3>1 DEF FirstTogether
  <2> QED
    BY <2>2, <2>3 DEF Counting
<1>2. CASE WorkerAdvances(w)
  <2>1. Counted(w)' /\ cycles'[w] # 0
    BY <1>0, <1>2, AdvanceCounts
  <2>2. /\ UNCHANGED <<driver, todo, delta, command, promises, stopFlag_>>
        /\ \A x \in Workers \ {w} :
             /\ cycles'[x] = cycles[x] /\ time_'[x] = time_[x] /\ updated'[x] = updated[x]
             /\ nextExecutionDeltaTime_'[x] = nextExecutionDeltaTime_[x] /\ pc'[x] = pc[x]
        /\ pc[w] = "advance" /\ pc'[w] = "notify"
    BY <1>2 DEF WorkerAdvances, Inv, TypeOK
  <2>3. driver # "rest" /\ driver # "commit" /\ ~Pending(w) /\ (driver = "advance" => w \notin todo)
    BY <2>2 DEF Inv, Commanded, Active, Busy
  <2>4. ASSUME NEW x \in Workers \ {w} PROVE Counted(x)' /\ Ready(x)' /\ Expected(x)'
    <3>1. Counted(x)'
      BY <1>0, <2>2, CountedFrame
    <3>2. Ready(x)' /\ Expected(x)'
      BY <1>0, <2>2 DEF Ready, Expected, Pending
    <3> QED
      BY <3>1, <3>2
  <2>5. Ready(w)' /\ Expected(w)'
    BY <2>2, <2>3 DEF Ready, Expected, Pending
  <2>6. FirstTogether'
    BY <1>0, <2>1, <2>2, <2>3 DEF FirstTogether
  <2> QED
    BY <2>1, <2>4, <2>5, <2>6 DEF Counting
<1>3. CASE WorkerCommits(w)
  <2>1. /\ UNCHANGED <<cycles, time_, driver, todo, delta, command, promises, stopFlag_>>
        /\ \A x \in Workers \ {w} :
             /\ updated'[x] = updated[x] /\ pc'[x] = pc[x]
             /\ nextExecutionDeltaTime_'[x] = nextExecutionDeltaTime_[x]
        /\ pc[w] = "commit" /\ pc'[w] = "notify" /\ ~updated'[w]
        /\ updated[w] => nextExecutionDeltaTime_'[w] = Period[w] - (time_[w] % Period[w])
        /\ ~updated[w] => nextExecutionDeltaTime_'[w] = nextExecutionDeltaTime_[w]
    BY <1>3 DEF WorkerCommits, Inv, TypeOK
  <2>2. driver # "rest" /\ driver # "advance" /\ ~Pending(w)
    BY <2>1 DEF Inv, Commanded, Active, Busy
  <2>3. ASSUME NEW x \in Workers \ {w} PROVE Counted(x)' /\ Ready(x)' /\ Expected(x)'
    <3>1. Counted(x)'
      BY <1>0, <2>1, CountedFrame
    <3>2. Ready(x)' /\ Expected(x)'
      BY <1>0, <2>1 DEF Ready, Expected, Pending
    <3> QED
      BY <3>1, <3>2
  <2>4. Counted(w)'
    BY <1>0, <2>1 DEF Counted
  <2>5. Ready(w)' /\ Expected(w)'
    BY <2>1, <2>2 DEF Ready, Expected, Pending
  <2>6. FirstTogether'
    BY <1>0, <2>1, <2>2 DEF FirstTogether
  <2> QED
    BY <2>3, <2>4, <2>5, <2>6 DEF Counting
<1>4. CASE WorkerNotifies(w)
  <2>1. /\ UNCHANGED <<work, driver, todo, delta, command, barrierForWorker_, stopFlag_>>
        /\ \A x \in Workers \ {w} :
             pc'[x] = pc[x] /\ barrierForCaller_'[x] = barrierForCaller_[x]
        /\ pc[w] = "notify" /\ pc'[w] = "wait"
    BY <1>4 DEF WorkerNotifies, Inv, TypeOK
  <2>2. ASSUME NEW x \in Workers PROVE Counted(x)' /\ Ready(x)' /\ Expected(x)'
    <3>1. Counted(x)'
      BY <1>0, <2>1, CountedFrame
    <3>2. Ready(x)' /\ Expected(x)'
      BY <1>0, <2>1 DEF Ready, Expected, Pending
    <3> QED
      BY <3>1, <3>2
  <2>3. FirstTogether'
    BY <1>0, <2>1 DEF FirstTogether
  <2> QED
    BY <2>2, <2>3 DEF Counting
<1> QED
  BY <1>1, <1>2, <1>3, <1>4 DEF WorkerStep

(* The driver's steps: the length of the step bounds every component's advance. *)
LEMMA DriverCounts ==
    ASSUME Inv, Counting, DriverStep, throws = 0, throws' = 0
    PROVE  Counting'
<1> USE DEF promises, command, work, drive, stop
<1>0. /\ \A x \in Workers : Counted(x) /\ Ready(x) /\ Expected(x)
      /\ FirstTogether
  BY DEF Counting
<1>1. CASE StepBegins
  <2>1. /\ UNCHANGED <<work, pc, command, promises, stopFlag_>>
        /\ driver = "rest" /\ driver' = "advance" /\ todo' = Workers /\ delta' = NextDelta
    BY <1>1 DEF StepBegins
  <2>2. \A v \in Workers : nextExecutionDeltaTime_[v] \in Nat /\ ~updated[v]
    BY <2>1 DEF Inv, TypeOK, Times, StepsAreComplete, OverdueIsUpdated
  <2>3. ASSUME NEW x \in Workers PROVE Counted(x)' /\ Ready(x)' /\ Expected(x)'
    <3>1. Counted(x)'
      BY <1>0, <2>1, CountedFrame
    <3>2. Ready(x)'
      BY <1>0, <2>1 DEF Ready, Pending
    <3>3. NextDelta <= RoundUpToMilliseconds(nextExecutionDeltaTime_[x])
      BY <2>2, NextDeltaIsSmallest
    <3>4. Expected(x)'
      BY <2>1, <2>2, <3>3 DEF Expected
    <3> QED
      BY <3>1, <3>2, <3>4
  <2>4. FirstTogether'
    BY <2>1 DEF FirstTogether
  <2> QED
    BY <2>3, <2>4 DEF Counting
<1>2. ASSUME NEW w \in Workers, Command(w) PROVE Counting'
  <2>1. /\ UNCHANGED <<work, pc, stopFlag_, delta>>
        /\ driver \in {"advance", "commit"} /\ w \in todo /\ todo' = todo \ {w}
        /\ driver' = driver
        /\ workerCommand_'[w] = driver /\ barrierForCaller_'[w] = FALSE
        /\ driver = "advance" => targetVirtualTime_'[w] = time_[w] + delta
        /\ driver # "advance" => targetVirtualTime_' = targetVirtualTime_
        /\ \A x \in Workers \ {w} :
             /\ barrierForCaller_'[x] = barrierForCaller_[x]
             /\ barrierForWorker_'[x] = barrierForWorker_[x]
             /\ workerCommand_'[x] = workerCommand_[x]
             /\ targetVirtualTime_'[x] = targetVirtualTime_[x]
    BY <1>2 DEF Command, StepThrows, Inv, TypeOK
  <2>2. ~Busy(w) /\ ~Pending(w)
    BY <2>1 DEF Inv, Commanded, Active
  <2>3. ASSUME NEW x \in Workers PROVE Counted(x)' /\ Ready(x)' /\ Expected(x)'
    <3>1. Counted(x)'
      BY <1>0, <2>1, CountedFrame
    <3>2. CASE x # w
      BY <1>0, <2>1, <3>1, <3>2 DEF Ready, Expected, Pending
    <3>3. CASE x = w
      <4>1. Expected(w)'
        BY <2>1 DEF Expected
      <4>2. CASE driver = "commit"
        BY <2>1, <2>2, <3>1, <3>3, <4>1, <4>2 DEF Ready, Busy
      <4>3. CASE driver = "advance"
        <5>1. ~updated[w] /\ delta <= RoundUpToMilliseconds(nextExecutionDeltaTime_[w])
          BY <1>0, <2>1, <4>3 DEF Expected
        <5>2. time_[w] \in Nat /\ delta \in Nat
          BY DEF Inv, TypeOK
        <5>3. (time_[w] + delta) - time_[w] = delta /\ time_[w] + delta >= time_[w]
          BY <5>2
        <5>4. Ready(w)'
          BY <2>1, <4>3, <5>1, <5>3 DEF Ready
        <5> QED
          BY <3>1, <3>3, <4>1, <5>4
      <4> QED
        BY <2>1, <4>2, <4>3
    <3> QED
      BY <3>2, <3>3
  <2>4. FirstTogether'
    BY <1>0, <2>1, <2>2 DEF FirstTogether, Busy
  <2> QED
    BY <2>3, <2>4 DEF Counting
<1>3. CASE AllAnswered
  <2>1. /\ UNCHANGED <<work, pc, command, promises, stopFlag_, delta>>
        /\ driver \in {"advance", "commit"} /\ todo = {}
        /\ \A x \in Workers : barrierForCaller_[x]
        /\ driver = "advance" => driver' = "commit"
        /\ driver = "commit" => driver' = "rest"
    BY <1>3 DEF AllAnswered, EveryAnswer
  <2>2. \A x \in Workers : cycles[x] # 0
    BY <1>0, <2>1 DEF FirstTogether
  <2>3. ASSUME NEW x \in Workers PROVE Counted(x)' /\ Ready(x)' /\ Expected(x)'
    <3>1. Counted(x)'
      BY <1>0, <2>1, CountedFrame
    <3>2. Ready(x)' /\ Expected(x)'
      BY <1>0, <2>1 DEF Ready, Expected, Pending
    <3> QED
      BY <3>1, <3>2
  <2>4. FirstTogether'
    BY <2>1, <2>2 DEF FirstTogether
  <2> QED
    BY <2>3, <2>4 DEF Counting
<1>4. CASE DriverEnds
  <2>1. UNCHANGED <<work, pc, command, promises, stopFlag_, delta, todo>> /\ driver' = "gone"
    BY <1>4 DEF DriverEnds
  <2>2. ASSUME NEW x \in Workers PROVE Counted(x)' /\ Ready(x)' /\ Expected(x)'
    <3>1. Counted(x)'
      BY <1>0, <2>1, CountedFrame
    <3>2. Ready(x)' /\ Expected(x)'
      BY <1>0, <2>1 DEF Ready, Expected, Pending
    <3> QED
      BY <3>1, <3>2
  <2> QED
    BY <2>1, <2>2 DEF Counting, FirstTogether
<1>5. ~WaitThrows
  BY DEF WaitThrows, StepThrows
<1> QED
  BY <1>1, <1>2, <1>3, <1>4, <1>5 DEF DriverStep

(* The stop wakes only workers that will see their stop flag, so it makes nobody advance. *)
LEMMA StopCounts ==
    ASSUME Inv, Counting, AskToStop \/ StopStep \/ UNCHANGED vars
    PROVE  Counting'
<1> USE DEF promises, command, work, drive, stop
<1>0. /\ \A x \in Workers : Counted(x) /\ Ready(x) /\ Expected(x)
      /\ FirstTogether
  BY DEF Counting
<1>1. UNCHANGED <<work, pc, command, driver, todo, delta, barrierForCaller_>>
  BY DEF AskToStop, StopStep, StopBegins, UnblockWorker, JoinWorker, StopKernelComponent,
         JoinKernelComponent, StopWorker, vars
<1>2. ASSUME NEW x \in Workers, Pending(x)' PROVE Pending(x)
  <2>1. CASE UnblockWorker
    BY <1>2, <2>1 DEF UnblockWorker, Pending, Inv, TypeOK, UnblocksStopped
  <2>2. ASSUME NEW w \in Workers, StopWorker(w) PROVE Pending(x)
    BY <1>2, <2>2 DEF StopWorker, Pending, Inv, TypeOK
  <2>3. CASE UNCHANGED <<barrierForWorker_, stopFlag_>>
    BY <1>2, <2>3 DEF Pending
  <2> QED
    BY <2>1, <2>2, <2>3 DEF AskToStop, StopStep, StopBegins, JoinWorker, StopKernelComponent,
         JoinKernelComponent, vars
<1>3. ASSUME NEW x \in Workers PROVE Counted(x)' /\ Ready(x)' /\ Expected(x)'
  <2>1. Counted(x)'
    BY <1>0, <1>1, CountedFrame
  <2>2. Ready(x)' /\ Expected(x)'
    BY <1>0, <1>1, <1>2 DEF Ready, Expected
  <2> QED
    BY <2>1, <2>2
<1>4. FirstTogether'
  BY <1>0, <1>1 DEF FirstTogether
<1> QED
  BY <1>3, <1>4 DEF Counting

(* The advance of every component by the smallest rounded distance, whatever the periods, runs *)
(* each cycle of each component exactly once: rounding to milliseconds never carries a step of *)
(* advanceTimeDrainInputsAndUpdate past a whole period, as long as no period is shorter than a *)
(* millisecond and no step threw.                                                              *)
THEOREM NoCycleIsSkipped == Spec => []NoCycleSkipped
<1> DEFINE Counts == throws = 0 => Counting
<1>1. Init => Counts
  BY InitCounting
<1>2. ASSUME Whole, Counts, [Next]_vars PROVE Counts'
  <2> SUFFICES ASSUME throws' = 0 PROVE Counting'
    OBVIOUS
  <2>1. throws \in Nat
    BY <1>2 DEF Whole, TypeOK
  <2>2. throws = 0
    BY <1>2, <2>1, ThrowsStay
  <2>3. Inv /\ Counting
    BY <1>2, <2>2 DEF Whole
  <2> QED
    BY <1>2, <2>2, <2>3, WorkerCounts, DriverCounts, StopCounts DEF Next
<1>3. Whole /\ Counts => NoCycleSkipped
  <2> SUFFICES ASSUME Whole, Counts, throws = 0 PROVE NoCycleSkipped
    BY DEF NoCycleSkipped
  <2> QED
    BY DEF Counting, Counted, FirstTogether, NoCycleSkipped
<1> QED
  BY <1>1, <1>2, <1>3, Invariant, PTL DEF Spec

=============================================================================
