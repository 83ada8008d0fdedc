----------------------------- MODULE WorkQueue -----------------------------
(***************************************************************************)
(* The queue through which every other thread reaches a component          *)
(* (libs/core/src/obj/work_queue.cpp), with the thread that drains it and  *)
(* the stop that ends it (runner.cpp: doRun, signalThreadToStop,           *)
(* stopThread).                                                            *)
(*                                                                         *)
(* Any thread pushes; a push is several steps (is the queue enabled, is    *)
(* there room, drop something, enqueue).  The component's thread drains:   *)
(* it takes a bulk into a buffer and runs it, and a call it runs may drain *)
(* the queue again (KernelComponent's forAllClocks does) and may push.     *)
(*                                                                         *)
(* External: moodycamel::BlockingConcurrentQueue, as a first-in first-out  *)
(* queue per producer, of which a consumer takes any head, behind a        *)
(* semaphore that is signalled after the element is in place.  A bulk      *)
(* reserves its elements at the semaphore and then takes them one by one.  *)
(***************************************************************************)
EXTENDS Integers, Sequences, FiniteSets, FiniteSetsExt

CONSTANTS
    Producers,      \* the threads that push
    Component,      \* the one of them that drains
    MaxSize,        \* maxSize_, 0 for no bound
    BulkSize,       \* defaultBulkBufferSize
    MaxCalls,       \* bound: pushes of each producer
    MaxDepth        \* bound: drains inside one another

ASSUME QueueAssumption ==
    /\ Component \in Producers
    /\ IsFiniteSet(Producers)
    /\ MaxSize \in Nat
    /\ BulkSize \in Nat \ {0} /\ MaxCalls \in [Producers -> Nat] /\ MaxDepth \in Nat

\* the n-th push of a producer
Calls == UNION {{p} \X (1..MaxCalls[p]) : p \in Producers}

Stages == {"idle", "measure", "evict", "enqueue"}

VARIABLES
    dropOld_,       \* the queue's configured policy
    enabled_,
    queue_,         \* per producer
    available,      \* the semaphore's count, which size_approx() returns
    stage,          \* where a producer is in push
    pushed,         \* how many calls a producer has handed to push
    forced,         \* history: the calls pushed with force
    stack,          \* the drains in progress, the innermost last
    ran,            \* history: the calls run, in order, and how deep
    lost,           \* history: the calls refused, dropped, evicted or cleared
    straggling,     \* history: the calls being pushed when the stop disabled the queue
    enabledLate,    \* history: the thread enabled the queue after that
    thread,         \* of the component: "created", "running", "ended"
    stopper,        \* the stop: "none", "disabled", "stopping", "clearing", "done"
    remaining       \* of clear()

queueVars == <<dropOld_, enabled_, queue_, available>>
pushVars == <<stage, pushed, forced>>
drainVars == <<stack, ran>>
marks == <<straggling, enabledLate>>
stopVars == <<thread, stopper, remaining, marks>>
vars == <<queueVars, pushVars, drainVars, lost, stopVars>>

Init ==
    /\ dropOld_ \in BOOLEAN
    /\ enabled_ = FALSE
    /\ queue_ = [p \in Producers |-> <<>>]
    /\ available = 0
    /\ stage = [p \in Producers |-> "idle"]
    /\ pushed = [p \in Producers |-> 0]
    /\ forced = {}
    /\ stack = <<>>
    /\ ran = <<>>
    /\ lost = {}
    /\ straggling = {}
    /\ enabledLate = FALSE
    /\ thread = "created"
    /\ stopper = "none"
    /\ remaining = 0

Top == stack[Len(stack)]
Below == SubSeq(stack, 1, Len(stack) - 1)

\* the call a producer is pushing
InHand(p) == <<p, pushed[p]>>
Held == {InHand(p) : p \in {q \in Producers : stage[q] # "idle"}}

-----------------------------------------------------------------------------
(* push *)

\* the component's own thread pushes between drains and from the calls it runs
MayPush(p) ==
    p = Component => /\ thread = "running"
                     /\ (stack # <<>> => Top.phase = "inCall")

PushEnters(p, force) ==
    /\ stage[p] = "idle" /\ pushed[p] < MaxCalls[p] /\ MayPush(p)
    /\ pushed' = [pushed EXCEPT ![p] = @ + 1]
    /\ IF enabled_
       THEN /\ stage' = [stage EXCEPT ![p] = IF MaxSize = 0 \/ force THEN "enqueue" ELSE "measure"]
            /\ forced' = IF force THEN forced \cup {<<p, pushed[p] + 1>>} ELSE forced
            /\ UNCHANGED lost
       ELSE /\ lost' = lost \cup {<<p, pushed[p] + 1>>}
            /\ UNCHANGED <<stage, forced>>
    /\ UNCHANGED <<queueVars, drainVars, stopVars>>

\* mutant: the comparison lets one more in
HasRoomAndOne == available <= MaxSize

\* size_approx() < maxSize_
HasRoom == available < MaxSize

PushMeasures(p) ==
    /\ stage[p] = "measure"
    /\ IF HasRoom
       THEN /\ stage' = [stage EXCEPT ![p] = "enqueue"]
            /\ UNCHANGED lost
       ELSE /\ stage' = [stage EXCEPT ![p] = IF dropOld_ THEN "evict" ELSE "idle"]
            /\ lost' = IF dropOld_ THEN lost ELSE lost \cup {InHand(p)}
    /\ UNCHANGED <<queueVars, pushed, forced, drainVars, stopVars>>

\* try_dequeue by the producer; nothing happens if another took the last one
PushEvicts(p) ==
    /\ stage[p] = "evict"
    /\ stage' = [stage EXCEPT ![p] = "enqueue"]
    /\ IF available = 0
       THEN UNCHANGED <<queue_, available, lost>>
       ELSE \E q \in Producers :
              /\ queue_[q] # <<>>
              /\ queue_' = [queue_ EXCEPT ![q] = Tail(@)]
              /\ available' = available - 1
              /\ lost' = lost \cup {Head(queue_[q])}
    /\ UNCHANGED <<dropOld_, enabled_, pushed, forced, drainVars, stopVars>>

PushEnqueues(p) ==
    /\ stage[p] = "enqueue"
    /\ stage' = [stage EXCEPT ![p] = "idle"]
    /\ queue_' = [queue_ EXCEPT ![p] = Append(@, InHand(p))]
    /\ available' = available + 1
    /\ UNCHANGED <<dropOld_, enabled_, pushed, forced, drainVars, lost, stopVars>>

-----------------------------------------------------------------------------
(* executeAll, waitExecuteAll, waitExecuteOne: one frame per call *)

\* the thread is between two drains, or in a call that drains again
MayDrain ==
    /\ thread = "running"
    /\ stage[Component] = "idle"
    /\ (stack # <<>> => Top.phase = "inCall")
    /\ Len(stack) < MaxDepth

Frame(room) == [phase |-> "sized", room |-> room, reserved |-> 0, buffer |-> <<>>]

\* mutant: the default is forgotten, and the size is taken before the last push is counted
RoomForQueue == available - 1

\* executeAll sizes its buffer by the queue's size, but not below the default
RoomForAll == Max({available, BulkSize})

ExecuteAll ==
    /\ MayDrain
    /\ stack' = Append(stack, Frame(RoomForAll))
    /\ UNCHANGED <<queueVars, pushVars, ran, lost, stopVars>>

\* waitExecuteAll has room for the default, waitExecuteOne for one; both wait for an element, and a
\* wait that times out changes nothing
WaitExecute ==
    /\ MayDrain
    /\ available > 0
    /\ \E room \in {1, BulkSize} : stack' = Append(stack, Frame(room))
    /\ UNCHANGED <<queueVars, pushVars, ran, lost, stopVars>>

\* the bulk reserves what there is, up to its room
Reservable == Min({Top.room, available})

Reserve ==
    /\ stack # <<>> /\ Top.phase = "sized"
    /\ LET n == Reservable
       IN /\ available' = available - n
          /\ stack' = Append(Below, [Top EXCEPT !.phase = "running", !.room = 0, !.reserved = n])
    /\ UNCHANGED <<dropOld_, enabled_, queue_, pushVars, ran, lost, stopVars>>

\* and takes it, from any producer's queue
Take ==
    /\ stack # <<>> /\ Top.phase = "running" /\ Top.reserved > 0
    /\ \E q \in Producers :
         /\ queue_[q] # <<>>
         /\ queue_' = [queue_ EXCEPT ![q] = Tail(@)]
         /\ stack' = Append(Below, [Top EXCEPT !.reserved = @ - 1,
                                                !.buffer = Append(@, Head(queue_[q]))])
    /\ UNCHANGED <<dropOld_, enabled_, available, pushVars, ran, lost, stopVars>>

\* the bulk is complete, and there is a call to run or none is left
HasCall == stack # <<>> /\ Top.phase = "running" /\ Top.reserved = 0 /\ Top.buffer # <<>>
HasNoCall == stack # <<>> /\ Top.phase = "running" /\ Top.reserved = 0 /\ Top.buffer = <<>>

\* mutant: the bulk is run from its end
LastCall(buffer) ==
    [call |-> buffer[Len(buffer)], rest |-> SubSeq(buffer, 1, Len(buffer) - 1)]

\* the calls are run in the order they were taken
FirstCall(buffer) == [call |-> Head(buffer), rest |-> Tail(buffer)]

RunCall ==
    /\ HasCall
    /\ LET next == FirstCall(Top.buffer)
       IN /\ stack' = Append(Below, [Top EXCEPT !.phase = "inCall", !.buffer = next.rest])
          /\ ran' = Append(ran, [call |-> next.call, depth |-> Len(stack)])
    /\ UNCHANGED <<queueVars, pushVars, lost, stopVars>>

CallReturns ==
    /\ stack # <<>> /\ Top.phase = "inCall"
    /\ stage[Component] = "idle"
    /\ stack' = Append(Below, [Top EXCEPT !.phase = "running"])
    /\ UNCHANGED <<queueVars, pushVars, ran, lost, stopVars>>

\* mutant: the buffer is the queue's member, which the nested drain cleared
SharedBuffer(frames) == [i \in 1..Len(frames) |-> [frames[i] EXCEPT !.buffer = <<>>]]

\* the buffer is the drain's own: what the drains around it hold is left alone
OwnBuffer(frames) == frames

DrainReturns ==
    /\ HasNoCall
    /\ stack' = OwnBuffer(Below)
    /\ UNCHANGED <<queueVars, pushVars, ran, lost, stopVars>>

-----------------------------------------------------------------------------
(* The thread, and the stop of it *)

Enable ==
    /\ thread = "created"
    /\ thread' = "running"
    /\ enabled_' = TRUE
    /\ enabledLate' = (stopper # "none")
    /\ UNCHANGED <<dropOld_, queue_, available, pushVars, drainVars, lost, stopper, remaining,
                   straggling>>

Disable ==
    /\ stopper = "none"
    /\ stopper' = "disabled"
    /\ enabled_' = FALSE
    /\ straggling' = Held
    /\ UNCHANGED <<dropOld_, queue_, available, pushVars, drainVars, lost, thread, remaining,
                   enabledLate>>

SetStopFlag ==
    /\ stopper = "disabled"
    /\ stopper' = "stopping"
    /\ UNCHANGED <<queueVars, pushVars, drainVars, lost, thread, remaining, marks>>

\* the loop reads the flag between cycles
ThreadEnds ==
    /\ thread = "running" /\ stopper = "stopping"
    /\ stack = <<>> /\ stage[Component] = "idle"
    /\ thread' = "ended"
    /\ UNCHANGED <<queueVars, pushVars, drainVars, lost, stopper, remaining, marks>>

\* joinThread returned; clear() removes as many as there are now
ClearBegins ==
    /\ stopper = "stopping" /\ thread = "ended"
    /\ stopper' = "clearing"
    /\ remaining' = available
    /\ UNCHANGED <<queueVars, pushVars, drainVars, lost, thread, marks>>

ClearOne ==
    /\ stopper = "clearing" /\ remaining > 0 /\ available > 0
    /\ \E q \in Producers :
         /\ queue_[q] # <<>>
         /\ queue_' = [queue_ EXCEPT ![q] = Tail(@)]
         /\ lost' = lost \cup {Head(queue_[q])}
    /\ available' = available - 1
    /\ remaining' = remaining - 1
    /\ UNCHANGED <<dropOld_, enabled_, pushVars, drainVars, thread, stopper, marks>>

ClearEnds ==
    /\ stopper = "clearing" /\ (remaining = 0 \/ available = 0)
    /\ stopper' = "done"
    /\ UNCHANGED <<queueVars, pushVars, drainVars, lost, thread, remaining, marks>>

-----------------------------------------------------------------------------

Push(p) ==
    \/ \E force \in BOOLEAN : PushEnters(p, force)
    \/ PushMeasures(p) \/ PushEvicts(p) \/ PushEnqueues(p)

Drain == ExecuteAll \/ WaitExecute \/ Reserve \/ Take \/ RunCall \/ CallReturns \/ DrainReturns

Stop == Disable \/ SetStopFlag \/ ClearBegins \/ ClearOne \/ ClearEnds

Next ==
    \/ \E p \in Producers : Push(p)
    \/ Drain
    \/ Enable \/ ThreadEnds
    \/ Stop

Spec == Init /\ [][Next]_vars

\* A push that began ends; the thread starts, carries on with a drain and finds its way out of the
\* calls it runs, and drains in every cycle; a stop that began ends.  Nobody has to push, to drain
\* from within a call, or to ask for a stop.
Fairness ==
    /\ \A p \in Producers : WF_vars(PushMeasures(p) \/ PushEvicts(p) \/ PushEnqueues(p))
    /\ WF_vars(Enable) /\ WF_vars(ThreadEnds)
    /\ WF_vars(Reserve \/ Take \/ RunCall \/ DrainReturns)
    /\ SF_vars(CallReturns)
    /\ WF_vars(stack = <<>> /\ ExecuteAll)
    /\ WF_vars(SetStopFlag \/ ClearBegins \/ ClearOne \/ ClearEnds)

FairSpec == Spec /\ Fairness

-----------------------------------------------------------------------------

TypeOK ==
    /\ dropOld_ \in BOOLEAN
    /\ enabled_ \in BOOLEAN
    /\ queue_ \in [Producers -> Seq(Calls)]
    /\ available \in Nat
    /\ stage \in [Producers -> Stages]
    /\ pushed \in [Producers -> Nat]
    /\ \A p \in Producers : pushed[p] <= MaxCalls[p]
    /\ forced \subseteq Calls
    /\ stack \in Seq([phase : {"sized", "running", "inCall"}, room : Nat,
                      reserved : Nat, buffer : Seq(Calls)])
    /\ ran \in Seq([call : Calls, depth : Nat])
    /\ lost \subseteq Calls
    /\ straggling \subseteq Calls
    /\ enabledLate \in BOOLEAN
    /\ thread \in {"created", "running", "ended"}
    /\ stopper \in {"none", "disabled", "stopping", "clearing", "done"}
    /\ remaining \in Nat

Elements(s) == {s[i] : i \in 1..Len(s)}
Queued == UNION {Elements(queue_[p]) : p \in Producers}
Buffered == UNION {Elements(stack[i].buffer) : i \in 1..Len(stack)}
Executed == {ran[i].call : i \in 1..Len(ran)}

\* The bound holds up to the pushes that measured before the others enqueued, one per producer
\* (work_queue.cpp:83-96), and the calls that were pushed with force.
BoundRespected ==
    MaxSize > 0 =>
        available + Cardinality({p \in Producers : stage[p] = "enqueue"})
            <= MaxSize - 1 + Cardinality(Producers) + Cardinality(forced)

\* Two calls of one producer are run in the order they were pushed, except that a drain made by a
\* call overtakes what the drains around it still hold in their buffers (work_queue.cpp:108-110).
OrderKept ==
    \A i, j \in 1..Len(ran) :
        (i < j /\ ran[i].call[1] = ran[j].call[1] /\ ran[i].call[2] > ran[j].call[2])
            => ran[i].depth > ran[j].depth

\* After the stop no more calls wait in the queue than were being pushed when it was disabled
\* (work_queue.cpp:72, 138-148: the bounded clear() may take a late one and leave an early one),
\* unless the thread enabled it after that (runner.cpp:465, 577).
StopLeavesStragglers ==
    (stopper = "done" /\ ~enabledLate) => Cardinality(Queued) <= Cardinality(straggling)

\* The queue keeps its bound while it is in use and is empty, up to the stragglers, when the
\* component has stopped.
QueueIsSound == TypeOK /\ BoundRespected /\ StopLeavesStragglers

\* A call that was accepted is run or given up, whatever the calls before it do, unless the stop was
\* over before it got there (work_queue.cpp:106-136).
CallsAreSettled ==
    \A c \in Calls :
        (c \in Queued \cup Buffered) ~> (c \in Executed \cup lost \/ stopper = "done")

\* What the queue promises, by the place a call is in.
Ledger == INSTANCE CallLedger WITH
    ledger <- [c \in Calls |-> IF c \in Executed THEN "run"
                               ELSE IF c \in lost THEN "lost"
                               ELSE IF c \in Queued \cup Buffered THEN "accepted"
                               ELSE "new"]

LedgerKept == Ledger!Spec
=============================================================================
