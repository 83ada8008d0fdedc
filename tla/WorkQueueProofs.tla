-------------------------- MODULE WorkQueueProofs --------------------------
(***************************************************************************)
(* Proofs about WorkQueue for any number of producers, any bound and any   *)
(* depth of drains: the bound of the queue, what a stop leaves, the order  *)
(* of the calls of a producer, and that the queue implements CallLedger.   *)
(***************************************************************************)
EXTENDS WorkQueue, TLAPS, FiniteSetTheorems, SequenceTheorems

(* Of two calls of one producer, c was pushed before d. *)
Before(c, d) == c[1] = d[1] => c[2] < d[2]

InOrder(s) == \A i, j \in 1..Len(s) : i < j => Before(s[i], s[j])

(* A producer's queue holds its own calls, in the order they were pushed. *)
QueuesInOrder ==
    \A p \in Producers : /\ InOrder(queue_[p])
                         /\ \A i \in 1..Len(queue_[p]) : queue_[p][i][1] = p

(* So does every buffer, and an inner drain's holds later ones than the drains around it. *)
BuffersInOrder ==
    /\ \A i \in 1..Len(stack) : InOrder(stack[i].buffer)
    /\ \A i, j \in 1..Len(stack) : i < j =>
         \A c \in Elements(stack[i].buffer), d \in Elements(stack[j].buffer) : Before(c, d)

(* What was taken was pushed before what is still queued. *)
QueuedAreLast == \A c \in Buffered \cup Executed, d \in Queued : Before(c, d)

(* A call that is still buffered is run later, and is overtaken only from within. *)
OvertakenFromWithin ==
    \A k \in 1..Len(ran), i \in 1..Len(stack) : \A c \in Elements(stack[i].buffer) :
        ran[k].call[1] = c[1] =>
            /\ ran[k].call[2] # c[2]
            /\ ran[k].call[2] > c[2] => i < ran[k].depth

(* Whatever has a place was pushed; what a producer has in hand has none yet. *)
Placed == Queued \cup Buffered \cup Executed \cup lost
PlacedWerePushed ==
    \A c \in Placed : /\ c[2] <= pushed[c[1]]
                      /\ stage[c[1]] # "idle" => c[2] < pushed[c[1]]
InHandWerePushed == \A p \in Producers : stage[p] # "idle" => pushed[p] > 0

LostAreGone == lost \cap (Queued \cup Buffered \cup Executed) = {}

OrderInv ==
    /\ QueuesInOrder /\ BuffersInOrder /\ QueuedAreLast /\ OvertakenFromWithin
    /\ PlacedWerePushed /\ InHandWerePushed /\ LostAreGone
    /\ OrderKept

(* Only the innermost drain is still taking. *)
OnlyTopTakes == \A i \in 1..Len(stack) :
    /\ i < Len(stack) => stack[i].reserved = 0
    /\ stack[i].phase # "running" => stack[i].reserved = 0

Reserved == IF stack = <<>> THEN 0 ELSE Top.reserved

(* The semaphore counts what is queued and not reserved. *)
SemaphoreCounts == IsFiniteSet(Queued) /\ Cardinality(Queued) = available + Reserved

ForcedWerePushed == IsFiniteSet(forced) /\ \A c \in forced : c[2] <= pushed[c[1]]

(* The stop waits for the thread; what arrives after it was being pushed when it began. *)
StopOrder ==
    /\ stopper = "none" => ~enabledLate /\ straggling = {}
    /\ stopper \in {"clearing", "done"} => thread = "ended"
    /\ thread # "running" => stack = <<>>
    /\ IsFiniteSet(straggling)
    /\ (stopper # "none" /\ ~enabledLate) => ~enabled_ /\ Held \subseteq straggling

ClearCatchesUp ==
    ~enabledLate =>
        /\ stopper = "clearing" =>
             Cardinality(Queued) + Cardinality(Held) <= remaining + Cardinality(straggling)
        /\ stopper = "done" => Cardinality(Queued) + Cardinality(Held) <= Cardinality(straggling)

CountInv ==
    /\ OnlyTopTakes /\ SemaphoreCounts /\ ForcedWerePushed /\ StopOrder /\ ClearCatchesUp
    /\ BoundRespected

----------------------------------------------------------------------------
(* Facts about sequences, queues and stacks *)

(* A call is a producer and the number of its push. *)
LEMMA CallParts ==
    ASSUME NEW c \in Calls
    PROVE  c[1] \in Producers /\ c[2] \in 1..MaxCalls[c[1]] /\ c[2] \in Nat /\ c = <<c[1], c[2]>>
BY QueueAssumption DEF Calls, QueueAssumption

(* The elements of a sequence without its first. *)
LEMMA TailElements ==
    ASSUME NEW S, NEW s \in Seq(S), s # <<>>
    PROVE  /\ Head(s) = s[1] /\ Head(s) \in S /\ Tail(s) \in Seq(S)
           /\ Elements(s) = {Head(s)} \cup Elements(Tail(s))
<1>1. /\ Tail(s) \in Seq(S) /\ Len(Tail(s)) = Len(s) - 1 /\ Len(s) \in Nat \ {0}
      /\ \A i \in 1..Len(Tail(s)) : Tail(s)[i] = s[i + 1]
      /\ Head(s) = s[1] /\ Head(s) \in S
  BY HeadTailProperties, EmptySeq, LenProperties
<1>2. ASSUME NEW x \in Elements(s) PROVE x = Head(s) \/ x \in Elements(Tail(s))
  <2>1. PICK i \in 1..Len(s) : x = s[i]
    BY <1>2 DEF Elements
  <2>2. CASE i = 1
    BY <1>1, <2>1, <2>2
  <2>3. CASE i > 1
    BY <1>1, <2>1, <2>3, SMTT(40) DEF Elements
  <2> QED
    BY <1>1, <2>1, <2>2, <2>3
<1>3. ASSUME NEW x \in Elements(Tail(s)) PROVE x \in Elements(s)
  BY <1>1, <1>3 DEF Elements
<1>4. Head(s) \in Elements(s)
  BY <1>1 DEF Elements
<1> QED
  BY <1>1, <1>2, <1>3, <1>4

(* The elements of a sequence with one more. *)
LEMMA AppendElements ==
    ASSUME NEW S, NEW s \in Seq(S), NEW e \in S
    PROVE  /\ Append(s, e) \in Seq(S)
           /\ Elements(Append(s, e)) = Elements(s) \cup {e}
<1>1. /\ Append(s, e) \in Seq(S) /\ Len(Append(s, e)) = Len(s) + 1 /\ Len(s) \in Nat
      /\ \A i \in 1..Len(s) : Append(s, e)[i] = s[i]
      /\ Append(s, e)[Len(s) + 1] = e
  BY AppendProperties, LenProperties
<1>2. ASSUME NEW x \in Elements(Append(s, e)) PROVE x = e \/ x \in Elements(s)
  BY <1>1, <1>2 DEF Elements
<1>3. ASSUME NEW x \in Elements(s) PROVE x \in Elements(Append(s, e))
  BY <1>1, <1>3 DEF Elements
<1>4. e \in Elements(Append(s, e))
  BY <1>1 DEF Elements
<1> QED
  BY <1>1, <1>2, <1>3, <1>4

(* Taking the first of a sequence in order leaves one in order, and all of it later. *)
LEMMA TailInOrder ==
    ASSUME NEW s \in Seq(Calls), s # <<>>, InOrder(s)
    PROVE  InOrder(Tail(s)) /\ \A d \in Elements(Tail(s)) : Before(Head(s), d)
<1>1. /\ Len(Tail(s)) = Len(s) - 1 /\ Len(s) \in Nat \ {0}
      /\ \A i \in 1..Len(Tail(s)) : Tail(s)[i] = s[i + 1]
      /\ Head(s) = s[1]
  BY HeadTailProperties, EmptySeq, LenProperties
<1>2. InOrder(Tail(s))
  <2> SUFFICES ASSUME NEW i \in 1..Len(Tail(s)), NEW j \in 1..Len(Tail(s)), i < j
               PROVE  Before(Tail(s)[i], Tail(s)[j])
    BY DEF InOrder
  <2>1. i + 1 \in 1..Len(s) /\ j + 1 \in 1..Len(s) /\ i + 1 < j + 1
    BY <1>1
  <2> QED
    BY <1>1, <2>1 DEF InOrder
<1>3. ASSUME NEW d \in Elements(Tail(s)) PROVE Before(Head(s), d)
  <2>1. PICK i \in 1..Len(Tail(s)) : d = s[i + 1]
    BY <1>1, <1>3 DEF Elements
  <2>2. 1 \in 1..Len(s) /\ i + 1 \in 1..Len(s) /\ 1 < i + 1
    BY <1>1
  <2> QED
    BY <1>1, <2>1, <2>2 DEF InOrder
<1> QED
  BY <1>2, <1>3

(* Appending a later call keeps the order. *)
LEMMA AppendInOrder ==
    ASSUME NEW s \in Seq(Calls), NEW e \in Calls, InOrder(s), \A c \in Elements(s) : Before(c, e)
    PROVE  InOrder(Append(s, e))
<1>1. /\ Len(Append(s, e)) = Len(s) + 1 /\ Len(s) \in Nat
      /\ \A i \in 1..Len(s) : Append(s, e)[i] = s[i]
      /\ Append(s, e)[Len(s) + 1] = e
  BY AppendProperties, LenProperties
<1>2. \A i \in 1..Len(s) : Before(s[i], e)
  BY DEF Elements
<1> QED
  BY <1>1, <1>2 DEF InOrder

Frames == [phase : {"sized", "running", "inCall"}, room : Nat, reserved : Nat, buffer : Seq(Calls)]

(* A call leaves the front of a producer's queue. *)
LEMMA Dequeued ==
    ASSUME TypeOK, QueuesInOrder, NEW q \in Producers, queue_[q] # <<>>,
           queue_' = [queue_ EXCEPT ![q] = Tail(@)]
    PROVE  /\ Head(queue_[q]) \in Queued /\ Head(queue_[q]) \in Calls
           /\ Queued' = Queued \ {Head(queue_[q])}
           /\ \A d \in Queued' : Before(Head(queue_[q]), d)
           /\ queue_' \in [Producers -> Seq(Calls)]
           /\ QueuesInOrder'
<1> DEFINE h == Head(queue_[q])
<1>1. queue_ \in [Producers -> Seq(Calls)] /\ queue_[q] \in Seq(Calls) /\ InOrder(queue_[q])
  BY DEF TypeOK, QueuesInOrder
<1>2. /\ h = queue_[q][1] /\ h \in Calls /\ Tail(queue_[q]) \in Seq(Calls)
      /\ Elements(queue_[q]) = {h} \cup Elements(Tail(queue_[q]))
  BY <1>1, TailElements
<1>3. InOrder(Tail(queue_[q])) /\ \A d \in Elements(Tail(queue_[q])) : Before(h, d)
  BY <1>1, TailInOrder
<1>4. /\ queue_' \in [Producers -> Seq(Calls)] /\ queue_'[q] = Tail(queue_[q])
      /\ \A p \in Producers \ {q} : queue_'[p] = queue_[p]
  BY <1>1, <1>2
<1>5. \A p \in Producers : \A c \in Elements(queue_[p]) : c[1] = p
  BY DEF QueuesInOrder, Elements
<1>6. \A p \in Producers : \A c \in Elements(queue_'[p]) : c[1] = p
  BY <1>2, <1>4, <1>5
<1>7. h[1] = q /\ \A p \in Producers \ {q} : \A c \in Elements(queue_[p]) : c # h /\ Before(h, c)
  BY <1>2, <1>5 DEF Before
<1>8. h \notin Elements(Tail(queue_[q]))
  BY <1>2, <1>3, CallParts DEF Before
<1>9. Queued' = Queued \ {h} /\ h \in Queued
  <2>1. Queued' = UNION {Elements(queue_'[p]) : p \in Producers}
    BY DEF Queued, Elements
  <2>2. \A p \in Producers : Elements(queue_'[p]) = Elements(queue_[p]) \ {h}
    BY <1>2, <1>4, <1>7, <1>8
  <2> HIDE DEF h
  <2>3. \A c : c \in Queued <=> \E p \in Producers : c \in Elements(queue_[p])
    BY DEF Queued
  <2>4. \A c : c \in Queued' <=> \E p \in Producers : c \in Elements(queue_'[p])
    BY <2>1
  <2>5. h \in Queued
    BY <1>2, <2>3
  <2>6. \A c : c \in Queued' <=> c \in Queued /\ c # h
    BY <2>2, <2>3, <2>4
  <2> QED
    BY <2>5, <2>6
<1>10. \A d \in Queued' : Before(h, d)
  <2>1. \A p \in Producers : \A d \in Elements(queue_[p]) \ {h} : Before(h, d)
    BY <1>2, <1>3, <1>7
  <2> HIDE DEF h
  <2> QED
    BY <1>9, <2>1, ZenonT(60) DEF Queued
<1>11. QueuesInOrder'
  <2>1. \A p \in Producers : InOrder(queue_'[p])
    BY <1>3, <1>4 DEF QueuesInOrder
  <2>2. \A p \in Producers : \A i \in 1..Len(queue_'[p]) : queue_'[p][i][1] = p
    BY <1>6 DEF Elements
  <2> QED
    BY <2>1, <2>2 DEF QueuesInOrder, InOrder, Before
<1> QED
  BY <1>2, <1>4, <1>9, <1>10, <1>11

(* A call later than the others of its producer comes to the end of the producer's queue. *)
LEMMA Enqueued ==
    ASSUME TypeOK, QueuesInOrder, NEW p \in Producers, NEW e \in Calls, e[1] = p,
           \A c \in Queued : Before(c, e), queue_' = [queue_ EXCEPT ![p] = Append(@, e)]
    PROVE  /\ Queued' = Queued \cup {e}
           /\ queue_' \in [Producers -> Seq(Calls)]
           /\ QueuesInOrder'
<1>1. queue_ \in [Producers -> Seq(Calls)] /\ queue_[p] \in Seq(Calls) /\ InOrder(queue_[p])
  BY DEF TypeOK, QueuesInOrder
<1>2. \A c \in Elements(queue_[p]) : Before(c, e)
  BY DEF Queued
<1>3. /\ Append(queue_[p], e) \in Seq(Calls)
      /\ Elements(Append(queue_[p], e)) = Elements(queue_[p]) \cup {e}
      /\ InOrder(Append(queue_[p], e))
  BY <1>1, <1>2, AppendElements, AppendInOrder
<1>4. /\ queue_' \in [Producers -> Seq(Calls)] /\ queue_'[p] = Append(queue_[p], e)
      /\ \A q \in Producers \ {p} : queue_'[q] = queue_[q]
  BY <1>1, <1>3
<1>5. Queued' = UNION {Elements(queue_'[q]) : q \in Producers}
  BY DEF Queued, Elements
<1>6. Queued' = Queued \cup {e}
  BY <1>3, <1>4, <1>5 DEF Queued
<1>7. \A q \in Producers : \A c \in Elements(queue_'[q]) : c[1] = q
  <2>1. \A q \in Producers : \A c \in Elements(queue_[q]) : c[1] = q
    BY DEF QueuesInOrder, Elements
  <2> QED
    BY <1>3, <1>4, <2>1
<1>8. QueuesInOrder'
  <2>1. \A q \in Producers : InOrder(queue_'[q])
    BY <1>3, <1>4 DEF QueuesInOrder
  <2>2. \A q \in Producers : \A i \in 1..Len(queue_'[q]) : queue_'[q][i][1] = q
    BY <1>7 DEF Elements
  <2> QED
    BY <2>1, <2>2 DEF QueuesInOrder, InOrder, Before
<1> QED
  BY <1>4, <1>6, <1>8

----------------------------------------------------------------------------
(* The order of the calls, action by action *)

(* The places as quantified facts, before and after a step. *)
LEMMA Places ==
    /\ \A c : c \in Queued <=> \E p \in Producers : c \in Elements(queue_[p])
    /\ \A c : c \in Buffered <=> \E i \in 1..Len(stack) : c \in Elements(stack[i].buffer)
    /\ \A c : c \in Executed <=> \E i \in 1..Len(ran) : c = ran[i].call
BY DEF Queued, Buffered, Executed

(* The same after a step. *)
LEMMA PlacesAfter ==
    /\ \A c : c \in Queued' <=> \E p \in Producers : c \in Elements(queue_'[p])
    /\ \A c : c \in Buffered' <=> \E i \in 1..Len(stack') : c \in Elements(stack'[i].buffer)
    /\ \A c : c \in Executed' <=> \E i \in 1..Len(ran') : c = ran'[i].call
BY DEF Queued, Buffered, Executed, Elements

Runs == [call : Calls, depth : Nat]

(* The frames of the stack and the entries of the history are of their types. *)
LEMMA FramesAreTyped ==
    ASSUME TypeOK
    PROVE  /\ stack \in Seq(Frames) /\ Len(stack) \in Nat /\ (stack # <<>> => Len(stack) > 0)
           /\ \A i \in 1..Len(stack) : stack[i] \in Frames
           /\ stack # <<>> => Top \in Frames
           /\ ran \in Seq(Runs) /\ Len(ran) \in Nat /\ \A i \in 1..Len(ran) : ran[i] \in Runs
<1>1. stack \in Seq(Frames) /\ ran \in Seq(Runs)
  BY DEF TypeOK, Frames, Runs
<1>2. Len(stack) \in Nat /\ (stack # <<>> => Len(stack) > 0) /\ Len(ran) \in Nat
  BY <1>1, LenProperties, EmptySeq
<1> QED
  BY <1>1, <1>2, ElementOfSeq DEF Top

(* A call that has a place is a call. *)
LEMMA PlacedAreCalls == ASSUME TypeOK PROVE Placed \subseteq Calls
<1>1. ASSUME NEW s \in Seq(Calls), NEW c \in Elements(s) PROVE c \in Calls
  BY <1>1, ElementOfSeq DEF Elements
<1>2. Queued \subseteq Calls
  BY <1>1, Places DEF TypeOK
<1>3. Buffered \subseteq Calls
  <2>1. \A i \in 1..Len(stack) : stack[i].buffer \in Seq(Calls)
    BY FramesAreTyped DEF Frames
  <2> QED
    BY <1>1, <2>1, Places
<1>4. Executed \subseteq Calls
  <2>1. \A i \in 1..Len(ran) : ran[i].call \in Calls
    BY FramesAreTyped DEF Runs
  <2> QED
    BY <2>1, Places
<1> QED
  BY <1>2, <1>3, <1>4 DEF Placed, TypeOK

(* Steps that leave the drains alone. *)
LEMMA DrainsStay ==
    ASSUME OrderInv, UNCHANGED <<stack, ran>>
    PROVE  /\ Buffered' = Buffered /\ Executed' = Executed
           /\ BuffersInOrder' /\ OvertakenFromWithin' /\ OrderKept'
<1>1. Buffered' = Buffered /\ Executed' = Executed
  BY DEF Buffered, Executed, Elements
<1>2. BuffersInOrder'
  BY DEF OrderInv, BuffersInOrder, InOrder, Before, Elements
<1>3. OvertakenFromWithin'
  BY DEF OrderInv, OvertakenFromWithin, Elements
<1>4. OrderKept'
  BY DEF OrderInv, OrderKept
<1> QED
  BY <1>1, <1>2, <1>3, <1>4

(* Steps that leave the queues alone too. *)
LEMMA SequencesStay ==
    ASSUME OrderInv, UNCHANGED <<queue_, stack, ran>>
    PROVE  /\ Queued' = Queued /\ Buffered' = Buffered /\ Executed' = Executed
           /\ QueuesInOrder' /\ BuffersInOrder' /\ OvertakenFromWithin' /\ OrderKept'
           /\ QueuedAreLast'
<1>1. Queued' = Queued
  BY DEF Queued, Elements
<1>2. QueuesInOrder'
  BY DEF OrderInv, QueuesInOrder, InOrder, Before
<1>3. QueuedAreLast'
  BY <1>1, DrainsStay DEF OrderInv, QueuedAreLast, Before
<1> QED
  BY <1>1, <1>2, <1>3, DrainsStay

(* Steps that move no call. *)
LEMMA NothingMoves ==
    ASSUME OrderInv, UNCHANGED <<queue_, stack, ran, lost, pushed, stage>>
    PROVE  OrderInv'
<1>1. PlacedWerePushed' /\ InHandWerePushed' /\ LostAreGone'
  BY SequencesStay DEF OrderInv, PlacedWerePushed, InHandWerePushed, LostAreGone, Placed
<1> QED
  BY <1>1, SequencesStay DEF OrderInv

(* Steps that open, close or mark a drain: what is buffered stays. *)
LEMMA BuffersStay ==
    ASSUME OrderInv, UNCHANGED <<queue_, ran, lost, pushed, stage>>,
           \A i \in 1..Len(stack') : \/ stack'[i].buffer = <<>>
                                     \/ i \in 1..Len(stack) /\ stack'[i].buffer = stack[i].buffer,
           \A i \in 1..Len(stack) : \/ stack[i].buffer = <<>>
                                    \/ i \in 1..Len(stack') /\ stack'[i].buffer = stack[i].buffer
    PROVE  OrderInv' /\ Queued' = Queued /\ Buffered' = Buffered /\ Executed' = Executed
<1>1. Elements(<<>>) = {} /\ InOrder(<<>>)
  BY DEF Elements, InOrder
<1>2. Queued' = Queued /\ Executed' = Executed
  BY DEF Queued, Executed, Elements
<1>3. \A c : c \in Buffered' <=> c \in Buffered
  BY <1>1, Places, PlacesAfter
<1>4. Buffered' = Buffered
  BY <1>3
<1>5. BuffersInOrder'
  <2>1. \A i \in 1..Len(stack') : InOrder(stack'[i].buffer)
    BY <1>1 DEF OrderInv, BuffersInOrder
  <2>2. \A i, j \in 1..Len(stack') : i < j =>
          \A c \in Elements(stack'[i].buffer), d \in Elements(stack'[j].buffer) : Before(c, d)
    BY <1>1 DEF OrderInv, BuffersInOrder
  <2> QED
    BY <2>1, <2>2 DEF BuffersInOrder, InOrder, Before, Elements
<1>6. OvertakenFromWithin'
  <2>1. \A k \in 1..Len(ran), i \in 1..Len(stack') : \A c \in Elements(stack'[i].buffer) :
          ran[k].call[1] = c[1] =>
            ran[k].call[2] # c[2] /\ (ran[k].call[2] > c[2] => i < ran[k].depth)
    BY <1>1 DEF OrderInv, OvertakenFromWithin
  <2> QED
    BY <2>1 DEF OvertakenFromWithin, Elements
<1>7. QueuesInOrder' /\ OrderKept'
  BY DEF OrderInv, QueuesInOrder, OrderKept, InOrder, Before
<1>8. QueuedAreLast'
  BY <1>2, <1>4 DEF OrderInv, QueuedAreLast, Before
<1>9. PlacedWerePushed' /\ InHandWerePushed' /\ LostAreGone'
  BY <1>2, <1>4 DEF OrderInv, PlacedWerePushed, InHandWerePushed, LostAreGone, Placed
<1> QED
  BY <1>2, <1>4, <1>5, <1>6, <1>7, <1>8, <1>9 DEF OrderInv

(* A push that is refused at the door, or that goes on to measure or to enqueue. *)
LEMMA PushEntersOrder ==
    ASSUME TypeOK, OrderInv, NEW p \in Producers, NEW force \in BOOLEAN, PushEnters(p, force)
    PROVE  /\ OrderInv'
           /\ Queued' = Queued /\ Buffered' = Buffered /\ Executed' = Executed
           /\ \/ UNCHANGED lost
              \/ /\ lost' = lost \cup {<<p, pushed[p] + 1>>}
                 /\ <<p, pushed[p] + 1>> \in Calls \ Placed
<1> DEFINE new == <<p, pushed[p] + 1>>
<1>1. /\ UNCHANGED <<queue_, stack, ran>> /\ stage[p] = "idle" /\ pushed[p] < MaxCalls[p]
      /\ pushed' = [pushed EXCEPT ![p] = @ + 1]
      /\ \/ UNCHANGED lost /\ \E s \in Stages : stage' = [stage EXCEPT ![p] = s]
         \/ lost' = lost \cup {new} /\ UNCHANGED stage
  BY DEF PushEnters, queueVars, drainVars, Stages
<1>2. /\ pushed \in [Producers -> Nat] /\ stage \in [Producers -> Stages]
      /\ MaxCalls[p] \in Nat /\ pushed[p] \in Nat
  BY QueueAssumption DEF TypeOK, QueueAssumption
<1>3. new \in Calls
  BY <1>1, <1>2 DEF Calls
<1>4. Queued' = Queued /\ Buffered' = Buffered /\ Executed' = Executed
  BY <1>1, SequencesStay
<1>5. Placed \subseteq Calls
  BY PlacedAreCalls
<1>6. new \notin Placed
  BY <1>2 DEF OrderInv, PlacedWerePushed
<1>7. QueuesInOrder' /\ BuffersInOrder' /\ OvertakenFromWithin' /\ OrderKept' /\ QueuedAreLast'
  BY <1>1, SequencesStay
<1>9. PlacedWerePushed'
  <2>1. Placed' \subseteq Placed \cup {new}
    BY <1>1, <1>4 DEF Placed
  <2>2. \A q \in Producers : pushed'[q] = IF q = p THEN pushed[p] + 1 ELSE pushed[q]
    BY <1>1, <1>2
  <2>3. \A q \in Producers \ {p} : stage'[q] = stage[q]
    BY <1>1, <1>2
  <2>4. ASSUME NEW c \in Placed
        PROVE  c[2] <= pushed'[c[1]] /\ (stage'[c[1]] # "idle" => c[2] < pushed'[c[1]])
    <3>1. c[1] \in Producers /\ c[2] \in Nat /\ c[2] <= pushed[c[1]]
          /\ (stage[c[1]] # "idle" => c[2] < pushed[c[1]])
      BY <1>5, <2>4, CallParts DEF OrderInv, PlacedWerePushed
    <3> QED
      BY <1>2, <2>2, <2>3, <3>1
  <2>5. new \in Placed' => stage'[p] = "idle"
    BY <1>1, <1>4, <1>6 DEF Placed
  <2>6. pushed'[new[1]] = new[2]
    BY <2>2
  <2>7. ASSUME NEW c \in Placed'
        PROVE  c[2] <= pushed'[c[1]] /\ (stage'[c[1]] # "idle" => c[2] < pushed'[c[1]])
    BY <1>2, <2>1, <2>4, <2>5, <2>6, <2>7
  <2> QED
    BY <2>7 DEF PlacedWerePushed
<1>10. InHandWerePushed'
  BY <1>1, <1>2 DEF OrderInv, InHandWerePushed
<1>11. LostAreGone'
  BY <1>1, <1>4, <1>6 DEF OrderInv, LostAreGone, Placed
<1> QED
  BY <1>1, <1>3, <1>4, <1>6, <1>7, <1>9, <1>10, <1>11 DEF OrderInv

(* A push that finds no room is refused, or goes on to evict a call. *)
LEMMA PushMeasuresOrder ==
    ASSUME TypeOK, OrderInv, NEW p \in Producers, PushMeasures(p)
    PROVE  /\ OrderInv'
           /\ Queued' = Queued /\ Buffered' = Buffered /\ Executed' = Executed
           /\ UNCHANGED lost \/ (lost' = lost \cup {InHand(p)} /\ InHand(p) \in Calls \ Placed)
<1>1. /\ UNCHANGED <<queue_, stack, ran, pushed>> /\ stage[p] # "idle"
      /\ \/ UNCHANGED lost /\ \E s \in Stages : stage' = [stage EXCEPT ![p] = s]
         \/ lost' = lost \cup {InHand(p)} /\ stage' = [stage EXCEPT ![p] = "idle"]
  BY DEF PushMeasures, queueVars, drainVars, Stages
<1>2. /\ pushed \in [Producers -> Nat] /\ stage \in [Producers -> Stages]
      /\ MaxCalls[p] \in Nat /\ pushed[p] \in Nat /\ pushed[p] <= MaxCalls[p] /\ pushed[p] > 0
  BY <1>1, QueueAssumption DEF TypeOK, QueueAssumption, OrderInv, InHandWerePushed
<1>3. InHand(p) \in Calls /\ InHand(p)[1] = p /\ InHand(p)[2] = pushed[p]
  BY <1>2 DEF Calls, InHand
<1>4. Queued' = Queued /\ Buffered' = Buffered /\ Executed' = Executed
  BY <1>1, SequencesStay
<1>5. InHand(p) \notin Placed
  BY <1>1, <1>2, <1>3 DEF OrderInv, PlacedWerePushed
<1>6. QueuesInOrder' /\ BuffersInOrder' /\ OvertakenFromWithin' /\ OrderKept' /\ QueuedAreLast'
  BY <1>1, SequencesStay
<1>8. PlacedWerePushed'
  <2>1. Placed' \subseteq Placed \cup {InHand(p)}
    BY <1>1, <1>4 DEF Placed
  <2>2. \A q \in Producers : stage'[q] # "idle" => stage[q] # "idle"
    BY <1>1, <1>2
  <2>3. InHand(p) \in Placed' => stage'[p] = "idle"
    BY <1>1, <1>2, <1>4, <1>5 DEF Placed
  <2>4. ASSUME NEW c \in Placed'
        PROVE  c[2] <= pushed[c[1]] /\ (stage'[c[1]] # "idle" => c[2] < pushed[c[1]])
    <3>1. CASE c = InHand(p)
      BY <1>2, <1>3, <2>3, <2>4, <3>1
    <3>2. CASE c \in Placed
      BY <2>2, <3>2, PlacedAreCalls, CallParts DEF OrderInv, PlacedWerePushed
    <3> QED
      BY <2>1, <2>4, <3>1, <3>2
  <2> QED
    BY <1>1, <2>4 DEF PlacedWerePushed
<1>9. InHandWerePushed'
  BY <1>1, <1>2 DEF OrderInv, InHandWerePushed
<1>10. LostAreGone'
  BY <1>1, <1>4, <1>5 DEF OrderInv, LostAreGone, Placed
<1> QED
  BY <1>1, <1>3, <1>4, <1>5, <1>6, <1>8, <1>9, <1>10 DEF OrderInv

(* The head of a queue is in no other place. *)
LEMMA HeadIsOnlyQueued ==
    ASSUME TypeOK, OrderInv, NEW h \in Queued
    PROVE  h \in Calls /\ h \notin Buffered \cup Executed \cup lost
<1>1. h \in Calls
  BY PlacedAreCalls DEF Placed
<1>2. ~Before(h, h)
  BY <1>1, CallParts DEF Before
<1> QED
  BY <1>1, <1>2 DEF OrderInv, QueuedAreLast, LostAreGone

(* A call is given up: evicted by a push, or removed by clear(). *)
LEMMA GivenUpOrder ==
    ASSUME TypeOK, OrderInv, NEW q \in Producers, queue_[q] # <<>>,
           queue_' = [queue_ EXCEPT ![q] = Tail(@)], lost' = lost \cup {Head(queue_[q])},
           UNCHANGED <<stack, ran, pushed>>,
           \A r \in Producers : stage'[r] # "idle" => stage[r] # "idle"
    PROVE  /\ OrderInv'
           /\ Queued' = Queued \ {Head(queue_[q])} /\ Buffered' = Buffered /\ Executed' = Executed
           /\ Head(queue_[q]) \in Queued \ (lost \cup Executed \cup Buffered)
           /\ Head(queue_[q]) \in Calls
<1> DEFINE h == Head(queue_[q])
<1>1. /\ h \in Queued /\ Queued' = Queued \ {h} /\ QueuesInOrder' /\ h \in Calls
  BY Dequeued DEF OrderInv
<1> HIDE DEF h
<1>2. h \notin Buffered \cup Executed \cup lost
  BY <1>1, HeadIsOnlyQueued
<1>3. Buffered' = Buffered /\ Executed' = Executed
  BY DrainsStay
<1>4. BuffersInOrder' /\ OvertakenFromWithin' /\ OrderKept'
  BY DrainsStay
<1>5. QueuedAreLast'
  BY <1>1, <1>3 DEF OrderInv, QueuedAreLast, Before
<1>6. lost' = lost \cup {h}
  BY DEF h
<1>7. Placed' = Placed
  BY <1>1, <1>3, <1>6 DEF Placed
<1>8. PlacedWerePushed'
  <2>1. \A c \in Placed : c[1] \in Producers
    BY PlacedAreCalls, CallParts
  <2> QED
    BY <1>7, <2>1 DEF OrderInv, PlacedWerePushed
<1>9. InHandWerePushed'
  BY DEF OrderInv, InHandWerePushed
<1>10. LostAreGone'
  BY <1>1, <1>2, <1>3, <1>6 DEF OrderInv, LostAreGone
<1> QED
  BY <1>1, <1>2, <1>3, <1>4, <1>5, <1>8, <1>9, <1>10 DEF OrderInv, h

(* A push enqueues what it has in hand. *)
LEMMA PushEnqueuesOrder ==
    ASSUME TypeOK, OrderInv, NEW p \in Producers, PushEnqueues(p)
    PROVE  /\ OrderInv'
           /\ Queued' = Queued \cup {InHand(p)} /\ Buffered' = Buffered /\ Executed' = Executed
           /\ InHand(p) \in Calls \ Placed
           /\ queue_' \in [Producers -> Seq(Calls)]
<1> DEFINE e == InHand(p)
<1>1. /\ UNCHANGED <<stack, ran, pushed, lost>> /\ stage[p] # "idle"
      /\ stage' = [stage EXCEPT ![p] = "idle"]
      /\ queue_' = [queue_ EXCEPT ![p] = Append(@, e)]
  BY DEF PushEnqueues, drainVars
<1>2. /\ pushed \in [Producers -> Nat] /\ stage \in [Producers -> Stages]
      /\ MaxCalls[p] \in Nat /\ pushed[p] \in Nat /\ pushed[p] <= MaxCalls[p] /\ pushed[p] > 0
  BY <1>1, QueueAssumption DEF TypeOK, QueueAssumption, OrderInv, InHandWerePushed
<1>3. e \in Calls /\ e[1] = p /\ e[2] = pushed[p]
  BY <1>2 DEF Calls, InHand
<1> HIDE DEF e
<1>4. e \notin Placed
  BY <1>1, <1>2, <1>3 DEF OrderInv, PlacedWerePushed
<1>5. \A c \in Placed : Before(c, e)
  BY <1>1, <1>3 DEF OrderInv, PlacedWerePushed, Before
<1>6. Queued' = Queued \cup {e} /\ QueuesInOrder' /\ queue_' \in [Producers -> Seq(Calls)]
  <2>1. \A c \in Queued : Before(c, e)
    BY <1>5 DEF Placed
  <2> QED
    BY <1>1, <1>3, <2>1, Enqueued DEF OrderInv
<1>7. Buffered' = Buffered /\ Executed' = Executed
  BY <1>1, DrainsStay
<1>8. BuffersInOrder' /\ OvertakenFromWithin' /\ OrderKept'
  BY <1>1, DrainsStay
<1>9. QueuedAreLast'
  <2>1. \A c \in Buffered \cup Executed, d \in Queued \cup {e} : Before(c, d)
    BY <1>5 DEF OrderInv, QueuedAreLast, Placed
  <2> QED
    BY <1>6, <1>7, <2>1 DEF QueuedAreLast, Before
<1>10. PlacedWerePushed'
  <2>1. Placed' = Placed \cup {e}
    BY <1>1, <1>6, <1>7 DEF Placed
  <2>2. \A q \in Producers : stage'[q] # "idle" => stage[q] # "idle" /\ q # p
    BY <1>1, <1>2
  <2>3. \A c \in Placed : c[1] \in Producers
    BY PlacedAreCalls, CallParts
  <2>4. \A c \in Placed \cup {e} :
          c[2] <= pushed[c[1]] /\ (stage'[c[1]] # "idle" => c[2] < pushed[c[1]])
    BY <1>2, <1>3, <2>2, <2>3 DEF OrderInv, PlacedWerePushed
  <2> QED
    BY <1>1, <2>1, <2>4 DEF PlacedWerePushed
<1>11. InHandWerePushed'
  BY <1>1, <1>2 DEF OrderInv, InHandWerePushed
<1>12. LostAreGone'
  BY <1>1, <1>4, <1>6, <1>7 DEF OrderInv, LostAreGone, Placed
<1> QED
  BY <1>3, <1>4, <1>6, <1>7, <1>8, <1>9, <1>10, <1>11, <1>12 DEF OrderInv, e

(* The drains around the innermost one. *)
LEMMA BelowProperties ==
    ASSUME TypeOK, stack # <<>>
    PROVE  /\ Below \in Seq(Frames) /\ Len(Below) = Len(stack) - 1 /\ Len(stack) - 1 \in Nat
           /\ \A i \in 1..Len(stack) - 1 : Below[i] = stack[i]
<1> DEFINE n == Len(stack) - 1
<1>1. stack \in Seq(Frames) /\ n \in Nat /\ \A i \in 1..n : stack[i] \in Frames
  BY FramesAreTyped
<1>2. /\ SubSeq(stack, 1, n) \in Seq(Frames)
      /\ Len(SubSeq(stack, 1, n)) = IF 1 <= n THEN n - 1 + 1 ELSE 0
      /\ \A i \in 1..n - 1 + 1 : SubSeq(stack, 1, n)[i] = stack[1 + i - 1]
  BY <1>1, SubSeqProperties
<1>3. Below = SubSeq(stack, 1, n)
  BY DEF Below
<1> HIDE DEF n
<1>4. Len(Below) = n /\ n - 1 + 1 = n
  BY <1>1, <1>2, <1>3
<1>5. ASSUME NEW i \in 1..n PROVE Below[i] = stack[i]
  <2>1. 1 + i - 1 = i
    OBVIOUS
  <2> QED
    BY <1>2, <1>3, <1>4, <2>1
<1> QED
  BY <1>1, <1>2, <1>3, <1>4, <1>5 DEF n

(* The innermost drain goes on. *)
LEMMA TopBecomes ==
    ASSUME TypeOK, stack # <<>>, NEW f \in Frames, stack' = Append(Below, f)
    PROVE  /\ stack' \in Seq(Frames) /\ stack' # <<>>
           /\ Len(stack) \in Nat \ {0} /\ Len(stack') = Len(stack) /\ stack'[Len(stack)] = f
           /\ \A i \in 1..Len(stack) : i # Len(stack) => stack'[i] = stack[i]
<1> DEFINE n == Len(stack) - 1
<1>1. stack \in Seq(Frames) /\ Len(stack) \in Nat \ {0}
  BY FramesAreTyped
<1>2. /\ Below \in Seq(Frames) /\ Len(Below) = n /\ n \in Nat
      /\ \A i \in 1..n : Below[i] = stack[i]
  BY <1>1, BelowProperties
<1>3. Len(stack) = n + 1
  BY <1>1
<1> HIDE DEF n
<1>4. /\ stack' \in Seq(Frames) /\ stack' # <<>> /\ Len(stack') = n + 1 /\ stack'[n + 1] = f
      /\ \A i \in 1..n : stack'[i] = Below[i]
  BY <1>2, AppendProperties
<1>5. \A i \in 1..n + 1 : i # n + 1 => i \in 1..n
  BY <1>2
<1> QED
  BY <1>1, <1>2, <1>3, <1>4, <1>5

(* A drain takes the head of a queue into its buffer. *)
LEMMA TakeOrder ==
    ASSUME TypeOK, OrderInv, Take
    PROVE  /\ OrderInv'
           /\ stack' \in Seq(Frames) /\ queue_' \in [Producers -> Seq(Calls)]
           /\ Executed' = Executed
           /\ \E h \in Queued : Queued' = Queued \ {h} /\ Buffered' = Buffered \cup {h}
<1>1. PICK q \in Producers :
        /\ queue_[q] # <<>>
        /\ queue_' = [queue_ EXCEPT ![q] = Tail(@)]
        /\ stack' = Append(Below, [Top EXCEPT !.reserved = @ - 1,
                                               !.buffer = Append(@, Head(queue_[q]))])
  BY DEF Take
<1>2. /\ UNCHANGED <<ran, pushed, stage, lost>>
      /\ stack # <<>> /\ Top.reserved > 0
  BY DEF Take, pushVars
<1> DEFINE h == Head(queue_[q])
           n == Len(stack)
           m == Top.reserved - 1
           b == Append(Top.buffer, h)
           f == [Top EXCEPT !.reserved = m, !.buffer = b]
<1>3. /\ stack \in Seq(Frames) /\ n \in Nat \ {0} /\ Top \in Frames /\ Top = stack[n]
      /\ \A i \in 1..n : stack[i] \in Frames
  BY <1>2, FramesAreTyped DEF Top
<1>4. /\ h \in Queued /\ Queued' = Queued \ {h} /\ QueuesInOrder' /\ h \in Calls
      /\ (\A d \in Queued' : Before(h, d)) /\ queue_' \in [Producers -> Seq(Calls)]
  BY <1>1, Dequeued DEF OrderInv
<1> HIDE DEF h
<1>5. h \notin Buffered \cup Executed \cup lost
  BY <1>4, HeadIsOnlyQueued
<1>6. Top.buffer \in Seq(Calls) /\ Top.reserved \in Nat
  BY <1>3 DEF Frames
<1>7. /\ Append(Top.buffer, h) \in Seq(Calls)
      /\ Elements(Append(Top.buffer, h)) = Elements(Top.buffer) \cup {h}
  BY <1>4, <1>6, AppendElements
<1>8. f \in Frames /\ f.buffer = Append(Top.buffer, h)
  <2>1. m \in Nat /\ b \in Seq(Calls)
    BY <1>2, <1>6, <1>7
  <2> HIDE DEF m, b
  <2>2. f \in Frames /\ f.buffer = b
    BY <1>3, <2>1 DEF Frames
  <2> QED
    BY <2>2 DEF b
<1>a. stack' = Append(Below, f)
  BY <1>1 DEF h
<1> HIDE DEF f
<1>9. /\ stack' \in Seq(Frames) /\ Len(stack') = n /\ stack'[n] = f
      /\ \A i \in 1..n : i # n => stack'[i] = stack[i]
  BY <1>2, <1>8, <1>a, TopBecomes
<1>11. Len(stack) = n /\ Len(stack') = n
  BY <1>9 DEF n
<1> HIDE DEF n
<1>10. /\ Elements(stack'[n].buffer) = Elements(stack[n].buffer) \cup {h}
       /\ \A i \in 1..n : i # n => stack'[i].buffer = stack[i].buffer
  BY <1>3, <1>7, <1>8, <1>9
<1>12. Buffered' = Buffered \cup {h}
  <2>1. \A c : c \in Buffered' <=> c \in Buffered \/ c = h
    BY <1>3, <1>10, <1>11, Places, PlacesAfter
  <2> QED
    BY <2>1
<1>13. Executed' = Executed
  BY <1>2 DEF Executed
<1>14. \A c \in Buffered \cup Executed : Before(c, h)
  BY <1>4 DEF OrderInv, QueuedAreLast
<1>15. BuffersInOrder'
  <2>1. \A i \in 1..n : \A c \in Elements(stack[i].buffer) : Before(c, h)
    BY <1>11, <1>14, Places
  <2>2. InOrder(stack'[n].buffer)
    <3>1. stack'[n].buffer = Append(Top.buffer, h)
      BY <1>8, <1>9
    <3>2. InOrder(Top.buffer) /\ \A c \in Elements(Top.buffer) : Before(c, h)
      BY <1>3, <1>11, <2>1 DEF OrderInv, BuffersInOrder
    <3> QED
      BY <1>4, <1>6, <3>1, <3>2, AppendInOrder
  <2>3. \A i \in 1..n : InOrder(stack'[i].buffer)
    BY <1>10, <1>11, <2>2 DEF OrderInv, BuffersInOrder
  <2>4. ASSUME NEW i \in 1..n, NEW j \in 1..n, i < j,
               NEW c \in Elements(stack'[i].buffer), NEW d \in Elements(stack'[j].buffer)
        PROVE  Before(c, d)
    <3>1. i # n /\ c \in Elements(stack[i].buffer)
      BY <1>3, <1>10, <2>4
    <3>2. CASE d = h
      BY <2>1, <3>1, <3>2
    <3>3. CASE d \in Elements(stack[j].buffer)
      BY <1>11, <2>4, <3>1, <3>3 DEF OrderInv, BuffersInOrder
    <3> QED
      BY <1>10, <2>4, <3>2, <3>3
  <2> QED
    BY <1>11, <2>3, <2>4 DEF BuffersInOrder, InOrder, Before, Elements
<1>16. QueuedAreLast'
  <2>1. \A c \in Buffered \cup {h} \cup Executed, d \in Queued \ {h} : Before(c, d)
    BY <1>4 DEF OrderInv, QueuedAreLast
  <2> QED
    BY <1>4, <1>12, <1>13, <2>1 DEF QueuedAreLast, Before
<1>17. OvertakenFromWithin'
  <2>1. ASSUME NEW k \in 1..Len(ran), NEW i \in 1..n, NEW c \in Elements(stack'[i].buffer),
               ran[k].call[1] = c[1]
        PROVE  ran[k].call[2] # c[2] /\ (ran[k].call[2] > c[2] => i < ran[k].depth)
    <3>1. CASE c \in Elements(stack[i].buffer)
      BY <1>11, <2>1, <3>1 DEF OrderInv, OvertakenFromWithin
    <3>2. CASE c = h
      <4>1. ran[k].call \in Executed /\ ran[k].call \in Calls
        BY PlacedAreCalls DEF Executed, Placed
      <4>2. ran[k].call[2] < h[2]
        BY <1>14, <2>1, <3>2, <4>1 DEF Before
      <4>3. ran[k].call[2] \in Nat /\ h[2] \in Nat
        BY <1>4, <4>1, CallParts
      <4> QED
        BY <3>2, <4>2, <4>3
    <3> QED
      BY <1>10, <2>1, <3>1, <3>2
  <2> QED
    BY <1>2, <1>11, <2>1 DEF OvertakenFromWithin, Elements
<1>18. Placed' = Placed
  BY <1>2, <1>4, <1>12, <1>13 DEF Placed
<1>19. PlacedWerePushed' /\ InHandWerePushed' /\ OrderKept'
  BY <1>2, <1>18 DEF OrderInv, PlacedWerePushed, InHandWerePushed, OrderKept
<1>20. LostAreGone'
  BY <1>2, <1>4, <1>5, <1>12, <1>13 DEF OrderInv, LostAreGone
<1> QED
  BY <1>4, <1>9, <1>12, <1>13, <1>15, <1>16, <1>17, <1>19, <1>20 DEF OrderInv

(* A drain runs the first call of its buffer. *)
LEMMA RunCallOrder ==
    ASSUME TypeOK, OrderInv, RunCall
    PROVE  /\ OrderInv'
           /\ stack' \in Seq(Frames) /\ ran' \in Seq(Runs)
           /\ Queued' = Queued /\ UNCHANGED lost
           /\ \E e \in Buffered : /\ Buffered' = Buffered \ {e} /\ Executed' = Executed \cup {e}
                                  /\ e \in Calls \ (Queued \cup Executed \cup lost)
<1> DEFINE e == Head(Top.buffer)
           b == Tail(Top.buffer)
           n == Len(stack)
           m == Len(ran) + 1
           f == [Top EXCEPT !.phase = "inCall", !.buffer = b]
           r == [call |-> e, depth |-> n]
<1>1. /\ UNCHANGED <<queue_, pushed, stage, lost>>
      /\ stack # <<>> /\ Top.buffer # <<>>
      /\ stack' = Append(Below, f) /\ ran' = Append(ran, r)
  BY DEF RunCall, HasCall, FirstCall, pushVars, queueVars
<1>2. /\ stack \in Seq(Frames) /\ n \in Nat \ {0} /\ Top \in Frames /\ Top = stack[n]
      /\ ran \in Seq(Runs) /\ m \in Nat \ {0} /\ Len(ran) \in Nat /\ \A i \in 1..Len(ran) : ran[i] \in Runs
  BY <1>1, FramesAreTyped DEF Top
<1>3. Top.buffer \in Seq(Calls) /\ InOrder(Top.buffer)
  BY <1>2 DEF Frames, OrderInv, BuffersInOrder
<1>4. /\ e \in Calls /\ b \in Seq(Calls) /\ Elements(Top.buffer) = {e} \cup Elements(b)
      /\ InOrder(b) /\ \A d \in Elements(b) : Before(e, d)
  BY <1>1, <1>3, TailElements, TailInOrder
<1> HIDE DEF b, e
<1>5. f \in Frames /\ f.buffer = b
  BY <1>2, <1>4 DEF Frames
<1>6. r \in Runs /\ r.call = e /\ r.depth = n
  BY <1>2, <1>4 DEF Runs
<1> HIDE DEF f, r
<1>7. /\ stack' \in Seq(Frames) /\ Len(stack') = n /\ stack'[n] = f
      /\ \A i \in 1..n : i # n => stack'[i] = stack[i]
  BY <1>1, <1>5, TopBecomes
<1>8. /\ ran' \in Seq(Runs) /\ Len(ran') = m /\ ran'[m] = r
      /\ \A i \in 1..Len(ran) : ran'[i] = ran[i]
  BY <1>1, <1>2, <1>6, AppendProperties
<1>9. /\ \A i \in 1..m : i # m => i \in 1..Len(ran)
      /\ \A i \in 1..Len(ran) : i \in 1..m /\ i # m
  BY <1>2
<1>10. Len(stack) = n /\ Len(stack') = n /\ Len(ran') = m
  BY <1>7, <1>8
<1> HIDE DEF n, m
<1>11. /\ stack'[n].buffer = b /\ stack[n].buffer = Top.buffer
       /\ \A i \in 1..n : i # n => stack'[i].buffer = stack[i].buffer
  BY <1>2, <1>5, <1>7
<1>12. /\ e \in Elements(stack[n].buffer) /\ e \notin Elements(b)
       /\ Elements(stack[n].buffer) = {e} \cup Elements(b)
  BY <1>2, <1>4, <1>11, CallParts DEF Before
<1>13. \A i \in 1..n : i # n => \A c \in Elements(stack[i].buffer) : Before(c, e)
  <2>1. \A i \in 1..n : i # n => i < n
    BY <1>2
  <2>2. n \in 1..n
    BY <1>2
  <2> QED
    BY <1>10, <1>12, <2>1, <2>2 DEF OrderInv, BuffersInOrder
<1>14. \A i \in 1..n : i # n => e \notin Elements(stack[i].buffer)
  BY <1>4, <1>13, CallParts DEF Before
<1>15. Buffered' = Buffered \ {e} /\ e \in Buffered
  <2>1. n \in 1..n
    BY <1>2
  <2>2. \A c : c \in Buffered' <=> c \in Buffered /\ c # e
    BY <1>10, <1>11, <1>12, <1>14, <2>1, Places, PlacesAfter
  <2>3. e \in Buffered
    BY <1>10, <1>12, <2>1, Places
  <2> QED
    BY <2>2, <2>3
<1>16. Executed' = Executed \cup {e}
  <2>1. m \in 1..m
    BY <1>2
  <2>2. \A i \in 1..Len(ran) : ran'[i].call = ran[i].call
    BY <1>8
  <2>3. \A c : c \in Executed' <=> c \in Executed \/ c = e
    BY <1>6, <1>8, <1>9, <1>10, <2>1, <2>2, Places, PlacesAfter
  <2> QED
    BY <2>3
<1>17. e \notin Executed /\ e \notin lost /\ e \notin Queued
  <2>1. \A k \in 1..Len(ran) : ran[k].call # e
    <3>1. n \in 1..n
      BY <1>2
    <3> QED
      BY <1>10, <1>12, <3>1 DEF OrderInv, OvertakenFromWithin
  <2>2. e \notin Executed
    BY <2>1, Places
  <2>3. e \notin lost
    BY <1>15 DEF OrderInv, LostAreGone
  <2> QED
    BY <1>15, <2>2, <2>3, HeadIsOnlyQueued
<1>18. Queued' = Queued /\ QueuesInOrder'
  BY <1>1 DEF OrderInv, QueuesInOrder, InOrder, Before, Queued, Elements
<1>19. BuffersInOrder'
  <2>1. \A i \in 1..n : InOrder(stack'[i].buffer)
    BY <1>4, <1>10, <1>11 DEF OrderInv, BuffersInOrder
  <2>2. \A i \in 1..n : Elements(stack'[i].buffer) \subseteq Elements(stack[i].buffer)
    BY <1>11, <1>12
  <2>3. ASSUME NEW i \in 1..n, NEW j \in 1..n, i < j,
               NEW c \in Elements(stack'[i].buffer), NEW d \in Elements(stack'[j].buffer)
        PROVE  Before(c, d)
    BY <1>10, <2>2, <2>3 DEF OrderInv, BuffersInOrder
  <2> QED
    BY <1>10, <2>1, <2>3 DEF BuffersInOrder, InOrder, Before, Elements
<1>20. QueuedAreLast'
  <2>1. Buffered' \cup Executed' = Buffered \cup Executed
    BY <1>15, <1>16
  <2> QED
    BY <1>18, <2>1 DEF OrderInv, QueuedAreLast, Before
<1>21. OvertakenFromWithin'
  <2>1. ASSUME NEW k \in 1..m, NEW i \in 1..n, NEW c \in Elements(stack'[i].buffer),
               ran'[k].call[1] = c[1]
        PROVE  ran'[k].call[2] # c[2] /\ (ran'[k].call[2] > c[2] => i < ran'[k].depth)
    <3>1. CASE k # m
      <4>1. c \in Elements(stack[i].buffer)
        BY <1>11, <1>12, <2>1
      <4> QED
        BY <1>8, <1>9, <1>10, <2>1, <3>1, <4>1 DEF OrderInv, OvertakenFromWithin
    <3>2. CASE k = m
      <4>1. ran'[k].call = e /\ ran'[k].depth = n
        BY <1>6, <1>8, <3>2
      <4>2. c \in Calls
        <5>1. c \in Buffered
          BY <1>10, <1>11, <1>12, <2>1, Places
        <5> QED
          BY <5>1, PlacedAreCalls DEF Placed
      <4>3. c[2] \in Nat /\ e[2] \in Nat
        BY <1>4, <4>2, CallParts
      <4>4. CASE i = n
        <5>1. e[2] < c[2]
          BY <1>4, <1>11, <2>1, <4>1, <4>4 DEF Before
        <5> QED
          BY <4>1, <4>3, <5>1
      <4>5. CASE i # n
        <5>1. c[2] < e[2]
          BY <1>11, <1>13, <2>1, <4>1, <4>5 DEF Before
        <5>2. i < n
          BY <1>2, <4>5
        <5> QED
          BY <4>1, <4>3, <5>1, <5>2
      <4> QED
        BY <4>4, <4>5
    <3> QED
      BY <3>1, <3>2
  <2> QED
    BY <1>10, <2>1 DEF OvertakenFromWithin, Elements
<1>22. OrderKept'
  <2>1. ASSUME NEW i \in 1..m, NEW j \in 1..m, i < j,
               ran'[i].call[1] = ran'[j].call[1], ran'[i].call[2] > ran'[j].call[2]
        PROVE  ran'[i].depth > ran'[j].depth
    <3>1. i # m
      BY <1>2, <2>1
    <3>2. CASE j # m
      BY <1>8, <1>9, <2>1, <3>1, <3>2 DEF OrderInv, OrderKept
    <3>3. CASE j = m
      <4>1. ran'[i] = ran[i] /\ i \in 1..Len(ran) /\ ran'[j].call = e /\ ran'[j].depth = n
        BY <1>6, <1>8, <1>9, <3>1, <3>3
      <4>2. n \in 1..n
        BY <1>2
      <4>3. n < ran[i].depth
        BY <1>10, <1>12, <2>1, <4>1, <4>2 DEF OrderInv, OvertakenFromWithin
      <4>4. ran[i].depth \in Nat
        BY <1>2, <4>1 DEF Runs
      <4> QED
        BY <1>2, <4>1, <4>3, <4>4
    <3> QED
      BY <3>2, <3>3
  <2> QED
    BY <1>10, <2>1 DEF OrderKept
<1>23. Placed' = Placed
  BY <1>1, <1>15, <1>16, <1>18 DEF Placed
<1>24. PlacedWerePushed' /\ InHandWerePushed'
  BY <1>1, <1>23 DEF OrderInv, PlacedWerePushed, InHandWerePushed
<1>25. LostAreGone'
  BY <1>1, <1>15, <1>16, <1>18 DEF OrderInv, LostAreGone
<1> QED
  BY <1>1, <1>4, <1>7, <1>8, <1>15, <1>16, <1>17, <1>18, <1>19, <1>20, <1>21, <1>22, <1>24, <1>25
     DEF OrderInv

(* The greater and the smaller of two numbers. *)
LEMMA MaxMin ==
    ASSUME NEW a \in Nat, NEW b \in Nat
    PROVE  /\ Max({a, b}) \in Nat
           /\ Min({a, b}) \in Nat /\ Min({a, b}) <= a /\ Min({a, b}) <= b
<1>1. \E x \in {a, b} : \A y \in {a, b} : x >= y
  OBVIOUS
<1>2. Max({a, b}) \in {a, b}
  BY <1>1 DEF Max
<1>3. \E x \in {a, b} : \A y \in {a, b} : x <= y
  OBVIOUS
<1>4. Min({a, b}) \in {a, b} /\ \A y \in {a, b} : Min({a, b}) <= y
  BY <1>3 DEF Min
<1> QED
  BY <1>2, <1>4

(* A drain begins: executeAll, waitExecuteAll or waitExecuteOne. *)
LEMMA DrainBegins ==
    ASSUME TypeOK, OrderInv, ExecuteAll \/ WaitExecute
    PROVE  /\ OrderInv'
           /\ stack' \in Seq(Frames) /\ stack' # <<>> /\ Len(stack') = Len(stack) + 1
           /\ \A i \in 1..Len(stack) : stack'[i] = stack[i]
           /\ stack'[Len(stack) + 1].reserved = 0
           /\ Queued' = Queued /\ Buffered' = Buffered /\ Executed' = Executed
<1> DEFINE n == Len(stack)
<1>1. UNCHANGED <<queue_, ran, lost, pushed, stage>>
  BY DEF ExecuteAll, WaitExecute, queueVars, pushVars
<1>2. PICK room \in Nat : stack' = Append(stack, Frame(room))
  <2>1. RoomForAll \in Nat
    BY MaxMin, QueueAssumption DEF RoomForAll, TypeOK, QueueAssumption
  <2>2. \A room \in {1, BulkSize} : room \in Nat
    BY QueueAssumption DEF QueueAssumption
  <2> QED
    BY <2>1, <2>2 DEF ExecuteAll, WaitExecute
<1>3. Frame(room) \in Frames /\ Frame(room).buffer = <<>> /\ Frame(room).reserved = 0
  BY DEF Frame, Frames
<1>4. stack \in Seq(Frames) /\ n \in Nat
  BY FramesAreTyped
<1>5. /\ stack' \in Seq(Frames) /\ Len(stack') = n + 1 /\ stack'[n + 1] = Frame(room)
      /\ \A i \in 1..n : stack'[i] = stack[i]
  BY <1>2, <1>3, <1>4, AppendProperties
<1>6. stack' # <<>>
  BY <1>2, <1>3, <1>4, AppendProperties
<1>7. /\ \A i \in 1..n + 1 : stack'[i].buffer = <<>> \/ (i \in 1..n /\ stack'[i].buffer = stack[i].buffer)
      /\ \A i \in 1..n : i \in 1..n + 1 /\ stack'[i].buffer = stack[i].buffer
  BY <1>3, <1>4, <1>5
<1>8. Len(stack) = n /\ Len(stack') = n + 1
  BY <1>5
<1> HIDE DEF n
<1>9. OrderInv' /\ Queued' = Queued /\ Buffered' = Buffered /\ Executed' = Executed
  BY <1>1, <1>7, <1>8, BuffersStay
<1> QED
  BY <1>3, <1>5, <1>6, <1>8, <1>9 DEF n

(* A drain goes on with the same buffer: it has reserved its bulk, or a call returned. *)
LEMMA DrainGoesOn ==
    ASSUME TypeOK, OrderInv, stack # <<>>, NEW f \in Frames, f.buffer = Top.buffer,
           stack' = Append(Below, f), UNCHANGED <<queue_, ran, lost, pushed, stage>>
    PROVE  /\ OrderInv'
           /\ Queued' = Queued /\ Buffered' = Buffered /\ Executed' = Executed
<1>1. /\ Len(stack) \in Nat \ {0} /\ Len(stack') = Len(stack) /\ stack'[Len(stack)] = f
      /\ \A i \in 1..Len(stack) : i # Len(stack) => stack'[i] = stack[i]
  BY TopBecomes
<1>2. \A i \in 1..Len(stack) : stack'[i].buffer = stack[i].buffer
  BY <1>1 DEF Top
<1> QED
  BY <1>1, <1>2, BuffersStay

(* A drain that has run its bulk ends. *)
LEMMA DrainReturnsOrder ==
    ASSUME TypeOK, OrderInv, DrainReturns
    PROVE  /\ OrderInv'
           /\ stack' \in Seq(Frames) /\ Len(stack') = Len(stack) - 1
           /\ \A i \in 1..Len(stack) - 1 : stack'[i] = stack[i]
           /\ Queued' = Queued /\ Buffered' = Buffered /\ Executed' = Executed
<1> DEFINE n == Len(stack)
<1>1. /\ UNCHANGED <<queue_, ran, lost, pushed, stage>>
      /\ stack # <<>> /\ Top.buffer = <<>> /\ stack' = Below
  BY DEF DrainReturns, HasNoCall, OwnBuffer, queueVars, pushVars
<1>2. n \in Nat \ {0}
  BY <1>1, FramesAreTyped
<1>3. /\ stack' \in Seq(Frames) /\ Len(stack') = n - 1 /\ n - 1 \in Nat
      /\ \A i \in 1..n - 1 : stack'[i] = stack[i]
  BY <1>1, BelowProperties
<1>4. stack[n].buffer = <<>>
  BY <1>1 DEF Top
<1>5. \A i \in 1..n : i = n \/ i \in 1..n - 1
  BY <1>2
<1>6. \A i \in 1..n - 1 : i \in 1..n
  BY <1>2
<1> QED
  BY <1>1, <1>3, <1>4, <1>5, <1>6, BuffersStay

(* What a producer has in hand is a call that has no place. *)
LEMMA HeldAreCalls ==
    ASSUME TypeOK, OrderInv
    PROVE  /\ Held \subseteq Calls
           /\ \A p \in Producers : stage[p] # "idle" => InHand(p) \in Calls \ Placed
<1>1. ASSUME NEW p \in Producers, stage[p] # "idle" PROVE InHand(p) \in Calls \ Placed
  <2>1. /\ MaxCalls[p] \in Nat /\ pushed[p] \in Nat /\ pushed[p] <= MaxCalls[p] /\ pushed[p] > 0
    BY <1>1, QueueAssumption DEF TypeOK, QueueAssumption, OrderInv, InHandWerePushed
  <2>2. InHand(p) \in Calls
    BY <2>1 DEF Calls, InHand
  <2>3. InHand(p) \notin Placed
    BY <1>1, <2>1 DEF OrderInv, PlacedWerePushed, InHand
  <2> QED
    BY <2>2, <2>3
<1> QED
  BY <1>1 DEF Held

(* Every step keeps the types and the order. *)
LEMMA OrderStep == ASSUME TypeOK, OrderInv, Next PROVE TypeOK' /\ OrderInv'
<1> USE DEF queueVars, pushVars, drainVars, marks, stopVars
<1>1. ASSUME NEW p \in Producers, NEW force \in BOOLEAN, PushEnters(p, force)
      PROVE  TypeOK' /\ OrderInv'
  <2>1. OrderInv'
    BY <1>1, PushEntersOrder
  <2>2. /\ <<p, pushed[p] + 1>> \in Calls
        /\ pushed' \in [Producers -> Nat] /\ \A q \in Producers : pushed'[q] <= MaxCalls[q]
    <3>1. /\ pushed \in [Producers -> Nat] /\ MaxCalls \in [Producers -> Nat]
          /\ pushed[p] < MaxCalls[p] /\ pushed' = [pushed EXCEPT ![p] = @ + 1]
          /\ \A q \in Producers : pushed[q] <= MaxCalls[q]
      BY <1>1, QueueAssumption DEF PushEnters, TypeOK, QueueAssumption
    <3>2. pushed[p] + 1 \in 1..MaxCalls[p]
      BY <3>1
    <3>3. \A q \in Producers : pushed'[q] = IF q = p THEN pushed[p] + 1 ELSE pushed[q]
      BY <3>1
    <3> QED
      BY <3>1, <3>2, <3>3 DEF Calls
  <2>3. stage' \in [Producers -> Stages] /\ forced' \subseteq Calls /\ lost' \subseteq Calls
    BY <1>1, <2>2 DEF PushEnters, TypeOK, Stages
  <2> QED
    BY <1>1, <2>1, <2>2, <2>3 DEF PushEnters, TypeOK
<1>2. ASSUME NEW p \in Producers, PushMeasures(p) PROVE TypeOK' /\ OrderInv'
  <2>1. OrderInv' /\ (UNCHANGED lost \/ (lost' = lost \cup {InHand(p)} /\ InHand(p) \in Calls))
    BY <1>2, PushMeasuresOrder
  <2>2. stage' \in [Producers -> Stages] /\ lost' \subseteq Calls
    BY <1>2, <2>1 DEF PushMeasures, TypeOK, Stages
  <2> QED
    BY <1>2, <2>1, <2>2 DEF PushMeasures, TypeOK
<1>3. ASSUME NEW p \in Producers, PushEvicts(p) PROVE TypeOK' /\ OrderInv'
  <2>1. stage \in [Producers -> Stages] /\ stage' = [stage EXCEPT ![p] = "enqueue"] /\ stage[p] = "evict"
    BY <1>3 DEF PushEvicts, TypeOK
  <2>2. stage' \in [Producers -> Stages] /\ \A r \in Producers : stage'[r] # "idle" => stage[r] # "idle"
    BY <2>1 DEF Stages
  <2>3. CASE available = 0
    <3>1. UNCHANGED <<queue_, available, lost, stack, ran, pushed>>
      BY <1>3, <2>3 DEF PushEvicts
    <3>2. OrderInv'
      <4>1. PlacedWerePushed' /\ InHandWerePushed' /\ LostAreGone'
        <5>1. \A c \in Placed : c[1] \in Producers
          BY PlacedAreCalls, CallParts
        <5> QED
          BY <2>2, <3>1, <5>1, SequencesStay
             DEF OrderInv, PlacedWerePushed, InHandWerePushed, LostAreGone, Placed
      <4> QED
        BY <3>1, <4>1, SequencesStay DEF OrderInv
    <3> QED
      BY <1>3, <2>2, <3>1, <3>2 DEF PushEvicts, TypeOK
  <2>4. CASE available # 0
    <3>1. PICK q \in Producers : /\ queue_[q] # <<>>
                                 /\ queue_' = [queue_ EXCEPT ![q] = Tail(@)]
                                 /\ available' = available - 1
                                 /\ lost' = lost \cup {Head(queue_[q])}
      BY <1>3, <2>4 DEF PushEvicts
    <3>2. UNCHANGED <<stack, ran, pushed>>
      BY <1>3 DEF PushEvicts
    <3>3. OrderInv' /\ Head(queue_[q]) \in Calls
      BY <2>2, <3>1, <3>2, GivenUpOrder
    <3>4. queue_' \in [Producers -> Seq(Calls)]
      BY <3>1, Dequeued DEF OrderInv
    <3>5. available' \in Nat /\ lost' \subseteq Calls
      BY <2>4, <3>1, <3>3 DEF TypeOK
    <3> QED
      BY <1>3, <2>2, <3>3, <3>4, <3>5 DEF PushEvicts, TypeOK
  <2> QED
    BY <2>3, <2>4
<1>4. ASSUME NEW p \in Producers, PushEnqueues(p) PROVE TypeOK' /\ OrderInv'
  <2>1. OrderInv' /\ queue_' \in [Producers -> Seq(Calls)]
    BY <1>4, PushEnqueuesOrder
  <2>2. stage' \in [Producers -> Stages] /\ available' \in Nat
    BY <1>4 DEF PushEnqueues, TypeOK, Stages
  <2> QED
    BY <1>4, <2>1, <2>2 DEF PushEnqueues, TypeOK
<1>5. ASSUME ExecuteAll \/ WaitExecute PROVE TypeOK' /\ OrderInv'
  <2>1. OrderInv' /\ stack' \in Seq(Frames)
    BY <1>5, DrainBegins
  <2> QED
    BY <1>5, <2>1 DEF ExecuteAll, WaitExecute, TypeOK, Frames
<1>6. ASSUME Reserve PROVE TypeOK' /\ OrderInv'
  <2> DEFINE n == Reservable
             f == [Top EXCEPT !.phase = "running", !.room = 0, !.reserved = n]
  <2>1. Top \in Frames /\ stack # <<>>
    BY <1>6, FramesAreTyped DEF Reserve
  <2>2. Top.room \in Nat /\ available \in Nat
    BY <2>1 DEF Frames, TypeOK
  <2>3. n \in Nat /\ n <= available
    BY <2>2, MaxMin DEF Reservable
  <2>4. stack' = Append(Below, f) /\ available' = available - n
    BY <1>6 DEF Reserve
  <2> HIDE DEF n
  <2>5. f \in Frames /\ f.buffer = Top.buffer
    BY <2>1, <2>3 DEF Frames
  <2> HIDE DEF f
  <2>6. UNCHANGED <<queue_, ran, lost, pushed, stage>>
    BY <1>6 DEF Reserve
  <2>7. OrderInv' /\ stack' \in Seq(Frames)
    BY <2>1, <2>4, <2>5, <2>6, DrainGoesOn, TopBecomes
  <2>8. available' \in Nat
    BY <2>2, <2>3, <2>4
  <2> QED
    BY <1>6, <2>7, <2>8 DEF Reserve, TypeOK, Frames
<1>7. ASSUME Take PROVE TypeOK' /\ OrderInv'
  <2>1. OrderInv' /\ stack' \in Seq(Frames) /\ queue_' \in [Producers -> Seq(Calls)]
    BY <1>7, TakeOrder
  <2> QED
    BY <1>7, <2>1 DEF Take, TypeOK, Frames
<1>8. ASSUME RunCall PROVE TypeOK' /\ OrderInv'
  <2>1. OrderInv' /\ stack' \in Seq(Frames) /\ ran' \in Seq(Runs)
    BY <1>8, RunCallOrder
  <2> QED
    BY <1>8, <2>1 DEF RunCall, TypeOK, Frames, Runs
<1>9. ASSUME CallReturns PROVE TypeOK' /\ OrderInv'
  <2> DEFINE f == [Top EXCEPT !.phase = "running"]
  <2>1. /\ Top \in Frames /\ stack # <<>> /\ stack' = Append(Below, f)
        /\ UNCHANGED <<queue_, ran, lost, pushed, stage>>
    BY <1>9, FramesAreTyped DEF CallReturns
  <2>2. f \in Frames /\ f.buffer = Top.buffer
    BY <2>1 DEF Frames
  <2> HIDE DEF f
  <2>3. OrderInv' /\ stack' \in Seq(Frames)
    BY <2>1, <2>2, DrainGoesOn, TopBecomes
  <2> QED
    BY <1>9, <2>3 DEF CallReturns, TypeOK, Frames
<1>10. ASSUME DrainReturns PROVE TypeOK' /\ OrderInv'
  <2>1. OrderInv' /\ stack' \in Seq(Frames)
    BY <1>10, DrainReturnsOrder
  <2> QED
    BY <1>10, <2>1 DEF DrainReturns, TypeOK, Frames
<1>11. ASSUME Enable \/ ThreadEnds \/ SetStopFlag \/ ClearBegins \/ ClearEnds
       PROVE  TypeOK' /\ OrderInv'
  <2>1. OrderInv'
    BY <1>11, NothingMoves DEF Enable, ThreadEnds, SetStopFlag, ClearBegins, ClearEnds
  <2> QED
    BY <1>11, <2>1 DEF Enable, ThreadEnds, SetStopFlag, ClearBegins, ClearEnds, TypeOK
<1>12. ASSUME Disable PROVE TypeOK' /\ OrderInv'
  <2>1. OrderInv'
    BY <1>12, NothingMoves DEF Disable
  <2>2. Held \subseteq Calls
    BY HeldAreCalls
  <2> QED
    BY <1>12, <2>1, <2>2 DEF Disable, TypeOK
<1>13. ASSUME ClearOne PROVE TypeOK' /\ OrderInv'
  <2>1. PICK q \in Producers : /\ queue_[q] # <<>>
                               /\ queue_' = [queue_ EXCEPT ![q] = Tail(@)]
                               /\ lost' = lost \cup {Head(queue_[q])}
    BY <1>13 DEF ClearOne
  <2>2. UNCHANGED <<stack, ran, pushed, stage>>
    BY <1>13 DEF ClearOne
  <2>3. OrderInv' /\ Head(queue_[q]) \in Calls
    BY <2>1, <2>2, GivenUpOrder
  <2>4. queue_' \in [Producers -> Seq(Calls)]
    BY <2>1, Dequeued DEF OrderInv
  <2>5. available' \in Nat /\ remaining' \in Nat /\ lost' \subseteq Calls
    BY <1>13, <2>1, <2>3 DEF ClearOne, TypeOK
  <2> QED
    BY <1>13, <2>3, <2>4, <2>5 DEF ClearOne, TypeOK
<1> QED
  BY <1>1, <1>2, <1>3, <1>4, <1>5, <1>6, <1>7, <1>8, <1>9, <1>10, <1>11, <1>12, <1>13
     DEF Next, Push, Drain, Stop

(* The queue, the buffers and the history begin empty. *)
LEMMA OrderInit == Init => TypeOK /\ OrderInv
<1> SUFFICES ASSUME Init PROVE TypeOK /\ OrderInv
  OBVIOUS
<1>1. TypeOK
  <2>1. <<>> \in Seq(Frames) /\ <<>> \in Seq(Runs) /\ <<>> \in Seq(Calls)
    BY EmptySeq
  <2>2. stack \in Seq(Frames) /\ ran \in Seq(Runs) /\ queue_ \in [Producers -> Seq(Calls)]
    BY <2>1 DEF Init
  <2>3. /\ stage \in [Producers -> Stages] /\ pushed \in [Producers -> Nat]
        /\ \A p \in Producers : pushed[p] <= MaxCalls[p]
    BY QueueAssumption DEF Init, Stages, QueueAssumption
  <2> QED
    BY <2>2, <2>3 DEF Init, TypeOK, Frames, Runs
<1>2. Queued = {} /\ Buffered = {} /\ Executed = {} /\ lost = {}
  BY DEF Init, Queued, Buffered, Executed, Elements
<1>3. QueuesInOrder
  BY DEF Init, QueuesInOrder, InOrder
<1>4. BuffersInOrder /\ OvertakenFromWithin /\ OrderKept
  BY DEF Init, BuffersInOrder, OvertakenFromWithin, OrderKept
<1>5. QueuedAreLast /\ PlacedWerePushed /\ InHandWerePushed /\ LostAreGone
  BY <1>2 DEF Init, QueuedAreLast, PlacedWerePushed, InHandWerePushed, LostAreGone, Placed
<1> QED
  BY <1>1, <1>3, <1>4, <1>5 DEF OrderInv

(* The types and the order are kept for good. *)
LEMMA OrderAlways == Spec => [](TypeOK /\ OrderInv)
<1>1. TypeOK /\ OrderInv /\ UNCHANGED vars => TypeOK' /\ OrderInv'
  <2> SUFFICES ASSUME TypeOK, OrderInv, UNCHANGED vars PROVE TypeOK' /\ OrderInv'
    OBVIOUS
  <2>1. TypeOK'
    BY DEF TypeOK, vars, queueVars, pushVars, drainVars, marks, stopVars
  <2> QED
    BY <2>1, NothingMoves DEF vars, queueVars, pushVars, drainVars, marks, stopVars
<1> QED
  BY <1>1, OrderInit, OrderStep, PTL DEF Spec

(* Two calls of one producer are run in the order they were pushed, except that a drain made by a   *)
(* call overtakes what the drains around it hold (work_queue.cpp: executeAll and waitExecuteAll),   *)
(* however many producers there are, however the queue is bounded and however deep drains nest.     *)
THEOREM CallsRunInOrder == Spec => []OrderKept
<1>1. TypeOK /\ OrderInv => OrderKept
  BY DEF OrderInv
<1> QED
  BY <1>1, OrderAlways, PTL

----------------------------------------------------------------------------
(* The queue implements the ledger *)

Accepted == Queued \cup Buffered
PlaceOf(c) == IF c \in Executed THEN "run"
              ELSE IF c \in lost THEN "lost" ELSE IF c \in Accepted THEN "accepted" ELSE "new"
Book == [c \in Calls |-> PlaceOf(c)]

(* Steps that move no call write nothing into the ledger. *)
LEMMA BookStays ==
    ASSUME Executed' = Executed, lost' = lost, Accepted' = Accepted
    PROVE  Book' = Book
BY DEF Book, PlaceOf

(* A step that moves one call from a place to the next one is a step of the ledger. *)
LEMMA BookMoves ==
    ASSUME NEW e \in Calls,
           \/ /\ Executed' = Executed /\ lost' = lost \cup {e} /\ Accepted' = Accepted
              /\ e \notin Executed \cup lost \cup Accepted
           \/ /\ Executed' = Executed /\ lost' = lost /\ Accepted' = Accepted \cup {e}
              /\ e \notin Executed \cup lost \cup Accepted
           \/ /\ Executed' = Executed /\ lost' = lost \cup {e} /\ Accepted' = Accepted \ {e}
              /\ e \in Accepted \ (Executed \cup lost)
           \/ /\ Executed' = Executed \cup {e} /\ lost' = lost /\ Accepted' = Accepted \ {e}
              /\ e \in Accepted \ (Executed \cup lost)
    PROVE  Ledger!Next
<1>1. ASSUME NEW from, NEW to, Book[e] = from, Book' = [Book EXCEPT ![e] = to]
      PROVE  Ledger!Move(e, from, to)
  BY <1>1, Zenon DEF Ledger!Move, Book, PlaceOf, Accepted
<1>2. \A c \in Calls : Book[c] = PlaceOf(c) /\ Book'[c] = PlaceOf(c)'
  BY DEF Book
<1>3. \A c \in Calls : c # e => PlaceOf(c)' = PlaceOf(c)
  BY DEF PlaceOf
<1>4. \/ PlaceOf(e) = "new" /\ PlaceOf(e)' = "lost"
      \/ PlaceOf(e) = "new" /\ PlaceOf(e)' = "accepted"
      \/ PlaceOf(e) = "accepted" /\ PlaceOf(e)' = "lost"
      \/ PlaceOf(e) = "accepted" /\ PlaceOf(e)' = "run"
  BY DEF PlaceOf
<1>5. Book' = [Book EXCEPT ![e] = PlaceOf(e)']
  BY <1>3 DEF Book
<1>6. \/ Book[e] = "new" /\ Book' = [Book EXCEPT ![e] = "lost"]
      \/ Book[e] = "new" /\ Book' = [Book EXCEPT ![e] = "accepted"]
      \/ Book[e] = "accepted" /\ Book' = [Book EXCEPT ![e] = "lost"]
      \/ Book[e] = "accepted" /\ Book' = [Book EXCEPT ![e] = "run"]
  BY <1>2, <1>4, <1>5
<1>7. Ledger!Accept(e) \/ Ledger!Refuse(e) \/ Ledger!Run(e) \/ Ledger!GiveUp(e)
  BY <1>1, <1>6 DEF Ledger!Accept, Ledger!Refuse, Ledger!Run, Ledger!GiveUp
<1> QED
  BY <1>7 DEF Ledger!Next

(* A call given up by an evicting push or by clear() is one the ledger had accepted. *)
LEMMA GivenUpIsBooked ==
    ASSUME TypeOK, OrderInv, NEW q \in Producers, queue_[q] # <<>>,
           queue_' = [queue_ EXCEPT ![q] = Tail(@)], lost' = lost \cup {Head(queue_[q])},
           UNCHANGED <<stack, ran, pushed>>,
           \A r \in Producers : stage'[r] # "idle" => stage[r] # "idle"
    PROVE  Ledger!Next
<1> DEFINE h == Head(queue_[q])
<1>1. /\ Queued' = Queued \ {h} /\ Buffered' = Buffered /\ Executed' = Executed
      /\ h \in Queued \ (lost \cup Executed \cup Buffered) /\ h \in Calls
  BY GivenUpOrder
<1>2. lost' = lost \cup {h}
  OBVIOUS
<1> HIDE DEF h
<1>3. Accepted' = Accepted \ {h} /\ h \in Accepted \ (Executed \cup lost)
  BY <1>1 DEF Accepted
<1> QED
  BY <1>1, <1>2, <1>3, BookMoves

(* Every step of the queue is a step of the ledger, or leaves it alone. *)
LEMMA LedgerStep == ASSUME TypeOK, OrderInv, Next PROVE Ledger!Next \/ Book' = Book
<1> USE DEF queueVars, pushVars, drainVars, marks, stopVars
<1>1. ASSUME NEW p \in Producers, NEW force \in BOOLEAN, PushEnters(p, force)
      PROVE  Ledger!Next \/ Book' = Book
  <2> DEFINE e == <<p, pushed[p] + 1>>
  <2>1. /\ Queued' = Queued /\ Buffered' = Buffered /\ Executed' = Executed
        /\ UNCHANGED lost \/ (lost' = lost \cup {e} /\ e \in Calls \ Placed)
    BY <1>1, PushEntersOrder
  <2> HIDE DEF e
  <2>2. Accepted' = Accepted /\ (e \notin Placed => e \notin Executed \cup lost \cup Accepted)
    BY <2>1 DEF Accepted, Placed
  <2> QED
    BY <2>1, <2>2, BookStays, BookMoves
<1>2. ASSUME NEW p \in Producers, PushMeasures(p) PROVE Ledger!Next \/ Book' = Book
  <2>1. /\ Queued' = Queued /\ Buffered' = Buffered /\ Executed' = Executed
        /\ UNCHANGED lost \/ (lost' = lost \cup {InHand(p)} /\ InHand(p) \in Calls \ Placed)
    BY <1>2, PushMeasuresOrder
  <2>2. /\ Accepted' = Accepted
        /\ InHand(p) \notin Placed => InHand(p) \notin Executed \cup lost \cup Accepted
    BY <2>1 DEF Accepted, Placed
  <2> QED
    BY <2>1, <2>2, BookStays, BookMoves
<1>3. ASSUME NEW p \in Producers, PushEvicts(p) PROVE Ledger!Next \/ Book' = Book
  <2>1. UNCHANGED <<stack, ran, pushed>>
    BY <1>3 DEF PushEvicts
  <2>2. CASE available = 0
    <3>1. UNCHANGED <<queue_, lost>>
      BY <1>3, <2>2 DEF PushEvicts
    <3>2. Queued' = Queued /\ Buffered' = Buffered /\ Executed' = Executed
      BY <2>1, <3>1, SequencesStay
    <3> QED
      BY <3>1, <3>2, BookStays DEF Accepted
  <2>3. CASE available # 0
    <3>1. PICK q \in Producers : /\ queue_[q] # <<>>
                                 /\ queue_' = [queue_ EXCEPT ![q] = Tail(@)]
                                 /\ lost' = lost \cup {Head(queue_[q])}
      BY <1>3, <2>3 DEF PushEvicts
    <3>2. \A r \in Producers : stage'[r] # "idle" => stage[r] # "idle"
      BY <1>3 DEF PushEvicts, TypeOK
    <3> QED
      BY <2>1, <3>1, <3>2, GivenUpIsBooked
  <2> QED
    BY <2>2, <2>3
<1>4. ASSUME NEW p \in Producers, PushEnqueues(p) PROVE Ledger!Next
  <2>1. /\ Queued' = Queued \cup {InHand(p)} /\ Buffered' = Buffered /\ Executed' = Executed
        /\ InHand(p) \in Calls \ Placed
    BY <1>4, PushEnqueuesOrder
  <2>2. /\ Accepted' = Accepted \cup {InHand(p)}
        /\ InHand(p) \notin Executed \cup lost \cup Accepted
    BY <2>1 DEF Accepted, Placed
  <2>3. lost' = lost
    BY <1>4 DEF PushEnqueues
  <2> QED
    BY <2>1, <2>2, <2>3, BookMoves
<1>5. ASSUME ExecuteAll \/ WaitExecute PROVE Book' = Book
  <2>1. Queued' = Queued /\ Buffered' = Buffered /\ Executed' = Executed
    BY <1>5, DrainBegins
  <2>2. lost' = lost
    BY <1>5 DEF ExecuteAll, WaitExecute
  <2> QED
    BY <2>1, <2>2, BookStays DEF Accepted
<1>6. ASSUME Reserve \/ CallReturns PROVE Book' = Book
  <2>1. PICK f : stack' = Append(Below, f) /\ f \in Frames /\ f.buffer = Top.buffer
    <3>1. Top \in Frames
      BY <1>6, FramesAreTyped DEF Reserve, CallReturns
    <3>2. Top.room \in Nat /\ available \in Nat
      BY <3>1 DEF Frames, TypeOK
    <3>3. Reservable \in Nat
      BY <3>2, MaxMin DEF Reservable
    <3>4. /\ [Top EXCEPT !.phase = "running", !.room = 0, !.reserved = Reservable] \in Frames
          /\ [Top EXCEPT !.phase = "running", !.room = 0, !.reserved = Reservable].buffer = Top.buffer
          /\ [Top EXCEPT !.phase = "running"] \in Frames
          /\ [Top EXCEPT !.phase = "running"].buffer = Top.buffer
      BY <3>1, <3>3 DEF Frames
    <3> QED
      BY <1>6, <3>4 DEF Reserve, CallReturns
  <2>2. stack # <<>> /\ UNCHANGED <<queue_, ran, lost, pushed, stage>>
    BY <1>6 DEF Reserve, CallReturns
  <2>3. Queued' = Queued /\ Buffered' = Buffered /\ Executed' = Executed
    BY <2>1, <2>2, DrainGoesOn
  <2> QED
    BY <2>2, <2>3, BookStays DEF Accepted
<1>7. ASSUME Take PROVE Book' = Book
  <2>1. Executed' = Executed /\ \E h \in Queued : Queued' = Queued \ {h} /\ Buffered' = Buffered \cup {h}
    BY <1>7, TakeOrder
  <2>2. Accepted' = Accepted
    BY <2>1 DEF Accepted
  <2> QED
    BY <1>7, <2>1, <2>2, BookStays DEF Take
<1>8. ASSUME RunCall PROVE Ledger!Next
  <2>1. PICK e \in Buffered : /\ Buffered' = Buffered \ {e} /\ Executed' = Executed \cup {e}
                              /\ e \in Calls \ (Queued \cup Executed \cup lost)
    BY <1>8, RunCallOrder
  <2>2. Queued' = Queued /\ lost' = lost
    BY <1>8, RunCallOrder
  <2>3. Accepted' = Accepted \ {e} /\ e \in Accepted \ (Executed \cup lost) /\ e \in Calls
    BY <2>1, <2>2 DEF Accepted
  <2> QED
    BY <2>1, <2>2, <2>3, BookMoves
<1>9. ASSUME DrainReturns PROVE Book' = Book
  <2>1. Queued' = Queued /\ Buffered' = Buffered /\ Executed' = Executed
    BY <1>9, DrainReturnsOrder
  <2> QED
    BY <1>9, <2>1, BookStays DEF Accepted, DrainReturns
<1>10. ASSUME Enable \/ ThreadEnds \/ Disable \/ SetStopFlag \/ ClearBegins \/ ClearEnds
       PROVE  Book' = Book
  <2>1. UNCHANGED <<queue_, stack, ran, lost>>
    BY <1>10 DEF Enable, ThreadEnds, Disable, SetStopFlag, ClearBegins, ClearEnds
  <2>2. Queued' = Queued /\ Buffered' = Buffered /\ Executed' = Executed
    BY <2>1, SequencesStay
  <2> QED
    BY <2>1, <2>2, BookStays DEF Accepted
<1>11. ASSUME ClearOne PROVE Ledger!Next
  <2>1. PICK q \in Producers : /\ queue_[q] # <<>>
                               /\ queue_' = [queue_ EXCEPT ![q] = Tail(@)]
                               /\ lost' = lost \cup {Head(queue_[q])}
    BY <1>11 DEF ClearOne
  <2>2. UNCHANGED <<stack, ran, pushed, stage>>
    BY <1>11 DEF ClearOne
  <2> QED
    BY <2>1, <2>2, GivenUpIsBooked
<1> QED
  BY <1>1, <1>2, <1>3, <1>4, <1>5, <1>6, <1>7, <1>8, <1>9, <1>10, <1>11
     DEF Next, Push, Drain, Stop

(* WorkQueue implements CallLedger: a call that push accepted is run or given up, never both, a     *)
(* refused one is never run, and none is run twice, whatever pushes, drains within drains, evictions *)
(* and a stop do in between (work_queue.cpp: push, executeAll, clear).                               *)
THEOREM QueueKeepsLedger == Spec => LedgerKept
<1>1. Init => Ledger!Init
  <2> SUFFICES ASSUME Init PROVE Ledger!Init
    OBVIOUS
  <2>1. Queued = {} /\ Buffered = {} /\ Executed = {} /\ lost = {}
    BY DEF Init, Queued, Buffered, Executed, Elements
  <2> QED
    BY <2>1 DEF Ledger!Init
<1>2. TypeOK /\ OrderInv /\ [Next]_vars => Ledger!Next \/ Book' = Book
  <2>1. ASSUME UNCHANGED vars PROVE Book' = Book
    <3>1. Executed' = Executed /\ lost' = lost /\ Accepted' = Accepted
      BY <2>1 DEF vars, queueVars, pushVars, drainVars, Executed, Accepted, Queued, Buffered, Elements
    <3> QED
      BY <3>1, BookStays
  <2> QED
    BY <2>1, LedgerStep
<1>3. TypeOK /\ OrderInv /\ [Next]_vars => [Ledger!Next]_Book
  BY <1>2
<1> QED
  BY <1>1, <1>3, OrderAlways, PTL DEF Spec, LedgerKept, Ledger!Spec, Book, PlaceOf, Accepted

----------------------------------------------------------------------------
(* The counts, action by action *)

Enqueuing == {p \in Producers : stage[p] = "enqueue"}

(* The sets that are counted are finite, and no more push at once than there are producers. *)
LEMMA CountsAreFinite ==
    ASSUME TypeOK
    PROVE  /\ IsFiniteSet(Held) /\ Cardinality(Held) \in Nat
           /\ IsFiniteSet(Enqueuing) /\ Cardinality(Enqueuing) \in Nat
           /\ Cardinality(Enqueuing) <= Cardinality(Producers) /\ Cardinality(Producers) \in Nat
<1>1. IsFiniteSet(Producers)
  BY QueueAssumption DEF QueueAssumption
<1>2. Enqueuing \in SUBSET Producers
  BY DEF Enqueuing
<1>3. /\ IsFiniteSet(Enqueuing) /\ Cardinality(Enqueuing) <= Cardinality(Producers)
      /\ Cardinality(Enqueuing) \in Nat /\ Cardinality(Producers) \in Nat
  BY <1>1, <1>2, FS_Subset, FS_CardinalityType
<1>4. IsFiniteSet(Held)
  <2> DEFINE S == {q \in Producers : stage[q] # "idle"}
             f == [p \in S |-> InHand(p)]
  <2>1. IsFiniteSet(S)
    BY <1>1, FS_Subset
  <2>2. f \in Surjection(S, Held)
    BY DEF Surjection, Held
  <2> HIDE DEF S, f
  <2> QED
    BY <2>1, <2>2, FS_Surjection
<1> QED
  BY <1>3, <1>4, FS_CardinalityType

(* The bound, by the set of the producers that are about to enqueue. *)
LEMMA BoundByEnqueuing ==
    /\ BoundRespected <=>
         (MaxSize > 0 => available + Cardinality(Enqueuing)
                           <= MaxSize - 1 + Cardinality(Producers) + Cardinality(forced))
    /\ BoundRespected' <=>
         (MaxSize > 0 => available' + Cardinality(Enqueuing')
                           <= MaxSize - 1 + Cardinality(Producers) + Cardinality(forced'))
BY DEF BoundRespected, Enqueuing

(* What the producers have in hand after a step that begins no push. *)
LEMMA HeldShrinks ==
    ASSUME TypeOK, UNCHANGED pushed, \A q \in Producers : stage'[q] # "idle" => stage[q] # "idle"
    PROVE  Held' \subseteq Held /\ IsFiniteSet(Held') /\ Cardinality(Held') <= Cardinality(Held)
           /\ Cardinality(Held') \in Nat
<1>1. Held' \subseteq Held
  BY DEF Held, InHand
<1> QED
  BY <1>1, CountsAreFinite, FS_Subset, FS_CardinalityType

(* A producer that ends its push has nothing in hand. *)
LEMMA HeldLoses ==
    ASSUME TypeOK, NEW p \in Producers, stage[p] # "idle",
           stage' = [stage EXCEPT ![p] = "idle"], UNCHANGED pushed
    PROVE  Held' = Held \ {InHand(p)} /\ Cardinality(Held') = Cardinality(Held) - 1
<1>1. stage \in [Producers -> Stages]
  BY DEF TypeOK
<1>2. \A q \in Producers : stage'[q] = IF q = p THEN "idle" ELSE stage[q]
  BY <1>1
<1>3. \A q, r \in Producers : InHand(q) = InHand(r) => q = r
  BY DEF InHand
<1>4. Held' = {InHand(q) : q \in {r \in Producers : stage'[r] # "idle"}}
  BY DEF Held, InHand
<1>5. Held' = Held \ {InHand(p)} /\ InHand(p) \in Held
  BY <1>2, <1>3, <1>4 DEF Held
<1> QED
  BY <1>5, CountsAreFinite, FS_RemoveElement

(* The counts of the semaphore, in a step that leaves it, the queues and the drains alone. *)
LEMMA SemaphoreStays ==
    ASSUME CountInv, UNCHANGED <<stack, available>>, Queued' = Queued
    PROVE  OnlyTopTakes' /\ SemaphoreCounts'
BY DEF CountInv, OnlyTopTakes, SemaphoreCounts, Reserved, Top

(* What a stop counts, in a step that leaves the stop and the thread alone and begins no push. *)
LEMMA StopStays ==
    ASSUME TypeOK, CountInv,
           UNCHANGED <<stopper, thread, enabled_, enabledLate, straggling, remaining, pushed>>,
           \A q \in Producers : stage'[q] # "idle" => stage[q] # "idle",
           thread # "running" => stack' = <<>>,
           stopper \in {"clearing", "done"} =>
             Cardinality(Queued') + Cardinality(Held') <= Cardinality(Queued) + Cardinality(Held),
           IsFiniteSet(Queued), IsFiniteSet(Queued')
    PROVE  StopOrder' /\ ClearCatchesUp'
<1>1. Held' \subseteq Held /\ Cardinality(Held') \in Nat /\ Cardinality(Held) \in Nat
  BY HeldShrinks, CountsAreFinite
<1>2. StopOrder'
  BY <1>1 DEF CountInv, StopOrder
<1>3. Cardinality(Queued) \in Nat /\ Cardinality(Queued') \in Nat
  BY FS_CardinalityType
<1>4. remaining \in Nat /\ Cardinality(straggling) \in Nat
  BY FS_CardinalityType DEF TypeOK, CountInv, StopOrder
<1>5. ClearCatchesUp'
  BY <1>1, <1>3, <1>4 DEF CountInv, ClearCatchesUp
<1> QED
  BY <1>2, <1>5

(* The innermost drain goes on, and is still the only one that takes. *)
LEMMA TopTakes ==
    ASSUME TypeOK, OnlyTopTakes, stack # <<>>, NEW f \in Frames, stack' = Append(Below, f),
           f.phase # "running" => f.reserved = 0
    PROVE  OnlyTopTakes' /\ Reserved' = f.reserved /\ Reserved = Top.reserved
<1>1. /\ stack' # <<>> /\ Len(stack) \in Nat \ {0} /\ Len(stack') = Len(stack)
      /\ stack'[Len(stack)] = f
      /\ \A i \in 1..Len(stack) : i # Len(stack) => stack'[i] = stack[i]
  BY TopBecomes
<1>2. OnlyTopTakes'
  BY <1>1 DEF OnlyTopTakes
<1> QED
  BY <1>1, <1>2 DEF Reserved, Top

(* While a drain is in progress the thread runs, and no stop is clearing the queue. *)
LEMMA DrainersRun ==
    ASSUME CountInv, stack # <<>> \/ thread = "running"
    PROVE  thread = "running" /\ stopper \notin {"clearing", "done"}
BY DEF CountInv, StopOrder

(* A push that begins: it is refused, or was made while the queue is enabled. *)
LEMMA PushEntersCount ==
    ASSUME TypeOK, OrderInv, CountInv, NEW p \in Producers, NEW force \in BOOLEAN,
           PushEnters(p, force)
    PROVE  CountInv'
<1> DEFINE e == <<p, pushed[p] + 1>>
<1>1. /\ UNCHANGED <<stack, available, stopper, thread, enabled_, enabledLate, straggling, remaining>>
      /\ stage[p] = "idle" /\ pushed' = [pushed EXCEPT ![p] = @ + 1]
      /\ \/ /\ enabled_ /\ ~force /\ forced' = forced
            /\ stage' = [stage EXCEPT ![p] = IF MaxSize = 0 THEN "enqueue" ELSE "measure"]
         \/ /\ enabled_ /\ force /\ forced' = forced \cup {e}
            /\ stage' = [stage EXCEPT ![p] = "enqueue"]
         \/ ~enabled_ /\ forced' = forced /\ stage' = stage
  BY DEF PushEnters, queueVars, drainVars, stopVars, marks
<1>2. pushed \in [Producers -> Nat] /\ stage \in [Producers -> Stages] /\ pushed[p] \in Nat
  BY DEF TypeOK
<1>3. Queued' = Queued
  BY PushEntersOrder
<1>4. OnlyTopTakes' /\ SemaphoreCounts'
  BY <1>1, <1>3, SemaphoreStays
<1>5. /\ IsFiniteSet(forced) /\ Cardinality(forced) \in Nat
      /\ \A c \in forced : c \in Calls /\ c[2] <= pushed[c[1]]
  BY FS_CardinalityType DEF CountInv, ForcedWerePushed, TypeOK
<1>6. \A c \in forced : c[1] \in Producers /\ c[2] \in Nat
  BY <1>5, CallParts
<1>7. e[1] = p /\ e[2] = pushed[p] + 1 /\ e \notin forced
  BY <1>2, <1>5
<1> HIDE DEF e
<1>8. /\ IsFiniteSet(forced \cup {e}) /\ Cardinality(forced \cup {e}) = Cardinality(forced) + 1
  BY <1>5, <1>7, FS_AddElement
<1>9. ForcedWerePushed'
  <2>1. \A q \in Producers : pushed'[q] = IF q = p THEN pushed[p] + 1 ELSE pushed[q]
    BY <1>1, <1>2
  <2>2. \A c \in forced \cup {e} : c[2] <= pushed'[c[1]]
    BY <1>2, <1>5, <1>6, <1>7, <2>1
  <2>3. forced' \subseteq forced \cup {e} /\ IsFiniteSet(forced')
    BY <1>1, <1>5, <1>8
  <2> QED
    BY <2>2, <2>3 DEF ForcedWerePushed
<1>10. BoundRespected'
  <2>1. /\ Cardinality(Enqueuing) \in Nat /\ Cardinality(Producers) \in Nat /\ available \in Nat
        /\ MaxSize \in Nat /\ IsFiniteSet(Enqueuing)
    BY CountsAreFinite, QueueAssumption DEF TypeOK, QueueAssumption
  <2>2. Enqueuing' = {q \in Producers : stage'[q] = "enqueue"}
    BY DEF Enqueuing
  <2>3. CASE enabled_ /\ force
    <3>1. Enqueuing' = Enqueuing \cup {p} /\ p \notin Enqueuing
      BY <1>1, <1>2, <2>2, <2>3 DEF Enqueuing
    <3>2. Cardinality(Enqueuing') = Cardinality(Enqueuing) + 1
      BY <2>1, <3>1, FS_AddElement
    <3>3. Cardinality(forced') = Cardinality(forced) + 1
      BY <1>1, <1>8, <2>3
    <3> QED
      BY <1>1, <1>5, <2>1, <3>2, <3>3, BoundByEnqueuing DEF CountInv
  <2>4. CASE ~(enabled_ /\ force) /\ MaxSize > 0
    <3>1. Enqueuing' = Enqueuing
      BY <1>1, <1>2, <2>2, <2>4 DEF Enqueuing
    <3> QED
      BY <1>1, <2>1, <2>4, <3>1, BoundByEnqueuing DEF CountInv
  <2> QED
    BY <2>1, <2>3, <2>4, BoundByEnqueuing
<1>11. StopOrder' /\ ClearCatchesUp'
  <2>1. CASE enabled_
    BY <1>1, <2>1 DEF CountInv, StopOrder, ClearCatchesUp
  <2>2. CASE ~enabled_
    <3>1. Held' = Held
      <4>1. \A q \in Producers : stage[q] # "idle" => pushed'[q] = pushed[q]
        BY <1>1, <1>2
      <4> QED
        BY <1>1, <2>2, <4>1 DEF Held, InHand
    <3> QED
      BY <1>1, <1>3, <3>1 DEF CountInv, StopOrder, ClearCatchesUp
  <2> QED
    BY <2>1, <2>2
<1> QED
  BY <1>4, <1>9, <1>10, <1>11 DEF CountInv

(* A push that measures the queue goes on only if there is room. *)
LEMMA PushMeasuresCount ==
    ASSUME TypeOK, OrderInv, CountInv, NEW p \in Producers, PushMeasures(p)
    PROVE  CountInv'
<1>1. /\ UNCHANGED <<stack, available, stopper, thread, enabled_, enabledLate, straggling, remaining,
                     pushed, forced>>
      /\ stage[p] = "measure"
      /\ \/ available < MaxSize /\ stage' = [stage EXCEPT ![p] = "enqueue"]
         \/ stage' = [stage EXCEPT ![p] = "evict"] \/ stage' = [stage EXCEPT ![p] = "idle"]
  BY DEF PushMeasures, HasRoom, queueVars, drainVars, stopVars, marks
<1>2. stage \in [Producers -> Stages] /\ available \in Nat /\ MaxSize \in Nat
  BY QueueAssumption DEF TypeOK, QueueAssumption
<1>3. Queued' = Queued
  BY PushMeasuresOrder
<1>4. OnlyTopTakes' /\ SemaphoreCounts'
  BY <1>1, <1>3, SemaphoreStays
<1>5. StopOrder' /\ ClearCatchesUp'
  <2>1. \A q \in Producers : stage'[q] # "idle" => stage[q] # "idle"
    BY <1>1, <1>2
  <2>2. Cardinality(Held') <= Cardinality(Held) /\ Cardinality(Held') \in Nat /\ Cardinality(Held) \in Nat
    BY <1>1, <2>1, HeldShrinks, CountsAreFinite
  <2>3. IsFiniteSet(Queued) /\ Cardinality(Queued) \in Nat
    BY FS_CardinalityType DEF CountInv, SemaphoreCounts
  <2>4. Cardinality(Queued') + Cardinality(Held') <= Cardinality(Queued) + Cardinality(Held)
    BY <1>3, <2>2, <2>3
  <2>5. thread # "running" => stack' = <<>>
    BY <1>1 DEF CountInv, StopOrder
  <2> QED
    BY <1>1, <1>3, <2>1, <2>3, <2>4, <2>5, StopStays
<1>6. BoundRespected'
  <2>1. Cardinality(forced) \in Nat
    BY FS_CardinalityType DEF CountInv, ForcedWerePushed
  <2>2. Enqueuing' = {q \in Producers : stage'[q] = "enqueue"}
    BY DEF Enqueuing
  <2>3. CASE available < MaxSize /\ stage' = [stage EXCEPT ![p] = "enqueue"]
    <3>1. Enqueuing' \in SUBSET Producers /\ IsFiniteSet(Producers)
      BY <2>2, QueueAssumption DEF QueueAssumption
    <3>2. Cardinality(Enqueuing') <= Cardinality(Producers) /\ Cardinality(Enqueuing') \in Nat
          /\ Cardinality(Producers) \in Nat
      BY <3>1, FS_Subset, FS_CardinalityType
    <3> QED
      BY <1>1, <1>2, <2>1, <2>3, <3>2, BoundByEnqueuing
  <2>4. CASE stage' = [stage EXCEPT ![p] = "evict"] \/ stage' = [stage EXCEPT ![p] = "idle"]
    <3>1. Enqueuing' = Enqueuing
      BY <1>1, <1>2, <2>2, <2>4 DEF Enqueuing
    <3> QED
      BY <1>1, <3>1, BoundByEnqueuing DEF CountInv
  <2> QED
    BY <1>1, <2>3, <2>4
<1> QED
  BY <1>1, <1>4, <1>5, <1>6 DEF CountInv, ForcedWerePushed

(* A push that found the queue full drops a call, if there still is one. *)
LEMMA PushEvictsCount ==
    ASSUME TypeOK, OrderInv, CountInv, NEW p \in Producers, PushEvicts(p)
    PROVE  CountInv'
<1>1. /\ UNCHANGED <<stack, ran, stopper, thread, enabled_, enabledLate, straggling, remaining,
                     pushed, forced>>
      /\ stage[p] = "evict" /\ stage' = [stage EXCEPT ![p] = "enqueue"]
  BY DEF PushEvicts, drainVars, stopVars, marks
<1>2. stage \in [Producers -> Stages] /\ available \in Nat /\ MaxSize \in Nat
  BY QueueAssumption DEF TypeOK, QueueAssumption
<1>3. \A q \in Producers : stage'[q] # "idle" => stage[q] # "idle"
  BY <1>1, <1>2
<1>4. Cardinality(Held') <= Cardinality(Held) /\ Cardinality(Held') \in Nat /\ Cardinality(Held) \in Nat
  BY <1>1, <1>3, HeldShrinks, CountsAreFinite
<1>5. IsFiniteSet(Queued) /\ Cardinality(Queued) \in Nat
  BY FS_CardinalityType DEF CountInv, SemaphoreCounts
<1>6. thread # "running" => stack' = <<>>
  BY <1>1 DEF CountInv, StopOrder
<1>7. /\ Cardinality(Enqueuing') = Cardinality(Enqueuing) + 1
      /\ Cardinality(Enqueuing') <= Cardinality(Producers)
      /\ Cardinality(Enqueuing) \in Nat /\ Cardinality(Producers) \in Nat
  <2>1. Enqueuing' = {q \in Producers : stage'[q] = "enqueue"}
    BY DEF Enqueuing
  <2>2. Enqueuing' = Enqueuing \cup {p} /\ p \notin Enqueuing /\ Enqueuing' \in SUBSET Producers
    BY <1>1, <1>2, <2>1 DEF Enqueuing
  <2>3. IsFiniteSet(Producers)
    BY QueueAssumption DEF QueueAssumption
  <2>4. Cardinality(Enqueuing') = Cardinality(Enqueuing) + 1
    BY <2>2, CountsAreFinite, FS_AddElement
  <2>5. Cardinality(Enqueuing') <= Cardinality(Producers)
    BY <2>2, <2>3, FS_Subset
  <2> QED
    BY <2>4, <2>5, CountsAreFinite
<1>8. ForcedWerePushed' /\ Cardinality(forced) \in Nat
  BY <1>1, FS_CardinalityType DEF CountInv, ForcedWerePushed
<1>9. CASE available = 0
  <2>1. UNCHANGED <<queue_, available, lost>>
    BY <1>9 DEF PushEvicts
  <2>2. Queued' = Queued
    BY <2>1 DEF Queued, Elements
  <2>3. OnlyTopTakes' /\ SemaphoreCounts'
    BY <1>1, <2>1, <2>2, SemaphoreStays
  <2>4. StopOrder' /\ ClearCatchesUp'
    BY <1>1, <1>3, <1>4, <1>5, <1>6, <2>2, StopStays
  <2>5. BoundRespected'
    BY <1>1, <1>2, <1>7, <1>8, <1>9, <2>1, BoundByEnqueuing
  <2> QED
    BY <1>8, <2>3, <2>4, <2>5 DEF CountInv
<1>10. CASE available # 0
  <2>1. PICK q \in Producers : /\ queue_[q] # <<>>
                               /\ queue_' = [queue_ EXCEPT ![q] = Tail(@)]
                               /\ available' = available - 1
                               /\ lost' = lost \cup {Head(queue_[q])}
    BY <1>10 DEF PushEvicts
  <2>2. Queued' = Queued \ {Head(queue_[q])} /\ Head(queue_[q]) \in Queued
    BY <1>1, <1>3, <2>1, GivenUpOrder
  <2>3. IsFiniteSet(Queued') /\ Cardinality(Queued') = Cardinality(Queued) - 1
    BY <1>5, <2>2, FS_RemoveElement
  <2>4. OnlyTopTakes' /\ SemaphoreCounts'
    <3>1. Reserved' = Reserved /\ OnlyTopTakes'
      BY <1>1 DEF CountInv, OnlyTopTakes, Reserved, Top
    <3>2. Cardinality(Queued) = available + Reserved /\ Reserved \in Nat
      <4>1. stack # <<>> => Top.reserved \in Nat
        BY FramesAreTyped DEF Frames
      <4> QED
        BY <4>1 DEF CountInv, SemaphoreCounts, Reserved
    <3> QED
      BY <1>2, <2>1, <2>3, <3>1, <3>2 DEF SemaphoreCounts
  <2>5. Cardinality(Queued') + Cardinality(Held') <= Cardinality(Queued) + Cardinality(Held)
    BY <1>4, <1>5, <2>3
  <2>6. StopOrder' /\ ClearCatchesUp'
    BY <1>1, <1>3, <1>5, <1>6, <2>3, <2>5, StopStays
  <2>7. BoundRespected'
    BY <1>1, <1>2, <1>7, <1>8, <2>1, BoundByEnqueuing DEF CountInv
  <2> QED
    BY <1>8, <2>4, <2>6, <2>7 DEF CountInv
<1> QED
  BY <1>9, <1>10

(* A push that enqueues is counted as waiting where it was counted as about to. *)
LEMMA PushEnqueuesCount ==
    ASSUME TypeOK, OrderInv, CountInv, NEW p \in Producers, PushEnqueues(p)
    PROVE  CountInv'
<1>1. /\ UNCHANGED <<stack, stopper, thread, enabled_, enabledLate, straggling, remaining, pushed,
                     forced>>
      /\ stage[p] = "enqueue" /\ stage' = [stage EXCEPT ![p] = "idle"]
      /\ available' = available + 1
  BY DEF PushEnqueues, drainVars, stopVars, marks
<1>2. stage \in [Producers -> Stages] /\ available \in Nat /\ MaxSize \in Nat
  BY QueueAssumption DEF TypeOK, QueueAssumption
<1>3. \A q \in Producers : stage'[q] # "idle" => stage[q] # "idle"
  BY <1>1, <1>2
<1>4. IsFiniteSet(Queued) /\ Cardinality(Queued) \in Nat
  BY FS_CardinalityType DEF CountInv, SemaphoreCounts
<1>5. IsFiniteSet(Queued') /\ Cardinality(Queued') = Cardinality(Queued) + 1
  <2>1. Queued' = Queued \cup {InHand(p)} /\ InHand(p) \notin Queued
    BY PushEnqueuesOrder DEF Placed
  <2> QED
    BY <1>4, <2>1, FS_AddElement
<1>6. Cardinality(Held') = Cardinality(Held) - 1 /\ Cardinality(Held) \in Nat
  BY <1>1, HeldLoses, CountsAreFinite
<1>7. OnlyTopTakes' /\ SemaphoreCounts'
  <2>1. Reserved' = Reserved /\ OnlyTopTakes'
    BY <1>1 DEF CountInv, OnlyTopTakes, Reserved, Top
  <2>2. Cardinality(Queued) = available + Reserved /\ Reserved \in Nat
    <3>1. stack # <<>> => Top.reserved \in Nat
      BY FramesAreTyped DEF Frames
    <3> QED
      BY <3>1 DEF CountInv, SemaphoreCounts, Reserved
  <2> QED
    BY <1>1, <1>2, <1>5, <2>1, <2>2 DEF SemaphoreCounts
<1>8. StopOrder' /\ ClearCatchesUp'
  <2>1. Cardinality(Queued') + Cardinality(Held') <= Cardinality(Queued) + Cardinality(Held)
    BY <1>4, <1>5, <1>6
  <2>2. thread # "running" => stack' = <<>>
    BY <1>1 DEF CountInv, StopOrder
  <2> QED
    BY <1>1, <1>3, <1>4, <1>5, <2>1, <2>2, StopStays
<1>9. BoundRespected'
  <2>1. Enqueuing' = {q \in Producers : stage'[q] = "enqueue"}
    BY DEF Enqueuing
  <2>2. Enqueuing' = Enqueuing \ {p} /\ p \in Enqueuing
    BY <1>1, <1>2, <2>1 DEF Enqueuing
  <2>3. Cardinality(Enqueuing') = Cardinality(Enqueuing) - 1
    BY <2>2, CountsAreFinite, FS_RemoveElement
  <2>4. Cardinality(forced) \in Nat
    BY FS_CardinalityType DEF CountInv, ForcedWerePushed
  <2> QED
    BY <1>1, <1>2, <2>3, <2>4, CountsAreFinite, BoundByEnqueuing DEF CountInv
<1> QED
  BY <1>1, <1>7, <1>8, <1>9 DEF CountInv, ForcedWerePushed

(* A step of the component's thread that neither pushes nor stops: the rest of the counts. *)
LEMMA DrainKeepsTheRest ==
    ASSUME TypeOK, CountInv, thread = "running",
           UNCHANGED <<stage, pushed, forced, stopper, thread, enabled_, enabledLate, straggling,
                       remaining>>,
           available' \in Nat, available' <= available
    PROVE  ForcedWerePushed' /\ StopOrder' /\ ClearCatchesUp' /\ BoundRespected'
<1>1. stopper \notin {"clearing", "done"}
  BY DrainersRun
<1>2. Held' = Held
  BY DEF Held, InHand
<1>3. StopOrder' /\ ClearCatchesUp'
  BY <1>1, <1>2 DEF CountInv, StopOrder, ClearCatchesUp
<1>4. BoundRespected'
  <2>1. Enqueuing' = Enqueuing
    BY DEF Enqueuing
  <2>2. Cardinality(forced) \in Nat /\ available \in Nat /\ MaxSize \in Nat
    BY FS_CardinalityType, QueueAssumption DEF CountInv, ForcedWerePushed, TypeOK, QueueAssumption
  <2> QED
    BY <2>1, <2>2, CountsAreFinite, BoundByEnqueuing DEF CountInv
<1> QED
  BY <1>3, <1>4 DEF CountInv, ForcedWerePushed

(* The semaphore's count and what is reserved. *)
LEMMA SemaphoreParts ==
    ASSUME TypeOK, CountInv
    PROVE  /\ Reserved \in Nat /\ available \in Nat
           /\ IsFiniteSet(Queued) /\ Cardinality(Queued) = available + Reserved
<1>1. stack # <<>> => Top.reserved \in Nat
  BY FramesAreTyped DEF Frames
<1> QED
  BY <1>1 DEF TypeOK, CountInv, SemaphoreCounts, Reserved

(* A drain begins with nothing reserved. *)
LEMMA DrainBeginsCount ==
    ASSUME TypeOK, OrderInv, CountInv, ExecuteAll \/ WaitExecute
    PROVE  CountInv'
<1>1. /\ UNCHANGED <<stage, pushed, forced, stopper, thread, enabled_, enabledLate, straggling,
                     remaining, available>>
      /\ thread = "running" /\ (stack # <<>> => Top.phase = "inCall")
  BY DEF ExecuteAll, WaitExecute, MayDrain, queueVars, pushVars, stopVars, marks
<1>2. /\ stack' # <<>> /\ Len(stack') = Len(stack) + 1
      /\ \A i \in 1..Len(stack) : stack'[i] = stack[i]
      /\ stack'[Len(stack) + 1].reserved = 0
      /\ Queued' = Queued
  BY DrainBegins
<1>3. Len(stack) \in Nat /\ (stack # <<>> => Len(stack) > 0)
  BY FramesAreTyped
<1>4. stack # <<>> => Top.reserved = 0
  BY <1>1, <1>3 DEF CountInv, OnlyTopTakes, Top
<1>5. \A i \in 1..Len(stack) : stack[i].reserved = 0
  <2>1. \A i \in 1..Len(stack) : i < Len(stack) \/ i = Len(stack)
    BY <1>3
  <2>2. stack = <<>> => Len(stack) = 0
    OBVIOUS
  <2> QED
    BY <1>3, <1>4, <2>1, <2>2 DEF CountInv, OnlyTopTakes, Top
<1>6. OnlyTopTakes'
  <2>1. \A i \in 1..Len(stack) + 1 : stack'[i].reserved = 0
    <3>1. \A i \in 1..Len(stack) + 1 : i \in 1..Len(stack) \/ i = Len(stack) + 1
      BY <1>3
    <3> QED
      BY <1>2, <1>5, <3>1
  <2> QED
    BY <1>2, <2>1 DEF OnlyTopTakes
<1>7. SemaphoreCounts'
  BY <1>1, <1>2, <1>4 DEF CountInv, SemaphoreCounts, Reserved, Top
<1>8. available \in Nat
  BY DEF TypeOK
<1> QED
  BY <1>1, <1>6, <1>7, <1>8, DrainKeepsTheRest DEF CountInv

(* A drain reserves: the count moves from the semaphore to the drain. *)
LEMMA ReserveCount ==
    ASSUME TypeOK, OrderInv, CountInv, Reserve
    PROVE  CountInv'
<1> DEFINE n == Reservable
           f == [Top EXCEPT !.phase = "running", !.room = 0, !.reserved = n]
<1>1. /\ UNCHANGED <<queue_, stage, pushed, forced, stopper, thread, enabled_, enabledLate,
                     straggling, remaining>>
      /\ stack # <<>> /\ Top.phase = "sized"
      /\ available' = available - n /\ stack' = Append(Below, f)
  BY DEF Reserve, pushVars, stopVars, marks
<1>2. Top \in Frames /\ Top.room \in Nat /\ available \in Nat /\ Len(stack) \in Nat \ {0}
  BY <1>1, FramesAreTyped DEF Frames, TypeOK
<1>3. n \in Nat /\ n <= available
  BY <1>2, MaxMin DEF Reservable
<1> HIDE DEF n
<1>4. f \in Frames /\ f.phase = "running" /\ f.reserved = n
  BY <1>2, <1>3 DEF Frames
<1> HIDE DEF f
<1>5. OnlyTopTakes' /\ Reserved' = n /\ Reserved = Top.reserved
  BY <1>1, <1>4, TopTakes DEF CountInv
<1>6. Top.reserved = 0
  BY <1>1, <1>2 DEF CountInv, OnlyTopTakes, Top
<1>7. Queued' = Queued
  BY <1>1 DEF Queued, Elements
<1>8. SemaphoreCounts'
  BY <1>1, <1>2, <1>3, <1>5, <1>6, <1>7 DEF CountInv, SemaphoreCounts
<1>9. thread = "running" /\ available' \in Nat /\ available' <= available
  BY <1>1, <1>2, <1>3, DrainersRun
<1> QED
  BY <1>1, <1>5, <1>8, <1>9, DrainKeepsTheRest DEF CountInv

(* A drain takes one of what it reserved. *)
LEMMA TakeCount ==
    ASSUME TypeOK, OrderInv, CountInv, Take
    PROVE  CountInv'
<1>1. /\ UNCHANGED <<available, stage, pushed, forced, stopper, thread, enabled_, enabledLate,
                     straggling, remaining>>
      /\ stack # <<>> /\ Top.reserved > 0 /\ Top.phase = "running"
  BY DEF Take, pushVars, stopVars, marks
<1>2. PICK q \in Producers :
        /\ queue_[q] # <<>>
        /\ stack' = Append(Below, [Top EXCEPT !.reserved = @ - 1,
                                               !.buffer = Append(@, Head(queue_[q]))])
  BY DEF Take
<1> DEFINE m == Top.reserved - 1
           b == Append(Top.buffer, Head(queue_[q]))
           f == [Top EXCEPT !.reserved = m, !.buffer = b]
<1>3. Top \in Frames /\ Top.reserved \in Nat /\ Top.buffer \in Seq(Calls) /\ available \in Nat
  BY <1>1, FramesAreTyped DEF Frames, TypeOK
<1>4. m \in Nat
  BY <1>1, <1>3
<1>5. b \in Seq(Calls)
  <2>1. queue_[q] \in Seq(Calls)
    BY DEF TypeOK
  <2>2. Head(queue_[q]) \in Calls
    BY <1>2, <2>1, TailElements
  <2> QED
    BY <1>3, <2>2, AppendElements
<1>6. stack' = Append(Below, f)
  BY <1>2
<1>7. m = Top.reserved - 1
  OBVIOUS
<1> HIDE DEF m, b
<1>8. f \in Frames /\ f.phase = Top.phase /\ f.reserved = m
  BY <1>3, <1>4, <1>5 DEF Frames
<1> HIDE DEF f
<1>9. OnlyTopTakes' /\ Reserved' = m /\ Reserved = Top.reserved
  BY <1>1, <1>6, <1>8, TopTakes DEF CountInv
<1>10. \E h \in Queued : Queued' = Queued \ {h}
  BY TakeOrder
<1>11. IsFiniteSet(Queued') /\ Cardinality(Queued') = Cardinality(Queued) - 1
  BY <1>10, SemaphoreParts, FS_RemoveElement
<1>12. SemaphoreCounts'
  BY <1>1, <1>3, <1>7, <1>9, <1>11, SemaphoreParts DEF SemaphoreCounts
<1>13. thread = "running"
  BY <1>1, DrainersRun
<1> QED
  BY <1>1, <1>3, <1>9, <1>12, <1>13, DrainKeepsTheRest DEF CountInv

(* Running a call, and its return, reserve and take nothing. *)
LEMMA CallCount ==
    ASSUME TypeOK, OrderInv, CountInv, RunCall \/ CallReturns
    PROVE  CountInv'
<1>1. /\ UNCHANGED <<queue_, available, stage, pushed, forced, stopper, thread, enabled_,
                     enabledLate, straggling, remaining>>
      /\ stack # <<>>
  BY DEF RunCall, HasCall, CallReturns, queueVars, pushVars, stopVars, marks
<1>2. Top \in Frames /\ available \in Nat /\ Len(stack) \in Nat \ {0}
  BY <1>1, FramesAreTyped DEF TypeOK
<1>3. Top.reserved = 0
  BY <1>2 DEF CountInv, OnlyTopTakes, Top, RunCall, HasCall, CallReturns
<1>4. PICK f : f \in Frames /\ f.reserved = 0 /\ stack' = Append(Below, f)
  <2>1. CASE RunCall
    <3> DEFINE b == Tail(Top.buffer)
    <3>1. /\ stack' = Append(Below, [Top EXCEPT !.phase = "inCall", !.buffer = b])
          /\ Top.buffer # <<>>
      BY <2>1 DEF RunCall, FirstCall, HasCall
    <3>2. b \in Seq(Calls)
      BY <1>2, <3>1, TailElements DEF Frames
    <3> HIDE DEF b
    <3> QED
      BY <1>2, <1>3, <3>1, <3>2 DEF Frames
  <2>2. CASE CallReturns
    BY <1>2, <1>3, <2>2 DEF CallReturns, Frames
  <2> QED
    BY <2>1, <2>2
<1>5. OnlyTopTakes' /\ Reserved' = 0 /\ Reserved = 0
  BY <1>1, <1>3, <1>4, TopTakes DEF CountInv
<1>6. Queued' = Queued
  BY <1>1 DEF Queued, Elements
<1>7. SemaphoreCounts'
  BY <1>1, <1>5, <1>6 DEF CountInv, SemaphoreCounts
<1>8. thread = "running"
  BY <1>1, DrainersRun
<1> QED
  BY <1>1, <1>2, <1>5, <1>7, <1>8, DrainKeepsTheRest DEF CountInv

(* A drain that returns has taken all it reserved, and the one around it had too. *)
LEMMA DrainReturnsCount ==
    ASSUME TypeOK, OrderInv, CountInv, DrainReturns
    PROVE  CountInv'
<1>1. /\ UNCHANGED <<queue_, available, stage, pushed, forced, stopper, thread, enabled_,
                     enabledLate, straggling, remaining>>
      /\ stack # <<>> /\ Top.reserved = 0
  BY DEF DrainReturns, HasNoCall, queueVars, pushVars, stopVars, marks
<1>2. /\ Len(stack') = Len(stack) - 1 /\ stack' \in Seq(Frames)
      /\ \A i \in 1..Len(stack) - 1 : stack'[i] = stack[i]
      /\ Queued' = Queued
  BY DrainReturnsOrder
<1>3. Len(stack) \in Nat \ {0} /\ available \in Nat
  BY <1>1, FramesAreTyped DEF TypeOK
<1>4. \A i \in 1..Len(stack) - 1 : stack'[i].reserved = 0
  BY <1>2, <1>3 DEF CountInv, OnlyTopTakes
<1>5. OnlyTopTakes'
  BY <1>2, <1>4 DEF OnlyTopTakes
<1>6. stack' # <<>> => Len(stack') > 0
  BY <1>2, EmptySeq, LenProperties
<1>7. Reserved' = 0 /\ Reserved = 0
  BY <1>1, <1>2, <1>3, <1>4, <1>6 DEF Reserved, Top
<1>8. SemaphoreCounts'
  BY <1>1, <1>2, <1>7 DEF CountInv, SemaphoreCounts
<1>9. thread = "running"
  BY <1>1, DrainersRun
<1> QED
  BY <1>1, <1>3, <1>5, <1>8, <1>9, DrainKeepsTheRest DEF CountInv

(* What the thread and the stop do to their own state leaves the other counts alone. *)
LEMMA StopKeepsTheRest ==
    ASSUME CountInv, UNCHANGED <<queue_, available, stack, stage, pushed, forced>>
    PROVE  /\ OnlyTopTakes' /\ SemaphoreCounts' /\ ForcedWerePushed' /\ BoundRespected'
           /\ Queued' = Queued /\ Held' = Held
<1>1. Queued' = Queued /\ Held' = Held
  BY DEF Queued, Elements, Held, InHand
<1>2. OnlyTopTakes' /\ SemaphoreCounts'
  BY <1>1, SemaphoreStays
<1> QED
  BY <1>1, <1>2 DEF CountInv, ForcedWerePushed, BoundRespected

(* With no drain in progress all that is queued is counted by the semaphore. *)
LEMMA EndedCounts ==
    ASSUME TypeOK, CountInv, thread = "ended"
    PROVE  Cardinality(Queued) = available
<1>1. stack = <<>>
  BY DEF CountInv, StopOrder
<1> QED
  BY <1>1, SemaphoreParts DEF Reserved

(* The thread and the stop. *)
LEMMA StopCount ==
    ASSUME TypeOK, OrderInv, CountInv,
           Enable \/ ThreadEnds \/ Disable \/ SetStopFlag \/ ClearBegins \/ ClearEnds
    PROVE  CountInv'
<1> USE DEF queueVars, pushVars, drainVars, marks
<1>1. UNCHANGED <<queue_, available, stack, stage, pushed, forced>>
  BY DEF Enable, ThreadEnds, Disable, SetStopFlag, ClearBegins, ClearEnds
<1>2. /\ OnlyTopTakes' /\ SemaphoreCounts' /\ ForcedWerePushed' /\ BoundRespected'
      /\ Queued' = Queued /\ Held' = Held
  BY <1>1, StopKeepsTheRest
<1>3. /\ Cardinality(Queued) \in Nat /\ IsFiniteSet(Held) /\ Cardinality(Held) \in Nat
      /\ IsFiniteSet(straggling) /\ Cardinality(straggling) \in Nat /\ remaining \in Nat
      /\ available \in Nat
  BY SemaphoreParts, CountsAreFinite, FS_CardinalityType DEF TypeOK, CountInv, StopOrder
<1>4. (stopper # "none" /\ ~enabledLate) => Cardinality(Held) <= Cardinality(straggling)
  BY <1>3, FS_Subset DEF CountInv, StopOrder
<1>5. CASE Enable
  BY <1>2, <1>5 DEF Enable, CountInv, StopOrder, ClearCatchesUp
<1>6. CASE ThreadEnds
  BY <1>2, <1>6 DEF ThreadEnds, CountInv, StopOrder, ClearCatchesUp
<1>7. CASE Disable
  BY <1>2, <1>3, <1>7 DEF Disable, CountInv, StopOrder, ClearCatchesUp
<1>8. CASE SetStopFlag
  BY <1>2, <1>8 DEF SetStopFlag, CountInv, StopOrder, ClearCatchesUp
<1>9. CASE ClearBegins
  <2>1. StopOrder'
    BY <1>2, <1>9 DEF ClearBegins, CountInv, StopOrder
  <2>2. Cardinality(Queued) = available
    BY <1>9, EndedCounts DEF ClearBegins
  <2>3. ClearCatchesUp'
    BY <1>2, <1>3, <1>4, <1>9, <2>2 DEF ClearBegins, ClearCatchesUp
  <2> QED
    BY <1>2, <2>1, <2>3 DEF CountInv
<1>10. CASE ClearEnds
  <2>1. StopOrder'
    BY <1>2, <1>10 DEF ClearEnds, CountInv, StopOrder
  <2>2. thread = "ended"
    BY <1>10 DEF ClearEnds, CountInv, StopOrder
  <2>3. Cardinality(Queued) = available
    BY <2>2, EndedCounts
  <2>4. ClearCatchesUp'
    BY <1>2, <1>3, <1>4, <1>10, <2>3 DEF ClearEnds, CountInv, ClearCatchesUp
  <2> QED
    BY <1>2, <2>1, <2>4 DEF CountInv
<1> QED
  BY <1>5, <1>6, <1>7, <1>8, <1>9, <1>10

(* clear() removes one of those it counted. *)
LEMMA ClearOneCount ==
    ASSUME TypeOK, OrderInv, CountInv, ClearOne
    PROVE  CountInv'
<1>1. /\ UNCHANGED <<stack, ran, stage, pushed, forced, stopper, thread, enabled_, enabledLate,
                     straggling>>
      /\ stopper = "clearing" /\ remaining > 0 /\ available > 0
      /\ available' = available - 1 /\ remaining' = remaining - 1
  BY DEF ClearOne, pushVars, drainVars, marks
<1>2. PICK q \in Producers : /\ queue_[q] # <<>>
                             /\ queue_' = [queue_ EXCEPT ![q] = Tail(@)]
                             /\ lost' = lost \cup {Head(queue_[q])}
  BY DEF ClearOne
<1>3. Queued' = Queued \ {Head(queue_[q])} /\ Head(queue_[q]) \in Queued
  BY <1>1, <1>2, GivenUpOrder
<1>4. IsFiniteSet(Queued') /\ Cardinality(Queued') = Cardinality(Queued) - 1
  BY <1>3, SemaphoreParts, FS_RemoveElement
<1>5. Reserved' = Reserved /\ OnlyTopTakes'
  BY <1>1 DEF CountInv, OnlyTopTakes, Reserved, Top
<1>6. SemaphoreCounts'
  BY <1>1, <1>4, <1>5, SemaphoreParts DEF SemaphoreCounts
<1>7. Held' = Held /\ Enqueuing' = Enqueuing
  BY <1>1 DEF Held, InHand, Enqueuing
<1>8. StopOrder'
  BY <1>1, <1>7 DEF CountInv, StopOrder
<1>9. /\ Cardinality(Queued) \in Nat /\ Cardinality(Held) \in Nat /\ remaining \in Nat
      /\ Cardinality(straggling) \in Nat
  BY SemaphoreParts, CountsAreFinite, FS_CardinalityType DEF TypeOK, CountInv, StopOrder
<1>10. ClearCatchesUp'
  BY <1>1, <1>4, <1>7, <1>9 DEF CountInv, ClearCatchesUp
<1>11. BoundRespected'
  <2>1. Cardinality(forced) \in Nat /\ MaxSize \in Nat
    BY FS_CardinalityType, QueueAssumption DEF CountInv, ForcedWerePushed, QueueAssumption
  <2> QED
    BY <1>1, <1>7, <2>1, SemaphoreParts, CountsAreFinite, BoundByEnqueuing DEF CountInv
<1> QED
  BY <1>1, <1>5, <1>6, <1>8, <1>10, <1>11 DEF CountInv, ForcedWerePushed

(* Nothing is counted at first. *)
LEMMA CountInit == Init => CountInv
<1> SUFFICES ASSUME Init PROVE CountInv
  OBVIOUS
<1>1. Queued = {} /\ Held = {} /\ Enqueuing = {}
  BY DEF Init, Queued, Elements, Held, Enqueuing
<1>2. OnlyTopTakes /\ SemaphoreCounts /\ ForcedWerePushed
  BY <1>1, FS_EmptySet DEF Init, OnlyTopTakes, SemaphoreCounts, Reserved, ForcedWerePushed
<1>3. StopOrder /\ ClearCatchesUp
  BY <1>1, FS_EmptySet DEF Init, StopOrder, ClearCatchesUp
<1>4. MaxSize \in Nat /\ Cardinality(Producers) \in Nat
  BY QueueAssumption, FS_CardinalityType DEF QueueAssumption
<1>5. BoundRespected
  BY <1>1, <1>4, FS_EmptySet, BoundByEnqueuing DEF Init
<1> QED
  BY <1>2, <1>3, <1>5 DEF CountInv

(* The queue keeps its bound, up to the pushes that measured it together and those made with force, *)
(* and a stop leaves no more in it than was being pushed when it began (work_queue.cpp: push, clear; *)
(* runner.cpp: stopThread), for any number of producers, any bound and any depth of drains.          *)
THEOREM QueueStaysSound == Spec => []QueueIsSound
<1>1. TypeOK /\ OrderInv /\ CountInv /\ [Next]_vars => CountInv'
  <2> SUFFICES ASSUME TypeOK, OrderInv, CountInv, [Next]_vars PROVE CountInv'
    OBVIOUS
  <2>1. CASE UNCHANGED vars
    <3>1. UNCHANGED <<queue_, available, stack, stage, pushed, forced, stopper, thread, enabled_,
                      enabledLate, straggling, remaining>>
      BY <2>1 DEF vars, queueVars, pushVars, drainVars, marks, stopVars
    <3>2. StopOrder' /\ ClearCatchesUp'
      BY <3>1, StopKeepsTheRest DEF CountInv, StopOrder, ClearCatchesUp
    <3> QED
      BY <3>1, <3>2, StopKeepsTheRest DEF CountInv
  <2>2. CASE Next
    BY <2>2, PushEntersCount, PushMeasuresCount, PushEvictsCount, PushEnqueuesCount,
       DrainBeginsCount, ReserveCount, TakeCount, CallCount, DrainReturnsCount, StopCount,
       ClearOneCount DEF Next, Push, Drain, Stop
  <2> QED
    BY <2>1, <2>2
<1>2. TypeOK /\ CountInv => QueueIsSound
  <2> SUFFICES ASSUME TypeOK, CountInv PROVE QueueIsSound
    OBVIOUS
  <2>1. /\ Cardinality(Queued) \in Nat /\ Cardinality(Held) \in Nat
        /\ Cardinality(straggling) \in Nat
    BY SemaphoreParts, CountsAreFinite, FS_CardinalityType DEF CountInv, StopOrder
  <2>2. StopLeavesStragglers
    BY <2>1 DEF CountInv, ClearCatchesUp, StopLeavesStragglers
  <2> QED
    BY <2>2 DEF CountInv, QueueIsSound
<1> QED
  BY <1>1, <1>2, CountInit, OrderAlways, PTL DEF Spec

=============================================================================
