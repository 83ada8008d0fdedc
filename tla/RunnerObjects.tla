--------------------------- MODULE RunnerObjects ---------------------------
(***************************************************************************)
(* The objects a Runner drives (libs/kernel/src/runner.cpp and runner.h):  *)
(* registerObjects, unregisterObjects, the cycle's walks over them, and    *)
(* the LocalParticipants of the component the calls come through           *)
(* (bus/local_participant.cpp: add, remove).                               *)
(*                                                                         *)
(* Everything runs in the component's thread.  What makes it hard is that  *)
(* registered(), unregistered(), the commit and the pre-drain query of a   *)
(* registration, and every hook of the cycle are user code that may add    *)
(* and remove objects, start another walk, or throw, while the calls below *)
(* it on the stack still hold iterators, batches and cursors.  The stack   *)
(* is explicit: one frame per call in progress.                            *)
(*                                                                         *)
(* A std::list that only grows at its end is a set of nodes ordered by the *)
(* number each node got when it was created; a cursor is such a number.    *)
(* The members of a batch are taken in any order.                          *)
(***************************************************************************)
EXTENDS Integers, Sequences, FiniteSetsExt

CONSTANTS
    Objects,
    Owners,     \* the component's participants, each on a bus of its own
    AddedBy,    \* the participants an object is added to
    MaxCalls,   \* bound: calls made, and exceptions thrown, by user code
    MaxBatch,   \* bound: objects in one call
    MaxNumber,  \* bound: list nodes created
    None

ASSUME ObjectsAssumption ==
    /\ AddedBy \in [Objects -> SUBSET Owners] /\ IsFiniteSet(Owners)
    /\ MaxCalls \in Nat /\ MaxBatch \in Nat /\ MaxNumber \in Nat
    /\ None \notin Objects \union Owners

Lists == {"objects", "preDrain"}
End == 0

VARIABLES
    localObjectNames_,     \* per participant
    localPrefix,           \* the participant whose prefix an object's local name has, None for none
    nodes,                 \* objectsList_ and objectsThatNeedPreAndPostUpdateCalls_
    objectsMap_,           \* the serial of an object's registration, 0 if there is none
    objectCount_,
    registrationSerial_,   \* also numbers the nodes of both lists
    registrationTime,      \* whether the object has its stamp
    stack,                 \* the calls in progress, the innermost last
    calls,
    tornDown_,
    strayed                \* history: what came between an object and its participant: another
                           \* participant removed it, a throw left a call that was about it, it was
                           \* added again while its removal was under way, or its removal looked for
                           \* another name than it was added with

vars == <<localObjectNames_, localPrefix, nodes, objectsMap_, objectCount_, registrationSerial_,
          registrationTime, stack, calls, tornDown_, strayed>>

Init ==
    /\ localObjectNames_ = [p \in Owners |-> {}]
    /\ localPrefix = [o \in Objects |-> None]
    /\ nodes = [l \in Lists |-> {}]
    /\ objectsMap_ = [o \in Objects |-> 0]
    /\ objectCount_ = 0
    /\ registrationSerial_ = 0
    /\ registrationTime = [o \in Objects |-> FALSE]
    /\ stack = <<>>
    /\ calls = 0
    /\ tornDown_ = FALSE
    /\ strayed = {}

Numbers(l) == {n.number : n \in nodes[l]}

\* the next node of list l after number i, of those in the set
AfterIn(numbers, i) ==
    LET later == {j \in numbers : j > i} IN IF later = {} THEN End ELSE Min(later)

\* objectsMap_.find(o) != objectsMap_.end()
Registered(o) == objectsMap_[o] # 0

Top == stack[Len(stack)]
Below == SubSeq(stack, 1, Len(stack) - 1)
SetTop(frame) == stack' = Append(Below, frame)

Hooks == {"registered", "query", "unregistered", "driven"}

\* the component's own code is running: its run(), or a hook the runner called
InUserCode == stack # <<>> => Top.at \in Hooks

Call(frame) ==
    /\ InUserCode /\ calls < MaxCalls /\ ~tornDown_
    /\ calls' = calls + 1
    /\ stack' = Append(stack, frame)

Batches == {b \in SUBSET Objects : b # {} /\ Cardinality(b) <= MaxBatch}

----------------------------------------------------------------------------
(* LocalParticipant::add and Runner::registerObjects *)

BeingRemoved(o) == \E i \in 1..Len(stack) : stack[i].kind = "remove" /\ o \in stack[i].todo

\* a name that is taken is refused, the instance does not reach the runner and its prefix is
\* cleared, also that of an object this participant published before
Add(p, instances) ==
    LET accepted == {o \in instances : o \notin localObjectNames_[p]} IN
    /\ \A o \in instances : p \in AddedBy[o]
    /\ localObjectNames_' = [localObjectNames_ EXCEPT ![p] = @ \union accepted]
    /\ localPrefix' = [o \in Objects |-> IF o \in accepted THEN p
                                         ELSE IF o \in instances THEN None ELSE localPrefix[o]]
    /\ Call([kind |-> "add", owner |-> p, members |-> accepted, todo |-> accepted,
             cancelled |-> {}, obj |-> None, serial |-> 0, at |-> "next"])
    /\ strayed' = strayed \union ({o \in accepted : BeingRemoved(o)} \X {"readded"})
    /\ UNCHANGED <<nodes, objectsMap_, objectCount_, registrationSerial_, registrationTime,
                   tornDown_>>

InAdd(at) == stack # <<>> /\ Top.kind = "add" /\ Top.at = at

\* objectsMap_.emplace finds the object
AlreadyRegistered(o) == Registered(o)

\* the next member, up to its registered(): a cancelled one is passed over, and one that is
\* registered already is not registered again
RegisterNext(o) ==
    /\ InAdd("next") /\ o \in Top.todo
    /\ IF o \in Top.cancelled
         THEN /\ SetTop([Top EXCEPT !.todo = @ \ {o}])
              /\ UNCHANGED <<nodes, objectsMap_, objectCount_, registrationSerial_, registrationTime>>
         ELSE /\ registrationSerial_ < MaxNumber
              /\ registrationSerial_' = registrationSerial_ + 1
              /\ IF AlreadyRegistered(o)
                   THEN /\ SetTop([Top EXCEPT !.todo = @ \ {o}])
                        /\ UNCHANGED <<nodes, objectsMap_, objectCount_, registrationTime>>
                   ELSE /\ nodes' = [nodes EXCEPT !["objects"] =
                                       @ \union {[number |-> registrationSerial_', obj |-> o]}]
                        /\ objectsMap_' = [objectsMap_ EXCEPT ![o] = registrationSerial_']
                        /\ objectCount_' = objectCount_ + 1
                        /\ registrationTime' = [registrationTime EXCEPT ![o] = TRUE]
                        /\ SetTop([Top EXCEPT !.todo = @ \ {o}, !.obj = o,
                                              !.serial = registrationSerial_', !.at = "registered"])
    /\ UNCHANGED <<localObjectNames_, localPrefix, calls, tornDown_, strayed>>

\* the registration this frame made is still the object's
StillOurs == objectsMap_[Top.obj] = Top.serial

NextMember == [Top EXCEPT !.at = "next", !.obj = None, !.serial = 0]

\* registered() returns: on to the commit and the pre-drain query, unless the object is gone or
\* was registered anew
RegisteredReturns ==
    /\ InAdd("registered")
    /\ SetTop(IF StillOurs THEN [Top EXCEPT !.at = "query"] ELSE NextMember)
    /\ UNCHANGED <<localObjectNames_, localPrefix, nodes, objectsMap_, objectCount_, registrationSerial_,
                   registrationTime, calls, tornDown_, strayed>>

\* both returned, and the object wants the pre-drain calls or not
QueryReturns(wants) ==
    /\ InAdd("query")
    /\ SetTop(NextMember)
    /\ IF wants /\ StillOurs
         THEN /\ registrationSerial_ < MaxNumber
              /\ registrationSerial_' = registrationSerial_ + 1
              /\ nodes' = [nodes EXCEPT !["preDrain"] =
                             @ \union {[number |-> registrationSerial_', obj |-> Top.obj]}]
         ELSE UNCHANGED <<nodes, registrationSerial_>>
    /\ UNCHANGED <<localObjectNames_, localPrefix, objectsMap_, objectCount_, registrationTime, calls,
                   tornDown_, strayed>>

----------------------------------------------------------------------------
(* LocalParticipant::remove and Runner::unregisterObjects *)

\* the names that go are those the instances have now; every instance is handed on, also one this
\* participant never had
Remove(p, instances) ==
    LET named == {o \in instances : localPrefix[o] = p} IN
    /\ localObjectNames_' = [localObjectNames_ EXCEPT ![p] = @ \ named]
    /\ Call([kind |-> "remove", owner |-> p, todo |-> instances, obj |-> None, at |-> "next"])
    /\ strayed' = strayed \union (((instances \ named) \intersect localObjectNames_[p]) \X {"renamed"})
    /\ UNCHANGED <<localPrefix, nodes, objectsMap_, objectCount_, registrationSerial_,
                   registrationTime, tornDown_>>

InRemove(at) == stack # <<>> /\ Top.kind = "remove" /\ Top.at = at

\* mutant: the removal is filed with every batch that has the object
CancelAnywhere(frame, p, o) ==
    IF frame.kind = "add" /\ o \in frame.members
      THEN [frame EXCEPT !.cancelled = @ \union {o}]
      ELSE frame

\* a removal that finds no registration is filed with the batches its participant has in flight
Cancel(frame, p, o) ==
    IF frame.kind = "add" /\ frame.owner = p /\ o \in frame.members
      THEN [frame EXCEPT !.cancelled = @ \union {o}]
      ELSE frame

\* mutant: the cursors stay
StepNothing(frame, o) == frame

\* mutant: the walk is not told that its cursor was moved
StepUnnoticed(frame, o) ==
    IF frame.kind = "walk" /\ \E n \in nodes[frame.list] : n.obj = o /\ n.number = frame.cursor
      THEN [frame EXCEPT
              !.cursor = AfterIn({n.number : n \in {m \in nodes[frame.list] : m.obj # o}}, @)]
      ELSE frame

\* stepCursorsPast, for the nodes of object o in both lists
StepPast(frame, o) ==
    IF frame.kind = "walk" /\ \E n \in nodes[frame.list] : n.obj = o /\ n.number = frame.cursor
      THEN [frame EXCEPT
              !.cursor = AfterIn({n.number : n \in {m \in nodes[frame.list] : m.obj # o}}, @),
              !.stepped = TRUE]
      ELSE frame

\* the next member, up to its unregistered()
UnregisterNext(o) ==
    /\ InRemove("next") /\ o \in Top.todo
    /\ IF Registered(o)
         THEN /\ stack' = [i \in 1..Len(stack) |->
                             IF i = Len(stack)
                               THEN [Top EXCEPT !.todo = @ \ {o}, !.obj = o, !.at = "unregistered"]
                               ELSE StepPast(stack[i], o)]
              /\ nodes' = [l \in Lists |-> {n \in nodes[l] : n.obj # o}]
              /\ objectsMap_' = [objectsMap_ EXCEPT ![o] = 0]
              /\ objectCount_' = objectCount_ - 1
              /\ strayed' = IF \E p \in Owners \ {Top.owner} : o \in localObjectNames_[p]
                              THEN strayed \union {<<o, "other">>} ELSE strayed
         ELSE /\ stack' = [i \in 1..Len(stack) |->
                             IF i = Len(stack) THEN [Top EXCEPT !.todo = @ \ {o}]
                                               ELSE Cancel(stack[i], Top.owner, o)]
              /\ UNCHANGED <<nodes, objectsMap_, objectCount_, strayed>>
    /\ UNCHANGED <<localObjectNames_, localPrefix, registrationSerial_, registrationTime, calls, tornDown_>>

\* an object that was registered anew by its unregistered() keeps the new stamp
TimeAfterRemoval(o) ==
    IF Registered(o) THEN registrationTime ELSE [registrationTime EXCEPT ![o] = FALSE]

\* unregistered() returns
UnregisteredReturns ==
    /\ InRemove("unregistered")
    /\ registrationTime' = TimeAfterRemoval(Top.obj)
    /\ SetTop([Top EXCEPT !.at = "next", !.obj = None])
    /\ UNCHANGED <<localObjectNames_, localPrefix, nodes, objectsMap_, objectCount_, registrationSerial_, calls,
                   tornDown_, strayed>>

----------------------------------------------------------------------------
(* The walks: drainInputs and the first half of commit over the pre-drain list, update and the *)
(* second half of commit over all objects.  RunApi lets any hook start one.                     *)

Walk(l) ==
    /\ Call([kind |-> "walk", list |-> l, cursor |-> AfterIn(Numbers(l), 0), stepped |-> FALSE,
             due |-> Numbers(l), driven |-> {}, at |-> "next"])
    /\ UNCHANGED <<localObjectNames_, localPrefix, nodes, objectsMap_, objectCount_, registrationSerial_,
                   registrationTime, tornDown_, strayed>>

InWalk(at) == stack # <<>> /\ Top.kind = "walk" /\ Top.at = at

\* the hook of the object at the cursor is called
Drive ==
    /\ InWalk("next") /\ Top.cursor # End
    /\ SetTop([Top EXCEPT !.at = "driven", !.stepped = FALSE, !.driven = @ \union {Top.cursor}])
    /\ UNCHANGED <<localObjectNames_, localPrefix, nodes, objectsMap_, objectCount_, registrationSerial_,
                   registrationTime, calls, tornDown_, strayed>>

\* it returns: advance, unless a removal has moved the cursor already
DriveReturns ==
    /\ InWalk("driven")
    /\ SetTop([Top EXCEPT !.at = "next",
                          !.cursor = IF Top.stepped THEN @ ELSE AfterIn(Numbers(Top.list), @)])
    /\ UNCHANGED <<localObjectNames_, localPrefix, nodes, objectsMap_, objectCount_, registrationSerial_,
                   registrationTime, calls, tornDown_, strayed>>

----------------------------------------------------------------------------

\* a call is through with its members or its list
Return ==
    /\ \/ (InAdd("next") \/ InRemove("next")) /\ Top.todo = {}
       \/ InWalk("next") /\ Top.cursor = End
    /\ stack' = Below
    /\ UNCHANGED <<localObjectNames_, localPrefix, nodes, objectsMap_, objectCount_, registrationSerial_,
                   registrationTime, calls, tornDown_, strayed>>

\* a hook throws: the call that made it is left, and its caller may catch or be left too
Throw ==
    /\ stack # <<>> /\ InUserCode /\ calls < MaxCalls
    /\ calls' = calls + 1
    /\ stack' = Below
    /\ strayed' = IF Top.kind = "walk" THEN strayed ELSE strayed \union (Top.todo \X {"thrown"})
    /\ UNCHANGED <<localObjectNames_, localPrefix, nodes, objectsMap_, objectCount_, registrationSerial_,
                   registrationTime, tornDown_>>

\* Runner::stopThread after the join: the participants are torn down and the lists cleared
StopThread ==
    /\ stack = <<>> /\ ~tornDown_
    /\ tornDown_' = TRUE
    /\ nodes' = [l \in Lists |-> {}]
    /\ objectsMap_' = [o \in Objects |-> 0]
    /\ objectCount_' = 0
    /\ UNCHANGED <<localObjectNames_, localPrefix, registrationSerial_, registrationTime, stack, calls, strayed>>

Next ==
    \/ \E p \in Owners, b \in Batches : Add(p, b) \/ Remove(p, b)
    \/ \E l \in Lists : Walk(l)
    \/ \E o \in Objects : RegisterNext(o) \/ UnregisterNext(o)
    \/ RegisteredReturns \/ (\E wants \in BOOLEAN : QueryReturns(wants)) \/ UnregisteredReturns
    \/ Drive \/ DriveReturns
    \/ Return \/ Throw \/ StopThread

Spec == Init /\ [][Next]_vars

----------------------------------------------------------------------------
(* Properties *)

Nodes == [number : 1..MaxNumber, obj : Objects]
AddFrames == [kind : {"add"}, owner : Owners, members : SUBSET Objects, todo : SUBSET Objects,
              cancelled : SUBSET Objects, obj : Objects \union {None}, serial : 0..MaxNumber,
              at : {"next", "registered", "query"}]
RemoveFrames == [kind : {"remove"}, owner : Owners, todo : SUBSET Objects,
                 obj : Objects \union {None}, at : {"next", "unregistered"}]
WalkFrames == [kind : {"walk"}, list : Lists, cursor : 0..MaxNumber, stepped : BOOLEAN,
               due : SUBSET (1..MaxNumber), driven : SUBSET (1..MaxNumber),
               at : {"next", "driven"}]

TypeOK ==
    /\ localObjectNames_ \in [Owners -> SUBSET Objects]
    /\ localPrefix \in [Objects -> Owners \union {None}]
    /\ nodes \in [Lists -> SUBSET Nodes]
    /\ objectsMap_ \in [Objects -> 0..MaxNumber]
    /\ objectCount_ \in Nat
    /\ registrationSerial_ \in 0..MaxNumber
    /\ registrationTime \in [Objects -> BOOLEAN]
    /\ stack \in Seq(AddFrames \union RemoveFrames \union WalkFrames)
    /\ calls \in 0..MaxCalls /\ tornDown_ \in BOOLEAN
    /\ strayed \subseteq Objects \X {"readded", "other", "thrown", "renamed"}

\* The list the cycle walks, the map removals look in and the reported count never disagree, not
\* even inside a hook: an object is in the list exactly once, as the map says, or not at all.
ListsAgree ==
    /\ nodes["objects"] =
         {[number |-> objectsMap_[o], obj |-> o] : o \in {o \in Objects : Registered(o)}}
    /\ objectCount_ = Cardinality(nodes["objects"])

\* An object gets the pre-drain calls only while it is registered, and once per cycle: no entry is
\* left from a registration that is over.
PreDrainIsRegistered ==
    \A n \in nodes["preDrain"] :
        /\ objectsMap_[n.obj] # 0 /\ objectsMap_[n.obj] < n.number
        /\ \A m \in nodes["preDrain"] : m.obj = n.obj => m = n

\* No walk, however many are nested, stands on a node that was freed.
CursorsAreLive ==
    \A i \in 1..Len(stack) :
        stack[i].kind = "walk" => stack[i].cursor \in Numbers(stack[i].list) \union {End}

\* A walk drives every object of its list, whatever the hooks remove and add.  Only an object
\* added after the last one was removed by its own hook waits for the next cycle.
WalksReachAll ==
    \A i \in 1..Len(stack) : stack[i].kind = "walk" =>
        \A n \in Numbers(stack[i].list) \ stack[i].driven :
            \/ stack[i].cursor # End /\ stack[i].cursor <= n
            \/ stack[i].cursor = End /\ stack[i].stepped /\ n \notin stack[i].due

\* A registered object has its registration time, which settles whose name it is.
RegisteredHasTime == \A o \in Objects : Registered(o) => registrationTime[o]

\* What the hooks of nested adds, removes and walks may rely on at any moment: the parts above.
RunnerIsConsistent ==
    TypeOK /\ ListsAgree /\ PreDrainIsRegistered /\ CursorsAreLive /\ RegisteredHasTime

InUse(o) == \E p \in Owners : o \in localObjectNames_[p]

Strays(o) == {reason \in {"readded", "other", "thrown", "renamed"} : <<o, reason>> \in strayed}

\* Once all calls have returned, the runner drives what its participant publishes and nothing
\* else, however the hooks of a batch removed and added its members; of the objects that belong
\* to one participant, where no throw and no other participant came in between and no removal
\* looked for another name: adding a published object again is refused but clears the prefix of its
\* local name, and the name it was published under stays in use when it is removed.
PublishedAreDriven ==
    (stack = <<>> /\ ~tornDown_) =>
        \A o \in Objects :
            (Cardinality(AddedBy[o]) = 1 /\ Strays(o) = {}) => (Registered(o) <=> InUse(o))

============================================================================
