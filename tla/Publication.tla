---------------------------- MODULE Publication ----------------------------
(***************************************************************************)
(* The publishing half of the object flow inside one process: the objects  *)
(* of a LocalParticipant (libs/kernel/src/bus/local_participant.cpp) and   *)
(* the two ObjectFilters that show them (libs/core/src/obj/                *)
(* object_filter.cpp): the participant's own, whose listeners are called   *)
(* in place and may call back, and its remote interests manager, whose     *)
(* listeners are the proxy managers of the other participants.             *)
(*                                                                         *)
(* Three threads meet here: the owner's, which adds, removes and commits;  *)
(* a subscriber's, which may create a filtered provider at any moment      *)
(* (under usageMutex_, as an evaluation is); and a worker of the message   *)
(* dispatcher, which applies rejections without any common lock.           *)
(***************************************************************************)
EXTENDS Naturals, FiniteSets

CONSTANTS
    Objects,        \* native objects, each with a name of its own
    Interests,      \* the interests others may subscribe with
    Conditional,    \* the interests with a WHERE clause on a property
    MaxCalls,       \* bound: calls of add and remove
    MaxFlips,       \* bound: commits that change the property
    MaxRejections   \* bound: publications a remote participant rejects

ASSUME ObjectsAssumption == IsFiniteSet(Objects)

ASSUME InterestsAssumption == Conditional \subseteq Interests

ASSUME BoundsAssumption == {MaxCalls, MaxFlips, MaxRejections} \subseteq Nat

VARIABLES
    pc,               \* where the owner's thread is in flushOutputs
    inCallback,       \* the owner's thread is in a callback of its own listener
    newObjects, tempNewObjects, currentObjects, deletedObjects,
    localObjectNames, \* named by their object
    matching,         \* objects whose committed property satisfies the condition
    changed,          \* objects whose property changed in the last commit
    ownListed,        \* objects the participant's own listener was told of
    lastPresent,      \* lastPresentObjects_ of the remote interests manager
    provider,         \* per interest: the FilteredProvider and what it tracks
    left,             \* the participant was taken off its bus
    calls, flips, rejections

objectVars == <<newObjects, tempNewObjects, currentObjects, deletedObjects, localObjectNames>>
valueVars == <<matching, changed>>
filterVars == <<lastPresent, provider>>
boundVars == <<calls, flips, rejections>>
publicationVars == <<pc, inCallback, objectVars, valueVars, ownListed, filterVars, left, boundVars>>

(* The stages of a cycle: the component's own code, the objects committed, *)
(* the two halves of the own evaluation, the evaluation for the others.    *)
Stages == {"idle", "committed", "own_stopped", "own_evaluated", "evaluated"}

(* No provider for an interest, as long as nobody subscribed with it. *)
NoProvider == [exists |-> FALSE, tracked |-> {}, evaluated |-> {}, notified |-> {}]

PublicationInit ==
    /\ pc = "idle" /\ inCallback = FALSE
    /\ newObjects = {} /\ tempNewObjects = {} /\ currentObjects = {} /\ deletedObjects = {}
    /\ localObjectNames = {}
    /\ matching \in SUBSET Objects /\ changed = {}
    /\ ownListed = {} /\ lastPresent = {}
    /\ provider = [i \in Interests |-> NoProvider]
    /\ left = FALSE
    /\ calls = 0 /\ flips = 0 /\ rejections = 0

-----------------------------------------------------------------------------
(* Calls of the component, between commits or from a listener's callback *)

MayCall == (pc = "idle" \/ inCallback) /\ ~left /\ calls < MaxCalls

(* add() takes an object back from the objects to delete. *)
TakenBack(o) == deletedObjects \ {o}

(* LocalParticipant::add: a name in use is refused, which changes nothing. *)
(* During the own evaluation the target is the temporary map.              *)
Add(o) ==
    /\ MayCall
    /\ o \notin localObjectNames
    /\ localObjectNames' = localObjectNames \union {o}
    /\ IF inCallback
         THEN tempNewObjects' = tempNewObjects \union {o} /\ UNCHANGED newObjects
         ELSE newObjects' = newObjects \union {o} /\ UNCHANGED tempNewObjects
    /\ deletedObjects' = TakenBack(o)
    /\ calls' = calls + 1
    /\ UNCHANGED <<pc, inCallback, currentObjects, valueVars, ownListed, filterVars, left,
                   flips, rejections>>

(* LocalParticipant::removeSingleObject *)
RemoveSingleObject(o) ==
    /\ newObjects' = newObjects \ {o}
    /\ deletedObjects' = deletedObjects \union ({o} \intersect currentObjects)
    /\ localObjectNames' = localObjectNames \ {o}
    /\ UNCHANGED currentObjects

(* LocalParticipant::remove *)
RemoveObject(o) ==
    /\ MayCall
    /\ tempNewObjects' = tempNewObjects \ {o}
    /\ RemoveSingleObject(o)
    /\ calls' = calls + 1
    /\ UNCHANGED <<pc, inCallback, valueVars, ownListed, filterVars, left, flips, rejections>>

(* LocalParticipant::handleRejectedPublications for a repeated name whose   *)
(* other object is the older one: on a dispatcher worker, at any moment.    *)
Reject(o) ==
    /\ ~left
    /\ rejections < MaxRejections
    /\ o \in currentObjects
    /\ RemoveSingleObject(o)
    /\ rejections' = rejections + 1
    /\ UNCHANGED <<pc, inCallback, tempNewObjects, valueVars, ownListed, filterVars, left,
                   calls, flips>>

-----------------------------------------------------------------------------
(* Runner::commit and LocalParticipant::flushOutputs, on the owner's thread *)

(* Every registered object commits its property; one that was just removed *)
(* is on its way out, and what it holds is read by nobody.                 *)
CommitObjects(S) ==
    /\ pc = "idle" /\ ~left
    /\ S \subseteq currentObjects \union newObjects
    /\ IF S = {} THEN UNCHANGED flips ELSE flips < MaxFlips /\ flips' = flips + 1
    /\ pc' = "committed"
    /\ matching' = (matching \ S) \union (S \ matching)
    /\ changed' = S
    /\ UNCHANGED <<inCallback, objectVars, ownListed, filterVars, left, calls, rejections>>

(* The own filter drops the deleted objects and tells its listener. *)
OwnStops ==
    /\ pc = "committed"
    /\ pc' = "own_stopped"
    /\ ownListed' = ownListed \ deletedObjects
    /\ inCallback' = (ownListed' # ownListed)
    /\ UNCHANGED <<objectVars, valueVars, filterVars, left, boundVars>>

(* It tracks the new ones and tells its listener, whose interest has no     *)
(* condition.                                                               *)
OwnEvaluates ==
    /\ pc = "own_stopped"
    /\ pc' = "own_evaluated"
    /\ ownListed' = ownListed \union newObjects
    /\ inCallback' = (ownListed' # ownListed)
    /\ UNCHANGED <<objectVars, valueVars, filterVars, left, boundVars>>

\* mutant: an object seen for the first time is not evaluated
OnlyWhenChanged(i, p, o) ==
    IF i \notin Conditional THEN TRUE
    ELSE IF o \in changed THEN o \in matching ELSE o \in p.notified

(* FilteredProvider::shouldBePresent: the query runs for an object that was *)
(* never evaluated or whose property changed, else the last answer stands.  *)
ShouldBePresent(i, p, o) ==
    IF i \notin Conditional
      THEN TRUE
      ELSE IF o \notin p.evaluated \/ o \in changed
             THEN o \in matching
             ELSE o \in p.notified

(* startTracking, which keeps what is already tracked *)
StartTracking(p, objects) == [p EXCEPT !.tracked = @ \union objects]

(* stopTrackingAndNotify *)
StopTracking(p, objects) ==
    [p EXCEPT !.tracked = @ \ objects, !.evaluated = @ \ objects, !.notified = @ \ objects]

(* evaluateTrackedObjects *)
Present(i, p) == {o \in p.tracked : ShouldBePresent(i, p, o)}

EvaluateTracked(i, p) ==
    [p EXCEPT !.notified = Present(i, p),
              !.evaluated = IF i \in Conditional THEN p.tracked ELSE {}]

(* ObjectFilter::evaluate, for the provider of one interest: it stops, it   *)
(* starts, it evaluates.                                                    *)
Tracking(i) == StartTracking(StopTracking(provider[i], deletedObjects), newObjects)
Evaluated(i) == EvaluateTracked(i, Tracking(i))

(* What the listeners of a provider are told of, in this order: the deleted *)
(* objects they knew, the objects that appear, the objects that no longer   *)
(* match.                                                                   *)
Gone(i) == provider[i].notified \intersect deletedObjects
Appeared(i) == Evaluated(i).notified \ Tracking(i).notified
Hidden(i) == Tracking(i).notified \ Evaluated(i).notified

\* mutant: the new objects are not in the snapshot
OldSnapshot == currentObjects \ deletedObjects

(* The snapshot a later provider is seeded with *)
Snapshot == (currentObjects \ deletedObjects) \union newObjects

Evaluate ==
    /\ pc = "own_evaluated"
    /\ pc' = "evaluated" /\ inCallback' = FALSE
    /\ provider' = [i \in Interests |-> IF provider[i].exists THEN Evaluated(i) ELSE NoProvider]
    /\ lastPresent' = Snapshot
    /\ UNCHANGED <<objectVars, valueVars, ownListed, left, boundVars>>

(* The new objects become current ones, the deleted ones go. *)
Finish ==
    /\ pc = "evaluated"
    /\ pc' = "idle"
    /\ currentObjects' = (currentObjects \union newObjects) \ deletedObjects
    /\ newObjects' = tempNewObjects
    /\ tempNewObjects' = {}
    /\ deletedObjects' = {}
    /\ UNCHANGED <<inCallback, localObjectNames, valueVars, ownListed, filterVars, left, boundVars>>

-----------------------------------------------------------------------------
(* ObjectFilter::addSubscriber, on the subscriber's thread: an existing     *)
(* provider tells what it shows, a new one is seeded with the snapshot.     *)
Seeded(i) ==
    IF provider[i].exists
      THEN provider[i]
      ELSE EvaluateTracked(i, [StartTracking(NoProvider, lastPresent) EXCEPT !.exists = TRUE])

AddSubscriber(i) ==
    /\ ~left
    /\ provider' = [provider EXCEPT ![i] = Seeded(i)]
    /\ UNCHANGED <<pc, inCallback, objectVars, valueVars, ownListed, lastPresent, left, boundVars>>

(* The participant's component stopped: Bus::disconnect takes it away from  *)
(* every other participant, whose managers are told of what it showed. The  *)
(* component's thread was joined before.                                    *)
Leave ==
    /\ pc = "idle" /\ ~left
    /\ left' = TRUE
    /\ provider' = [i \in Interests |-> NoProvider]
    /\ UNCHANGED <<pc, inCallback, objectVars, valueVars, ownListed, lastPresent, boundVars>>

-----------------------------------------------------------------------------
PublicationTypeOK ==
    /\ pc \in Stages /\ inCallback \in BOOLEAN
    /\ {newObjects, tempNewObjects, currentObjects, deletedObjects, localObjectNames, matching,
        changed, ownListed, lastPresent} \subseteq SUBSET Objects
    /\ deletedObjects \subseteq currentObjects
    /\ newObjects \intersect deletedObjects = {}
    /\ \A i \in Interests : /\ provider[i].notified \subseteq provider[i].tracked
                            /\ provider[i].evaluated \subseteq provider[i].tracked
                            /\ provider[i].tracked \subseteq Objects
    /\ left \in BOOLEAN
    /\ calls \in 0..MaxCalls /\ flips \in 0..MaxFlips /\ rejections \in 0..MaxRejections
=============================================================================
