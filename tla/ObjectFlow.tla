----------------------------- MODULE ObjectFlow -----------------------------
(***************************************************************************)
(* Two components of one process on one bus: one publishes objects         *)
(* (Publication), the other has subscriptions to them (Views). What a      *)
(* commit of the first queues, a drain of the second applies; a            *)
(* subscription reads the filter of the first from the thread of the       *)
(* second.                                                                 *)
(***************************************************************************)
EXTENDS Publication, Views

CONSTANT MaxSubscriptions   \* bound: subscriptions made

ASSUME SubscriptionsAssumption == MaxSubscriptions \in Nat

ASSUME ViewsAssumption == ViewObjects = Objects /\ ViewInterests = Interests

VARIABLE subscriptions

vars == <<publicationVars, viewVars, subscriptions>>

Init ==
    /\ PublicationInit
    /\ ViewsInit
    /\ subscriptions = 0

-----------------------------------------------------------------------------
(* The owner's thread and the worker that rejects *)

OwnerCalls(o) == UNCHANGED <<viewVars, subscriptions>> /\ (Add(o) \/ RemoveObject(o))

OwnerRejected(o) == UNCHANGED <<viewVars, subscriptions>> /\ Reject(o)

OwnerCommits == UNCHANGED <<viewVars, subscriptions>> /\ \E S \in SUBSET Objects : CommitObjects(S)

OwnerEvaluatesItsOwn == UNCHANGED <<viewVars, subscriptions>> /\ (OwnStops \/ OwnEvaluates)

(* RemoteInterestsManager::evaluate: the managers queue what they are told. *)
OwnerEvaluates ==
    /\ Evaluate
    /\ Enqueue("owner", [i \in Interests |->
                            Removals(Gone(i)) \o Additions(Appeared(i)) \o Removals(Hidden(i))])
    /\ UNCHANGED subscriptions

OwnerFinishes == UNCHANGED <<viewVars, subscriptions>> /\ Finish

(* The thread that stops the component takes its participant off the bus. *)
OwnerLeaves ==
    /\ Leave
    /\ Enqueue("stopper", [i \in Interests |-> Removals(provider[i].notified)])
    /\ UNCHANGED subscriptions

-----------------------------------------------------------------------------
(* The subscriber's thread *)

\* mutant: a provider that exists tells its new listener nothing
ShownToFirst(i) == IF provider[i].exists THEN {} ELSE Seeded(i).notified

(* The objects a new listener is told of *)
ShownTo(i) == Seeded(i).notified

Subscribes(i) ==
    /\ subscriptions < MaxSubscriptions
    /\ AddSubscriber(i)
    /\ Subscribe(i, ShownTo(i))
    /\ subscriptions' = subscriptions + 1

Unsubscribes(i) == UNCHANGED <<publicationVars, subscriptions>> /\ Unsubscribe(i)

Drains(i) == UNCHANGED <<publicationVars, subscriptions>> /\ Drain(i)

-----------------------------------------------------------------------------
Next ==
    \/ \E o \in Objects : OwnerCalls(o) \/ OwnerRejected(o)
    \/ OwnerCommits \/ OwnerEvaluatesItsOwn \/ OwnerEvaluates \/ OwnerFinishes
    \/ OwnerLeaves
    \/ \E i \in Interests : Subscribes(i) \/ Unsubscribes(i) \/ Drains(i)

Spec == Init /\ [][Next]_vars

(* Both runners go on with their cycles: one commit follows the other, and  *)
(* every drain looks at the queue of every manager.                         *)
OwnerCycle == OwnerCommits \/ OwnerEvaluatesItsOwn \/ OwnerEvaluates \/ OwnerFinishes

FairSpec ==
    /\ Spec
    /\ WF_vars(OwnerCycle)
    /\ \A i \in Interests : WF_vars(Drains(i))

-----------------------------------------------------------------------------
(* Properties *)

(* The containers hold objects, an object to delete is a current one, and  *)
(* no object is both new and to be deleted when a commit reads the sets    *)
(* (local_participant.cpp add, removeSingleObject).                        *)
TypeOK ==
    /\ PublicationTypeOK
    /\ subscribed \subseteq Interests /\ muxListed \subseteq Objects
    /\ \A i \in Interests : iteratorMap[i] \subseteq Listed(i)
    /\ subscriptions \in 0..MaxSubscriptions

(* Whatever the thread and the moment of a subscription, its provider       *)
(* tracks every object the participant has published by the end of the      *)
(* commit (object_filter.cpp evaluate, addSubscriber).                      *)
PublishedAreTracked ==
    pc = "idle" =>
        \A i \in Interests : provider[i].exists => currentObjects \subseteq provider[i].tracked

(* The containers of the publisher agree with each other and with the      *)
(* providers, in whatever order the calls, a rejection, a commit and the    *)
(* subscriptions came.                                                      *)
FlowIsSound == TypeOK /\ PublishedAreTracked

(* An object a filter shows is present in the manager of its interest once  *)
(* no action on it waits, in whatever order the actions of the two threads  *)
(* were taken (object_filter.cpp evaluateTrackedObjects, proxy_manager.cpp  *)
(* processPendingActions).                                                  *)
ShownArePresent ==
    \A i \in subscribed : \A o \in provider[i].notified : NothingPending(i, o) => o \in present[i]

(* An object present in a manager is in the subscription's list, even if it *)
(* was removed and added again between two drains (object_list.h            *)
(* onObjectsAdded and onObjectsRemoved).                                    *)
PresentAreListed ==
    \A i \in Interests : present[i] \subseteq Listed(i)

(* The mux holds exactly one entry for every interest in which an object is *)
(* present, and its listener knows the objects with an entry (object_mux.cpp*)
(* onObjectsAdded and onObjectsRemoved).                                    *)
MuxCountsInterests ==
    \A o \in Objects :
        /\ \A i \in Interests : muxPresent[o][i] = IF o \in present[i] THEN 1 ELSE 0
        /\ o \in muxListed <=> MuxHas(muxPresent, o)

Matches(i, o) == i \in Conditional => o \in matching

(* An object that stays published, and matches, ends up in the list of a    *)
(* subscription that stays (docs/users_guide/mental_model.md: "Objects      *)
(* appear when they register").                                             *)
PublishedAreSeen ==
    \A i \in Interests, o \in Objects :
        <>[](i \in subscribed /\ o \in currentObjects /\ Matches(i, o) /\ ~left)
            => <>[](o \in Listed(i))

(* An object that is no longer present in the manager has left the list of  *)
(* the subscription (docs/users_guide/mental_model.md: "they also leave the *)
(* list"), so that the list never holds an object that went.                *)
ListedArePresent ==
    \A i \in Interests : Listed(i) \subseteq present[i]
=============================================================================
