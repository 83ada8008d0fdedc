---------------------------- MODULE RemoteObjects ----------------------------
(***************************************************************************)
(* Objects seen from another process (libs/kernel/src/bus/                 *)
(* remote_participant.cpp, remote_interest_manager.cpp,                    *)
(* remote_interest_handler.h, proxy_manager.cpp).                          *)
(*                                                                         *)
(* Two processes share a bus. The consumer's local participant holds       *)
(* interests; its RemoteParticipant stands for the publisher. The          *)
(* publisher's local participant owns the objects; its RemoteParticipant   *)
(* stands for the consumer and listens, for every interest that was        *)
(* started, to the publisher's filter. Both sides first shake hands; then  *)
(* an object is published, its class asked for if it is not known, its     *)
(* state asked for, and only the answer to that makes it appear. Updates   *)
(* that arrive in between are kept with the object's monitored data, for   *)
(* at most five seconds.                                                   *)
(*                                                                         *)
(* The messages between the two are handled in the order they were sent.   *)
(* That the dispatcher's workers may swap two of them is the subject of    *)
(* SessionBuses. What the publisher's filter decides is the subject of     *)
(* Publication: here an object matches an interest or not.                 *)
(***************************************************************************)
EXTENDS Naturals, SequencesExt, FiniteSetsExt

CONSTANTS
    Objects,           \* the publisher's objects
    Interests,         \* what the consumer may be interested in
    None,              \* no monitored data, no proxy
    MaxCommits,        \* bound: commits of the publisher that change something
    MaxSubscriptions,  \* bound: interests started
    MaxTimeouts        \* bound: resolution timers that expire

ASSUME BoundsAreNaturals ==
    /\ MaxCommits \in Nat
    /\ MaxSubscriptions \in Nat
    /\ MaxTimeouts \in Nat
ASSUME RemoteAssumption ==
    /\ IsFiniteSet(Objects) /\ IsFiniteSet(Interests)
    /\ None \notin Nat /\ None \notin [state : Nat, updates : SUBSET Nat]

VARIABLES
    (* consumer: its RemoteParticipant *)
    known,           \* the RemoteParticipant exists in the consumer's bus
    ready,           \* its participantReady_
    pendingStarts,   \* its pendingInterestStartedMessages_
    providers,       \* the interests with a RemoteProvider
    current,         \* per interest: its currentAdditions_
    typed,           \* the objects' class is in one of the type registries
    pendingAdditions,\* the (interest, object) pairs that wait for the class
    monitored,       \* per object: the monitored data, or None
    expired,         \* objects whose timer has fired, before its callback runs
    (* consumer: its local participant *)
    managers,        \* the interests with a ProxyManager
    drained,         \* the managers that had their turn in this cycle
    actions,         \* per interest: pendingActions_ of the ProxyManager
    shown,           \* per interest: presentProxiesList_
    dying,           \* per interest: additionsToDelete_
    proxy,           \* per object: the value its proxy holds, None without one
    (* publisher *)
    publisherKnows,  \* the RemoteParticipant exists in the publisher's bus
    publisherReady,  \* its participantReady_
    started,         \* its remoteInterests_
    offered,         \* per interest: the objects the filter has shown to it
    knownLocal,      \* its knownLocalObjects_
    linked,          \* the objects whose updates go to it (remotesUpdatesBMMap)
    matching,        \* per interest: the objects whose committed state matches
    value,           \* per object: its committed state (and its commit time)
    changed,         \* the objects whose change was committed and is not sent
    phase,           \* of the publisher's cycle
    toEvaluate,      \* the interests the filter has yet to evaluate in it
    (* network and bounds *)
    toPublisher, toConsumer,
    commits, subscriptions, timeouts,
    appeared,        \* history: the objects that have had a proxy
    again,           \* history: the objects that went and appeared again
    crossed          \* history: a removal was handled while a subscription was made

handshakeVars == <<known, ready, pendingStarts, publisherKnows, publisherReady>>
arrivalVars == <<providers, current, typed, pendingAdditions, monitored, expired>>
viewVars == <<managers, drained, actions, shown, dying, proxy, appeared, again, crossed>>
offerVars == <<started, offered, knownLocal, linked>>
stateVars == <<matching, value, changed, phase, toEvaluate>>
network == <<toPublisher, toConsumer>>
bounds == <<commits, subscriptions, timeouts>>
vars == <<handshakeVars, arrivalVars, viewVars, offerVars, stateVars, network, bounds>>

Init ==
    /\ known = FALSE /\ ready = FALSE /\ pendingStarts = <<>>
    /\ providers = {} /\ current = [i \in Interests |-> {}]
    /\ typed = FALSE /\ pendingAdditions = {}
    /\ monitored = [o \in Objects |-> None]
    /\ expired = {}
    /\ managers = {} /\ drained = {}
    /\ actions = [i \in Interests |-> <<>>]
    /\ shown = [i \in Interests |-> {}]
    /\ dying = [i \in Interests |-> {}]
    /\ proxy = [o \in Objects |-> None]
    /\ publisherKnows = FALSE /\ publisherReady = FALSE
    /\ started = {}
    /\ offered = [i \in Interests |-> {}]
    /\ knownLocal = {} /\ linked = {}
    /\ matching = [i \in Interests |-> {}]
    /\ value = [o \in Objects |-> 0]
    /\ changed = {} /\ phase = "idle" /\ toEvaluate = {}
    /\ toPublisher = <<>> /\ toConsumer = <<>>
    /\ commits = 0 /\ subscriptions = 0 /\ timeouts = 0
    /\ appeared = {} /\ again = {} /\ crossed = FALSE

-----------------------------------------------------------------------------
(* Messages: control messages name the interest and the objects they are about *)

Ready == [kind |-> "ready"]
Started(i) == [kind |-> "started", interest |-> i]
Published(i, objects) == [kind |-> "published", interest |-> i, objects |-> objects]
Removed(i, objects) == [kind |-> "removed", interest |-> i, objects |-> objects]
StateRequest(i, objects) == [kind |-> "request", interest |-> i, objects |-> objects]
StateResponse(i, states) == [kind |-> "response", interest |-> i, states |-> states]
TypesRequest == [kind |-> "types?"]
TypesResponse == [kind |-> "types"]
Rejection(o) == [kind |-> "timeout", object |-> o]
Update(o) == [kind |-> "update", object |-> o, value |-> value[o]]

(* One message per interest of a set, in some order *)
PerInterest(Message(_), interests) ==
    LET order == SetToSeq(interests) IN [n \in DOMAIN order |-> Message(order[n])]

ToPublisher(messages) == toPublisher' = toPublisher \o messages
ToConsumer(messages) == toConsumer' = toConsumer \o messages

-----------------------------------------------------------------------------
(* The consumer's RemoteParticipant *)

(* LocalParticipant::remoteParticipantAdded in the consumer: every manager  *)
(* starts listening to a provider of its own, which waits for the           *)
(* handshake, and the handshake is tried.                                   *)
ConsumerMeets ==
    /\ ~known
    /\ known' = TRUE
    /\ providers' = managers
    /\ pendingStarts' = SetToSeq(managers)
    /\ ToPublisher(<<Ready>>)
    /\ UNCHANGED <<ready, publisherKnows, publisherReady, current, typed, pendingAdditions,
                   monitored, expired, viewVars, offerVars, stateVars, toConsumer, bounds>>

(* mutant: the answer to the handshake leaves the waiting messages behind *)
KeptBack == <<Ready>>

(* remoteParticipantReady: the first one is answered, and what waited goes. *)
Greeting == <<Ready>> \o [n \in DOMAIN pendingStarts |-> Started(pendingStarts[n])]

ReadyReceived ==
    /\ IF ready
       THEN UNCHANGED <<ready, pendingStarts, toPublisher>>
       ELSE /\ ready' = TRUE
            /\ pendingStarts' = <<>>
            /\ ToPublisher(Greeting)
    /\ UNCHANGED <<known, publisherKnows, publisherReady, arrivalVars, viewVars>>

(* UpdatesBufferStorage::startMonitoring: one timer per object *)
Monitoring(objects) ==
    [o \in Objects |-> IF o \in objects /\ monitored[o] = None
                       THEN [state |-> 0, updates |-> {}]
                       ELSE monitored[o]]

(* remoteObjectsPublished: the state of the objects is asked for if their   *)
(* class is known, otherwise they wait for the class.                       *)
PublishedReceived(m) ==
    /\ IF typed
       THEN /\ monitored' = Monitoring(m.objects)
            /\ ToPublisher(<<StateRequest(m.interest, m.objects)>>)
            /\ UNCHANGED pendingAdditions
       ELSE /\ pendingAdditions' = pendingAdditions \union ({m.interest} \X m.objects)
            /\ ToPublisher(<<TypesRequest>>)
            /\ UNCHANGED monitored
    /\ UNCHANGED <<handshakeVars, providers, current, typed, expired, viewVars>>

(* typesInfoResponse, tryResolvePendingClasses, addOrRejectObjectsOfClass:  *)
(* the class is registered and the state of what waited is asked for.       *)
Waiting(i) == {o \in Objects : <<i, o>> \in pendingAdditions}

TypesReceived ==
    /\ typed' = TRUE
    /\ pendingAdditions' = {}
    /\ monitored' = Monitoring(UNION {Waiting(i) : i \in Interests})
    /\ ToPublisher(PerInterest(LAMBDA i : StateRequest(i, Waiting(i)),
                               {i \in Interests : Waiting(i) # {}}))
    /\ UNCHANGED <<handshakeVars, providers, current, expired, viewVars>>

(* remoteObjectsRemoved: the provider forgets the objects, its manager is   *)
(* told of every one of them if there is one, and they no longer wait for   *)
(* their class.                                                             *)
Adding(objects) == SetToSeq({<<"add", o>> : o \in objects})
Removing(objects) == SetToSeq({<<"remove", o>> : o \in objects})

Queued(i, news) == [actions EXCEPT ![i] = IF i \in managers THEN @ \o news ELSE @]

Forgets(m) ==
    /\ current' = [current EXCEPT ![m.interest] = @ \ m.objects]
    /\ pendingAdditions' = pendingAdditions \ ({m.interest} \X m.objects)

RemovedReceived(m) ==
    /\ Forgets(m)
    /\ actions' = Queued(m.interest, Removing(m.objects))
    /\ UNCHANGED <<handshakeVars, providers, typed, monitored, expired, managers, drained, shown,
                   dying, proxy, appeared, again, crossed, toPublisher>>

(* objectsStateResponse: the state is kept with the monitored data, and the *)
(* objects that are monitored or have a proxy are additions. The provider   *)
(* keeps them, and its manager is told of those that are new.               *)
ResponseReceived(m) ==
    LET additions == {o \in DOMAIN m.states : monitored[o] # None \/ proxy[o] # None}
    IN /\ monitored' = [o \in Objects |-> IF o \in DOMAIN m.states /\ monitored[o] # None
                                          THEN [monitored[o] EXCEPT !.state = m.states[o]]
                                          ELSE monitored[o]]
       /\ current' = [current EXCEPT ![m.interest] =
                        IF m.interest \in providers THEN @ \union additions ELSE @]
       /\ actions' = Queued(m.interest, Adding(additions \ current[m.interest]))
       /\ UNCHANGED <<handshakeVars, providers, typed, pendingAdditions, expired, managers, drained,
                      shown, dying, proxy, appeared, again, crossed, toPublisher>>

(* addUpdatesIfNeeded: an update of an object that is monitored is kept *)
Noted(data, v) == IF data = None THEN None ELSE [data EXCEPT !.updates = @ \union {v}]

(* rcvObjectUpdate: kept with the monitored data, and given to the proxy *)
UpdateReceived(m) ==
    /\ monitored' = [monitored EXCEPT ![m.object] = Noted(@, m.value)]
    /\ proxy' = [proxy EXCEPT ![m.object] = IF @ = None THEN @ ELSE m.value]
    /\ UNCHANGED <<handshakeVars, providers, current, typed, pendingAdditions, expired, managers,
                   drained, actions, shown, dying, appeared, again, crossed, toPublisher>>

(* Bus::remoteMessageReceived in the consumer: a message for a participant  *)
(* that is not there is lost.                                               *)
ConsumerReceives ==
    /\ toConsumer # <<>>
    /\ LET m == Head(toConsumer)
       IN \/ ~known /\ UNCHANGED <<handshakeVars, arrivalVars, viewVars, toPublisher>>
          \/ known /\ m.kind = "ready" /\ ReadyReceived
          \/ known /\ m.kind = "published" /\ PublishedReceived(m)
          \/ known /\ m.kind = "types" /\ TypesReceived
          \/ known /\ m.kind = "removed" /\ RemovedReceived(m)
          \/ known /\ m.kind = "response" /\ ResponseReceived(m)
          \/ known /\ m.kind = "update" /\ UpdateReceived(m)
    /\ toConsumer' = Tail(toConsumer)
    /\ UNCHANGED <<offerVars, stateVars, bounds>>

(* The resolution timer of an object fires. Cancelling it from now on has   *)
(* no effect: its callback runs.                                            *)
TimerFires(o) ==
    /\ timeouts < MaxTimeouts
    /\ monitored[o] # None /\ o \notin expired
    /\ expired' = expired \union {o}
    /\ timeouts' = timeouts + 1
    /\ UNCHANGED <<handshakeVars, providers, current, typed, pendingAdditions, monitored, viewVars,
                   offerVars, stateVars, network, commits, subscriptions>>

(* The callback: the data is erased and the publisher is told. *)
TimeoutRuns(o) ==
    /\ o \in expired
    /\ expired' = expired \ {o}
    /\ monitored' = [monitored EXCEPT ![o] = None]
    /\ ToPublisher(<<Rejection(o)>>)
    /\ UNCHANGED <<handshakeVars, providers, current, typed, pendingAdditions, viewVars, offerVars,
                   stateVars, toConsumer, bounds>>

-----------------------------------------------------------------------------
(* The consumer's local participant *)

(* LocalParticipant::localSubscriberAdded makes a manager, and              *)
(* RemoteObjectFilter::addSubscriber a provider if there is none yet. One   *)
(* that there is repeats what it has to the manager (news, behind what the  *)
(* manager is told meanwhile). The publisher is told in any case, as soon   *)
(* as it is ready.                                                          *)
Subscribes(i, news) ==
    /\ drained = {} /\ i \notin managers
    /\ subscriptions < MaxSubscriptions
    /\ subscriptions' = subscriptions + 1
    /\ managers' = managers \union {i}
    /\ providers' = IF known THEN providers \union {i} ELSE providers
    /\ actions' = [actions EXCEPT ![i] = news]
    /\ IF ready THEN ToPublisher(<<Started(i)>>) ELSE UNCHANGED toPublisher
    /\ pendingStarts' = IF known /\ ~ready THEN Append(pendingStarts, i) ELSE pendingStarts
    /\ UNCHANGED <<known, ready, publisherKnows, publisherReady, typed, monitored, expired, drained,
                   shown, dying, proxy, appeared, again, offerVars, stateVars, commits, timeouts>>

Subscribe(i) ==
    /\ Subscribes(i, Adding(current[i]))
    /\ UNCHANGED <<current, pendingAdditions, crossed, toConsumer>>

(* Nothing keeps a removal from being handled between the registration of   *)
(* the manager and the repetition: it is told first.                        *)
SubscribeMeetsRemoval(i) ==
    /\ known /\ toConsumer # <<>>
    /\ LET m == Head(toConsumer)
       IN /\ m.kind = "removed" /\ m.interest = i /\ m.objects \intersect current[i] # {}
          /\ Subscribes(i, Removing(m.objects) \o Adding(current[i]))
          /\ Forgets(m)
    /\ crossed' = TRUE
    /\ toConsumer' = Tail(toConsumer)

(* The proxies some manager holds; a proxy nobody holds is destroyed, and   *)
(* proxyAboutToBeDeleted stops the monitoring of its object.                *)
Holds(shownNow, dyingNow, o) == \E i \in Interests : o \in shownNow[i] \union dyingNow[i]
Survivors(proxies, shownNow, dyingNow) ==
    [o \in Objects |-> IF Holds(shownNow, dyingNow, o) THEN proxies[o] ELSE None]
Unmonitored(data, objects) == [o \in Objects |-> IF o \in objects THEN None ELSE data[o]]
Destroyed(shownNow, dyingNow) ==
    {o \in Objects : proxy[o] # None /\ ~Holds(shownNow, dyingNow, o)}

(* LocalParticipant::localSubscriberRemoved and ~ProxyManager: the manager  *)
(* goes, with the proxies only it holds. Its provider stays, and the        *)
(* publisher is not told.                                                   *)
Unsubscribe(i) ==
    /\ drained = {} /\ i \in managers
    /\ managers' = managers \ {i}
    /\ actions' = [actions EXCEPT ![i] = <<>>]
    /\ shown' = [shown EXCEPT ![i] = {}]
    /\ dying' = [dying EXCEPT ![i] = {}]
    /\ proxy' = Survivors(proxy, shown', dying')
    /\ monitored' = Unmonitored(monitored, Destroyed(shown', dying'))
    /\ UNCHANGED <<handshakeVars, providers, current, typed, pendingAdditions, expired, drained,
                   appeared, again, crossed, offerVars, stateVars, network, bounds>>

(* mutant: the updates that came before the proxy are dropped *)
StateOnly(data) == IF data = None THEN 0 ELSE data.state

(* applyStateAndStopMonitoring: the state that was asked for, then the      *)
(* updates that are newer.                                                  *)
InitialState(data) ==
    IF data = None THEN 0 ELSE Max({data.state} \union {u \in data.updates : u > data.state})

(* ProxyManager::processPendingActions, one action. An addition takes the   *)
(* participant's proxy if it is still alive (getOrCreateProxy) and makes    *)
(* one from the monitored data otherwise (startTrackingProxy).              *)
Applied(view, action, i) ==
    LET o == action[2]
        alive == Holds(view.shown, view.dying, o)
    IN IF action[1] = "remove"
       THEN IF o \in view.shown[i]
            THEN [view EXCEPT !.shown[i] = @ \ {o}, !.dying[i] = @ \union {o}]
            ELSE view
       ELSE IF o \in view.shown[i] THEN view
       ELSE [shown |-> [view.shown EXCEPT ![i] = @ \union {o}],
             dying |-> [view.dying EXCEPT ![i] = @ \ {o}],
             proxy |-> IF alive THEN view.proxy
                       ELSE [view.proxy EXCEPT ![o] = InitialState(view.monitored[o])],
             monitored |-> IF alive THEN view.monitored ELSE Unmonitored(view.monitored, {o}),
             appeared |-> view.appeared \union {o},
             again |-> IF o \in view.appeared /\ \A j \in Interests : o \notin view.shown[j]
                       THEN view.again \union {o} ELSE view.again]

(* processPendingActions: the whole bulk, one action after the other. *)
Processed(before, bulk, i) ==
    LET after[n \in 0..Len(bulk)] == IF n = 0 THEN before ELSE Applied(after[n - 1], bulk[n], i)
    IN after[Len(bulk)]

(* notifyChangesToLocalListeners of one manager: what was removed in the    *)
(* last cycle is destroyed, then the queued actions are applied.            *)
Cleared(i) ==
    LET kept == [dying EXCEPT ![i] = {}]
    IN [shown |-> shown, dying |-> kept, appeared |-> appeared, again |-> again,
        proxy |-> Survivors(proxy, shown, kept),
        monitored |-> Unmonitored(monitored, Destroyed(shown, kept))]

HasWork == \E i \in managers : actions[i] # <<>> \/ dying[i] # {}

Drain(i) ==
    /\ i \in managers \ drained
    /\ drained # {} \/ HasWork
    /\ LET after == Processed(Cleared(i), actions[i], i)
       IN /\ shown' = after.shown
          /\ dying' = after.dying
          /\ proxy' = after.proxy
          /\ monitored' = after.monitored
          /\ appeared' = after.appeared
          /\ again' = after.again
    /\ actions' = [actions EXCEPT ![i] = <<>>]
    /\ drained' = IF drained \union {i} = managers THEN {} ELSE drained \union {i}
    /\ UNCHANGED <<handshakeVars, providers, current, typed, pendingAdditions, expired, managers,
                   crossed, offerVars, stateVars, network, bounds>>

-----------------------------------------------------------------------------
(* The publisher *)

(* LocalParticipant::remoteParticipantAdded in the publisher *)
PublisherMeets ==
    /\ ~publisherKnows
    /\ publisherKnows' = TRUE
    /\ ToConsumer(<<Ready>>)
    /\ UNCHANGED <<known, ready, pendingStarts, publisherReady, arrivalVars, viewVars, offerVars,
                   stateVars, toPublisher, bounds>>

(* The properties change and the cycle commits them: what matches, and the  *)
(* state of one object.                                                     *)
Commit(o) ==
    /\ phase = "idle" /\ commits < MaxCommits
    /\ commits' = commits + 1
    /\ value' = [value EXCEPT ![o] = @ + 1]
    /\ changed' = changed \union {o}
    /\ \E matched \in SUBSET Interests :
         matching' = [i \in Interests |-> IF i \in matched THEN matching[i] \union {o}
                                          ELSE matching[i] \ {o}]
    /\ phase' = "committed"
    /\ UNCHANGED <<handshakeVars, arrivalVars, viewVars, offerVars, toEvaluate, network,
                   subscriptions, timeouts>>

(* RemoteInterestsHandler: an update goes to the participant as long as one *)
(* of its interests has the object.                                         *)
StillLinked(offers, interests) == {o \in linked : \E i \in interests : o \in offers[i]}

(* ObjectFilter::evaluate: one interest after the other, with the filter    *)
(* locked. For each, onObjectsAdded and onObjectsRemoved of the             *)
(* RemoteParticipant. An object it is told to remove is not known any more, *)
(* whatever other interest it is known for.                                 *)
EvaluateBegins ==
    /\ phase = "committed"
    /\ phase' = "evaluate"
    /\ toEvaluate' = started
    /\ UNCHANGED <<handshakeVars, arrivalVars, viewVars, offerVars, matching, value, changed,
                   network, bounds>>

FilterIsFree == toEvaluate = {}

Notice(Message(_, _), i, objects) == IF objects = {} THEN <<>> ELSE <<Message(i, objects)>>

Evaluate(i) ==
    LET additions == matching[i] \ offered[i]
        removals == offered[i] \ matching[i]
    IN /\ i \in toEvaluate
       /\ toEvaluate' = toEvaluate \ {i}
       /\ offered' = [offered EXCEPT ![i] = matching[i]]
       /\ knownLocal' = (knownLocal \union additions) \ removals
       /\ linked' = StillLinked(offered', started) \union additions
       /\ ToConsumer(Notice(Published, i, additions) \o Notice(Removed, i, removals))
       /\ UNCHANGED <<handshakeVars, arrivalVars, viewVars, started, matching, value, changed,
                      phase, toPublisher, bounds>>

(* RemoteInterestsManager::sendObjectUpdates *)
SendUpdates ==
    /\ phase = "evaluate" /\ FilterIsFree
    /\ LET sent == SetToSeq(changed \intersect linked)
       IN ToConsumer([n \in DOMAIN sent |-> Update(sent[n])])
    /\ changed' = {}
    /\ phase' = "idle"
    /\ UNCHANGED <<handshakeVars, arrivalVars, viewVars, offerVars, matching, value, toEvaluate,
                   toPublisher, bounds>>

(* remoteParticipantReady *)
PublisherReadyReceived ==
    /\ publisherReady' = TRUE
    /\ ToConsumer(IF publisherReady THEN <<>> ELSE <<Ready>>)
    /\ UNCHANGED offerVars

(* remoteInterestStarted: the filter shows what matches now. An interest    *)
(* that was started before has its provider and its listener already.       *)
StartReceived(i) ==
    /\ FilterIsFree
    /\ IF i \in started
       THEN UNCHANGED <<offerVars, toConsumer>>
       ELSE /\ started' = started \union {i}
            /\ offered' = [offered EXCEPT ![i] = matching[i]]
            /\ knownLocal' = knownLocal \union matching[i]
            /\ linked' = linked \union matching[i]
            /\ ToConsumer(Notice(Published, i, matching[i]))
    /\ UNCHANGED publisherReady

(* mutant: the state of an object is served although it was taken back *)
AnsweredAnyway(m) == m.objects

(* objectsStateRequest: answered with the objects that are known *)
Answered(m) == m.objects \intersect knownLocal

RequestReceived(m) ==
    /\ ToConsumer(<<StateResponse(m.interest, [o \in Answered(m) |-> value[o]])>>)
    /\ UNCHANGED <<publisherReady, offerVars>>

(* typesInfoRequest: the class is in the publisher's registry *)
TypesRequestReceived ==
    /\ ToConsumer(<<TypesResponse>>)
    /\ UNCHANGED <<publisherReady, offerVars>>

(* publicationRejected, handleRejectedPublications with a Timeout: the      *)
(* updates of the object no longer go to this participant.                  *)
RejectionReceived(o) ==
    /\ linked' = linked \ {o}
    /\ UNCHANGED <<publisherReady, started, offered, knownLocal, toConsumer>>

(* Bus::remoteMessageReceived in the publisher *)
PublisherReceives ==
    /\ toPublisher # <<>>
    /\ LET m == Head(toPublisher)
       IN \/ ~publisherKnows /\ UNCHANGED <<publisherReady, offerVars, toConsumer>>
          \/ publisherKnows /\ m.kind = "ready" /\ PublisherReadyReceived
          \/ publisherKnows /\ m.kind = "started" /\ StartReceived(m.interest)
          \/ publisherKnows /\ m.kind = "request" /\ RequestReceived(m)
          \/ publisherKnows /\ m.kind = "types?" /\ TypesRequestReceived
          \/ publisherKnows /\ m.kind = "timeout" /\ RejectionReceived(m.object)
    /\ toPublisher' = Tail(toPublisher)
    /\ UNCHANGED <<known, ready, pendingStarts, publisherKnows, arrivalVars, viewVars, stateVars,
                   bounds>>

Next ==
    \/ ConsumerMeets
    \/ ConsumerReceives
    \/ \E o \in Objects : TimerFires(o) \/ TimeoutRuns(o) \/ Commit(o)
    \/ \E i \in Interests : \/ Subscribe(i) \/ SubscribeMeetsRemoval(i) \/ Unsubscribe(i)
                            \/ Drain(i) \/ Evaluate(i)
    \/ PublisherMeets
    \/ EvaluateBegins
    \/ SendUpdates
    \/ PublisherReceives

Spec == Init /\ [][Next]_vars

(* Both sides learn of each other, deliver what was sent, end the cycles    *)
(* they began and run the callbacks of timers that fired. Nobody has to     *)
(* subscribe, to commit or to be slow.                                      *)
FairSpec ==
    /\ Spec
    /\ WF_vars(ConsumerMeets) /\ WF_vars(PublisherMeets)
    /\ WF_vars(ConsumerReceives) /\ WF_vars(PublisherReceives)
    /\ WF_vars(EvaluateBegins) /\ WF_vars(SendUpdates)
    /\ \A i \in Interests : WF_vars(Drain(i)) /\ WF_vars(Evaluate(i))
    /\ \A o \in Objects : WF_vars(TimeoutRuns(o))
-----------------------------------------------------------------------------
(* Properties *)

(* The variables keep their types: what waits for its class is nowhere      *)
(* monitored under that name, a proxy exists exactly as long as a manager   *)
(* holds it, every manager listens to a provider once the two sides have    *)
(* met, and only a provider keeps objects or waits to be started.           *)
TypeOK ==
    /\ {known, ready, typed, publisherKnows, publisherReady} \subseteq BOOLEAN
    /\ pendingStarts \in Seq(providers) /\ (ready => pendingStarts = <<>>)
    /\ pendingAdditions \subseteq Interests \X Objects
    /\ typed => pendingAdditions = {}
    /\ expired \union knownLocal \union linked \union changed \subseteq Objects
    /\ again \subseteq appeared /\ appeared \subseteq Objects
    /\ managers \union providers \union started \union toEvaluate \subseteq Interests
    /\ IF known THEN managers \subseteq providers ELSE providers = {}
    /\ drained \subseteq managers
    /\ {current, shown, dying, offered, matching} \subseteq [Interests -> SUBSET Objects]
    /\ \A i \in Interests \ managers : shown[i] \union dying[i] = {}
    /\ \A i \in Interests \ providers : current[i] = {}
    /\ \A o \in Objects : (proxy[o] # None) <=> Holds(shown, dying, o)
    /\ \A o \in Objects : proxy[o] \in 0..value[o] \union {None}
    /\ value \in [Objects -> 0..MaxCommits]
    /\ phase \in {"idle", "committed", "evaluate"}

(* Nothing is under way: the network is empty, the consumer has drained,    *)
(* the publisher has ended its cycle and no timer callback is outstanding.  *)
Settled ==
    /\ known /\ publisherKnows
    /\ toPublisher = <<>> /\ toConsumer = <<>>
    /\ phase = "idle" /\ expired = {}
    /\ drained = {} /\ \A i \in managers : actions[i] = <<>>

(* Whatever crossed on the way - an answer and the object's removal, a      *)
(* timeout and a late answer, an unsubscription and any of them -, when all *)
(* is settled the consumer keeps no object for an interest, to show it now  *)
(* or to the next that subscribes, that the publisher does not offer for    *)
(* it, and both agree on the interests. Left out is what a manager shows    *)
(* after a removal was handled while it subscribed.                         *)
NoGhosts ==
    Settled => /\ started = providers /\ managers \subseteq started
               /\ \A i \in Interests : /\ current[i] \subseteq offered[i]
                                       /\ crossed \/ shown[i] \subseteq offered[i]

(* Both sides keep their records consistent at any moment and agree when    *)
(* all is settled.                                                          *)
RemoteViewsAreSound == TypeOK /\ NoGhosts

(* An object that appeared was populated: once all is settled its proxy     *)
(* holds the committed state, although the state it was made from and the   *)
(* updates that came before it are not ordered with its creation. Left out  *)
(* are an object whose resolution timer expired, one that had gone and      *)
(* appeared again, and a removal handled while a subscription was made.     *)
AppearsPopulated ==
    (Settled /\ timeouts = 0 /\ ~crossed) =>
        \A i \in Interests : \A o \in shown[i] \ again : proxy[o] = value[o]

(* main_concepts.md:109: "That arrival carries state. The receiving side    *)
(* asks for the state of the objects it has just accepted and the publisher *)
(* serves it, so an object is populated when it appears rather than filling *)
(* in as later updates happen to land." However often an object appears.    *)
ArrivalCarriesState ==
    (Settled /\ timeouts = 0) =>
        \A i \in Interests : \A o \in shown[i] : proxy[o] = value[o]

(* An interest is never lost between two sides that learn of each other in  *)
(* either order, nor an object between the interest, its class and its      *)
(* state: one that goes on matching an interest the consumer goes on        *)
(* holding appears, unless its resolution timer expired or the publisher    *)
(* forgot it when another interest lost it. This is about an object's first *)
(* appearance; ArrivalCarriesState is about the later ones.                 *)
MatchingAppear ==
    \A i \in Interests, o \in Objects :
        (i \in managers /\ o \in matching[i])
            ~> (\/ o \in appeared \/ i \notin managers \/ o \notin matching[i]
                \/ timeouts > 0 \/ (i \in started /\ o \notin knownLocal))
=============================================================================
