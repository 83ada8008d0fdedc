---------------------------- MODULE SessionBuses ----------------------------
(***************************************************************************)
(* How a session keeps track of the participants of other kernels          *)
(* (libs/kernel/src/bus/session.cpp, bus.cpp, message_dispatcher.h, and    *)
(* the part of local_participant.cpp that meets them).                     *)
(*                                                                         *)
(* The transport's i/o thread reports what it hears: that a participant    *)
(* joined or left a bus, a message of one, the loss of a whole process.    *)
(* All but the last become work for the workers of the message dispatcher, *)
(* who take it in bulks and run it under busesMutex_; the loss is applied  *)
(* at once.  A participant that goes is destroyed after the lock has been  *)
(* released, and only then do the local participants let go of it.         *)
(* Component threads open buses, connect to them and subscribe meanwhile,  *)
(* and make the info providers that list the buses of the session.         *)
(*                                                                         *)
(* External: the transport, which reports joins and leaves of a            *)
(* participant in turn; moodycamel::BlockingConcurrentQueue, first-in      *)
(* first-out for its one producer.                                         *)
(***************************************************************************)
EXTENDS Integers, Sequences, FiniteSets, FiniteSetsExt

CONSTANTS
    Remotes,        \* the addresses of remote participants
    ProcessOf,      \* the process of each
    Buses,
    BusOf,          \* the bus a remote or a local participant is on
    Locals,         \* the local participants
    Providers,      \* the SessionInfoProvider objects the components may ask for
    Workers,
    BulkSize,       \* bulkProcessingSize
    PressureCutoff, \* queuePressureCutoff
    MaxEvents       \* bound: what the transport reports

ASSUME BusesAssumption ==
    /\ ProcessOf \in [Remotes -> {ProcessOf[r] : r \in Remotes}]
    /\ BusOf \in [Remotes \cup Locals -> Buses]
    /\ IsFiniteSet(Workers) /\ BulkSize \in Nat \ {0}
    /\ PressureCutoff \in Nat /\ MaxEvents \in Nat

Kinds == {"joined", "left", "confirmed", "update"}
Works == [kind : Kinds, of : Remotes, n : 1..MaxEvents]
\* a RemoteParticipant: the n-th made for an address
Instances == Remotes \X (1..MaxEvents)
Idle == <<"idle">>

VARIABLES
    queue,          \* workQueue_
    bulk,           \* what a worker has taken
    doing,          \* of a worker: idle, in the middle of a join, or destroying a participant
    buses_,         \* the open ones
    remotes_,       \* of a bus
    detectedPendingRemotes_,
    infoProviders_,
    told,           \* of an info provider: the buses it has been told of
    participants_,  \* of a local participant
    listening,      \* the participants its proxy manager listens to
    subscribed,     \* of a local participant: "no", "stored" in interestsOnOthers_, "yes"
    attached,       \* the local participants that are connected
    destroying,     \* the participants the i/o thread is destroying
    there,          \* external: the remote participants the transport has reported
    events,         \* how many things it has reported
    made,           \* how many participants were made for an address
    got,            \* history: the messages handed to the participants of an address
    split,          \* history: the addresses two workers had work of at the same time
    overtaken,      \* history: those whose process was lost before their work was run
    orphaned,       \* history: buses whose last waiting remote was lost with its process
    late,           \* history, of a provider: buses that had remotes waiting when it was made, and
                    \* of which the providers have not been told since
    between         \* history: participants that were joining when a subscription was stored

dispatchVars == <<queue, bulk, doing>>
providerVars == <<infoProviders_, told, late>>
busVars == <<buses_, remotes_, detectedPendingRemotes_, providerVars, made>>
localVars == <<participants_, listening, subscribed, attached>>
transportVars == <<destroying, there, events>>
history == <<got, split, overtaken, orphaned, between>>
vars == <<dispatchVars, busVars, localVars, transportVars, history>>

Init ==
    /\ queue = <<>>
    /\ bulk = [w \in Workers |-> <<>>]
    /\ doing = [w \in Workers |-> Idle]
    /\ buses_ = {}
    /\ remotes_ = [b \in Buses |-> {}]
    /\ detectedPendingRemotes_ = [b \in Buses |-> {}]
    /\ infoProviders_ = {}
    /\ told = [i \in Providers |-> {}]
    /\ late = [i \in Providers |-> {}]
    /\ participants_ = [l \in Locals |-> {}]
    /\ listening = [l \in Locals |-> {}]
    /\ subscribed = [l \in Locals |-> "no"]
    /\ attached = {}
    /\ destroying = {}
    /\ there = {}
    /\ events = 0
    /\ made = [r \in Remotes |-> 0]
    /\ got = [r \in Remotes |-> <<>>]
    /\ split = {}
    /\ overtaken = {}
    /\ orphaned = {}
    /\ between = {}

\* a join keeps busesMutex_ and localsMutex_ until the locals have stored the participant
Joining == {doing[w][2] : w \in {v \in Workers : doing[v][1] = "joining"}}
Leaving == {doing[w][2] : w \in {v \in Workers : doing[v][1] = "leaving"}}
BusesUnlocked == Joining = {}

On(b) == {l \in attached : BusOf[l] = b}
Present(r) == {i \in remotes_[BusOf[r]] : i[1] = r}
WorkOf(s) == {s[i].of : i \in 1..Len(s)}

\* no work about a remote is left
Done(r) ==
    /\ r \notin WorkOf(queue)
    /\ \A w \in Workers : r \notin WorkOf(bulk[w]) /\ (doing[w] # Idle => doing[w][2][1] # r)

-----------------------------------------------------------------------------
(* The transport *)

Enqueue(kind, r) ==
    /\ destroying = {} /\ events < MaxEvents
    /\ events' = events + 1
    /\ queue' = Append(queue, [kind |-> kind, of |-> r, n |-> events + 1])
    /\ UNCHANGED <<bulk, doing, busVars, localVars, destroying, history>>

RemoteParticipantJoinedBus(r) ==
    /\ r \notin there
    /\ there' = there \cup {r}
    /\ Enqueue("joined", r)

RemoteParticipantLeftBus(r) ==
    /\ r \in there
    /\ there' = there \ {r}
    /\ Enqueue("left", r)

RemoteMessageReceived(r, kind) ==
    /\ r \in there /\ kind \in {"confirmed", "update"}
    /\ UNCHANGED there
    /\ Enqueue(kind, r)

\* the pending ones of the process are erased, and the slots that are left empty
WithoutLost(p) ==
    [b \in Buses |-> {r \in detectedPendingRemotes_[b] : ProcessOf[r] # p}]

\* applied at once, ahead of the work that is queued; the providers are not told
RemoteProcessLost(p) ==
    /\ BusesUnlocked /\ destroying = {} /\ events < MaxEvents
    /\ events' = events + 1
    /\ LET lost == {r \in Remotes : ProcessOf[r] = p}
           gone == {i \in UNION {remotes_[b] : b \in Buses} : i[1] \in lost}
       IN /\ there \cap lost # {}
          /\ there' = there \ lost
          /\ remotes_' = [b \in Buses |-> remotes_[b] \ gone]
          /\ detectedPendingRemotes_' = WithoutLost(p)
          /\ destroying' = gone
          /\ overtaken' = overtaken \cup {r \in lost : ~Done(r)}
          /\ orphaned' = orphaned \cup {b \in Buses : detectedPendingRemotes_[b] \cap lost # {}}
    /\ UNCHANGED <<dispatchVars, buses_, providerVars, made, localVars, got, split, between>>

\* ~RemoteParticipant: the locals let go of it
Released(gone) ==
    /\ participants_' = [l \in Locals |-> participants_[l] \ gone]
    /\ listening' = [l \in Locals |-> listening[l] \ gone]

DestroyLost ==
    /\ destroying # {} /\ BusesUnlocked
    /\ Released(destroying)
    /\ destroying' = {}
    /\ UNCHANGED <<dispatchVars, busVars, subscribed, attached, there, events, history>>

-----------------------------------------------------------------------------
(* The workers *)

\* wait_dequeue_bulk_timed: what there is, up to the worker's storage
InOneGo == Min({BulkSize, Len(queue)})

TakeBulk(w) ==
    /\ doing[w] = Idle /\ bulk[w] = <<>> /\ queue # <<>>
    /\ LET n == InOneGo
           taken == SubSeq(queue, 1, n)
       IN /\ bulk' = [bulk EXCEPT ![w] = taken]
          /\ queue' = SubSeq(queue, n + 1, Len(queue))
          /\ split' = split \cup
               {r \in WorkOf(taken) : \E v \in Workers \ {w} :
                  r \in WorkOf(bulk[v]) \/ (doing[v] # Idle /\ doing[v][2][1] = r)}
    /\ UNCHANGED <<doing, busVars, localVars, transportVars, got, overtaken, orphaned, between>>

\* every provider there is hears of a bus
NotifySourceAdded(b) ==
    /\ told' = [i \in Providers |-> IF i \in infoProviders_ THEN told[i] \cup {b} ELSE told[i]]
    /\ late' = [i \in Providers |-> late[i] \ {b}]
    /\ UNCHANGED infoProviders_

\* mutant: the bus stays among those that were told
NobodyTold(b) == UNCHANGED providerVars

NotifySourceRemoved(b) ==
    /\ told' = [i \in Providers |-> told[i] \ {b}]
    /\ UNCHANGED <<infoProviders_, late>>

\* mutant: a second participant is made for the address
Anyone(r) == {}

\* do not add multiple instances of the same remote
Already(r) == Present(r)

\* mutant: the manager is stored when it has listened to everybody
HasListened(l) == subscribed[l] = "yes"

\* interestsOnOthers_ holds the manager
HasManager(l) == subscribed[l] # "no"

\* the bus makes the participant, and the proxy managers there are start listening to it
Joined(w, r) ==
    IF BusOf[r] \notin buses_
    THEN /\ detectedPendingRemotes_' = [detectedPendingRemotes_ EXCEPT ![BusOf[r]] = @ \cup {r}]
         /\ NotifySourceAdded(BusOf[r])
         /\ UNCHANGED <<doing, remotes_, made, listening, got>>
    ELSE /\ IF Already(r) # {}
            THEN UNCHANGED <<doing, remotes_, made, listening>>
            ELSE LET new == <<r, made[r] + 1>>
                 IN /\ made' = [made EXCEPT ![r] = @ + 1]
                    /\ remotes_' = [remotes_ EXCEPT ![BusOf[r]] = @ \cup {new}]
                    /\ doing' = [doing EXCEPT ![w] = <<"joining", new>>]
                    /\ listening' = [l \in Locals |->
                           IF l \in On(BusOf[r]) /\ HasManager(l)
                           THEN listening[l] \cup {new} ELSE listening[l]]
         /\ UNCHANGED <<detectedPendingRemotes_, providerVars, got>>

\* and then they store it
Stored(w) ==
    /\ doing[w][1] = "joining"
    /\ participants_' = [l \in Locals |-> IF l \in On(BusOf[doing[w][2][1]])
                                          THEN participants_[l] \cup {doing[w][2]}
                                          ELSE participants_[l]]
    /\ doing' = [doing EXCEPT ![w] = Idle]
    /\ UNCHANGED <<queue, bulk, busVars, listening, subscribed, attached, transportVars, history>>

\* when the last one that was waiting for it has left, there is no more bus
Left(w, r) ==
    IF BusOf[r] \notin buses_
    THEN LET waiting == detectedPendingRemotes_[BusOf[r]] \ {r}
         IN /\ detectedPendingRemotes_' = [detectedPendingRemotes_ EXCEPT ![BusOf[r]] = waiting]
            /\ IF waiting = {} /\ detectedPendingRemotes_[BusOf[r]] # {}
               THEN NotifySourceRemoved(BusOf[r])
               ELSE UNCHANGED providerVars
            /\ UNCHANGED <<doing, remotes_, made, listening, got>>
    ELSE /\ remotes_' = [remotes_ EXCEPT ![BusOf[r]] = @ \ Present(r)]
         /\ doing' = IF Present(r) = {} THEN doing
                     ELSE [doing EXCEPT ![w] = <<"leaving", CHOOSE i \in Present(r) : TRUE>>]
         /\ UNCHANGED <<detectedPendingRemotes_, providerVars, made, listening, got>>

\* the participant the bus handed out is destroyed
Destroy(w) ==
    /\ doing[w][1] = "leaving" /\ BusesUnlocked
    /\ Released({doing[w][2]})
    /\ doing' = [doing EXCEPT ![w] = Idle]
    /\ UNCHANGED <<queue, bulk, busVars, subscribed, attached, transportVars, history>>

Message(work) ==
    /\ got' = IF Present(work.of) = {} THEN got
              ELSE [got EXCEPT ![work.of] = Append(@, work)]
    /\ UNCHANGED <<doing, detectedPendingRemotes_, providerVars, remotes_, made, listening>>

\* an update may be dropped when the queue is long; the queue is measured when its turn comes
ShouldBeProcessed(work) ==
    work.kind = "update" => Len(queue) * Len(queue) < PressureCutoff

\* the worker runs its bulk in order
RunWork(w) ==
    /\ doing[w] = Idle /\ bulk[w] # <<>> /\ BusesUnlocked
    /\ LET work == Head(bulk[w])
       IN /\ bulk' = [bulk EXCEPT ![w] = Tail(@)]
          /\ \/ work.kind = "joined" /\ Joined(w, work.of)
             \/ work.kind = "left" /\ Left(w, work.of)
             \/ /\ work.kind \in {"confirmed", "update"} /\ ShouldBeProcessed(work)
                /\ Message(work)
             \/ /\ ~ShouldBeProcessed(work)
                /\ UNCHANGED <<doing, detectedPendingRemotes_, providerVars, remotes_, made,
                               listening, got>>
    /\ UNCHANGED <<queue, buses_, participants_, subscribed, attached, transportVars, split,
                   overtaken, orphaned, between>>

-----------------------------------------------------------------------------
(* The components *)

\* mutant: those that were waiting stay where they are
HandedOverNobody(b) == {}

HandedOver(b) == detectedPendingRemotes_[b]

GetOrOpenBus(b) ==
    /\ BusesUnlocked /\ b \notin buses_
    /\ buses_' = buses_ \cup {b}
    /\ NotifySourceAdded(b)
    /\ remotes_' = [remotes_ EXCEPT ![b] = {<<r, made[r] + 1>> : r \in HandedOver(b)}]
    /\ made' = [r \in Remotes |-> IF r \in HandedOver(b) THEN made[r] + 1 ELSE made[r]]
    /\ detectedPendingRemotes_' = [detectedPendingRemotes_ EXCEPT ![b] = {}]
    /\ UNCHANGED <<dispatchVars, localVars, transportVars, history>>

\* a new provider is told of the open buses, and not of those somebody waits for
MakeInfoProvider(i) ==
    /\ BusesUnlocked /\ i \notin infoProviders_
    /\ infoProviders_' = infoProviders_ \cup {i}
    /\ told' = [told EXCEPT ![i] = buses_]
    /\ late' = [late EXCEPT ![i] = {b \in Buses : detectedPendingRemotes_[b] # {}}]
    /\ UNCHANGED <<dispatchVars, buses_, remotes_, detectedPendingRemotes_, made, localVars,
                   transportVars, history>>

InfoProviderDeleted(i) ==
    /\ BusesUnlocked /\ i \in infoProviders_
    /\ infoProviders_' = infoProviders_ \ {i}
    /\ told' = [told EXCEPT ![i] = {}]
    /\ late' = [late EXCEPT ![i] = {}]
    /\ UNCHANGED <<dispatchVars, buses_, remotes_, detectedPendingRemotes_, made, localVars,
                   transportVars, history>>

\* under the session's lock: the participant is told of the remotes there are
Connect(l) ==
    /\ BusesUnlocked /\ BusOf[l] \in buses_ /\ l \notin attached
    /\ attached' = attached \cup {l}
    /\ participants_' = [participants_ EXCEPT ![l] = remotes_[BusOf[l]]]
    /\ UNCHANGED <<dispatchVars, busVars, listening, subscribed, transportVars, history>>

Disconnect(l) ==
    /\ BusesUnlocked /\ l \in attached
    /\ attached' = attached \ {l}
    /\ participants_' = [participants_ EXCEPT ![l] = {}]
    /\ listening' = [listening EXCEPT ![l] = {}]
    /\ subscribed' = [subscribed EXCEPT ![l] = "no"]
    /\ UNCHANGED <<dispatchVars, busVars, transportVars, history>>

\* localSubscriberAdded takes neither lock: the manager is stored, and then listens to everybody
SubscriberStored(l) ==
    /\ l \in attached /\ subscribed[l] = "no"
    /\ subscribed' = [subscribed EXCEPT ![l] = "stored"]
    /\ between' = between \cup Joining
    /\ UNCHANGED <<dispatchVars, busVars, participants_, listening, attached, transportVars, got,
                   split, overtaken, orphaned>>

SubscriberListens(l) ==
    /\ subscribed[l] = "stored"
    /\ subscribed' = [subscribed EXCEPT ![l] = "yes"]
    /\ listening' = [listening EXCEPT ![l] = @ \cup participants_[l]]
    /\ UNCHANGED <<dispatchVars, busVars, participants_, attached, transportVars, history>>

-----------------------------------------------------------------------------

Transport ==
    \/ \E r \in Remotes : \/ RemoteParticipantJoinedBus(r) \/ RemoteParticipantLeftBus(r)
                          \/ \E kind \in Kinds : RemoteMessageReceived(r, kind)
    \/ \E r \in Remotes : RemoteProcessLost(ProcessOf[r])
    \/ DestroyLost

Worker(w) == TakeBulk(w) \/ RunWork(w) \/ Stored(w) \/ Destroy(w)

Components ==
    \/ \E b \in Buses : GetOrOpenBus(b)
    \/ \E i \in Providers : MakeInfoProvider(i) \/ InfoProviderDeleted(i)
    \/ \E l \in Locals : Connect(l) \/ Disconnect(l) \/ SubscriberStored(l) \/ SubscriberListens(l)

Next == Transport \/ Components \/ \E w \in Workers : Worker(w)

Spec == Init /\ [][Next]_vars

-----------------------------------------------------------------------------

TypeOK ==
    /\ queue \in Seq(Works)
    /\ bulk \in [Workers -> Seq(Works)]
    /\ \A w \in Workers : Len(bulk[w]) <= BulkSize
    /\ doing \in [Workers -> {Idle} \cup ({"joining", "leaving"} \X Instances)]
    /\ buses_ \subseteq Buses
    /\ remotes_ \in [Buses -> SUBSET Instances]
    /\ detectedPendingRemotes_ \in [Buses -> SUBSET Remotes]
    /\ infoProviders_ \subseteq Providers
    /\ told \in [Providers -> SUBSET Buses] /\ late \in [Providers -> SUBSET Buses]
    /\ participants_ \in [Locals -> SUBSET Instances]
    /\ listening \in [Locals -> SUBSET Instances]
    /\ subscribed \in [Locals -> {"no", "stored", "yes"}]
    /\ attached \subseteq Locals
    /\ destroying \subseteq Instances
    /\ there \subseteq Remotes
    /\ events \in 0..MaxEvents
    /\ made \in [Remotes -> 0..MaxEvents]
    /\ got \in [Remotes -> Seq(Works)]
    /\ split \subseteq Remotes /\ overtaken \subseteq Remotes /\ orphaned \subseteq Buses
    /\ between \subseteq Instances

\* the remotes the session counts as being on their bus
Known == {r \in Remotes : Present(r) # {} \/ r \in detectedPendingRemotes_[BusOf[r]]}

\* Once the work about it is done, a remote participant is on its bus or waiting for it exactly if
\* the transport last said so, whatever was opened or lost meanwhile (session.cpp:100-134,
\* 196-312), unless two workers had work of it at once or its process was lost before it was run.
KnownAreThere ==
    \A r \in Remotes \ (split \cup overtaken) : Done(r) => (r \in Known <=> r \in there)

\* A local participant holds every remote of its bus, once, and no other than one that is just
\* being destroyed (bus.cpp:70-101, 128-187).
LocalsKnowLive ==
    \A l \in attached :
        BusesUnlocked =>
            /\ remotes_[BusOf[l]] \subseteq participants_[l]
            /\ participants_[l] \subseteq remotes_[BusOf[l]] \cup Leaving \cup destroying
            /\ \A i, j \in remotes_[BusOf[l]] : i[1] = j[1] => i = j

\* A local participant with a subscription listens to every remote it holds, unless the remote
\* was joining when the subscription was made (local_participant.cpp:505-553, 724-738).
SubscribersListen ==
    \A l \in attached :
        subscribed[l] = "yes" => participants_[l] \subseteq listening[l] \cup between

\* The messages of a participant are handed on in the order the transport got them, unless two
\* workers had some of them at once (message_dispatcher.h:113-133).
MessagesInOrder ==
    \A r \in Remotes \ split : \A i, j \in 1..Len(got[r]) : i < j => got[r][i].n < got[r][j].n

\* What a local participant may rely on: it holds the remotes of its bus and no others, each hands
\* on its messages in order.
BusesAreSound == TypeOK /\ LocalsKnowLive /\ MessagesInOrder

\* A provider has been told of every open bus, of every bus somebody waits for, unless it was made
\* while they waited and nobody joined the bus since, and of no other than one that lost its last
\* waiting remote with the process (session.cpp:76-92, 119, 233-312).
ProvidersAreTold ==
    \A i \in infoProviders_ : \A b \in Buses :
        /\ b \in buses_ => b \in told[i]
        /\ detectedPendingRemotes_[b] # {} => b \in told[i] \cup late[i]
        /\ (b \in told[i] /\ b \notin buses_ /\ detectedPendingRemotes_[b] = {})
              => b \in orphaned

=============================================================================
