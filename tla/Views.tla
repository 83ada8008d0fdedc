------------------------------- MODULE Views -------------------------------
(***************************************************************************)
(* The receiving half of the object flow: the ProxyManager of every        *)
(* interest of a participant (libs/kernel/src/bus/proxy_manager.cpp), the  *)
(* ObjectList of the subscription (libs/core/include/sen/core/obj/         *)
(* object_list.h) and an ObjectMux that merges all the interests           *)
(* (libs/core/src/obj/object_mux.cpp).                                     *)
(*                                                                         *)
(* Additions and removals are queued by the thread that makes them, and    *)
(* applied by the subscriber's thread when it drains its inputs. The queue *)
(* (moodycamel::ConcurrentQueue) keeps the order of one producing thread,  *)
(* not the order between two.                                              *)
(***************************************************************************)
EXTENDS Naturals, SequencesExt, FiniteSetsExt

CONSTANTS ViewObjects, ViewInterests

VARIABLES
    subscribed,    \* the interests with a manager
    pending,       \* per interest and producing thread: pendingActions_
    present,       \* per interest: presentObjects_ (and presentProxiesList_)
    list,          \* per interest and object: its entries in the ObjectList
    iteratorMap,   \* per interest: the objects in the list's iteratorMap_
    muxPresent,    \* per object: presentObjects_ of the mux, by interest
    muxListed      \* the objects the mux's listener was told of

listVars == <<list, iteratorMap>>
muxVars == <<muxPresent, muxListed>>
viewVars == <<subscribed, pending, present, listVars, muxVars>>

(* The threads that queue actions: the subscriber's own when it subscribes, *)
(* the owner's when it commits, and the one that stops the owner.           *)
Producers == {"subscriber", "owner", "stopper"}

Addition(o) == [kind |-> "addition", object |-> o]
Removal(o) == [kind |-> "removal", object |-> o]
Additions(objects) == SetToSeq({Addition(o) : o \in objects})
Removals(objects) == SetToSeq({Removal(o) : o \in objects})

EmptyQueue == [t \in Producers |-> <<>>]

ViewsInit ==
    /\ subscribed = {}
    /\ pending = [i \in ViewInterests |-> EmptyQueue]
    /\ present = [i \in ViewInterests |-> {}]
    /\ list = [i \in ViewInterests |-> [o \in ViewObjects |-> 0]]
    /\ iteratorMap = [i \in ViewInterests |-> {}]
    /\ muxPresent = [o \in ViewObjects |-> [i \in ViewInterests |-> 0]]
    /\ muxListed = {}

-----------------------------------------------------------------------------
(* The queue of a manager *)

(* onObjectsAdded and onObjectsRemoved: thread t queues what it was told. *)
(* An interest without a manager has no listener.                         *)
Queued(t, news) ==
    [i \in ViewInterests |->
        IF i \in subscribed THEN [pending[i] EXCEPT ![t] = @ \o news[i]] ELSE pending[i]]

Enqueue(t, news) ==
    /\ pending' = Queued(t, news)
    /\ UNCHANGED <<subscribed, present, listVars, muxVars>>

(* A bulk holds a prefix of what every thread queued, thread after thread; *)
(* an empty queue is left at once.                                         *)
Bulks(q) ==
    LET longest == Max({Len(q[t]) : t \in Producers})
    IN  {n \in [Producers -> 0..longest] :
            /\ \A t \in Producers : n[t] <= Len(q[t])
            /\ \E t \in Producers : n[t] > 0}

Orders == {f \in [1..3 -> Producers] : f[1] # f[2] /\ f[1] # f[3] /\ f[2] # f[3]}

BulkOf(q, n, f) ==
    SubSeq(q[f[1]], 1, n[f[1]]) \o SubSeq(q[f[2]], 1, n[f[2]]) \o SubSeq(q[f[3]], 1, n[f[3]])

LeftIn(q, n) == [t \in Producers |-> SubSeq(q[t], n[t] + 1, Len(q[t]))]

-----------------------------------------------------------------------------
(* processPendingActions *)

(* One action: an addition of an object that is present is ignored, and so *)
(* is a removal of one that is not; the others are noted for the listeners, *)
(* here by how often an object was added and removed.                      *)
Apply(s, action) ==
    LET o == action.object IN
    CASE action.kind = "addition" /\ o \notin s.present ->
            [s EXCEPT !.present = @ \union {o}, !.added[o] = @ + 1]
      [] action.kind = "removal" /\ o \in s.present ->
            [s EXCEPT !.present = @ \ {o}, !.removed[o] = @ + 1]
      [] OTHER -> s

NoNews == [o \in ViewObjects |-> 0]

Processed(i, actions) ==
    LET after[k \in 0..Len(actions)] ==
            IF k = 0
              THEN [present |-> present[i], added |-> NoNews, removed |-> NoNews]
              ELSE Apply(after[k - 1], actions[k])
    IN  after[Len(actions)]

(* The listeners are told of all the additions, then of all the removals.  *)
(* ObjectList: an addition always makes an entry, and the map keeps the    *)
(* entry it had; a removal takes away the entry in the map.                *)
Mapped(i, o, r) == o \in iteratorMap[i] \/ r.added[o] > 0

\* mutant: an object that has an entry gets no other
OneEntry(i, o, r) == IF list[i][o] + r.added[o] > 0 THEN 1 ELSE 0

Entries(i, o, r) == list[i][o] + r.added[o]

EntriesLeft(i, o, r) ==
    IF r.removed[o] > 0 /\ Mapped(i, o, r) THEN Entries(i, o, r) - 1 ELSE Entries(i, o, r)

MappedLeft(i, r) == {o \in ViewObjects : Mapped(i, o, r) /\ r.removed[o] = 0}

\* mutant: an interest has at most one entry
MuxOneEntry(i, o, r) == IF muxPresent[o][i] + r.added[o] > 0 THEN 1 ELSE 0

(* ObjectMux: every addition is an entry for its interest, and a removal   *)
(* takes away an entry of its interest.                                    *)
MuxEntries(i, o, r) == muxPresent[o][i] + r.added[o]

MuxEntriesLeft(i, o, r) ==
    IF r.removed[o] > MuxEntries(i, o, r) THEN 0 ELSE MuxEntries(i, o, r) - r.removed[o]

(* Its listener is told of an object when its first entry comes and when   *)
(* the last one goes.                                                      *)
MuxHas(entries, o) == \E i \in ViewInterests : entries[o][i] > 0

MuxTold(i, r) ==
    /\ muxPresent' = [o \in ViewObjects |-> [muxPresent[o] EXCEPT ![i] = MuxEntriesLeft(i, o, r)]]
    /\ muxListed' = (muxListed \union {o \in ViewObjects : r.added[o] > 0})
                        \ {o \in ViewObjects : r.removed[o] > 0 /\ ~MuxHas(muxPresent', o)}

ListTold(i, r) ==
    /\ list' = [list EXCEPT ![i] = [o \in ViewObjects |-> EntriesLeft(i, o, r)]]
    /\ iteratorMap' = [iteratorMap EXCEPT ![i] = MappedLeft(i, r)]

-----------------------------------------------------------------------------
(* ProxyManager::notifyChangesToLocalListeners, once per drain *)
Drain(i) ==
    /\ i \in subscribed
    /\ pending[i] # EmptyQueue
    /\ UNCHANGED subscribed
    /\ \E n \in Bulks(pending[i]) : \E bulk \in {BulkOf(pending[i], n, f) : f \in Orders} :
          LET r == Processed(i, bulk)
          IN  /\ pending' = [pending EXCEPT ![i] = LeftIn(@, n)]
              /\ present' = [present EXCEPT ![i] = r.present]
              /\ ListTold(i, r)
              /\ MuxTold(i, r)

(* LocalParticipant::localSubscriberAdded: a new manager for the interest,  *)
(* which is told of the objects the other participant shows.                *)
Subscribe(i, shown) ==
    /\ i \notin subscribed
    /\ subscribed' = subscribed \union {i}
    /\ pending' = [pending EXCEPT ![i] = [EmptyQueue EXCEPT !["subscriber"] = Additions(shown)]]
    /\ UNCHANGED <<present, listVars, muxVars>>

(* LocalParticipant::localSubscriberRemoved: the listeners are told that    *)
(* what is present goes, and the manager and the subscription's list go too.*)
Unsubscribe(i) ==
    /\ i \in subscribed
    /\ subscribed' = subscribed \ {i}
    /\ MuxTold(i, [added |-> NoNews,
                  removed |-> [o \in ViewObjects |-> IF o \in present[i] THEN 1 ELSE 0]])
    /\ pending' = [pending EXCEPT ![i] = EmptyQueue]
    /\ present' = [present EXCEPT ![i] = {}]
    /\ list' = [list EXCEPT ![i] = NoNews]
    /\ iteratorMap' = [iteratorMap EXCEPT ![i] = {}]

Listed(i) == {o \in ViewObjects : list[i][o] > 0}

(* No action on the object waits. *)
NothingPending(i, o) ==
    \A t \in Producers : \A k \in 1..Len(pending[i][t]) : pending[i][t][k].object # o
=============================================================================
