-------------------------- MODULE DiscoveryProofs --------------------------
(***************************************************************************)
(* What a process learns of the others: proofs about Sessions and about    *)
(* RemoteObjects, which share no state and no lemma and are kept apart     *)
(* below.                                                                  *)
(*                                                                         *)
(* Sessions, for any number of components, watchers and processes: the     *)
(* type invariant, which includes that a session is listed at most once,   *)
(* that a drained list shows what its runner was told, and that every      *)
(* runner was told what is true.                                           *)
(*                                                                         *)
(* RemoteObjects, for any number of objects, commits, subscriptions and    *)
(* timeouts: consistent records and agreement on the interests for any     *)
(* number of interests; no ghosts and populated arrivals for one.          *)
(***************************************************************************)
EXTENDS Sessions, RemoteObjects, FiniteSetTheorems, WellFoundedInduction, TLAPS

----------------------------------------------------------------------------
(* Sessions *)

(* What SessionsTypeOK leaves out: the histories, and that the mutex is a function. *)
SessionsShapes ==
    /\ sourcesMutex_ \in [Components -> Components \union {Nobody}]
    /\ told \in [Components -> {"available", "unavailable"}]
    /\ flapped \in [Components -> BOOLEAN]

(* A pending addition is of a session that is not listed, a pending removal of one that is. *)
PendingIsNews ==
    \A c \in Components :
        /\ pendingAdditions_[c] => currentSources_[c] = 0
        /\ pendingRemovals_[c] => currentSources_[c] = 1

(* What is pending is what the runner was told last, as long as no two opposites met. *)
PendingIsTold ==
    \A c \in Components : ~flapped[c] =>
        /\ pendingAdditions_[c] => told[c] = "available"
        /\ pendingRemovals_[c] => told[c] = "unavailable"

SessionsInv == SessionsTypeOK /\ SessionsShapes /\ PendingIsNews /\ PendingIsTold /\ ListFollowsAnnouncements

----------------------------------------------------------------------------
(* The invariant holds when the kernel is constructed. *)
LEMMA SessionsInitInv == SessionsInit => SessionsInv
<1> SUFFICES ASSUME SessionsInit PROVE SessionsInv
  OBVIOUS
<1>1. /\ pendingAdditions_ \in [Components -> BOOLEAN] /\ flapped \in [Components -> BOOLEAN]
      /\ pendingRemovals_ \in [Components -> BOOLEAN] /\ nameStillOpen \in [Components -> BOOLEAN]
  BY Zenon DEF SessionsInit
<1>2. SessionsTypeOK
  BY <1>1 DEF SessionsInit, SessionsTypeOK
<1>3. SessionsShapes
  BY <1>1 DEF SessionsInit, SessionsShapes
<1>4. PendingIsNews /\ PendingIsTold /\ ListFollowsAnnouncements
  BY DEF SessionsInit, PendingIsNews, PendingIsTold, ListFollowsAnnouncements
<1> QED
  BY <1>2, <1>3, <1>4 DEF SessionsInv

(* A call that returns leaves every program counter and mutex typed. *)
LEMMA FinishTypes ==
    ASSUME SessionsInv, NEW t \in Threads, Finish(t)
    PROVE  /\ pc' \in [Threads -> {"idle", "opened", "dying", "guarded", "unlisted", "tell",
                                   "detected", "undetected"}]
           /\ sourcesMutex_' \in [Components -> Components \union {Nobody}]
           /\ \A c \in Components : sourcesMutex_'[c] \in {Nobody, c}
BY DEF Finish, Goto, SessionsInv, SessionsTypeOK, SessionsShapes

(* So does an announcement that begins. *)
LEMMA AnnounceTypes ==
    ASSUME SessionsInv, NEW t \in Threads, NEW news \in {"available", "unavailable"}, Announce(t, news)
    PROVE  /\ pc' \in [Threads -> {"idle", "opened", "dying", "guarded", "unlisted", "tell",
                                   "detected", "undetected"}]
           /\ remoteSessionsMutex_' \in Threads \union {Nobody}
           /\ what' \in [Threads -> {"available", "unavailable"}]
           /\ todo' \in [Threads -> SUBSET Components]
           /\ UNCHANGED sourcesMutex_
BY DEF Announce, Goto, SessionsInv, SessionsTypeOK

(* Whatever leaves the lists of the runners and the announcements made to them alone keeps what *)
(* relates them.                                                                                *)
LEMMA ListsUntouched ==
    ASSUME SessionsInv, UNCHANGED <<sources, told, flapped>>
    PROVE  PendingIsNews' /\ PendingIsTold' /\ ListFollowsAnnouncements'
BY DEF SessionsInv, sources, PendingIsNews, PendingIsTold, ListFollowsAnnouncements

(* The session manager's steps. *)
LEMMA ManagerInv ==
    ASSUME SessionsInv, NEW c \in Components,
           \/ Open(c) \/ OpenAnnounces(c) \/ Release(c) \/ MakeDeletionGuard(c)
           \/ CloseUnlists(c) \/ CloseAnnounces(c)
    PROVE  SessionsInv'
<1> USE DEF SessionsInv, manager, sources, local, history, Quiet, Goto
<1>0. c \in Threads
  BY DEF Threads
<1>1. CASE Open(c)
  <2>1. SessionsTypeOK' /\ SessionsShapes'
    BY <1>1, <1>0, FinishTypes DEF Open, SessionsTypeOK, SessionsShapes
  <2> QED
    BY <1>1, <2>1, ListsUntouched DEF Open, SessionsInv
<1>2. CASE OpenAnnounces(c)
  <2>1. SessionsTypeOK' /\ SessionsShapes'
    BY <1>2, <1>0, FinishTypes, AnnounceTypes DEF OpenAnnounces, SessionsTypeOK, SessionsShapes
  <2> QED
    BY <1>2, <2>1, ListsUntouched DEF OpenAnnounces, SessionsInv
<1>3. CASE Release(c)
  <2>1. SessionsTypeOK' /\ SessionsShapes'
    BY <1>3, <1>0, FinishTypes DEF Release, SessionsTypeOK, SessionsShapes
  <2> QED
    BY <1>3, <2>1, ListsUntouched DEF Release, SessionsInv
<1>4. CASE MakeDeletionGuard(c)
  <2>1. SessionsTypeOK' /\ SessionsShapes'
    BY <1>4, <1>0 DEF MakeDeletionGuard, SessionsTypeOK, SessionsShapes
  <2> QED
    BY <1>4, <2>1, ListsUntouched DEF MakeDeletionGuard, SessionsInv
<1>5. CASE CloseUnlists(c)
  <2>1. SessionsTypeOK' /\ SessionsShapes'
    BY <1>5, <1>0 DEF CloseUnlists, SessionsTypeOK, SessionsShapes
  <2> QED
    BY <1>5, <2>1, ListsUntouched DEF CloseUnlists, SessionsInv
<1>6. CASE CloseAnnounces(c)
  <2>1. SessionsTypeOK' /\ SessionsShapes'
    BY <1>6, <1>0, FinishTypes, AnnounceTypes DEF CloseAnnounces, SessionsTypeOK, SessionsShapes
  <2> QED
    BY <1>6, <2>1, ListsUntouched DEF CloseAnnounces, SessionsInv
<1> QED
  BY <1>1, <1>2, <1>3, <1>4, <1>5, <1>6

(* What the ether component reports. *)
LEMMA RemoteInv ==
    ASSUME SessionsInv, NEW p \in Processes, RemoteProcessDetected(p) \/ RemoteProcessLost(p)
    PROVE  SessionsInv'
<1> USE DEF SessionsInv, manager, sources, local, history, Quiet
<1>0. Ether \in Threads
  BY DEF Threads
<1>1. CASE RemoteProcessDetected(p)
  <2>1. SessionsTypeOK' /\ SessionsShapes'
    BY <1>1, <1>0, AnnounceTypes DEF RemoteProcessDetected, SessionsTypeOK, SessionsShapes
  <2> QED
    BY <1>1, <2>1, ListsUntouched DEF RemoteProcessDetected, SessionsInv
<1>2. CASE RemoteProcessLost(p)
  <2>1. SessionsTypeOK' /\ SessionsShapes'
    BY <1>2, <1>0, AnnounceTypes DEF RemoteProcessLost, SessionsTypeOK, SessionsShapes
  <2> QED
    BY <1>2, <2>1, ListsUntouched DEF RemoteProcessLost, SessionsInv
<1> QED
  BY <1>1, <1>2

(* An announcement reaches a runner. *)
LEMMA TellInv ==
    ASSUME SessionsInv, NEW t \in Threads, NEW c \in Components, Tell(t, c)
    PROVE  SessionsInv'
<1> USE DEF SessionsInv, manager, sources, local, history
<1>1. SessionsTypeOK' /\ SessionsShapes'
  BY DEF Tell, AddSource, RemoveSource, SessionsTypeOK, SessionsShapes
<1>2. PendingIsNews'
  BY DEF Tell, AddSource, RemoveSource, SessionsTypeOK, PendingIsNews
<1>3. PendingIsTold'
  BY DEF Tell, AddSource, RemoveSource, SessionsTypeOK, SessionsShapes, PendingIsNews, PendingIsTold
<1>4. ListFollowsAnnouncements'
  BY DEF Tell, AddSource, RemoveSource, SessionsTypeOK, SessionsShapes, PendingIsNews,
     PendingIsTold, ListFollowsAnnouncements
<1> QED
  BY <1>1, <1>2, <1>3, <1>4

(* An announcement is through. *)
LEMMA ToldInv ==
    ASSUME SessionsInv, NEW t \in Threads, Told(t)
    PROVE  SessionsInv'
<1> USE DEF SessionsInv, manager, sources, local, history
<1>1. SessionsTypeOK' /\ SessionsShapes'
  BY FinishTypes DEF Told, SessionsTypeOK, SessionsShapes
<1> QED
  BY <1>1, ListsUntouched DEF Told

(* A component drains its list. *)
LEMMA DrainInv ==
    ASSUME SessionsInv, NEW c \in Components, DrainInputs(c)
    PROVE  SessionsInv'
<1> USE DEF SessionsInv, manager, sources, local, history, Goto
<1>0. c \in Threads
  BY DEF Threads
<1>1. SessionsTypeOK' /\ SessionsShapes'
  BY <1>0 DEF DrainInputs, Drained, SessionsTypeOK, SessionsShapes, PendingIsNews
<1>2. PendingIsNews' /\ PendingIsTold'
  BY DEF DrainInputs, SessionsTypeOK, PendingIsNews, PendingIsTold
<1>3. ListFollowsAnnouncements'
  BY DEF DrainInputs, Drained, SessionsTypeOK, SessionsShapes, PendingIsNews, PendingIsTold,
     ListFollowsAnnouncements
<1> QED
  BY <1>1, <1>2, <1>3

(* The invariant holds throughout. *)
LEMMA SessionsInvariant == SessionsSpec => []SessionsInv
<1>1. ASSUME SessionsInv, UNCHANGED sessionsVars PROVE SessionsInv'
  BY <1>1, ListsUntouched DEF SessionsInv, sessionsVars, manager, sources, local, history,
     SessionsTypeOK, SessionsShapes
<1>2. ASSUME SessionsInv, [SessionsNext]_sessionsVars PROVE SessionsInv'
  BY <1>1, <1>2, ManagerInv, RemoteInv, TellInv, ToldInv, DrainInv DEF SessionsNext, Proceed
<1> QED
  BY <1>2, SessionsInitInv, PTL DEF SessionsSpec

(* Every variable keeps its type; in particular no drain of SourceInfo lists a session twice. *)
THEOREM SessionTypes == SessionsSpec => []SessionsTypeOK
BY SessionsInvariant, PTL DEF SessionsInv

(* What a component sees after SourceInfo::drainInputs is what its runner was told last, unless *)
(* two opposite announcements came between two drains.                                          *)
THEOREM DrainedListsAreRight == SessionsSpec => []ListFollowsAnnouncements
BY SessionsInvariant, PTL DEF SessionsInv

----------------------------------------------------------------------------
(* What is announced, and what is true *)

(* The last announcement that was begun, as it reaches a component. *)
LastTold(c) == IF remoteSessionsMutex_ = Nobody THEN told[c] ELSE what[remoteSessionsMutex_]

(* Whoever announces holds the mutex, and who was told was told this. *)
TellersHoldTheLock ==
    /\ \A t \in Threads : pc[t] = "tell" <=> remoteSessionsMutex_ = t
    /\ \A t \in Threads : remoteSessionsMutex_ = t =>
         \A c \in Components : c \notin todo[t] => told[c] = what[t]

OpenersHold == \A c \in Components : pc[c] = "opened" => c \in holders

Opening == \E c \in Components : pc[c] = "opened"
(* A closing that has found no other holder, or has not looked yet. *)
Closing == \E c \in Components : \/ pc[c] \in {"dying", "guarded"}
                                 \/ pc[c] = "unlisted" /\ ~nameStillOpen[c]

(* Outside the two windows nobody opens the session after a closing has found it unlisted. *)
UnlistedAreClosed ==
    ~raced => \A c \in Components : (pc[c] = "unlisted" /\ ~nameStillOpen[c]) => holders = {}

(* What was last announced is true, up to an opening or a closing that has yet to announce. *)
AnnouncedIsTrue ==
    ~raced => \A c \in Components :
        /\ remotes # {} => LastTold(c) = "available"
        /\ (holders # {} /\ ~Opening) => LastTold(c) = "available"
        /\ (~Available /\ ~Closing) => LastTold(c) = "unavailable"

AnnounceInv == TellersHoldTheLock /\ OpenersHold /\ UnlistedAreClosed /\ AnnouncedIsTrue

(* Nothing was announced and nothing is there. *)
LEMMA AnnounceInit == SessionsInit => AnnounceInv
BY SessionsAssumption DEF SessionsInit, AnnounceInv, TellersHoldTheLock, OpenersHold,
   UnlistedAreClosed,
   AnnouncedIsTrue, LastTold, Available, Closing, Opening, Threads, SessionsAssumption

(* The locks and the announcement in progress, in a step that announces nothing. *)
LEMMA NoNews ==
    ASSUME SessionsInv, AnnounceInv, UNCHANGED <<remoteSessionsMutex_, what, todo, told>>,
           NEW t \in Threads, pc[t] # "tell", NEW label, label # "tell",
           pc' = [pc EXCEPT ![t] = label]
    PROVE  TellersHoldTheLock' /\ \A c \in Components : LastTold(c)' = LastTold(c)
<1>1. pc \in [Threads -> {"idle", "opened", "dying", "guarded", "unlisted", "tell", "detected",
                           "undetected"}]
  BY DEF SessionsInv, SessionsTypeOK
<1>2. TellersHoldTheLock'
  BY <1>1 DEF AnnounceInv, TellersHoldTheLock
<1> QED
  BY <1>2 DEF LastTold

(* A thread that begins to announce takes the free mutex; from then on this is the last news. *)
LEMMA News ==
    ASSUME SessionsInv, AnnounceInv, NEW t \in Threads, NEW news, remoteSessionsMutex_ = Nobody,
           Announce(t, news), UNCHANGED told
    PROVE  TellersHoldTheLock' /\ \A c \in Components : LastTold(c)' = news
<1>1. /\ pc \in [Threads -> {"idle", "opened", "dying", "guarded", "unlisted", "tell", "detected",
                             "undetected"}]
      /\ what \in [Threads -> {"available", "unavailable"}]
      /\ todo \in [Threads -> SUBSET Components]
  BY DEF SessionsInv, SessionsTypeOK
<1>2. t # Nobody /\ Nobody \notin Threads
  BY SessionsAssumption DEF SessionsAssumption, Threads
<1>3. TellersHoldTheLock'
  BY <1>1, <1>2 DEF AnnounceInv, TellersHoldTheLock, Announce, Goto
<1> QED
  BY <1>1, <1>2, <1>3 DEF LastTold, Announce

(* A component opens the session. *)
LEMMA OpenAnnounced ==
    ASSUME SessionsInv, AnnounceInv, NEW c \in Components, Open(c)
    PROVE  AnnounceInv'
<1>1. /\ UNCHANGED <<remotes, remoteSessionsMutex_, what, todo, told, nameStillOpen>>
      /\ holders' = holders \union {c} /\ pc[c] \in {"detected", "idle"}
      /\ raced' = (raced \/ (holders = {} /\ \E d \in Components : pc[d] = "unlisted" /\ ~nameStillOpen[d]))
      /\ \/ holders = {} /\ pc' = [pc EXCEPT ![c] = "opened"]
         \/ holders # {} /\ pc' = [pc EXCEPT ![c] = "idle"]
  BY DEF Open, Finish, Goto, local
<1>2. c \in Threads /\ \A d \in Components : d \in Threads
  BY DEF Threads
<1>3. pc \in [Threads -> {"idle", "opened", "dying", "guarded", "unlisted", "tell", "detected",
                           "undetected"}]
  BY DEF SessionsInv, SessionsTypeOK
<1>4. TellersHoldTheLock' /\ \A d \in Components : LastTold(d)' = LastTold(d)
  BY <1>1, <1>2, NoNews
<1>5. /\ \A d \in Components : d # c => pc'[d] = pc[d]
      /\ pc'[c] \in {"opened", "idle"}
  BY <1>1, <1>2, <1>3
<1>6. OpenersHold'
  BY <1>1, <1>5 DEF AnnounceInv, OpenersHold
<1>7. UnlistedAreClosed'
  BY <1>1, <1>5 DEF AnnounceInv, UnlistedAreClosed
<1>8. AnnouncedIsTrue'
  <2> SUFFICES ASSUME ~raced', NEW d \in Components
               PROVE  /\ remotes # {} => LastTold(d) = "available"
                      /\ (holders' # {} /\ ~Opening') => LastTold(d) = "available"
                      /\ (~Available' /\ ~Closing') => LastTold(d) = "unavailable"
    BY <1>1, <1>4 DEF AnnouncedIsTrue
  <2>1. ~raced /\ holders' # {}
    BY <1>1
  <2>2. holders = {} => Opening'
    BY <1>1, <1>2, <1>3 DEF Opening
  <2>3. holders # {} => (Opening' <=> Opening)
    BY <1>1, <1>2, <1>3 DEF Opening
  <2> QED
    BY <2>1, <2>2, <2>3 DEF AnnounceInv, AnnouncedIsTrue, Available
<1> QED
  BY <1>4, <1>6, <1>7, <1>8 DEF AnnounceInv

(* The opening is announced, if no process was seen in the session yet. *)
LEMMA OpeningAnnounced ==
    ASSUME SessionsInv, AnnounceInv, NEW c \in Components, OpenAnnounces(c)
    PROVE  AnnounceInv'
<1>1. /\ UNCHANGED <<holders, remotes, told, nameStillOpen, raced>>
      /\ pc[c] = "opened" /\ remoteSessionsMutex_ = Nobody
      /\ \/ remotes = {} /\ Announce(c, "available") /\ pc' = [pc EXCEPT ![c] = "tell"]
         \/ /\ remotes # {} /\ UNCHANGED <<remoteSessionsMutex_, what, todo>>
            /\ pc' = [pc EXCEPT ![c] = "idle"]
  BY DEF OpenAnnounces, Finish, Goto, Announce, Quiet, history
<1>2. c \in Threads /\ \A d \in Components : d \in Threads
  BY DEF Threads
<1>3. pc \in [Threads -> {"idle", "opened", "dying", "guarded", "unlisted", "tell", "detected",
                           "undetected"}]
  BY DEF SessionsInv, SessionsTypeOK
<1>4. (\A d \in Components : d # c => pc'[d] = pc[d]) /\ pc'[c] \in {"tell", "idle"}
  BY <1>1, <1>2, <1>3
<1>5. TellersHoldTheLock' /\ \A d \in Components :
        LastTold(d)' = IF remotes = {} THEN "available" ELSE LastTold(d)
  <2>1. CASE remotes = {}
    BY <1>1, <1>2, <2>1, News
  <2>2. CASE remotes # {}
    BY <1>1, <1>2, <2>2, NoNews
  <2> QED
    BY <2>1, <2>2
<1>6. OpenersHold' /\ UnlistedAreClosed'
  BY <1>1, <1>4 DEF AnnounceInv, OpenersHold, UnlistedAreClosed
<1>7. AnnouncedIsTrue'
  <2> SUFFICES ASSUME ~raced, NEW d \in Components
               PROVE  /\ LastTold(d)' = "available" /\ Available'
    BY <1>1 DEF AnnouncedIsTrue
  <2>1. holders # {}
    BY <1>1 DEF AnnounceInv, OpenersHold
  <2> QED
    BY <1>1, <1>5, <2>1 DEF AnnounceInv, AnnouncedIsTrue, Available
<1> QED
  BY <1>5, <1>6, <1>7 DEF AnnounceInv

(* A handle of the session goes. *)
LEMMA ReleaseAnnounced ==
    ASSUME SessionsInv, AnnounceInv, NEW c \in Components, Release(c)
    PROVE  AnnounceInv'
<1>1. /\ UNCHANGED <<remotes, remoteSessionsMutex_, what, todo, told, nameStillOpen, raced>>
      /\ holders' = holders \ {c} /\ pc[c] \in {"undetected", "idle"}
      /\ \/ holders = {c} /\ pc' = [pc EXCEPT ![c] = "dying"]
         \/ holders # {c} /\ pc' = [pc EXCEPT ![c] = "idle"]
  BY DEF Release, Finish, Goto, local, history
<1>2. c \in Threads /\ \A d \in Components : d \in Threads
  BY DEF Threads
<1>3. pc \in [Threads -> {"idle", "opened", "dying", "guarded", "unlisted", "tell", "detected",
                           "undetected"}]
  BY DEF SessionsInv, SessionsTypeOK
<1>4. TellersHoldTheLock' /\ \A d \in Components : LastTold(d)' = LastTold(d)
  BY <1>1, <1>2, NoNews
<1>5. (\A d \in Components : d # c => pc'[d] = pc[d]) /\ pc'[c] \in {"dying", "idle"}
  BY <1>1, <1>2, <1>3
<1>6. OpenersHold' /\ UnlistedAreClosed'
  BY <1>1, <1>5 DEF AnnounceInv, OpenersHold, UnlistedAreClosed
<1>7. AnnouncedIsTrue'
  <2> SUFFICES ASSUME ~raced, NEW d \in Components
               PROVE  /\ remotes # {} => LastTold(d) = "available"
                      /\ (holders' # {} /\ ~Opening') => LastTold(d) = "available"
                      /\ (~Available' /\ ~Closing') => LastTold(d) = "unavailable"
    BY <1>1, <1>4 DEF AnnouncedIsTrue
  <2>1. Opening' <=> Opening
    BY <1>1, <1>5 DEF Opening
  <2>2. holders = {c} => Closing'
    BY <1>1, <1>2, <1>3 DEF Closing
  <2>3. holders # {c} => (Closing' <=> Closing)
    BY <1>1, <1>5, <1>2, <1>3 DEF Closing
  <2>4. (holders # {c} /\ holders' = {}) => holders = {}
    BY <1>1
  <2> QED
    BY <1>1, <2>1, <2>2, <2>3, <2>4 DEF AnnounceInv, AnnouncedIsTrue, Available
<1> QED
  BY <1>4, <1>6, <1>7 DEF AnnounceInv

(* The session that is destroyed waits for its turn, and looks for another holder. *)
LEMMA UnlistAnnounced ==
    ASSUME SessionsInv, AnnounceInv, NEW c \in Components, MakeDeletionGuard(c) \/ CloseUnlists(c)
    PROVE  AnnounceInv'
<1>1. /\ UNCHANGED <<holders, remotes, remoteSessionsMutex_, what, todo, told, raced>>
      /\ pc[c] \in {"dying", "guarded"}
      /\ \/ pc' = [pc EXCEPT ![c] = "guarded"] /\ UNCHANGED nameStillOpen
         \/ /\ pc' = [pc EXCEPT ![c] = "unlisted"]
            /\ nameStillOpen' = [nameStillOpen EXCEPT ![c] = holders # {}]
  BY DEF MakeDeletionGuard, CloseUnlists, Goto, local, history, manager
<1>2. c \in Threads /\ \A d \in Components : d \in Threads
  BY DEF Threads
<1>3. /\ pc \in [Threads -> {"idle", "opened", "dying", "guarded", "unlisted", "tell", "detected",
                             "undetected"}]
      /\ nameStillOpen \in [Components -> BOOLEAN]
  BY DEF SessionsInv, SessionsTypeOK
<1>4. TellersHoldTheLock' /\ \A d \in Components : LastTold(d)' = LastTold(d)
  BY <1>1, <1>2, NoNews
<1>5. /\ \A d \in Components : d # c => pc'[d] = pc[d] /\ nameStillOpen'[d] = nameStillOpen[d]
      /\ pc'[c] = "guarded" \/ (pc'[c] = "unlisted" /\ nameStillOpen'[c] = (holders # {}))
  BY <1>1, <1>2, <1>3
<1>6. OpenersHold' /\ UnlistedAreClosed'
  BY <1>1, <1>5 DEF AnnounceInv, OpenersHold, UnlistedAreClosed
<1>7. AnnouncedIsTrue'
  <2>1. Opening' <=> Opening
    BY <1>1, <1>5 DEF Opening
  <2>2. ~Available => Closing'
    BY <1>1, <1>5 DEF Closing, Available
  <2>3. Available' <=> Available
    BY <1>1 DEF Available
  <2> QED
    BY <1>1, <1>4, <2>1, <2>2, <2>3 DEF AnnounceInv, AnnouncedIsTrue
<1> QED
  BY <1>4, <1>6, <1>7 DEF AnnounceInv

(* The end of the session is announced, if nobody opened it again and no process is in it. *)
LEMMA ClosingAnnounced ==
    ASSUME SessionsInv, AnnounceInv, NEW c \in Components, CloseAnnounces(c)
    PROVE  AnnounceInv'
<1>1. /\ UNCHANGED <<holders, remotes, told, nameStillOpen, raced>>
      /\ pc[c] = "unlisted" /\ remoteSessionsMutex_ = Nobody
      /\ \/ /\ ~nameStillOpen[c] /\ remotes = {} /\ Announce(c, "unavailable")
            /\ pc' = [pc EXCEPT ![c] = "tell"]
         \/ /\ nameStillOpen[c] \/ remotes # {}
            /\ UNCHANGED <<remoteSessionsMutex_, what, todo>> /\ pc' = [pc EXCEPT ![c] = "idle"]
  BY DEF CloseAnnounces, Finish, Goto, Announce, Quiet, history
<1>2. c \in Threads /\ \A d \in Components : d \in Threads
  BY DEF Threads
<1>3. pc \in [Threads -> {"idle", "opened", "dying", "guarded", "unlisted", "tell", "detected",
                           "undetected"}]
  BY DEF SessionsInv, SessionsTypeOK
<1>4. (\A d \in Components : d # c => pc'[d] = pc[d]) /\ pc'[c] \in {"tell", "idle"}
  BY <1>1, <1>2, <1>3
<1>5. OpenersHold' /\ UnlistedAreClosed'
  BY <1>1, <1>4 DEF AnnounceInv, OpenersHold, UnlistedAreClosed
<1>6. (Available' <=> Available) /\ (Opening' <=> Opening)
  BY <1>1, <1>4 DEF Available, Opening
<1>7. CASE ~nameStillOpen[c] /\ remotes = {}
  <2>1. TellersHoldTheLock' /\ \A d \in Components : LastTold(d)' = "unavailable"
    BY <1>1, <1>2, <1>7, News
  <2>2. ~raced => holders = {}
    BY <1>1, <1>7 DEF AnnounceInv, UnlistedAreClosed
  <2>3. AnnouncedIsTrue'
    BY <1>1, <1>7, <2>1, <2>2 DEF AnnouncedIsTrue
  <2> QED
    BY <1>5, <2>1, <2>3 DEF AnnounceInv
<1>8. CASE nameStillOpen[c] \/ remotes # {}
  <2>1. TellersHoldTheLock' /\ \A d \in Components : LastTold(d)' = LastTold(d)
    BY <1>1, <1>2, <1>8, NoNews
  <2>2. (~Available /\ Closing) => Closing'
    BY <1>1, <1>4, <1>8 DEF Closing, Available
  <2>3. AnnouncedIsTrue'
    BY <1>1, <1>6, <2>1, <2>2 DEF AnnounceInv, AnnouncedIsTrue
  <2> QED
    BY <1>5, <2>1, <2>3 DEF AnnounceInv
<1> QED
  BY <1>7, <1>8

(* The ether component reports a process. *)
LEMMA RemoteAnnounced ==
    ASSUME SessionsInv, AnnounceInv, NEW p \in Processes, RemoteProcessDetected(p) \/ RemoteProcessLost(p)
    PROVE  AnnounceInv'
<1>1. /\ UNCHANGED <<holders, told, nameStillOpen>>
      /\ pc[Ether] = "idle" /\ remoteSessionsMutex_ = Nobody
      /\ \/ pc' = [pc EXCEPT ![Ether] = "tell"]
         \/ UNCHANGED <<remoteSessionsMutex_, what, todo, pc>>
  BY DEF RemoteProcessDetected, RemoteProcessLost, Announce, Quiet, Goto, history
<1>2. Ether \in Threads /\ \A d \in Components : d \in Threads /\ d # Ether
  BY SessionsAssumption DEF Threads, SessionsAssumption
<1>3. pc \in [Threads -> {"idle", "opened", "dying", "guarded", "unlisted", "tell", "detected",
                           "undetected"}]
  BY DEF SessionsInv, SessionsTypeOK
<1>4. \A d \in Components : pc'[d] = pc[d]
  BY <1>1, <1>2, <1>3
<1>5. (Opening' <=> Opening) /\ (Closing' <=> Closing)
  BY <1>1, <1>4 DEF Opening, Closing
<1>6. ASSUME UNCHANGED <<remoteSessionsMutex_, what, todo, pc>>
      PROVE  TellersHoldTheLock' /\ \A d \in Components : LastTold(d)' = LastTold(d)
  BY <1>1, <1>6 DEF AnnounceInv, TellersHoldTheLock, LastTold
<1>7. CASE RemoteProcessDetected(p)
  <2>1. /\ remotes' = remotes \union {p} /\ remotes' # {}
        /\ raced' = (raced \/ (remotes = {} /\ Opening))
    BY <1>7 DEF RemoteProcessDetected, Opening
  <2>2. OpenersHold' /\ UnlistedAreClosed'
    BY <1>1, <1>4, <2>1 DEF AnnounceInv, OpenersHold, UnlistedAreClosed
  <2>3. CASE remotes = {} /\ holders = {}
    <3>1. TellersHoldTheLock' /\ \A d \in Components : LastTold(d)' = "available"
      BY <1>1, <1>2, <1>7, <2>3, News DEF RemoteProcessDetected
    <3>2. AnnouncedIsTrue'
      BY <2>1, <3>1 DEF AnnouncedIsTrue, Available
    <3> QED
      BY <2>2, <3>1, <3>2 DEF AnnounceInv
  <2>4. CASE ~(remotes = {} /\ holders = {})
    <3>1. TellersHoldTheLock' /\ \A d \in Components : LastTold(d)' = LastTold(d)
      BY <1>6, <1>7, <2>4 DEF RemoteProcessDetected, Quiet
    <3>2. ~raced' => \A d \in Components : LastTold(d) = "available"
      BY <2>1, <2>4 DEF AnnounceInv, AnnouncedIsTrue
    <3>3. AnnouncedIsTrue'
      BY <2>1, <3>1, <3>2 DEF AnnouncedIsTrue, Available
    <3> QED
      BY <2>2, <3>1, <3>3 DEF AnnounceInv
  <2> QED
    BY <2>3, <2>4
<1>8. CASE RemoteProcessLost(p)
  <2>1. remotes' = remotes \ {p} /\ p \in remotes /\ UNCHANGED raced
    BY <1>8 DEF RemoteProcessLost, history
  <2>2. OpenersHold' /\ UnlistedAreClosed'
    BY <1>1, <1>4, <2>1 DEF AnnounceInv, OpenersHold, UnlistedAreClosed
  <2>3. CASE remotes = {p} /\ holders = {}
    <3>1. TellersHoldTheLock' /\ \A d \in Components : LastTold(d)' = "unavailable"
      BY <1>1, <1>2, <1>8, <2>3, News DEF RemoteProcessLost
    <3>2. AnnouncedIsTrue'
      BY <1>1, <2>1, <2>3, <3>1 DEF AnnouncedIsTrue
    <3> QED
      BY <2>2, <3>1, <3>2 DEF AnnounceInv
  <2>4. CASE ~(remotes = {p} /\ holders = {})
    <3>1. TellersHoldTheLock' /\ \A d \in Components : LastTold(d)' = LastTold(d)
      BY <1>6, <1>8, <2>4 DEF RemoteProcessLost, Quiet
    <3>2. Available'
      BY <1>1, <2>1, <2>4 DEF Available
    <3>3. ~raced => \A d \in Components : LastTold(d) = "available"
      BY <2>1 DEF AnnounceInv, AnnouncedIsTrue
    <3>4. AnnouncedIsTrue'
      BY <2>1, <3>1, <3>2, <3>3 DEF AnnouncedIsTrue
    <3> QED
      BY <2>2, <3>1, <3>4 DEF AnnounceInv
  <2> QED
    BY <2>3, <2>4
<1> QED
  BY <1>7, <1>8

(* The announcement goes round, and ends. *)
LEMMA TellAnnounced ==
    ASSUME SessionsInv, AnnounceInv, NEW t \in Threads, Told(t) \/ \E c \in Components : Tell(t, c)
    PROVE  AnnounceInv'
<1>1. /\ pc \in [Threads -> {"idle", "opened", "dying", "guarded", "unlisted", "tell", "detected",
                             "undetected"}]
      /\ todo \in [Threads -> SUBSET Components] /\ told \in [Components -> {"available", "unavailable"}]
  BY DEF SessionsInv, SessionsTypeOK, SessionsShapes
<1>2. t # Nobody /\ \A d \in Components : d \in Threads
  BY SessionsAssumption DEF SessionsAssumption, Threads
<1>3. UNCHANGED <<holders, remotes, what, nameStillOpen, raced>> /\ pc[t] = "tell"
  BY DEF Told, Tell, local, history, manager
<1>4. remoteSessionsMutex_ = t
  BY <1>3 DEF AnnounceInv, TellersHoldTheLock
<1>5. TellersHoldTheLock' /\ \A d \in Components : LastTold(d)' = LastTold(d)
  <2>1. CASE Told(t)
    <3>1. /\ remoteSessionsMutex_' = Nobody /\ pc' = [pc EXCEPT ![t] = "idle"] /\ todo[t] = {}
          /\ UNCHANGED <<todo, told>>
      BY <2>1 DEF Told, Finish, Goto, local, history
    <3>2. Nobody \notin Threads
      BY SessionsAssumption DEF SessionsAssumption, Threads
    <3>3. TellersHoldTheLock'
      BY <1>1, <1>4, <3>1, <3>2 DEF AnnounceInv, TellersHoldTheLock
    <3>4. \A d \in Components : told[d] = what[t]
      BY <1>4, <3>1 DEF AnnounceInv, TellersHoldTheLock
    <3> QED
      BY <1>2, <1>4, <3>1, <3>3, <3>4 DEF LastTold
  <2>2. CASE \E c \in Components : Tell(t, c)
    <3>1. PICK c \in Components : Tell(t, c)
      BY <2>2
    <3>2. /\ UNCHANGED <<remoteSessionsMutex_, pc>>
          /\ todo' = [todo EXCEPT ![t] = @ \ {c}] /\ told' = [told EXCEPT ![c] = what[t]]
      BY <3>1 DEF Tell, manager
    <3>3. \A d \in Components : told'[d] = IF d = c THEN what[t] ELSE told[d]
      BY <1>1, <3>2
    <3>4. todo'[t] = todo[t] \ {c}
      BY <1>1, <3>2
    <3>5. TellersHoldTheLock'
      BY <1>3, <1>4, <3>2, <3>3, <3>4 DEF AnnounceInv, TellersHoldTheLock
    <3> QED
      BY <1>2, <1>3, <1>4, <3>2, <3>5 DEF LastTold
  <2> QED
    BY <2>1, <2>2
<1>6. \A d \in Components : pc'[d] = pc[d] \/ (pc[d] = "tell" /\ pc'[d] = "idle")
  BY <1>1, <1>2, <1>3 DEF Told, Tell, Finish, Goto
<1>7. OpenersHold' /\ UnlistedAreClosed'
  BY <1>3, <1>6 DEF AnnounceInv, OpenersHold, UnlistedAreClosed
<1>8. (Opening' <=> Opening) /\ (Closing' <=> Closing) /\ (Available' <=> Available)
  BY <1>3, <1>6 DEF Opening, Closing, Available
<1>9. AnnouncedIsTrue'
  BY <1>3, <1>5, <1>8 DEF AnnounceInv, AnnouncedIsTrue
<1> QED
  BY <1>5, <1>7, <1>9 DEF AnnounceInv

(* A component drains its list, and may go on to open or to drop the session. *)
LEMMA DrainAnnounced ==
    ASSUME SessionsInv, AnnounceInv, NEW c \in Components, DrainInputs(c)
    PROVE  AnnounceInv'
<1>1. /\ UNCHANGED <<holders, remotes, remoteSessionsMutex_, what, todo, told, nameStillOpen, raced>>
      /\ pc[c] = "idle"
      /\ \E label \in {"idle", "detected", "undetected"} : pc' = [pc EXCEPT ![c] = label]
  <2>1. pc[c] = "idle" => pc = [pc EXCEPT ![c] = "idle"]
    BY DEF SessionsInv, SessionsTypeOK, Threads
  <2> QED
    BY <2>1 DEF DrainInputs, manager, local, history, Goto
<1>2. c \in Threads /\ \A d \in Components : d \in Threads
  BY DEF Threads
<1>3. pc \in [Threads -> {"idle", "opened", "dying", "guarded", "unlisted", "tell", "detected",
                           "undetected"}]
  BY DEF SessionsInv, SessionsTypeOK
<1>4. TellersHoldTheLock' /\ \A d \in Components : LastTold(d)' = LastTold(d)
  BY <1>1, <1>2, NoNews
<1>5. (\A d \in Components : d # c => pc'[d] = pc[d]) /\ pc'[c] \in {"idle", "detected", "undetected"}
  BY <1>1, <1>2, <1>3
<1>6. OpenersHold' /\ UnlistedAreClosed'
  BY <1>1, <1>5 DEF AnnounceInv, OpenersHold, UnlistedAreClosed
<1>7. (Opening' <=> Opening) /\ (Closing' <=> Closing) /\ (Available' <=> Available)
  BY <1>1, <1>5 DEF Opening, Closing, Available
<1>8. AnnouncedIsTrue'
  BY <1>1, <1>4, <1>7 DEF AnnounceInv, AnnouncedIsTrue
<1> QED
  BY <1>4, <1>6, <1>8 DEF AnnounceInv

(* Between calls every runner was told last what is true, whichever way openings, closings and      *)
(* detections follow each other (session_manager.cpp: getOrOpenSession, sessionDeleted,             *)
(* remoteProcessDetected, remoteProcessLost), outside the two windows the history variable records. *)
THEOREM AnnouncementsStayRight == SessionsSpec => []AnnouncementsAreRight
<1>1. SessionsInv /\ AnnounceInv /\ [SessionsNext]_sessionsVars => AnnounceInv'
  <2> SUFFICES ASSUME SessionsInv, AnnounceInv, [SessionsNext]_sessionsVars PROVE AnnounceInv'
    OBVIOUS
  <2>1. CASE UNCHANGED sessionsVars
    <3>1. UNCHANGED <<holders, remotes, remoteSessionsMutex_, what, todo, told, nameStillOpen, raced, pc>>
      BY <2>1 DEF sessionsVars, manager, local, history
    <3> QED
      BY <3>1 DEF AnnounceInv, TellersHoldTheLock, OpenersHold, UnlistedAreClosed, AnnouncedIsTrue,
         LastTold, Opening, Closing, Available
  <2>2. CASE SessionsNext
    BY <2>2, OpenAnnounced, OpeningAnnounced, ReleaseAnnounced, UnlistAnnounced, ClosingAnnounced,
       RemoteAnnounced, TellAnnounced, DrainAnnounced DEF SessionsNext, Proceed
  <2> QED
    BY <2>1, <2>2
<1>2. SessionsInv /\ AnnounceInv => AnnouncementsAreRight
  <2> SUFFICES ASSUME SessionsInv, AnnounceInv, SessionsSettled, ~raced, NEW c \in Components
               PROVE  (told[c] = "available") = Available
    BY DEF AnnouncementsAreRight
  <2>1. remoteSessionsMutex_ = Nobody
    BY DEF SessionsInv, SessionsTypeOK, AnnounceInv, TellersHoldTheLock, SessionsSettled
  <2>2. ~Opening /\ ~Closing
    BY DEF SessionsSettled, Opening, Closing, Threads
  <2>3. told[c] = "available" <=> Available
    BY <2>1, <2>2 DEF AnnounceInv, AnnouncedIsTrue, LastTold, Available
  <2> QED
    BY <2>3 DEF Available
<1> QED
  BY <1>1, <1>2, AnnounceInit, SessionsInvariant, PTL DEF SessionsSpec

----------------------------------------------------------------------------
(* Remote objects. *)

(* Induction, as a fact about sets of numbers. *)
LEMMA Inductive ==
    ASSUME NEW S, S \subseteq Nat, 0 \in S, \A k \in S : k + 1 \in S
    PROVE  S = Nat
<1> DEFINE R == {ss \in Nat \X Nat : ss[1] < ss[2]}
           T == Nat \ S
<1>1. IsWellFoundedOn(R, Nat)
  BY NatLessThanWellFounded, Zenon DEF OpToRel
<1>2. SUFFICES ASSUME T # {} PROVE FALSE
  OBVIOUS
<1>3. T \subseteq Nat
  OBVIOUS
<1> HIDE DEF R, T
<1>4. PICK x \in T : \A y \in T : ~(<<y, x>> \in R)
  BY <1>1, <1>2, <1>3, WFMin
<1>5. x \in Nat /\ x \notin S
  BY DEF T
<1>6. x - 1 \in Nat
  BY <1>5
<1>7. x - 1 \in S
  <2> SUFFICES ASSUME x - 1 \notin S PROVE FALSE
    OBVIOUS
  <2>1. x - 1 \in T
    BY <1>6 DEF T
  <2>2. <<x - 1, x>> \in R
    BY <1>5, <1>6 DEF R
  <2> QED
    BY <1>4, <2>1, <2>2
<1>8. (x - 1) + 1 \in S
  BY <1>7
<1> QED
  BY <1>5, <1>8

(* The sequence of a finite set holds its elements and nothing else. *)
LEMMA SetAsSequence ==
    ASSUME NEW S, IsFiniteSet(S)
    PROVE  /\ SetToSeq(S) \in Seq(S)
           /\ \A k \in 1..Len(SetToSeq(S)) : SetToSeq(S)[k] \in S
           /\ \A x \in S : \E k \in 1..Len(SetToSeq(S)) : SetToSeq(S)[k] = x
<1> DEFINE n == Cardinality(S)
           f == SetToSeq(S)
<1>1. n \in Nat /\ ExistsBijection(1..n, S)
  BY FS_CardinalityType
<1>2. PICK b : b \in Bijection(1..n, S)
  BY <1>1 DEF ExistsBijection
<1>3. b \in [1..n -> S] /\ IsInjective(b)
  BY <1>2 DEF Bijection, Injection, IsInjective
<1>4. f \in [1..n -> S] /\ IsInjective(f)
  BY <1>3, Zenon DEF SetToSeq
<1> HIDE DEF f
<1>5. f \in Injection(1..n, S)
  BY <1>4 DEF Injection
<1>6. Cardinality(1..n) = n
  BY <1>1, FS_Interval
<1>7. f \in Surjection(1..n, S)
  BY <1>5, <1>6, FS_Injection
<1>8. f \in Seq(S) /\ Len(f) = n
  BY <1>1, <1>4
<1>9. \A x \in S : \E k \in 1..n : f[k] = x
  BY <1>7 DEF Surjection
<1> QED
  BY <1>4, <1>8, <1>9 DEF f

(* A sequence and what is appended to it. *)
LEMMA Concat ==
    ASSUME NEW M, NEW s \in Seq(M), NEW t \in Seq(M)
    PROVE  /\ s \o t \in Seq(M) /\ Len(s) \in Nat /\ Len(t) \in Nat
           /\ Len(s \o t) = Len(s) + Len(t)
           /\ \A k \in 1..Len(s) : (s \o t)[k] = s[k]
           /\ \A k \in 1..Len(t) : (s \o t)[Len(s) + k] = t[k]
           /\ \A k \in 1..Len(s \o t) :
                \/ k \in 1..Len(s) /\ (s \o t)[k] = s[k]
                \/ k > Len(s) /\ k - Len(s) \in 1..Len(t) /\ (s \o t)[k] = t[k - Len(s)]
OBVIOUS

(* A sequence and what follows its first element. *)
LEMMA TailOf ==
    ASSUME NEW M, NEW s \in Seq(M), s # <<>>
    PROVE  /\ Tail(s) \in Seq(M) /\ Head(s) = s[1] /\ Len(s) \in Nat /\ Len(s) > 0
           /\ Len(Tail(s)) = Len(s) - 1
           /\ \A k \in 1..Len(Tail(s)) : k + 1 \in 1..Len(s) /\ Tail(s)[k] = s[k + 1]
           /\ \A k \in 1..Len(s) : k # 1 => k - 1 \in 1..Len(Tail(s)) /\ Tail(s)[k - 1] = s[k]
           /\ \A k \in 1..Len(s) : s[k] \in M
OBVIOUS

----------------------------------------------------------------------------
(* What the two sides say to each other. *)
PublisherMessages ==
    [kind : {"ready", "types?"}] \union [kind : {"started"}, interest : Interests]
    \union [kind : {"request"}, interest : Interests, objects : SUBSET Objects]
    \union [kind : {"timeout"}, object : Objects]

States == UNION {[os -> Nat] : os \in SUBSET Objects}

ConsumerMessages ==
    [kind : {"ready", "types"}]
    \union [kind : {"published", "removed"}, interest : Interests, objects : SUBSET Objects]
    \union [kind : {"response"}, interest : Interests, states : States]
    \union [kind : {"update"}, object : Objects, value : Nat]

(* Every message that is sent to the publisher is one of those. *)
LEMMA PublisherTold ==
    /\ Ready \in PublisherMessages /\ TypesRequest \in PublisherMessages
    /\ \A i \in Interests : Started(i) \in PublisherMessages
    /\ \A i \in Interests, os \in SUBSET Objects : StateRequest(i, os) \in PublisherMessages
    /\ \A o \in Objects : Rejection(o) \in PublisherMessages
BY DEF PublisherMessages, Ready, TypesRequest, Started, StateRequest, Rejection

(* What a message to the publisher holds, by its kind. *)
LEMMA PublisherParts ==
    ASSUME NEW m \in PublisherMessages
    PROVE  /\ m.kind \in {"started", "request"} => m.interest \in Interests
           /\ m.kind = "request" => m.objects \in SUBSET Objects
           /\ m.kind = "timeout" => m.object \in Objects
           /\ m.kind = "started" => m = Started(m.interest)
           /\ m.kind = "ready" => m = Ready
           /\ m.kind \in {"ready", "types?", "started", "request", "timeout"}
<1>1. CASE m \in [kind : {"ready", "types?"}]
  BY <1>1 DEF Ready
<1>2. CASE m \in [kind : {"started"}, interest : Interests]
  BY <1>2 DEF Started
<1>3. CASE m \in [kind : {"request"}, interest : Interests, objects : SUBSET Objects]
  BY <1>3
<1>4. CASE m \in [kind : {"timeout"}, object : Objects]
  BY <1>4
<1> QED
  BY <1>1, <1>2, <1>3, <1>4 DEF PublisherMessages

(* A start is told from everything else. *)
LEMMA StartsAre ==
    /\ \A i, j : Started(i) = Started(j) => i = j
    /\ \A i : Started(i).kind = "started" /\ Started(i).interest = i
    /\ Ready.kind = "ready" /\ TypesRequest.kind = "types?"
    /\ \A i, os : StateRequest(i, os).kind = "request"
    /\ \A o : Rejection(o).kind = "timeout"
BY DEF Started, Ready, TypesRequest, StateRequest, Rejection

(* Every message that is sent to the consumer is one of those. *)
LEMMA ConsumerTold ==
    /\ Ready \in ConsumerMessages /\ TypesResponse \in ConsumerMessages
    /\ \A i \in Interests, os \in SUBSET Objects :
         Published(i, os) \in ConsumerMessages /\ Removed(i, os) \in ConsumerMessages
    /\ \A i \in Interests, st \in States : StateResponse(i, st) \in ConsumerMessages
BY DEF ConsumerMessages, Ready, TypesResponse, Published, Removed, StateResponse

(* What a message to the consumer holds, by its kind. *)
LEMMA ConsumerParts ==
    ASSUME NEW m \in ConsumerMessages
    PROVE  /\ m.kind \in {"published", "removed", "response"} => m.interest \in Interests
           /\ m.kind \in {"published", "removed"} => m.objects \in SUBSET Objects
           /\ m.kind = "response" =>
                /\ m.states \in States /\ DOMAIN m.states \subseteq Objects
                /\ \A o \in DOMAIN m.states : m.states[o] \in Nat
           /\ m.kind = "update" => m.object \in Objects /\ m.value \in Nat
           /\ m.kind = "ready" => m = Ready
           /\ m.kind \in {"ready", "types", "published", "removed", "response", "update"}
<1>1. CASE m \in [kind : {"ready", "types"}]
  BY <1>1 DEF Ready
<1>2. CASE m \in [kind : {"published", "removed"}, interest : Interests, objects : SUBSET Objects]
  BY <1>2
<1>3. CASE m \in [kind : {"response"}, interest : Interests, states : States]
  <2>1. m.kind = "response" /\ m.interest \in Interests /\ m.states \in States
    BY <1>3
  <2>2. PICK os \in SUBSET Objects : m.states \in [os -> Nat]
    BY <2>1, Zenon DEF States
  <2> QED
    BY <2>1, <2>2
<1>4. CASE m \in [kind : {"update"}, object : Objects, value : Nat]
  BY <1>4
<1> QED
  BY <1>1, <1>2, <1>3, <1>4 DEF ConsumerMessages

(* Kinds of the messages to the consumer. *)
LEMMA ConsumerKinds ==
    /\ Ready.kind = "ready" /\ TypesResponse.kind = "types"
    /\ \A i, os : /\ Published(i, os).kind = "published" /\ Removed(i, os).kind = "removed"
                  /\ Published(i, os).objects = os /\ Removed(i, os).objects = os
    /\ \A i, st : StateResponse(i, st).kind = "response" /\ StateResponse(i, st).states = st
BY DEF Ready, TypesResponse, Published, Removed, StateResponse

----------------------------------------------------------------------------
(* What stands somewhere in a queue. *)
Has(s, m) == \E k \in 1..Len(s) : s[k] = m

(* What is appended is there. *)
LEMMA HasConcat ==
    ASSUME NEW M, NEW s \in Seq(M), NEW t \in Seq(M), NEW m
    PROVE  Has(s \o t, m) <=> Has(s, m) \/ Has(t, m)
<1>1. Has(s, m) => Has(s \o t, m)
  BY Concat DEF Has
<1>2. Has(t, m) => Has(s \o t, m)
  <2> SUFFICES ASSUME NEW k \in 1..Len(t), t[k] = m PROVE Has(s \o t, m)
    BY DEF Has
  <2>1. Len(s) + k \in 1..Len(s \o t) /\ (s \o t)[Len(s) + k] = m
    BY Concat
  <2> QED
    BY <2>1 DEF Has
<1>3. Has(s \o t, m) => Has(s, m) \/ Has(t, m)
  BY Concat DEF Has
<1> QED
  BY <1>1, <1>2, <1>3

(* What is there is first or comes later. *)
LEMMA HasTail ==
    ASSUME NEW M, NEW s \in Seq(M), s # <<>>, NEW m
    PROVE  Has(s, m) <=> (Head(s) = m \/ Has(Tail(s), m))
<1>1. 1 \in 1..Len(s) /\ Head(s) = s[1]
  BY TailOf
<1>2. ASSUME NEW k \in 1..Len(s), s[k] = m, k # 1 PROVE Has(Tail(s), m)
  <2>1. k - 1 \in 1..Len(Tail(s)) /\ Tail(s)[k - 1] = m
    BY <1>2, TailOf
  <2> QED
    BY <2>1 DEF Has
<1>3. Has(Tail(s), m) => Has(s, m)
  BY TailOf DEF Has
<1> QED
  BY <1>1, <1>2, <1>3 DEF Has

----------------------------------------------------------------------------
(* News on their way: what the messages after the k-th of a queue hold. *)
Later(s, k, A) == \E l \in 1..Len(s) : l > k /\ s[l] \in A

(* What takes an object back, and what brings a value of it. *)
Takes(o) == {m \in ConsumerMessages : m.kind = "removed" /\ o \in m.objects}
Brings(o, v) == {m \in ConsumerMessages : m.kind = "update" /\ m.object = o /\ m.value = v}

(* The message gives the object a value, as an update or as its state. *)
Says(m, o, v) ==
    \/ m.kind = "update" /\ m.object = o /\ m.value = v
    \/ m.kind = "response" /\ o \in DOMAIN m.states /\ m.states[o] = v

(* No message gives the object less than r, and the object itself has at least that. *)
Limits(s, o, r, top) ==
    r <= top /\ \A k \in 1..Len(s) : \A v \in Nat : Says(s[k], o, v) => r <= v

(* The messages give the object values that never decrease, up to the one it has. *)
Rising(s, o, top) ==
    \A k \in 1..Len(s) : \A v \in Nat : Says(s[k], o, v) =>
        /\ v <= top
        /\ \A l \in (k + 1)..Len(s) : \A w \in Nat : Says(s[l], o, w) => v <= w

(* News stay when others are appended, and what is appended is news. *)
LEMMA LaterConcat ==
    ASSUME NEW M, NEW s \in Seq(M), NEW t \in Seq(M), NEW A, NEW k \in 0..Len(s)
    PROVE  /\ Later(s, k, A) => Later(s \o t, k, A)
           /\ Later(t, 0, A) => Later(s \o t, k, A)
<1>1. Later(s, k, A) => Later(s \o t, k, A)
  BY Concat DEF Later
<1>2. ASSUME NEW l \in 1..Len(t), t[l] \in A PROVE Later(s \o t, k, A)
  <2>1. Len(s) + l \in 1..Len(s \o t) /\ Len(s) + l > k /\ (s \o t)[Len(s) + l] \in A
    BY <1>2, Concat
  <2> QED
    BY <2>1 DEF Later
<1> QED
  BY <1>1, <1>2 DEF Later

(* News stay when the first message is handled, unless it was that. *)
LEMMA LaterTail ==
    ASSUME NEW M, NEW s \in Seq(M), s # <<>>, NEW A
    PROVE  /\ \A k \in Nat : Later(s, k + 1, A) => Later(Tail(s), k, A)
           /\ Later(s, 0, A) => Head(s) \in A \/ Later(Tail(s), 0, A)
<1>1. ASSUME NEW k \in Nat, NEW l \in 1..Len(s), l > k + 1, s[l] \in A
      PROVE  Later(Tail(s), k, A)
  <2>1. l - 1 \in 1..Len(Tail(s)) /\ l - 1 > k /\ Tail(s)[l - 1] = s[l]
    BY <1>1, TailOf
  <2> QED
    BY <1>1, <2>1 DEF Later
<1>2. ASSUME NEW l \in 1..Len(s), s[l] \in A, l # 1
      PROVE  Later(Tail(s), 0, A)
  <2>1. l > 0 + 1
    BY <1>2
  <2> QED
    BY <1>1, <1>2, <2>1
<1>3. Head(s) = s[1]
  BY TailOf
<1> QED
  BY <1>1, <1>2, <1>3 DEF Later

(* Messages with the value the object has are in order. *)
LEMMA RisingConcat ==
    ASSUME NEW s \in Seq(ConsumerMessages), NEW t \in Seq(ConsumerMessages), NEW o,
           NEW top \in Nat,
           \A n \in 1..Len(t) : \A v \in Nat : Says(t[n], o, v) => v = top
    PROVE  /\ Rising(s, o, top) => Rising(s \o t, o, top)
           /\ \A r \in Nat : Limits(s, o, r, top) => Limits(s \o t, o, r, top)
<1>0. Len(s) \in Nat /\ Len(t) \in Nat /\ Len(s \o t) = Len(s) + Len(t)
  BY Concat
<1>1. ASSUME NEW k \in 1..Len(s \o t), NEW v \in Nat, Says((s \o t)[k], o, v)
      PROVE  \/ k \in 1..Len(s) /\ Says(s[k], o, v)
             \/ k > Len(s) /\ v = top
  <2>1. CASE k \in 1..Len(s) /\ (s \o t)[k] = s[k]
    BY <1>1, <2>1
  <2>2. CASE k > Len(s) /\ k - Len(s) \in 1..Len(t) /\ (s \o t)[k] = t[k - Len(s)]
    <3>1. Says(t[k - Len(s)], o, v)
      BY <1>1, <2>2
    <3> QED
      BY <2>2, <3>1
  <2> QED
    BY <2>1, <2>2, Concat
<1>2. ASSUME Rising(s, o, top) PROVE Rising(s \o t, o, top)
  <2> SUFFICES ASSUME NEW k \in 1..Len(s \o t), NEW v \in Nat, Says((s \o t)[k], o, v)
               PROVE  /\ v <= top
                      /\ \A l \in (k + 1)..Len(s \o t) : \A w \in Nat :
                           Says((s \o t)[l], o, w) => v <= w
    BY DEF Rising
  <2>1. CASE k \in 1..Len(s) /\ Says(s[k], o, v)
    <3>1. v <= top /\ \A l \in (k + 1)..Len(s) : \A w \in Nat : Says(s[l], o, w) => v <= w
      BY <1>2, <2>1 DEF Rising
    <3>2. ASSUME NEW l \in (k + 1)..Len(s \o t), NEW w \in Nat, Says((s \o t)[l], o, w)
          PROVE  v <= w
      <4>1. l \in 1..Len(s \o t) /\ l > k
        BY <1>0
      <4>2. CASE l \in 1..Len(s) /\ Says(s[l], o, w)
        <5>1. l \in (k + 1)..Len(s)
          BY <1>0, <4>1, <4>2
        <5> QED
          BY <3>1, <4>2, <5>1
      <4>3. CASE l > Len(s) /\ w = top
        BY <3>1, <4>3
      <4> QED
        BY <1>1, <3>2, <4>1, <4>2, <4>3
    <3> QED
      BY <3>1, <3>2
  <2>2. CASE k > Len(s) /\ v = top
    <3>2. ASSUME NEW l \in (k + 1)..Len(s \o t), NEW w \in Nat, Says((s \o t)[l], o, w)
          PROVE  v <= w
      <4>1. l \in 1..Len(s \o t) /\ l > Len(s)
        BY <1>0, <2>2
      <4>2. l \notin 1..Len(s)
        BY <1>0, <4>1
      <4>3. w = top
        BY <1>1, <3>2, <4>1, <4>2
      <4> QED
        BY <2>2, <4>3
    <3> QED
      BY <2>2, <3>2
  <2> QED
    BY <1>1, <2>1, <2>2
<1>3. ASSUME NEW r \in Nat, Limits(s, o, r, top) PROVE Limits(s \o t, o, r, top)
  <2>1. ASSUME NEW k \in 1..Len(s \o t), NEW v \in Nat, Says((s \o t)[k], o, v) PROVE r <= v
    BY <1>1, <1>3, <2>1 DEF Limits
  <2> QED
    BY <1>3, <2>1 DEF Limits
<1> QED
  BY <1>2, <1>3

(* The first message is handled: what it gave is at most what the others give. *)
LEMMA RisingTail ==
    ASSUME NEW s \in Seq(ConsumerMessages), s # <<>>, NEW o, NEW top \in Nat
    PROVE  /\ Rising(s, o, top) =>
                /\ Rising(Tail(s), o, top)
                /\ \A v \in Nat : Says(Head(s), o, v) => Limits(Tail(s), o, v, top)
           /\ \A r \in Nat : Limits(s, o, r, top) =>
                /\ Limits(Tail(s), o, r, top)
                /\ \A v \in Nat : Says(Head(s), o, v) => r <= v
<1>0. /\ Len(s) \in Nat /\ Len(s) > 0 /\ Len(Tail(s)) = Len(s) - 1 /\ Head(s) = s[1]
      /\ \A k \in 1..Len(Tail(s)) : k + 1 \in 1..Len(s) /\ Tail(s)[k] = s[k + 1]
  BY TailOf
<1>1. ASSUME Rising(s, o, top) PROVE Rising(Tail(s), o, top)
  <2> SUFFICES ASSUME NEW k \in 1..Len(Tail(s)), NEW v \in Nat, Says(Tail(s)[k], o, v)
               PROVE  /\ v <= top
                      /\ \A l \in (k + 1)..Len(Tail(s)) : \A w \in Nat :
                           Says(Tail(s)[l], o, w) => v <= w
    BY DEF Rising
  <2>1. k + 1 \in 1..Len(s) /\ Says(s[k + 1], o, v)
    BY <1>0
  <2>2. v <= top /\ \A l \in ((k + 1) + 1)..Len(s) : \A w \in Nat : Says(s[l], o, w) => v <= w
    BY <1>1, <2>1 DEF Rising
  <2>3. ASSUME NEW l \in (k + 1)..Len(Tail(s)), NEW w \in Nat, Says(Tail(s)[l], o, w)
        PROVE  v <= w
    <3>1. l \in 1..Len(Tail(s)) /\ l + 1 \in ((k + 1) + 1)..Len(s)
      BY <1>0
    <3>2. Says(s[l + 1], o, w)
      BY <1>0, <2>3, <3>1
    <3> QED
      BY <2>2, <3>1, <3>2
  <2> QED
    BY <2>2, <2>3
<1>2. ASSUME Rising(s, o, top), NEW v \in Nat, Says(Head(s), o, v)
      PROVE  Limits(Tail(s), o, v, top)
  <2>1. 1 \in 1..Len(s) /\ Says(s[1], o, v)
    BY <1>0, <1>2
  <2>2. v <= top /\ \A l \in (1 + 1)..Len(s) : \A w \in Nat : Says(s[l], o, w) => v <= w
    BY <1>2, <2>1 DEF Rising
  <2>3. ASSUME NEW l \in 1..Len(Tail(s)), NEW w \in Nat, Says(Tail(s)[l], o, w)
        PROVE  v <= w
    <3>1. l + 1 \in (1 + 1)..Len(s) /\ Says(s[l + 1], o, w)
      BY <1>0, <2>3
    <3> QED
      BY <2>2, <3>1
  <2> QED
    BY <2>2, <2>3 DEF Limits
<1>3. ASSUME NEW r \in Nat, Limits(s, o, r, top)
      PROVE  /\ Limits(Tail(s), o, r, top)
             /\ \A v \in Nat : Says(Head(s), o, v) => r <= v
  <2>1. ASSUME NEW l \in 1..Len(Tail(s)), NEW w \in Nat, Says(Tail(s)[l], o, w)
        PROVE  r <= w
    <3>1. l + 1 \in 1..Len(s) /\ Says(s[l + 1], o, w)
      BY <1>0, <2>1
    <3> QED
      BY <1>3, <3>1 DEF Limits
  <2>2. 1 \in 1..Len(s)
    BY <1>0
  <2> QED
    BY <1>0, <1>3, <2>1, <2>2 DEF Limits
<1> QED
  BY <1>1, <1>2, <1>3

----------------------------------------------------------------------------
(* processPendingActions: what a bulk of actions makes of the views. *)
Data == [state : Nat, updates : SUBSET Nat]
Actions == {"add", "remove"} \X Objects

ViewStates ==
    [shown : [Interests -> SUBSET Objects], dying : [Interests -> SUBSET Objects],
     proxy : [Objects -> Nat \union {None}], monitored : [Objects -> Data \union {None}],
     appeared : SUBSET Objects, again : SUBSET Objects]

(* The values that are kept of an object, the one a proxy without data begins with included. *)
Kept(proxies, data, o) ==
    {0} \union (IF data[o] = None THEN {} ELSE {data[o].state} \union data[o].updates)
        \union (IF proxies[o] = None THEN {} ELSE {proxies[o]})

(* A bounded set of numbers has a largest one. *)
LEMMA MaxOfBounded ==
    ASSUME NEW S, S \subseteq Nat, S # {}, NEW top \in Nat, \A x \in S : x <= top
    PROVE  Max(S) \in S /\ \A x \in S : x <= Max(S)
<1> DEFINE R == {ss \in Nat \X Nat : ss[1] < ss[2]}
           T == {n \in Nat : \E x \in S : n = top - x}
<1>1. IsWellFoundedOn(R, Nat)
  BY NatLessThanWellFounded, Zenon DEF OpToRel
<1>2. T \subseteq Nat /\ T # {}
  <2>1. PICK x \in S : TRUE
    OBVIOUS
  <2>2. x \in Nat /\ x <= top
    OBVIOUS
  <2>3. top - x \in T
    BY <2>2
  <2> QED
    BY <2>3
<1>3. \A x \in S : top - x \in T
  OBVIOUS
<1>4. \A n \in T : \E x \in S : n = top - x
  OBVIOUS
<1> HIDE DEF T
<1> HIDE DEF R
<1>5. PICK n \in T : \A y \in T : ~(<<y, n>> \in R)
  BY <1>1, <1>2, WFMin
<1>6. PICK x \in S : n = top - x
  BY <1>4
<1>7. ASSUME NEW y \in S PROVE x >= y
  <2>1. top - y \in T /\ top - y \in Nat /\ n \in Nat
    BY <1>2, <1>3
  <2>2. ~(top - y < n)
    BY <1>5, <2>1 DEF R
  <2>3. x \in Nat /\ y \in Nat
    OBVIOUS
  <2> QED
    BY <1>6, <2>1, <2>2, <2>3
<1>8. \E z \in S : \A y \in S : z >= y
  BY <1>7
<1>9. Max(S) \in S /\ \A y \in S : Max(S) >= y
  BY <1>8, Zenon DEF Max
<1> QED
  BY <1>9

(* applyStateAndStopMonitoring: the largest value that is kept. *)
LEMMA InitialStateIs ==
    ASSUME NEW d \in Data, NEW top \in Nat, d.state <= top, \A u \in d.updates : u <= top
    PROVE  /\ InitialState(d) \in {d.state} \union d.updates
           /\ \A u \in {d.state} \union d.updates : u <= InitialState(d)
<1>1. d # None /\ d.state \in Nat /\ d.updates \subseteq Nat
  BY RemoteAssumption DEF Data, RemoteAssumption
<1> DEFINE S == {d.state} \union {u \in d.updates : u > d.state}
<1>2. S \subseteq Nat /\ S # {} /\ \A x \in S : x <= top
  BY <1>1
<1>3. InitialState(d) = Max(S)
  BY <1>1 DEF InitialState
<1> HIDE DEF S
<1>4. Max(S) \in S /\ \A x \in S : x <= Max(S)
  BY <1>2, MaxOfBounded
<1> QED
  BY <1>1, <1>3, <1>4 DEF S

(* An action on the views: it changes nothing, takes an object away or shows one. *)
Hides(v, w, x, i) ==
    /\ x \in v.shown[i]
    /\ w.shown = [v.shown EXCEPT ![i] = @ \ {x}]
    /\ w.dying = [v.dying EXCEPT ![i] = @ \union {x}]
    /\ w.proxy = v.proxy /\ w.monitored = v.monitored
    /\ w.appeared = v.appeared /\ w.again = v.again

Shows(v, w, x, i) ==
    /\ x \notin v.shown[i]
    /\ w.shown = [v.shown EXCEPT ![i] = @ \union {x}]
    /\ w.dying = [v.dying EXCEPT ![i] = @ \ {x}]
    /\ IF Holds(v.shown, v.dying, x)
       THEN w.proxy = v.proxy /\ w.monitored = v.monitored
       ELSE /\ w.proxy = [v.proxy EXCEPT ![x] = InitialState(v.monitored[x])]
            /\ w.monitored = Unmonitored(v.monitored, {x})
    /\ w.appeared = v.appeared \union {x}
    /\ w.again = IF x \in v.appeared /\ \A j \in Interests : x \notin v.shown[j]
                 THEN v.again \union {x} ELSE v.again

(* One action does one of the three. *)
LEMMA AppliedIs ==
    ASSUME NEW v \in ViewStates, NEW a \in Actions, NEW i \in Interests
    PROVE  /\ a[2] \in Objects /\ a \in {<<"add", a[2]>>, <<"remove", a[2]>>}
           /\ \/ Applied(v, a, i) = v /\ (a[1] = "remove" => a[2] \notin v.shown[i])
                 /\ (a[1] = "add" => a[2] \in v.shown[i])
              \/ a[1] = "remove" /\ Hides(v, Applied(v, a, i), a[2], i)
              \/ a[1] = "add" /\ Shows(v, Applied(v, a, i), a[2], i)
<1>0. a[1] \in {"add", "remove"} /\ a[2] \in Objects /\ a = <<a[1], a[2]>>
  BY DEF Actions
<1> DEFINE x == a[2]
<1>1. CASE a[1] = "remove" /\ x \notin v.shown[i]
  <2>1. Applied(v, a, i) = v
    BY <1>1 DEF Applied
  <2> QED
    BY <1>0, <1>1, <2>1
<1>2. CASE a[1] = "remove" /\ x \in v.shown[i]
  <2> DEFINE w == [v EXCEPT !.shown[i] = @ \ {x}, !.dying[i] = @ \union {x}]
  <2>1. Applied(v, a, i) = w
    BY <1>2 DEF Applied
  <2>2. Hides(v, w, x, i)
    BY <1>2 DEF Hides, ViewStates
  <2> QED
    BY <1>0, <1>2, <2>1, <2>2
<1>3. CASE a[1] = "add" /\ x \in v.shown[i]
  <2>1. Applied(v, a, i) = v
    BY <1>3 DEF Applied
  <2> QED
    BY <1>0, <1>3, <2>1
<1>4. CASE a[1] = "add" /\ x \notin v.shown[i]
  <2> DEFINE alive == Holds(v.shown, v.dying, x)
             w == [shown |-> [v.shown EXCEPT ![i] = @ \union {x}],
                   dying |-> [v.dying EXCEPT ![i] = @ \ {x}],
                   proxy |-> IF alive THEN v.proxy
                             ELSE [v.proxy EXCEPT ![x] = InitialState(v.monitored[x])],
                   monitored |-> IF alive THEN v.monitored ELSE Unmonitored(v.monitored, {x}),
                   appeared |-> v.appeared \union {x},
                   again |-> IF x \in v.appeared /\ \A j \in Interests : x \notin v.shown[j]
                             THEN v.again \union {x} ELSE v.again]
  <2>1. Applied(v, a, i) = w
    BY <1>4, Zenon DEF Applied
  <2>2. Shows(v, w, x, i)
    BY <1>4 DEF Shows
  <2> HIDE DEF w
  <2> QED
    BY <1>0, <1>4, <2>1, <2>2
<1> QED
  BY <1>0, <1>1, <1>2, <1>3, <1>4

(* Of the first n actions, the last about the object is an addition; none of them removes it. *)
Adds(q, n, o) == \E k \in 1..n : q[k] = <<"add", o>> /\ \A p \in (k + 1)..n : q[p] # <<"remove", o>>
Clean(q, n, o) == \A k \in 1..n : q[k] # <<"remove", o>>

SoundView(v) ==
    /\ v \in ViewStates /\ v.again \subseteq v.appeared
    /\ \A j \in Interests : v.shown[j] \subseteq v.appeared /\ v.dying[j] \subseteq v.appeared
    /\ \A o \in Objects : (v.proxy[o] # None) <=> Holds(v.shown, v.dying, o)

(* Where an object that is shown comes from: it was shown before, or it was added. *)
Origin(b, v, q, n, i, o) ==
    /\ o \in v.shown[i] => (o \in b.shown[i] /\ Clean(q, n, o)) \/ Adds(q, n, o)
    /\ o \notin v.appeared => v.monitored[o] = b.monitored[o]
    /\ ((\A j \in Interests : j = i) /\ o \in v.shown[i] /\ o \notin v.again) =>
          \/ o \in b.shown[i] /\ Clean(q, n, o) /\ v.proxy[o] = b.proxy[o]
          \/ o \notin b.appeared /\ Adds(q, n, o) /\ v.proxy[o] = InitialState(b.monitored[o])

(* What the views b have become after the first n actions of a bulk. *)
Reached(b, v, q, n, i) ==
    /\ SoundView(v)
    /\ b.appeared \subseteq v.appeared /\ b.again \subseteq v.again
    /\ \A j \in Interests \ {i} : v.shown[j] = b.shown[j] /\ v.dying[j] = b.dying[j]
    /\ \A o \in Objects : /\ Kept(v.proxy, v.monitored, o) \subseteq Kept(b.proxy, b.monitored, o)
                          /\ v.monitored[o] # None => v.monitored[o] = b.monitored[o]
                          /\ Origin(b, v, q, n, i, o)

(* One more action. *)
LEMMA OneMore ==
    ASSUME NEW q, NEW n \in Nat, NEW o
    PROVE  /\ q[n + 1] = <<"add", o>> => Adds(q, n + 1, o)
           /\ q[n + 1] # <<"remove", o>> => /\ Clean(q, n, o) => Clean(q, n + 1, o)
                                            /\ Adds(q, n, o) => Adds(q, n + 1, o)
<1>1. q[n + 1] = <<"add", o>> => Adds(q, n + 1, o)
  <2>1. n + 1 \in 1..(n + 1) /\ \A p \in ((n + 1) + 1)..(n + 1) : FALSE
    OBVIOUS
  <2> QED
    BY <2>1 DEF Adds
<1>2. q[n + 1] # <<"remove", o>> /\ Clean(q, n, o) => Clean(q, n + 1, o)
  <2>1. \A k \in 1..(n + 1) : k \in 1..n \/ k = n + 1
    OBVIOUS
  <2> QED
    BY <2>1 DEF Clean
<1>3. ASSUME q[n + 1] # <<"remove", o>>, Adds(q, n, o) PROVE Adds(q, n + 1, o)
  <2>1. PICK k \in 1..n : q[k] = <<"add", o>> /\ \A p \in (k + 1)..n : q[p] # <<"remove", o>>
    BY <1>3 DEF Adds
  <2>2. k \in 1..(n + 1) /\ \A p \in (k + 1)..(n + 1) : p \in (k + 1)..n \/ p = n + 1
    OBVIOUS
  <2> QED
    BY <1>3, <2>1, <2>2 DEF Adds
<1> QED
  BY <1>1, <1>2, <1>3

(* What an action keeps when an object goes. *)
LEMMA HidesReaches ==
    ASSUME NEW b, NEW v, NEW w, NEW q, NEW n \in Nat, NEW i \in Interests, NEW x \in Objects,
           Reached(b, v, q, n, i), w \in ViewStates, Hides(v, w, x, i), q[n + 1] = <<"remove", x>>
    PROVE  Reached(b, w, q, n + 1, i)
<1>1. /\ v \in ViewStates /\ v.shown \in [Interests -> SUBSET Objects]
      /\ v.dying \in [Interests -> SUBSET Objects]
  BY DEF Reached, SoundView, ViewStates
<1>2. /\ w.shown[i] = v.shown[i] \ {x} /\ w.dying[i] = v.dying[i] \union {x}
      /\ \A j \in Interests \ {i} : w.shown[j] = v.shown[j] /\ w.dying[j] = v.dying[j]
      /\ x \in v.shown[i]
  BY <1>1 DEF Hides
<1>3. /\ w.proxy = v.proxy /\ w.monitored = v.monitored
      /\ w.appeared = v.appeared /\ w.again = v.again
  BY DEF Hides
<1>4. \A o \in Objects : Holds(w.shown, w.dying, o) <=> Holds(v.shown, v.dying, o)
  BY <1>2 DEF Holds
<1>5. SoundView(w)
  BY <1>2, <1>3, <1>4 DEF Reached, SoundView
<1>6. ASSUME NEW o \in Objects PROVE Origin(b, w, q, n + 1, i, o)
  <2>1. Origin(b, v, q, n, i, o)
    BY DEF Reached
  <2>2. CASE o = x
    BY <1>2, <1>3, <2>1, <2>2 DEF Origin
  <2>3. CASE o # x
    <3>1. q[n + 1] # <<"remove", o>> /\ (o \in w.shown[i] <=> o \in v.shown[i])
      BY <1>2, <2>3
    <3> QED
      BY <1>3, <2>1, <3>1, OneMore DEF Origin
  <2> QED
    BY <2>2, <2>3
<1> QED
  BY <1>2, <1>3, <1>5, <1>6 DEF Reached

(* What an action keeps when an object is shown. *)
LEMMA ShowsReaches ==
    ASSUME NEW b, NEW v, NEW w, NEW q, NEW n \in Nat, NEW i \in Interests, NEW x \in Objects,
           NEW top \in [Objects -> Nat],
           \A o \in Objects : \A r \in Kept(b.proxy, b.monitored, o) : r <= top[o],
           Reached(b, v, q, n, i), Shows(v, w, x, i), q[n + 1] = <<"add", x>>
    PROVE  /\ InitialState(v.monitored[x]) \in Kept(v.proxy, v.monitored, x)
           /\ InitialState(v.monitored[x]) \in Nat
           /\ w \in ViewStates => Reached(b, w, q, n + 1, i)
<1>0. /\ v \in ViewStates /\ v.shown \in [Interests -> SUBSET Objects]
      /\ v.dying \in [Interests -> SUBSET Objects] /\ v.proxy \in [Objects -> Nat \union {None}]
      /\ v.monitored \in [Objects -> Data \union {None}]
      /\ None \notin Nat
  BY RemoteAssumption DEF Reached, SoundView, ViewStates, RemoteAssumption
<1>1. /\ InitialState(v.monitored[x]) \in Kept(v.proxy, v.monitored, x)
      /\ InitialState(v.monitored[x]) \in Nat
  <2>1. CASE v.monitored[x] = None
    BY <2>1 DEF InitialState, Kept
  <2>2. CASE v.monitored[x] # None
    <3>1. PICK d \in Data : d = v.monitored[x]
      BY <1>0, <2>2
    <3>2. {d.state} \union d.updates \subseteq Kept(v.proxy, v.monitored, x)
      BY <2>2, <3>1 DEF Kept
    <3>3. {d.state} \union d.updates \subseteq Kept(b.proxy, b.monitored, x)
      BY <3>2 DEF Reached
    <3>4. d.state <= top[x] /\ \A u \in d.updates : u <= top[x]
      BY <3>3
    <3>5. InitialState(d) \in {d.state} \union d.updates
      BY <3>4, InitialStateIs
    <3>6. d.state \in Nat /\ d.updates \subseteq Nat
      BY DEF Data
    <3> QED
      BY <3>1, <3>2, <3>5, <3>6
  <2> QED
    BY <2>1, <2>2
<1> SUFFICES ASSUME w \in ViewStates PROVE Reached(b, w, q, n + 1, i)
  BY <1>1
<1>2. /\ w.shown[i] = v.shown[i] \union {x} /\ w.dying[i] = v.dying[i] \ {x}
      /\ \A j \in Interests \ {i} : w.shown[j] = v.shown[j] /\ w.dying[j] = v.dying[j]
      /\ x \notin v.shown[i] /\ w.appeared = v.appeared \union {x}
      /\ v.again \subseteq w.again /\ w.again \subseteq v.again \union {x}
  BY <1>0 DEF Shows
<1>3. \A o \in Objects : o # x => (Holds(w.shown, w.dying, o) <=> Holds(v.shown, v.dying, o))
  BY <1>2 DEF Holds
<1>4. Holds(w.shown, w.dying, x)
  BY <1>2 DEF Holds
<1>5. /\ \A o \in Objects : o # x => w.proxy[o] = v.proxy[o] /\ w.monitored[o] = v.monitored[o]
      /\ Holds(v.shown, v.dying, x) => w.proxy[x] = v.proxy[x] /\ w.monitored[x] = v.monitored[x]
      /\ ~Holds(v.shown, v.dying, x) => /\ w.proxy[x] = InitialState(v.monitored[x])
                                        /\ w.monitored[x] = None
  <2>1. CASE Holds(v.shown, v.dying, x)
    BY <2>1 DEF Shows
  <2>2. CASE ~Holds(v.shown, v.dying, x)
    <3>1. /\ w.proxy = [v.proxy EXCEPT ![x] = InitialState(v.monitored[x])]
          /\ w.monitored = Unmonitored(v.monitored, {x})
      BY <2>2 DEF Shows
    <3> QED
      BY <1>0, <2>2, <3>1 DEF Unmonitored
  <2> QED
    BY <2>1, <2>2
<1>6. SoundView(w)
  <2>1. \A o \in Objects : (w.proxy[o] # None) <=> Holds(w.shown, w.dying, o)
    <3>1. \A o \in Objects : (v.proxy[o] # None) <=> Holds(v.shown, v.dying, o)
      BY DEF Reached, SoundView
    <3>2. InitialState(v.monitored[x]) # None
      BY <1>0, <1>1
    <3> QED
      BY <1>3, <1>4, <1>5, <3>1, <3>2
  <2> QED
    BY <1>2, <2>1 DEF Reached, SoundView
<1>7. ASSUME NEW o \in Objects
      PROVE  Kept(w.proxy, w.monitored, o) \subseteq Kept(b.proxy, b.monitored, o)
  <2>1. Kept(v.proxy, v.monitored, o) \subseteq Kept(b.proxy, b.monitored, o)
    BY DEF Reached
  <2>2. CASE o # x \/ Holds(v.shown, v.dying, x)
    BY <1>5, <2>1, <2>2 DEF Kept
  <2>3. CASE o = x /\ ~Holds(v.shown, v.dying, x)
    <3>1. Kept(w.proxy, w.monitored, x) \subseteq {0, InitialState(v.monitored[x])}
      BY <1>5, <2>3 DEF Kept
    <3>2. 0 \in Kept(v.proxy, v.monitored, x)
      BY DEF Kept
    <3> QED
      BY <1>1, <2>1, <2>3, <3>1, <3>2
  <2> QED
    BY <2>2, <2>3
<1>8. ASSUME NEW o \in Objects PROVE Origin(b, w, q, n + 1, i, o)
  <2>1. Origin(b, v, q, n, i, o)
    BY DEF Reached
  <2>2. CASE o = x
    <3>1. Adds(q, n + 1, x) /\ x \in w.appeared
      BY <1>2, OneMore
    <3>2. ASSUME \A j \in Interests : j = i, x \notin w.again
          PROVE  x \notin b.appeared /\ w.proxy[x] = InitialState(b.monitored[x])
      <4>1. x \notin v.appeared
        <5>1. \A j \in Interests : x \notin v.shown[j]
          BY <1>2, <3>2
        <5> QED
          BY <3>2, <5>1 DEF Shows
      <4>2. ~Holds(v.shown, v.dying, x) /\ x \notin b.appeared
        BY <4>1 DEF Reached, SoundView, Holds
      <4>3. v.monitored[x] = b.monitored[x]
        BY <2>1, <2>2, <4>1 DEF Origin
      <4> QED
        BY <1>5, <4>2, <4>3
    <3> QED
      BY <2>2, <3>1, <3>2 DEF Origin
  <2>3. CASE o # x
    <3>1. q[n + 1] # <<"remove", o>>
      BY <2>3
    <3>2. /\ o \in w.shown[i] <=> o \in v.shown[i]
          /\ o \in w.appeared <=> o \in v.appeared
          /\ o \in w.again <=> o \in v.again
          /\ w.proxy[o] = v.proxy[o] /\ w.monitored[o] = v.monitored[o]
      BY <1>2, <1>5, <2>3
    <3> QED
      BY <2>1, <3>1, <3>2, OneMore DEF Origin
  <2> QED
    BY <2>2, <2>3
<1>9. ASSUME NEW o \in Objects, w.monitored[o] # None PROVE w.monitored[o] = b.monitored[o]
  <2>1. v.monitored[o] # None => v.monitored[o] = b.monitored[o]
    BY DEF Reached
  <2> QED
    BY <1>5, <1>9, <2>1
<1> QED
  BY <1>2, <1>6, <1>7, <1>8, <1>9 DEF Reached

(* An action keeps the views typed and leads one step further. *)
LEMMA AppliedReaches ==
    ASSUME NEW b, NEW v, NEW q, NEW n \in Nat, NEW i \in Interests, NEW top \in [Objects -> Nat],
           \A o \in Objects : \A r \in Kept(b.proxy, b.monitored, o) : r <= top[o],
           Reached(b, v, q, n, i), q[n + 1] \in Actions
    PROVE  Reached(b, Applied(v, q[n + 1], i), q, n + 1, i)
<1> DEFINE a == q[n + 1]
           w == Applied(v, a, i)
           x == a[2]
<1>0. v \in ViewStates
  BY DEF Reached, SoundView
<1>1. /\ x \in Objects /\ a \in {<<"add", x>>, <<"remove", x>>}
      /\ \/ w = v /\ (a[1] = "remove" => x \notin v.shown[i])
            /\ (a[1] = "add" => x \in v.shown[i])
         \/ a[1] = "remove" /\ Hides(v, w, x, i)
         \/ a[1] = "add" /\ Shows(v, w, x, i)
  BY <1>0, AppliedIs
<1>2. CASE w = v /\ (a[1] = "remove" => x \notin v.shown[i])
  <2>1. ASSUME NEW o \in Objects PROVE Origin(b, v, q, n + 1, i, o)
    <3>1. Origin(b, v, q, n, i, o)
      BY DEF Reached
    <3>2. o \in v.shown[i] => a # <<"remove", o>>
      <4> HIDE DEF a
      <4> QED
        BY <1>1, <1>2
    <3>3. o \in v.shown[i] => /\ Clean(q, n, o) => Clean(q, n + 1, o)
                              /\ Adds(q, n, o) => Adds(q, n + 1, o)
      BY <3>2, OneMore
    <3> QED
      BY <3>1, <3>3 DEF Origin
  <2>2. Reached(b, v, q, n + 1, i)
    BY <2>1 DEF Reached
  <2>3. w = v
    BY <1>2
  <2> HIDE DEF w
  <2>4. Reached(b, w, q, n + 1, i)
    BY <2>2, <2>3
  <2> QED
    BY <2>4 DEF w
<1>3. CASE a[1] = "remove" /\ Hides(v, w, x, i)
  <2>1. a = <<"remove", x>>
    <3> HIDE DEF a
    <3> QED
      BY <1>1, <1>3
  <2>2. w \in ViewStates
    <3>1. w = [v EXCEPT !.shown[i] = @ \ {x}, !.dying[i] = @ \union {x}]
      BY <1>3 DEF Applied, Hides
    <3> HIDE DEF w, x
    <3> QED
      BY <1>0, <1>1, <3>1 DEF ViewStates
  <2> HIDE DEF w, x
  <2>3. Reached(b, w, q, n + 1, i)
    BY <1>1, <1>3, <2>1, <2>2, HidesReaches
  <2> QED
    BY <2>3 DEF w
<1>4. CASE a[1] = "add" /\ Shows(v, w, x, i)
  <2>1. a = <<"add", x>>
    <3> HIDE DEF a
    <3> QED
      BY <1>1, <1>4
  <2>2. InitialState(v.monitored[x]) \in Nat
    <3> HIDE DEF w, x
    <3> QED
      BY <1>1, <1>4, <2>1, ShowsReaches
  <2>3. w \in ViewStates
    <3> DEFINE alive == Holds(v.shown, v.dying, x)
               p == IF alive THEN v.proxy
                    ELSE [v.proxy EXCEPT ![x] = InitialState(v.monitored[x])]
               d == IF alive THEN v.monitored ELSE Unmonitored(v.monitored, {x})
               g == IF x \in v.appeared /\ \A j \in Interests : x \notin v.shown[j]
                    THEN v.again \union {x} ELSE v.again
               s == [v.shown EXCEPT ![i] = @ \union {x}]
               y == [v.dying EXCEPT ![i] = @ \ {x}]
    <3>1. w = [shown |-> s, dying |-> y, proxy |-> p, monitored |-> d,
               appeared |-> v.appeared \union {x}, again |-> g]
      <4>1. a[1] # "remove" /\ x \notin v.shown[i]
        BY <1>4 DEF Shows
      <4> QED
        BY <4>1, Zenon DEF Applied
    <3>2. /\ v.shown \in [Interests -> SUBSET Objects] /\ v.dying \in [Interests -> SUBSET Objects]
          /\ v.proxy \in [Objects -> Nat \union {None}]
          /\ v.monitored \in [Objects -> Data \union {None}]
          /\ v.appeared \in SUBSET Objects /\ v.again \in SUBSET Objects
      BY <1>0 DEF ViewStates
    <3> HIDE DEF w, x
    <3>3. p \in [Objects -> Nat \union {None}] /\ d \in [Objects -> Data \union {None}]
      BY <2>2, <3>2 DEF Unmonitored
    <3>4. /\ s \in [Interests -> SUBSET Objects] /\ y \in [Interests -> SUBSET Objects]
          /\ g \in SUBSET Objects
      BY <1>1, <3>2
    <3> HIDE DEF p, d, g, s, y
    <3> QED
      BY <1>1, <3>1, <3>2, <3>3, <3>4 DEF ViewStates
  <2> HIDE DEF w, x
  <2>4. Reached(b, w, q, n + 1, i)
    BY <1>1, <1>4, <2>1, <2>3, ShowsReaches
  <2> QED
    BY <2>4 DEF w
<1>5. \/ w = v /\ (a[1] = "remove" => x \notin v.shown[i])
      \/ a[1] = "remove" /\ Hides(v, w, x, i)
      \/ a[1] = "add" /\ Shows(v, w, x, i)
  <2> HIDE DEF w, x, a
  <2> QED
    BY <1>1
<1> QED
  BY <1>2, <1>3, <1>4, <1>5

(* The states a bulk leads through. *)
IsBulk(f, b, q, i) == f = [k \in 0..Len(q) |-> IF k = 0 THEN b ELSE Applied(f[k - 1], q[k], i)]

(* There are such states. *)
LEMMA BulkExists ==
    ASSUME NEW b, NEW q \in Seq(Actions), NEW i
    PROVE  \E f : IsBulk(f, b, q, i)
<1> DEFINE G(f, n) == f = [k \in 0..n |-> IF k = 0 THEN b ELSE Applied(f[k - 1], q[k], i)]
           S == {n \in Nat : \E f : G(f, n)}
<1>1. 0 \in S
  <2> DEFINE f == [k \in 0..0 |-> b]
  <2>1. f = [k \in 0..0 |-> IF k = 0 THEN b ELSE Applied(f[k - 1], q[k], i)]
    OBVIOUS
  <2> QED
    BY <2>1
<1>2. ASSUME NEW n \in S PROVE n + 1 \in S
  <2>1. n \in Nat
    OBVIOUS
  <2>2. PICK f : G(f, n)
    OBVIOUS
  <2> DEFINE g == [k \in 0..(n + 1) |-> IF k <= n THEN f[k] ELSE Applied(f[n], q[n + 1], i)]
  <2>3. ASSUME NEW k \in 0..(n + 1)
        PROVE  g[k] = IF k = 0 THEN b ELSE Applied(g[k - 1], q[k], i)
    <3>1. CASE k <= n
      <4>1. k \in 0..n /\ g[k] = f[k]
        BY <2>1, <3>1
      <4>2. f[k] = IF k = 0 THEN b ELSE Applied(f[k - 1], q[k], i)
        BY <2>2, <4>1
      <4>3. k # 0 => k - 1 \in 0..(n + 1) /\ k - 1 <= n
        BY <2>1, <3>1
      <4>4. k # 0 => g[k - 1] = f[k - 1]
        BY <4>3
      <4> HIDE DEF g
      <4> QED
        BY <4>1, <4>2, <4>4, Zenon
    <3>2. CASE ~(k <= n)
      <4>1. k = n + 1 /\ k # 0 /\ k - 1 = n /\ n \in 0..(n + 1) /\ n <= n
        BY <2>1, <3>2
      <4>2. g[n] = f[n] /\ g[k] = Applied(f[n], q[n + 1], i)
        BY <3>2, <4>1
      <4> HIDE DEF g
      <4> QED
        BY <4>1, <4>2, Zenon
    <3> QED
      BY <3>1, <3>2
  <2>4. g = [k \in 0..(n + 1) |-> g[k]]
    OBVIOUS
  <2> HIDE DEF g
  <2>5. G(g, n + 1)
    BY <2>3, <2>4, Zenon
  <2>6. n + 1 \in Nat
    BY <2>1
  <2> QED
    BY <2>5, <2>6
<1>3. S \subseteq Nat
  OBVIOUS
<1> HIDE DEF S
<1>4. S = Nat
  BY <1>1, <1>2, <1>3, Inductive
<1>5. Len(q) \in S
  BY <1>4
<1> QED
  BY <1>5 DEF S, IsBulk

(* What a whole bulk makes of the views. *)
LEMMA ProcessedReaches ==
    ASSUME NEW b, NEW q \in Seq(Actions), NEW i \in Interests, NEW top \in [Objects -> Nat],
           \A o \in Objects : \A r \in Kept(b.proxy, b.monitored, o) : r <= top[o],
           SoundView(b)
    PROVE  Reached(b, Processed(b, q, i), q, Len(q), i)
<1> DEFINE n == Len(q)
           g == CHOOSE f : f = [k \in 0..n |-> IF k = 0 THEN b ELSE Applied(f[k - 1], q[k], i)]
<1>1. n \in Nat /\ \A k \in 1..n : q[k] \in Actions
  OBVIOUS
<1>2. g = [k \in 0..n |-> IF k = 0 THEN b ELSE Applied(g[k - 1], q[k], i)]
  <2>0. \E f : IsBulk(f, b, q, i)
    BY BulkExists, Zenon
  <2>1. \E f : f = [k \in 0..n |-> IF k = 0 THEN b ELSE Applied(f[k - 1], q[k], i)]
    BY <2>0, Zenon DEF IsBulk
  <2> QED
    BY <2>1, Zenon
<1>3. Processed(b, q, i) = g[n]
  BY Zenon DEF Processed
<1> HIDE DEF g
<1>4. g[0] = b
  BY <1>1, <1>2
<1>5. ASSUME NEW k \in 0..n, k + 1 <= n
      PROVE  k + 1 \in 1..n /\ g[k + 1] = Applied(g[k], q[k + 1], i)
  <2>1. k + 1 \in 0..n /\ k + 1 # 0 /\ (k + 1) - 1 = k /\ k + 1 \in 1..n
    BY <1>1, <1>5
  <2> QED
    BY <1>2, <2>1
<1> DEFINE S == {k \in Nat : k <= n => Reached(b, g[k], q, k, i)}
<1>6. 0 \in S
  <2>1. \A o \in Objects : Origin(b, b, q, 0, i, o)
    BY DEF Origin, Clean
  <2>2. Reached(b, b, q, 0, i)
    BY <2>1 DEF Reached
  <2> QED
    BY <1>4, <2>2
<1>7. ASSUME NEW k \in S PROVE k + 1 \in S
  <2>1. k \in Nat /\ k + 1 \in Nat
    OBVIOUS
  <2>2. CASE k + 1 <= n
    <3>1. k \in 0..n /\ Reached(b, g[k], q, k, i)
      BY <1>1, <2>1, <2>2
    <3>2. g[k + 1] = Applied(g[k], q[k + 1], i) /\ q[k + 1] \in Actions
      BY <1>1, <1>5, <2>2, <3>1
    <3>3. Reached(b, g[k + 1], q, k + 1, i)
      BY <2>1, <3>1, <3>2, AppliedReaches
    <3> QED
      BY <2>1, <3>3
  <2>3. CASE ~(k + 1 <= n)
    BY <2>1, <2>3
  <2> QED
    BY <2>2, <2>3
<1>8. S \subseteq Nat
  OBVIOUS
<1> HIDE DEF S
<1>9. S = Nat
  BY <1>6, <1>7, <1>8, Inductive
<1>10. n \in S /\ n <= n
  BY <1>1, <1>9
<1> QED
  BY <1>3, <1>10 DEF S

----------------------------------------------------------------------------
(* The inductive invariant.  First the types, one part per group of variables. *)
HandshakeTypes ==
    /\ known \in BOOLEAN /\ ready \in BOOLEAN
    /\ publisherKnows \in BOOLEAN /\ publisherReady \in BOOLEAN
    /\ pendingStarts \in Seq(providers)
    /\ IF known THEN managers \subseteq providers ELSE providers = {}

ArrivalTypes ==
    /\ providers \subseteq Interests /\ current \in [Interests -> SUBSET Objects]
    /\ typed \in BOOLEAN /\ pendingAdditions \subseteq Interests \X Objects
    /\ typed => pendingAdditions = {}
    /\ monitored \in [Objects -> Data \union {None}]
    /\ expired \subseteq Objects
    /\ \A i \in Interests \ providers : current[i] = {}

ViewTypes ==
    /\ managers \subseteq Interests /\ drained \subseteq managers
    /\ actions \in [Interests -> Seq(Actions)]
    /\ shown \in [Interests -> SUBSET Objects] /\ dying \in [Interests -> SUBSET Objects]
    /\ proxy \in [Objects -> Nat \union {None}]
    /\ again \subseteq appeared /\ appeared \subseteq Objects
    /\ \A i \in Interests : shown[i] \subseteq appeared /\ dying[i] \subseteq appeared
    /\ \A i \in Interests \ managers : shown[i] = {} /\ dying[i] = {} /\ actions[i] = <<>>
    /\ \A o \in Objects : (proxy[o] # None) <=> Holds(shown, dying, o)

OfferTypes ==
    /\ started \subseteq Interests /\ offered \in [Interests -> SUBSET Objects]
    /\ knownLocal \subseteq Objects /\ linked \subseteq Objects
    /\ \A i \in Interests \ started : offered[i] = {}

StateTypes ==
    /\ matching \in [Interests -> SUBSET Objects] /\ value \in [Objects -> Nat]
    /\ commits \in Nat /\ commits <= MaxCommits /\ \A o \in Objects : value[o] <= commits
    /\ changed \subseteq Objects /\ phase \in {"idle", "committed", "evaluate"}
    /\ phase = "idle" => changed = {}
    /\ toEvaluate \subseteq started

NetTypes ==
    /\ toPublisher \in Seq(PublisherMessages) /\ toConsumer \in Seq(ConsumerMessages)
    /\ subscriptions \in Nat /\ timeouts \in Nat

Types ==
    HandshakeTypes /\ ArrivalTypes /\ ViewTypes /\ OfferTypes /\ StateTypes /\ NetTypes

(* A group whose variables a step leaves alone keeps its types. *)
LEMMA FrameTypes ==
    /\ HandshakeTypes /\ UNCHANGED <<handshakeVars, managers, providers>> => HandshakeTypes'
    /\ ArrivalTypes /\ UNCHANGED arrivalVars => ArrivalTypes'
    /\ ViewTypes /\ UNCHANGED viewVars => ViewTypes'
    /\ OfferTypes /\ UNCHANGED offerVars => OfferTypes'
    /\ StateTypes /\ UNCHANGED <<stateVars, commits, started>> => StateTypes'
    /\ NetTypes /\ UNCHANGED <<network, subscriptions, timeouts>> => NetTypes'
<1>1. HandshakeTypes /\ UNCHANGED <<handshakeVars, managers, providers>> => HandshakeTypes'
  BY DEF HandshakeTypes, handshakeVars
<1>2. ArrivalTypes /\ UNCHANGED arrivalVars => ArrivalTypes'
  BY DEF ArrivalTypes, arrivalVars
<1>3. ViewTypes /\ UNCHANGED viewVars => ViewTypes'
  BY DEF ViewTypes, viewVars
<1>4. OfferTypes /\ UNCHANGED offerVars => OfferTypes'
  BY DEF OfferTypes, offerVars
<1>5. StateTypes /\ UNCHANGED <<stateVars, commits, started>> => StateTypes'
  BY DEF StateTypes, stateVars
<1>6. NetTypes /\ UNCHANGED <<network, subscriptions, timeouts>> => NetTypes'
  BY DEF NetTypes, network
<1> QED
  BY <1>1, <1>2, <1>3, <1>4, <1>5, <1>6

(* The groups are right at the beginning. *)
LEMMA InitTypes == Init => Types
<1> SUFFICES ASSUME Init PROVE Types
  OBVIOUS
<1>1. HandshakeTypes
  <2>1. <<>> \in Seq(providers)
    OBVIOUS
  <2> QED
    BY <2>1 DEF Init, HandshakeTypes
<1>2. ArrivalTypes
  BY DEF Init, ArrivalTypes
<1>3. ViewTypes
  BY DEF Init, ViewTypes, Holds
<1>4. OfferTypes
  BY DEF Init, OfferTypes
<1>5. StateTypes
  BY BoundsAreNaturals DEF Init, StateTypes, BoundsAreNaturals
<1>6. NetTypes
  BY DEF Init, NetTypes
<1> QED
  BY <1>1, <1>2, <1>3, <1>4, <1>5, <1>6 DEF Types

(* A finite set of interests, as a sequence. *)
LEMMA InterestsAsSequence ==
    ASSUME NEW S, S \subseteq Interests
    PROVE  /\ SetToSeq(S) \in Seq(S) /\ \A x \in S : Has(SetToSeq(S), x)
<1>1. IsFiniteSet(S)
  BY RemoteAssumption, FS_Subset DEF RemoteAssumption
<1> QED
  BY <1>1, SetAsSequence DEF Has

(* A finite set of objects, as a sequence. *)
LEMMA ObjectsAsSequence ==
    ASSUME NEW S, S \subseteq Objects
    PROVE  /\ SetToSeq(S) \in Seq(S) /\ \A x \in S : Has(SetToSeq(S), x)
<1>1. IsFiniteSet(S)
  BY RemoteAssumption, FS_Subset DEF RemoteAssumption
<1> QED
  BY <1>1, SetAsSequence DEF Has

(* The consumer meets the publisher. *)
LEMMA ConsumerMeetsTypes == Types /\ ConsumerMeets => Types'
<1> SUFFICES ASSUME Types, ConsumerMeets PROVE Types'
  OBVIOUS
<1>1. HandshakeTypes'
  <2>1. /\ known' = TRUE /\ pendingStarts' = SetToSeq(managers) /\ providers' = managers
        /\ UNCHANGED <<ready, publisherKnows, publisherReady, managers>>
    BY DEF ConsumerMeets, viewVars
  <2>2. managers \subseteq Interests
    BY DEF Types, ViewTypes
  <2>3. SetToSeq(managers) \in Seq(managers)
    BY <2>2, InterestsAsSequence
  <2> QED
    BY <2>1, <2>3 DEF Types, HandshakeTypes
<1>2. ViewTypes' /\ OfferTypes' /\ StateTypes'
  BY FrameTypes DEF Types, ConsumerMeets, viewVars, offerVars, bounds
<1>4. ArrivalTypes'
  <2>1. /\ ~known /\ providers' = managers
        /\ UNCHANGED <<current, typed, pendingAdditions, monitored, expired>>
    BY DEF ConsumerMeets
  <2>2. providers = {} /\ managers \subseteq Interests
    BY <2>1 DEF Types, HandshakeTypes, ViewTypes
  <2> QED
    BY <2>1, <2>2 DEF Types, ArrivalTypes
<1>3. NetTypes'
  <2>1. <<Ready>> \in Seq(PublisherMessages)
    BY PublisherTold
  <2>2. toPublisher' \in Seq(PublisherMessages)
    BY <2>1, Concat DEF Types, NetTypes, ConsumerMeets, ToPublisher
  <2> QED
    BY <2>2 DEF Types, NetTypes, ConsumerMeets, bounds
<1> QED
  BY <1>1, <1>2, <1>3, <1>4 DEF Types

(* The publisher meets the consumer. *)
LEMMA PublisherMeetsTypes == Types /\ PublisherMeets => Types'
<1> SUFFICES ASSUME Types, PublisherMeets PROVE Types'
  OBVIOUS
<1>1. HandshakeTypes'
  BY DEF Types, HandshakeTypes, PublisherMeets, arrivalVars, viewVars
<1>2. ArrivalTypes' /\ ViewTypes' /\ OfferTypes' /\ StateTypes'
  BY FrameTypes DEF Types, PublisherMeets, viewVars, offerVars, bounds
<1>3. NetTypes'
  <2>1. <<Ready>> \in Seq(ConsumerMessages)
    BY ConsumerTold
  <2>2. toConsumer' \in Seq(ConsumerMessages)
    BY <2>1, Concat DEF Types, NetTypes, PublisherMeets, ToConsumer
  <2> QED
    BY <2>2 DEF Types, NetTypes, PublisherMeets, bounds
<1> QED
  BY <1>1, <1>2, <1>3 DEF Types

(* The answer to a handshake: a greeting, and the starts that waited. *)
LEMMA GreetingIs ==
    ASSUME Types
    PROVE  /\ Greeting \in Seq(PublisherMessages)
           /\ Has(Greeting, Ready)
           /\ \A i : Has(pendingStarts, i) => Has(Greeting, Started(i))
           /\ \A i : Has(Greeting, Started(i)) => i \in providers
           /\ \A k \in 1..Len(Greeting) : Greeting[k].kind \in {"ready", "started"}
<1> DEFINE starts == [n \in DOMAIN pendingStarts |-> Started(pendingStarts[n])]
           g == <<Ready>> \o starts
<1>0. pendingStarts \in Seq(providers) /\ providers \subseteq Interests
  BY DEF Types, HandshakeTypes, ArrivalTypes
<1>1. /\ Len(pendingStarts) \in Nat /\ DOMAIN pendingStarts = 1..Len(pendingStarts)
      /\ \A n \in 1..Len(pendingStarts) : pendingStarts[n] \in providers
  BY <1>0
<1>2. \A n \in 1..Len(pendingStarts) : Started(pendingStarts[n]) \in PublisherMessages
  BY <1>0, <1>1, PublisherTold
<1>3. starts \in Seq(PublisherMessages) /\ Len(starts) = Len(pendingStarts)
  BY <1>1, <1>2
<1>4. \A n \in 1..Len(starts) : starts[n] = Started(pendingStarts[n])
  BY <1>1, <1>3
<1> HIDE DEF starts
<1>5. /\ g \in Seq(PublisherMessages) /\ Len(g) = Len(starts) + 1 /\ g[1] = Ready
      /\ \A n \in 1..Len(starts) : g[n + 1] = starts[n]
      /\ \A n \in 1..Len(g) : n = 1 \/ (n - 1 \in 1..Len(starts) /\ g[n] = starts[n - 1])
  BY <1>3, PublisherTold
<1>6. g = Greeting
  BY DEF Greeting, starts
<1> HIDE DEF g
<1>7. Has(g, Ready)
  BY <1>3, <1>5 DEF Has
<1>8. ASSUME NEW i, Has(pendingStarts, i) PROVE Has(g, Started(i))
  <2>1. PICK n \in 1..Len(pendingStarts) : pendingStarts[n] = i
    BY <1>8 DEF Has
  <2>2. n + 1 \in 1..Len(g) /\ g[n + 1] = Started(i)
    BY <1>1, <1>3, <1>4, <1>5, <2>1
  <2> QED
    BY <2>2 DEF Has
<1>9. ASSUME NEW n \in 1..Len(g), NEW i, g[n] = Started(i)
      PROVE  n - 1 \in 1..Len(pendingStarts) /\ pendingStarts[n - 1] = i
  <2>1. n # 1
    BY <1>5, <1>9, StartsAre
  <2>2. n - 1 \in 1..Len(starts) /\ g[n] = Started(pendingStarts[n - 1])
    BY <1>4, <1>5, <2>1
  <2>3. PICK x : x = pendingStarts[n - 1]
    OBVIOUS
  <2>4. Started(x) = Started(i)
    BY <1>9, <2>2, <2>3
  <2>5. x = i
    BY <2>4 DEF Started
  <2> QED
    BY <1>3, <2>2, <2>3, <2>5
<1>10. ASSUME NEW n \in 1..Len(g) PROVE g[n].kind \in {"ready", "started"}
  <2>1. CASE n = 1
    BY <1>5, <2>1, StartsAre
  <2>2. CASE n # 1
    <3>1. g[n] = Started(pendingStarts[n - 1])
      BY <1>4, <1>5, <2>2
    <3> QED
      BY <3>1, StartsAre
  <2> QED
    BY <2>1, <2>2
<1>11. ASSUME NEW i, Has(g, Started(i)) PROVE i \in providers
  <2>1. PICK n \in 1..Len(g) : g[n] = Started(i)
    BY <1>11 DEF Has
  <2> QED
    BY <1>1, <1>9, <2>1
<1> QED
  BY <1>5, <1>6, <1>7, <1>8, <1>10, <1>11

(* What a message that is received leaves to show. *)
LEMMA ReceivedTypes ==
    ASSUME Types, toConsumer # <<>>, toConsumer' = Tail(toConsumer),
           UNCHANGED <<offerVars, stateVars, bounds>>,
           HandshakeTypes', ArrivalTypes', ViewTypes', toPublisher' \in Seq(PublisherMessages)
    PROVE  Types'
<1>1. OfferTypes' /\ StateTypes'
  BY FrameTypes DEF Types, offerVars, bounds
<1>2. NetTypes'
  BY TailOf DEF Types, NetTypes, bounds
<1> QED
  BY <1>1, <1>2 DEF Types

(* The consumer's handlers keep the types. *)
LEMMA ReadyReceivedTypes ==
    ASSUME Types, ReadyReceived
    PROVE  /\ HandshakeTypes' /\ ArrivalTypes' /\ ViewTypes'
           /\ toPublisher' \in Seq(PublisherMessages)
<1>1. ArrivalTypes' /\ ViewTypes'
  BY FrameTypes DEF Types, ReadyReceived, viewVars
<1>2. /\ known' \in BOOLEAN /\ ready' \in BOOLEAN /\ publisherKnows' \in BOOLEAN
      /\ publisherReady' \in BOOLEAN /\ known' = known /\ UNCHANGED <<managers, providers>>
  BY DEF Types, HandshakeTypes, ReadyReceived, arrivalVars, viewVars
<1>3. CASE ready
  <2>1. UNCHANGED <<pendingStarts, toPublisher>>
    BY <1>3 DEF ReadyReceived
  <2> QED
    BY <1>1, <1>2, <2>1 DEF Types, HandshakeTypes, NetTypes
<1>4. CASE ~ready
  <2>1. pendingStarts' = <<>> /\ toPublisher' = toPublisher \o Greeting
    BY <1>4 DEF ReadyReceived, ToPublisher
  <2>2. toPublisher \o Greeting \in Seq(PublisherMessages)
    BY GreetingIs, Concat DEF Types, NetTypes
  <2>3. <<>> \in Seq(providers)
    OBVIOUS
  <2>4. HandshakeTypes'
    BY <1>2, <2>1, <2>3 DEF Types, HandshakeTypes
  <2> QED
    BY <1>1, <2>1, <2>2, <2>4
<1> QED
  BY <1>3, <1>4

(* startMonitoring starts with nothing. *)
LEMMA MonitoringIs ==
    ASSUME Types, NEW os
    PROVE  /\ Monitoring(os) \in [Objects -> Data \union {None}]
           /\ \A o \in Objects : \/ Monitoring(os)[o] = monitored[o]
                                 \/ /\ monitored[o] = None /\ Monitoring(os)[o] \in Data
                                    /\ Monitoring(os)[o] = [state |-> 0, updates |-> {}]
<1>1. [state |-> 0, updates |-> {}] \in Data
  BY DEF Data
<1>2. monitored \in [Objects -> Data \union {None}]
  BY DEF Types, ArrivalTypes
<1> QED
  BY <1>1, <1>2 DEF Monitoring

(* Objects were published. *)
LEMMA PublishedReceivedTypes ==
    ASSUME Types, NEW m, m.interest \in Interests, m.objects \subseteq Objects, PublishedReceived(m)
    PROVE  /\ HandshakeTypes' /\ ArrivalTypes' /\ ViewTypes'
           /\ toPublisher' \in Seq(PublisherMessages)
<1>1. HandshakeTypes' /\ ViewTypes'
  BY FrameTypes DEF Types, PublishedReceived, viewVars
<1>2. UNCHANGED <<providers, current, typed, expired>>
  BY DEF PublishedReceived
<1>3. CASE typed
  <2>1. /\ monitored' = Monitoring(m.objects) /\ pendingAdditions' = pendingAdditions
        /\ toPublisher' = toPublisher \o <<StateRequest(m.interest, m.objects)>>
    BY <1>3 DEF PublishedReceived, ToPublisher
  <2>2. monitored' \in [Objects -> Data \union {None}]
    BY <2>1, MonitoringIs
  <2>3. <<StateRequest(m.interest, m.objects)>> \in Seq(PublisherMessages)
    BY PublisherTold
  <2>4. toPublisher' \in Seq(PublisherMessages)
    BY <2>1, <2>3, Concat DEF Types, NetTypes
  <2> QED
    BY <1>1, <1>2, <2>1, <2>2, <2>4 DEF Types, ArrivalTypes
<1>4. CASE ~typed
  <2>1. /\ monitored' = monitored
        /\ pendingAdditions' = pendingAdditions \union ({m.interest} \X m.objects)
        /\ toPublisher' = toPublisher \o <<TypesRequest>>
    BY <1>4 DEF PublishedReceived, ToPublisher
  <2>2. {m.interest} \X m.objects \subseteq Interests \X Objects
    OBVIOUS
  <2>3. <<TypesRequest>> \in Seq(PublisherMessages)
    BY PublisherTold
  <2>4. toPublisher' \in Seq(PublisherMessages)
    BY <2>1, <2>3, Concat DEF Types, NetTypes
  <2>5. ArrivalTypes'
    BY <1>2, <1>4, <2>1, <2>2 DEF Types, ArrivalTypes
  <2> QED
    BY <1>1, <2>4, <2>5
<1> QED
  BY <1>3, <1>4

(* The requests that are sent once the class is known. *)
Requests == PerInterest(LAMBDA i : StateRequest(i, Waiting(i)), {i \in Interests : Waiting(i) # {}})

(* They are requests. *)
LEMMA RequestsAre ==
    /\ Requests \in Seq(PublisherMessages)
    /\ \A k \in 1..Len(Requests) : Requests[k].kind = "request"
<1> DEFINE S == {i \in Interests : Waiting(i) # {}}
           order == SetToSeq(S)
           rs == [n \in DOMAIN order |-> StateRequest(order[n], Waiting(order[n]))]
<1>1. order \in Seq(S)
  BY InterestsAsSequence
<1>2. Requests = rs
  BY DEF Requests, PerInterest
<1>3. \A i : Waiting(i) \in SUBSET Objects
  BY DEF Waiting
<1> HIDE DEF order
<1>4. DOMAIN order = 1..Len(order) /\ Len(order) \in Nat /\ \A n \in 1..Len(order) : order[n] \in S
  BY <1>1
<1>5. \A n \in 1..Len(order) : StateRequest(order[n], Waiting(order[n])) \in PublisherMessages
  BY <1>3, <1>4, PublisherTold
<1>6. rs \in Seq(PublisherMessages) /\ Len(rs) = Len(order)
  BY <1>4, <1>5
<1>7. \A n \in 1..Len(rs) : rs[n] = StateRequest(order[n], Waiting(order[n]))
  BY <1>4, <1>6
<1> HIDE DEF rs
<1> QED
  BY <1>2, <1>6, <1>7, StartsAre

(* The class arrived. *)
LEMMA TypesReceivedTypes ==
    ASSUME Types, TypesReceived
    PROVE  /\ HandshakeTypes' /\ ArrivalTypes' /\ ViewTypes'
           /\ toPublisher' \in Seq(PublisherMessages)
<1>1. HandshakeTypes' /\ ViewTypes'
  BY FrameTypes DEF Types, TypesReceived, viewVars
<1>2. ArrivalTypes'
  BY MonitoringIs DEF Types, ArrivalTypes, TypesReceived, viewVars
<1>3. toPublisher' = toPublisher \o Requests
  BY DEF TypesReceived, ToPublisher, Requests
<1>4. toPublisher' \in Seq(PublisherMessages)
  BY <1>3, RequestsAre, Concat DEF Types, NetTypes
<1> QED
  BY <1>1, <1>2, <1>4

(* One action per object of a set, as a sequence. *)
Each(deed, S) == SetToSeq({<<deed, o>> : o \in S})

(* That is what is queued. *)
LEMMA EachQueued == \A S : Adding(S) = Each("add", S) /\ Removing(S) = Each("remove", S)
BY DEF Adding, Removing, Each

(* It holds these actions and no others. *)
LEMMA EachIs ==
    ASSUME NEW deed \in {"add", "remove"}, NEW S, S \subseteq Objects
    PROVE  /\ Each(deed, S) \in Seq(Actions)
           /\ \A k \in 1..Len(Each(deed, S)) : \E o \in S : Each(deed, S)[k] = <<deed, o>>
           /\ \A o \in S : Has(Each(deed, S), <<deed, o>>)
<1> DEFINE T == {<<deed, o>> : o \in S}
           f == [o \in S |-> <<deed, o>>]
           q == SetToSeq(T)
<1>1. IsFiniteSet(S)
  BY RemoteAssumption, FS_Subset DEF RemoteAssumption
<1>2. f \in Surjection(S, T)
  BY DEF Surjection
<1>3. IsFiniteSet(T)
  BY <1>1, <1>2, FS_Surjection
<1>4. /\ q \in Seq(T) /\ \A k \in 1..Len(q) : q[k] \in T
      /\ \A x \in T : \E k \in 1..Len(q) : q[k] = x
  <2> HIDE DEF T
  <2> QED
    BY <1>3, SetAsSequence
<1>5. T \subseteq Actions
  BY DEF Actions
<1>6. q = Each(deed, S)
  BY DEF Each
<1> HIDE DEF q
<1>7. q \in Seq(Actions)
  BY <1>4, <1>5
<1>8. \A k \in 1..Len(q) : \E o \in S : q[k] = <<deed, o>>
  BY <1>4
<1>9. \A o \in S : Has(q, <<deed, o>>)
  BY <1>4 DEF Has
<1> QED
  BY <1>6, <1>7, <1>8, <1>9

(* News are queued for a manager, if there is one. *)
LEMMA QueuedIs ==
    ASSUME Types, NEW i \in Interests, NEW q \in Seq(Actions)
    PROVE  /\ Queued(i, q) \in [Interests -> Seq(Actions)]
           /\ \A j \in Interests \ managers : Queued(i, q)[j] = <<>>
           /\ \A j \in Interests : (j # i \/ i \notin managers) => Queued(i, q)[j] = actions[j]
           /\ i \in managers => Queued(i, q)[i] = actions[i] \o q
<1>1. /\ actions \in [Interests -> Seq(Actions)]
      /\ \A j \in Interests \ managers : actions[j] = <<>>
  BY DEF Types, ViewTypes
<1>2. actions[i] \o q \in Seq(Actions)
  BY <1>1, Concat
<1> QED
  BY <1>1, <1>2 DEF Queued

(* What a removal or an addition does to the queue it is for. *)
LEMMA QueuedHere ==
    ASSUME Types, NEW i \in Interests, NEW q \in Seq(Actions)
    PROVE  /\ i \in managers => Queued(i, q)[i] = actions[i] \o q
           /\ i \notin managers => Queued(i, q)[i] = actions[i]
BY QueuedIs

(* Objects were taken back. *)
LEMMA RemovedReceivedTypes ==
    ASSUME Types, NEW m, m.interest \in Interests, m.objects \subseteq Objects, RemovedReceived(m)
    PROVE  /\ HandshakeTypes' /\ ArrivalTypes' /\ ViewTypes'
           /\ toPublisher' \in Seq(PublisherMessages)
<1>1. HandshakeTypes'
  BY FrameTypes DEF Types, RemovedReceived
<1>2. toPublisher' \in Seq(PublisherMessages)
  BY DEF RemovedReceived, Types, NetTypes
<1>3. /\ current' \in [Interests -> SUBSET Objects] /\ actions' \in [Interests -> Seq(Actions)]
      /\ \A i \in Interests \ managers : actions'[i] = <<>>
      /\ \A i \in Interests \ providers : current'[i] = {}
  <2> DEFINE r == Each("remove", m.objects)
  <2>1. r \in Seq(Actions)
    BY EachIs
  <2>2. /\ current' = [current EXCEPT ![m.interest] = @ \ m.objects]
        /\ actions' = Queued(m.interest, r)
    BY EachQueued DEF RemovedReceived, Forgets
  <2> HIDE DEF r
  <2>3. /\ current' \in [Interests -> SUBSET Objects]
        /\ \A i \in Interests \ providers : current'[i] = {}
    BY <2>2 DEF Types, ArrivalTypes
  <2>4. /\ Queued(m.interest, r) \in [Interests -> Seq(Actions)]
        /\ \A j \in Interests \ managers : Queued(m.interest, r)[j] = <<>>
    BY <2>1, QueuedIs
  <2> QED
    BY <2>2, <2>3, <2>4
<1>4. /\ pendingAdditions' = pendingAdditions \ ({m.interest} \X m.objects)
      /\ UNCHANGED <<providers, typed, monitored, expired, managers, drained, shown, dying, proxy,
                     appeared, again>>
  BY DEF RemovedReceived, Forgets
<1>5. ArrivalTypes'
  BY <1>3, <1>4 DEF Types, ArrivalTypes
<1>6. ViewTypes'
  BY <1>3, <1>4 DEF Types, ViewTypes
<1> QED
  BY <1>1, <1>2, <1>5, <1>6

(* The additions of a response. *)
Additions(m) == {o \in DOMAIN m.states : monitored[o] # None \/ proxy[o] # None}

(* What a response does. *)
LEMMA ResponseReceivedIs ==
    ASSUME Types, NEW m, m.interest \in Interests, DOMAIN m.states \subseteq Objects,
           \A o \in DOMAIN m.states : m.states[o] \in Nat, ResponseReceived(m)
    PROVE  /\ monitored' \in [Objects -> Data \union {None}]
           /\ \A o \in Objects :
                /\ (o \notin DOMAIN m.states \/ monitored[o] = None) => monitored'[o] = monitored[o]
                /\ (o \in DOMAIN m.states /\ monitored[o] # None) =>
                      /\ monitored'[o] # None /\ monitored'[o].state = m.states[o]
                      /\ monitored'[o].updates = monitored[o].updates
<1>1. monitored \in [Objects -> Data \union {None}]
  BY DEF Types, ArrivalTypes
<1>2. monitored' = [o \in Objects |-> IF o \in DOMAIN m.states /\ monitored[o] # None
                                      THEN [monitored[o] EXCEPT !.state = m.states[o]]
                                      ELSE monitored[o]]
  BY DEF ResponseReceived
<1>3. ASSUME NEW o \in Objects, o \in DOMAIN m.states, monitored[o] # None
      PROVE  /\ monitored'[o] \in Data /\ monitored'[o].state = m.states[o]
             /\ monitored'[o].updates = monitored[o].updates
  <2>1. PICK d \in Data : d = monitored[o]
    BY <1>1, <1>3
  <2>2. monitored'[o] = [d EXCEPT !.state = m.states[o]] /\ m.states[o] \in Nat
    BY <1>2, <1>3, <2>1
  <2> QED
    BY <2>1, <2>2 DEF Data
<1>4. ASSUME NEW o \in Objects, o \notin DOMAIN m.states \/ monitored[o] = None
      PROVE  monitored'[o] = monitored[o]
  BY <1>2, <1>4
<1>5. monitored' \in [Objects -> Data \union {None}]
  <2>1. \A o \in Objects : monitored'[o] \in Data \union {None}
    BY <1>1, <1>3, <1>4
  <2>2. monitored' = [o \in Objects |-> monitored'[o]]
    BY <1>2
  <2> QED
    BY <2>1, <2>2
<1>6. None \notin Data
  BY RemoteAssumption DEF RemoteAssumption, Data
<1> QED
  BY <1>3, <1>4, <1>5, <1>6

(* The state of objects arrived. *)
LEMMA ResponseReceivedTypes ==
    ASSUME Types, NEW m, m.interest \in Interests, DOMAIN m.states \subseteq Objects,
           \A o \in DOMAIN m.states : m.states[o] \in Nat, ResponseReceived(m)
    PROVE  /\ HandshakeTypes' /\ ArrivalTypes' /\ ViewTypes'
           /\ toPublisher' \in Seq(PublisherMessages)
<1>1. HandshakeTypes'
  BY FrameTypes DEF Types, ResponseReceived
<1>2. toPublisher' \in Seq(PublisherMessages)
  BY DEF ResponseReceived, Types, NetTypes
<1>3. /\ current' \in [Interests -> SUBSET Objects] /\ actions' \in [Interests -> Seq(Actions)]
      /\ \A i \in Interests \ managers : actions'[i] = <<>>
      /\ \A i \in Interests \ providers : current'[i] = {}
  <2> DEFINE r == Each("add", Additions(m) \ current[m.interest])
  <2>1. Additions(m) \subseteq Objects
    BY DEF Additions
  <2>2. r \in Seq(Actions)
    BY <2>1, EachIs
  <2>3. /\ current' = [current EXCEPT ![m.interest] =
                         IF m.interest \in providers THEN @ \union Additions(m) ELSE @]
        /\ actions' = Queued(m.interest, r)
    BY EachQueued DEF ResponseReceived, Additions
  <2> HIDE DEF r
  <2>4. /\ current' \in [Interests -> SUBSET Objects]
        /\ \A i \in Interests \ providers : current'[i] = {}
    BY <2>1, <2>3 DEF Types, ArrivalTypes
  <2>5. /\ Queued(m.interest, r) \in [Interests -> Seq(Actions)]
        /\ \A j \in Interests \ managers : Queued(m.interest, r)[j] = <<>>
    BY <2>2, QueuedIs
  <2> QED
    BY <2>3, <2>4, <2>5
<1>4. monitored' \in [Objects -> Data \union {None}]
  BY ResponseReceivedIs
<1>5. UNCHANGED <<providers, typed, pendingAdditions, expired, managers, drained, shown, dying,
                  proxy, appeared, again>>
  BY DEF ResponseReceived
<1>6. ArrivalTypes'
  BY <1>3, <1>4, <1>5 DEF Types, ArrivalTypes
<1>7. ViewTypes'
  BY <1>3, <1>5 DEF Types, ViewTypes
<1> QED
  BY <1>1, <1>2, <1>6, <1>7

(* What an update does. *)
LEMMA UpdateReceivedIs ==
    ASSUME Types, NEW m, m.object \in Objects, m.value \in Nat, UpdateReceived(m)
    PROVE  /\ monitored' \in [Objects -> Data \union {None}]
           /\ proxy' \in [Objects -> Nat \union {None}]
           /\ \A o \in Objects :
                /\ o # m.object => monitored'[o] = monitored[o] /\ proxy'[o] = proxy[o]
                /\ (proxy'[o] = None) <=> (proxy[o] = None)
                /\ (monitored'[o] = None) <=> (monitored[o] = None)
           /\ proxy[m.object] # None => proxy'[m.object] = m.value
           /\ monitored[m.object] # None =>
                /\ monitored'[m.object].state = monitored[m.object].state
                /\ monitored'[m.object].updates = monitored[m.object].updates \union {m.value}
<1> DEFINE x == m.object
<1>0. None \notin Nat /\ None \notin Data
  BY RemoteAssumption DEF RemoteAssumption, Data
<1>1. monitored \in [Objects -> Data \union {None}] /\ proxy \in [Objects -> Nat \union {None}]
  BY DEF Types, ArrivalTypes, ViewTypes
<1>2. /\ monitored' = [monitored EXCEPT ![x] = Noted(monitored[x], m.value)]
      /\ proxy' = [proxy EXCEPT ![x] = IF proxy[x] = None THEN proxy[x] ELSE m.value]
  BY DEF UpdateReceived
<1>3. /\ proxy' \in [Objects -> Nat \union {None}]
      /\ \A o \in Objects : /\ o # x => proxy'[o] = proxy[o]
                            /\ (proxy'[o] = None) <=> (proxy[o] = None)
      /\ proxy[x] # None => proxy'[x] = m.value
  BY <1>0, <1>1, <1>2
<1>4. CASE monitored[x] = None
  BY <1>1, <1>2, <1>3, <1>4 DEF Noted
<1>5. CASE monitored[x] # None
  <2>1. PICK d \in Data : d = monitored[x]
    BY <1>1, <1>5
  <2> DEFINE e == [d EXCEPT !.updates = @ \union {m.value}]
  <2>2. monitored' = [monitored EXCEPT ![x] = e]
    BY <1>2, <1>5, <2>1 DEF Noted
  <2>3. e \in Data /\ e.state = d.state /\ e.updates = d.updates \union {m.value}
    BY DEF Data
  <2> HIDE DEF e
  <2> QED
    BY <1>0, <1>1, <1>3, <1>5, <2>1, <2>2, <2>3
<1> QED
  BY <1>4, <1>5

(* An update arrived. *)
LEMMA UpdateReceivedTypes ==
    ASSUME Types, NEW m, m.object \in Objects, m.value \in Nat, UpdateReceived(m)
    PROVE  /\ HandshakeTypes' /\ ArrivalTypes' /\ ViewTypes'
           /\ toPublisher' \in Seq(PublisherMessages)
<1>1. HandshakeTypes'
  BY FrameTypes DEF Types, UpdateReceived
<1>2. toPublisher' \in Seq(PublisherMessages)
  BY DEF UpdateReceived, Types, NetTypes
<1>3. UNCHANGED <<providers, current, typed, pendingAdditions, expired, managers, drained,
                  actions, shown, dying, appeared, again>>
  BY DEF UpdateReceived
<1>4. ArrivalTypes'
  BY <1>3, UpdateReceivedIs DEF Types, ArrivalTypes
<1>5. ViewTypes'
  BY <1>3, UpdateReceivedIs DEF Types, ViewTypes
<1> QED
  BY <1>1, <1>2, <1>4, <1>5

(* Whatever the consumer receives keeps the types. *)
LEMMA ConsumerReceivesTypes == Types /\ ConsumerReceives => Types'
<1> SUFFICES ASSUME Types, ConsumerReceives PROVE Types'
  OBVIOUS
<1> DEFINE m == Head(toConsumer)
<1>1. m \in ConsumerMessages
  BY TailOf DEF Types, NetTypes, ConsumerReceives
<1>2. /\ toConsumer # <<>> /\ toConsumer' = Tail(toConsumer)
      /\ UNCHANGED <<offerVars, stateVars, bounds>>
  BY DEF ConsumerReceives
<1>3. /\ HandshakeTypes' /\ ArrivalTypes' /\ ViewTypes'
      /\ toPublisher' \in Seq(PublisherMessages)
  <2>1. \/ UNCHANGED <<handshakeVars, arrivalVars, viewVars, toPublisher>>
        \/ ReadyReceived
        \/ m.kind = "published" /\ PublishedReceived(m)
        \/ TypesReceived
        \/ m.kind = "removed" /\ RemovedReceived(m)
        \/ m.kind = "response" /\ ResponseReceived(m)
        \/ m.kind = "update" /\ UpdateReceived(m)
    BY DEF ConsumerReceives
  <2>2. CASE UNCHANGED <<handshakeVars, arrivalVars, viewVars, toPublisher>>
    BY <2>2, FrameTypes DEF Types, arrivalVars, viewVars, NetTypes
  <2> HIDE DEF m
  <2>3. CASE m.kind = "published" /\ PublishedReceived(m)
    BY <1>1, <2>3, ConsumerParts, PublishedReceivedTypes
  <2>4. CASE m.kind = "removed" /\ RemovedReceived(m)
    BY <1>1, <2>4, ConsumerParts, RemovedReceivedTypes
  <2>5. CASE m.kind = "response" /\ ResponseReceived(m)
    BY <1>1, <2>5, ConsumerParts, ResponseReceivedTypes
  <2>6. CASE m.kind = "update" /\ UpdateReceived(m)
    BY <1>1, <2>6, ConsumerParts, UpdateReceivedTypes
  <2> QED
    BY <2>1, <2>2, <2>3, <2>4, <2>5, <2>6, ReadyReceivedTypes, TypesReceivedTypes
<1> QED
  BY <1>2, <1>3, ReceivedTypes

(* A timer fires. *)
LEMMA TimerFiresTypes == ASSUME Types, NEW o \in Objects, TimerFires(o) PROVE Types'
<1>1. HandshakeTypes' /\ ViewTypes' /\ OfferTypes' /\ StateTypes'
  BY FrameTypes DEF Types, TimerFires, viewVars, offerVars
<1>2. ArrivalTypes'
  BY DEF Types, ArrivalTypes, TimerFires, viewVars
<1>3. NetTypes'
  BY DEF Types, NetTypes, TimerFires, network
<1> QED
  BY <1>1, <1>2, <1>3 DEF Types

(* Its callback runs. *)
LEMMA TimeoutRunsTypes == ASSUME Types, NEW o \in Objects, TimeoutRuns(o) PROVE Types'
<1>1. HandshakeTypes' /\ ViewTypes' /\ OfferTypes' /\ StateTypes'
  BY FrameTypes DEF Types, TimeoutRuns, viewVars, offerVars, bounds
<1>2. ArrivalTypes'
  BY DEF Types, ArrivalTypes, TimeoutRuns, viewVars
<1>3. NetTypes'
  <2>1. <<Rejection(o)>> \in Seq(PublisherMessages)
    BY PublisherTold
  <2>2. toPublisher' \in Seq(PublisherMessages)
    BY <2>1, Concat DEF Types, NetTypes, TimeoutRuns, ToPublisher
  <2> QED
    BY <2>2 DEF Types, NetTypes, TimeoutRuns, bounds
<1> QED
  BY <1>1, <1>2, <1>3 DEF Types

(* An object's state is committed. *)
LEMMA CommitTypes == ASSUME Types, NEW o \in Objects, Commit(o) PROVE Types'
<1>1. HandshakeTypes' /\ ViewTypes' /\ OfferTypes' /\ NetTypes' /\ ArrivalTypes'
  BY FrameTypes DEF Types, Commit, arrivalVars, viewVars, offerVars
<1>2. StateTypes'
  <2>1. PICK matched \in SUBSET Interests :
          matching' = [i \in Interests |-> IF i \in matched THEN matching[i] \union {o}
                                           ELSE matching[i] \ {o}]
    BY DEF Commit
  <2>2. matching' \in [Interests -> SUBSET Objects]
    BY <2>1 DEF Types, StateTypes
  <2>3. value' = [value EXCEPT ![o] = @ + 1] /\ value \in [Objects -> Nat]
    BY DEF Commit, Types, StateTypes
  <2>4. /\ commits' = commits + 1 /\ commits < MaxCommits /\ commits \in Nat
        /\ changed' = changed \union {o} /\ phase' = "committed"
        /\ UNCHANGED <<toEvaluate, started>>
    BY DEF Commit, offerVars, Types, StateTypes
  <2>5. value' \in [Objects -> Nat] /\ \A p \in Objects : value'[p] <= commits'
    BY <2>3, <2>4 DEF Types, StateTypes
  <2>6. commits' \in Nat /\ commits' <= MaxCommits
    BY <2>4, BoundsAreNaturals DEF BoundsAreNaturals
  <2> QED
    BY <2>2, <2>4, <2>5, <2>6 DEF Types, StateTypes
<1> QED
  BY <1>1, <1>2 DEF Types

(* A manager is made, with a provider if there is none. *)
LEMMA SubscribesTypes ==
    ASSUME Types, NEW i \in Interests, NEW news \in Seq(Actions), Subscribes(i, news)
    PROVE  /\ HandshakeTypes' /\ ViewTypes' /\ OfferTypes' /\ StateTypes'
           /\ toPublisher' \in Seq(PublisherMessages) /\ subscriptions' \in Nat /\ timeouts' \in Nat
           /\ providers \subseteq providers' /\ providers' \subseteq Interests
<1>0. /\ managers' = managers \union {i} /\ i \notin managers
      /\ subscriptions' = subscriptions + 1
      /\ providers' = IF known THEN providers \union {i} ELSE providers
      /\ actions' = [actions EXCEPT ![i] = news]
      /\ pendingStarts' = IF known /\ ~ready THEN Append(pendingStarts, i) ELSE pendingStarts
      /\ UNCHANGED <<known, ready, publisherKnows, publisherReady, drained, shown, dying, proxy,
                     appeared, again, offerVars, stateVars, commits, timeouts>>
  BY DEF Subscribes
<1>1. HandshakeTypes'
  <2>1. pendingStarts \in Seq(providers)
    BY DEF Types, HandshakeTypes
  <2>2. /\ Append(pendingStarts, i) \in Seq(providers \union {i})
        /\ pendingStarts \in Seq(providers \union {i})
    BY <2>1
  <2>3. pendingStarts' \in Seq(providers')
    BY <1>0, <2>1, <2>2
  <2> QED
    BY <1>0, <2>3 DEF Types, HandshakeTypes
<1>2. ViewTypes'
  <2>1. /\ actions' \in [Interests -> Seq(Actions)]
        /\ \A j \in Interests \ managers' : actions'[j] = <<>>
    BY <1>0 DEF Types, ViewTypes
  <2> QED
    BY <1>0, <2>1 DEF Types, ViewTypes
<1>3. OfferTypes' /\ StateTypes'
  BY <1>0, FrameTypes DEF Types, offerVars
<1>4. toPublisher' \in Seq(PublisherMessages)
  <2>1. <<Started(i)>> \in Seq(PublisherMessages)
    BY PublisherTold
  <2> QED
    BY <2>1, Concat DEF Types, NetTypes, Subscribes, ToPublisher
<1>5. subscriptions' \in Nat /\ timeouts' \in Nat
  BY <1>0 DEF Types, NetTypes
<1>6. providers \subseteq providers' /\ providers' \subseteq Interests
  BY <1>0 DEF Types, ArrivalTypes
<1> QED
  BY <1>1, <1>2, <1>3, <1>4, <1>5, <1>6

(* It is told of what the provider has. *)
LEMMA SubscribeTypes == ASSUME Types, NEW i \in Interests, Subscribe(i) PROVE Types'
<1>1. PICK news \in Seq(Actions) : news = Adding(current[i])
  <2>1. current[i] \subseteq Objects
    BY DEF Types, ArrivalTypes
  <2> QED
    BY <2>1, EachIs, EachQueued
<1>2. Subscribes(i, news) /\ UNCHANGED <<current, pendingAdditions, toConsumer>>
  BY <1>1 DEF Subscribe
<1>3. UNCHANGED <<typed, monitored, expired>>
  BY <1>2 DEF Subscribes
<1>4. ArrivalTypes'
  BY <1>2, <1>3, SubscribesTypes DEF Types, ArrivalTypes
<1>5. NetTypes'
  BY <1>2, SubscribesTypes DEF Types, NetTypes
<1> QED
  BY <1>2, <1>4, <1>5, SubscribesTypes DEF Types

(* The message that a subscription meets, and what is queued then. *)
LEMMA MetRemovalIs ==
    ASSUME Types, NEW i \in Interests, SubscribeMeetsRemoval(i)
    PROVE  \E m \in ConsumerMessages, news \in Seq(Actions) :
             /\ m = Head(toConsumer) /\ m.kind = "removed" /\ m.interest = i
             /\ m.objects \subseteq Objects
             /\ Subscribes(i, news) /\ Forgets(m)
<1>1. PICK m : m = Head(toConsumer)
  OBVIOUS
<1>2. /\ toConsumer # <<>> /\ m.kind = "removed" /\ m.interest = i /\ Forgets(m)
      /\ Subscribes(i, Removing(m.objects) \o Adding(current[i]))
  BY <1>1 DEF SubscribeMeetsRemoval
<1>3. m \in ConsumerMessages
  BY <1>1, <1>2, TailOf DEF Types, NetTypes
<1>4. m.objects \subseteq Objects
  BY <1>2, <1>3, ConsumerParts
<1>5. PICK r \in Seq(Actions) : r = Removing(m.objects)
  BY <1>4, EachIs, EachQueued
<1>6. PICK a \in Seq(Actions) : a = Adding(current[i])
  <2>1. current[i] \subseteq Objects
    BY DEF Types, ArrivalTypes
  <2> QED
    BY <2>1, EachIs, EachQueued
<1>7. r \o a \in Seq(Actions) /\ Subscribes(i, r \o a)
  BY <1>2, <1>5, <1>6, Concat
<1> QED
  BY <1>1, <1>2, <1>3, <1>4, <1>7

(* It keeps the types. *)
LEMMA MetRemovalTypes ==
    ASSUME Types, NEW i \in Interests, SubscribeMeetsRemoval(i) PROVE Types'
<1>1. PICK m \in ConsumerMessages, news \in Seq(Actions) :
        /\ m = Head(toConsumer) /\ m.kind = "removed" /\ m.interest = i
        /\ m.objects \subseteq Objects
        /\ Subscribes(i, news) /\ Forgets(m)
  BY MetRemovalIs
<1>2. /\ current' = [current EXCEPT ![i] = @ \ m.objects]
      /\ pendingAdditions' = pendingAdditions \ ({i} \X m.objects)
      /\ UNCHANGED <<typed, monitored, expired>>
  BY <1>1 DEF Forgets, Subscribes
<1>3. toConsumer # <<>> /\ toConsumer' = Tail(toConsumer)
  BY DEF SubscribeMeetsRemoval
<1>4. ArrivalTypes'
  BY <1>1, <1>2, SubscribesTypes DEF Types, ArrivalTypes
<1>5. NetTypes'
  BY <1>1, <1>3, SubscribesTypes, TailOf DEF Types, NetTypes
<1> QED
  BY <1>1, <1>4, <1>5, SubscribesTypes DEF Types

(* The data that stays is what it was. *)
LEMMA UnmonitoredIs ==
    ASSUME NEW data \in [Objects -> Data \union {None}], NEW os
    PROVE  /\ Unmonitored(data, os) \in [Objects -> Data \union {None}]
           /\ \A o \in Objects : /\ o \in os => Unmonitored(data, os)[o] = None
                                 /\ o \notin os => Unmonitored(data, os)[o] = data[o]
BY DEF Unmonitored

(* A manager goes. *)
LEMMA UnsubscribeIs ==
    ASSUME Types, NEW i \in Interests, Unsubscribe(i)
    PROVE  /\ shown'[i] = {} /\ dying'[i] = {} /\ actions'[i] = <<>>
           /\ \A j \in Interests \ {i} : /\ shown'[j] = shown[j] /\ dying'[j] = dying[j]
                                         /\ actions'[j] = actions[j]
           /\ \A o \in Objects : Holds(shown', dying', o) => Holds(shown, dying, o)
           /\ proxy' \in [Objects -> Nat \union {None}]
           /\ monitored' \in [Objects -> Data \union {None}]
           /\ \A o \in Objects : /\ (proxy'[o] # None) <=> Holds(shown', dying', o)
                                 /\ proxy'[o] # None => proxy'[o] = proxy[o]
                                 /\ monitored'[o] # None => monitored'[o] = monitored[o]
                                 /\ o \notin appeared => monitored'[o] = monitored[o]
<1>1. /\ shown' = [shown EXCEPT ![i] = {}] /\ dying' = [dying EXCEPT ![i] = {}]
      /\ actions' = [actions EXCEPT ![i] = <<>>]
      /\ proxy' = Survivors(proxy, shown', dying')
      /\ monitored' = Unmonitored(monitored, Destroyed(shown', dying'))
  BY DEF Unsubscribe
<1>2. /\ shown \in [Interests -> SUBSET Objects] /\ dying \in [Interests -> SUBSET Objects]
      /\ proxy \in [Objects -> Nat \union {None}] /\ monitored \in [Objects -> Data \union {None}]
      /\ \A o \in Objects : (proxy[o] # None) <=> Holds(shown, dying, o)
  BY DEF Types, ViewTypes, ArrivalTypes
<1>3. /\ shown'[i] = {} /\ dying'[i] = {} /\ actions'[i] = <<>>
      /\ \A j \in Interests \ {i} : /\ shown'[j] = shown[j] /\ dying'[j] = dying[j]
                                    /\ actions'[j] = actions[j]
  BY <1>1 DEF Types, ViewTypes, ArrivalTypes
<1>4. \A o \in Objects : Holds(shown', dying', o) => Holds(shown, dying, o)
  BY <1>3 DEF Holds
<1>5. /\ proxy' \in [Objects -> Nat \union {None}]
      /\ \A o \in Objects : /\ (proxy'[o] # None) <=> Holds(shown', dying', o)
                            /\ Holds(shown', dying', o) => proxy'[o] = proxy[o]
  <2>1. PICK t, e : t = shown' /\ e = dying'
    OBVIOUS
  <2>2. PICK ps \in [Objects -> Nat \union {None}] : ps = proxy
    BY <1>2
  <2>3. PICK s, d : s = shown /\ d = dying
    OBVIOUS
  <2>4. /\ \A o \in Objects : (ps[o] # None) <=> Holds(s, d, o)
        /\ \A o \in Objects : Holds(t, e, o) => Holds(s, d, o)
    BY <1>2, <1>4, <2>1, <2>2, <2>3
  <2>5. /\ Survivors(ps, t, e) \in [Objects -> Nat \union {None}]
        /\ \A o \in Objects : /\ (Survivors(ps, t, e)[o] # None) <=> Holds(t, e, o)
                              /\ Holds(t, e, o) => Survivors(ps, t, e)[o] = ps[o]
    BY <2>4 DEF Survivors
  <2> QED
    BY <1>1, <2>1, <2>2, <2>5
<1>6. /\ monitored' \in [Objects -> Data \union {None}]
      /\ \A o \in Objects : /\ monitored'[o] # None => monitored'[o] = monitored[o]
                            /\ o \notin appeared => monitored'[o] = monitored[o]
  <2>1. PICK D : D = Destroyed(shown', dying')
    OBVIOUS
  <2>2. monitored' = Unmonitored(monitored, D)
    BY <1>1, <2>1
  <2>3. \A o \in Objects : o \notin appeared => o \notin D
    BY <1>2, <2>1 DEF Destroyed, Holds, Types, ViewTypes
  <2> QED
    BY <1>2, <2>2, <2>3, UnmonitoredIs
<1> QED
  BY <1>3, <1>4, <1>5, <1>6

(* The same for the types. *)
LEMMA UnsubscribeTypes == ASSUME Types, NEW i \in Interests, Unsubscribe(i) PROVE Types'
<1>0. /\ managers' = managers \ {i} /\ drained = {}
      /\ actions' = [actions EXCEPT ![i] = <<>>]
      /\ shown' = [shown EXCEPT ![i] = {}] /\ dying' = [dying EXCEPT ![i] = {}]
      /\ UNCHANGED <<handshakeVars, providers, current, typed, pendingAdditions, expired, drained,
                     appeared, again, offerVars, stateVars, network, bounds>>
  BY DEF Unsubscribe
<1>1. HandshakeTypes'
  BY <1>0 DEF Types, HandshakeTypes, handshakeVars
<1>2. ArrivalTypes'
  BY <1>0, UnsubscribeIs DEF Types, ArrivalTypes
<1>3. ViewTypes'
  <2>1. /\ actions' \in [Interests -> Seq(Actions)] /\ shown' \in [Interests -> SUBSET Objects]
        /\ dying' \in [Interests -> SUBSET Objects]
    BY <1>0 DEF Types, ViewTypes
  <2>2. \A j \in Interests \ managers' : shown'[j] = {} /\ dying'[j] = {} /\ actions'[j] = <<>>
    BY <1>0, UnsubscribeIs DEF Types, ViewTypes
  <2>3. \A j \in Interests : shown'[j] \subseteq appeared /\ dying'[j] \subseteq appeared
    BY UnsubscribeIs DEF Types, ViewTypes
  <2> QED
    BY <1>0, <2>1, <2>2, <2>3, UnsubscribeIs DEF Types, ViewTypes
<1>4. OfferTypes' /\ StateTypes' /\ NetTypes'
  BY <1>0, FrameTypes DEF Types, offerVars, bounds
<1> QED
  BY <1>1, <1>2, <1>3, <1>4 DEF Types

(* What the bulk of actions starts from: a sound view that keeps no value it did not have. *)
LEMMA ClearedIs ==
    ASSUME Types, NEW i \in Interests
    PROVE  /\ SoundView(Cleared(i))
           /\ Cleared(i).shown = shown /\ Cleared(i).appeared = appeared /\ Cleared(i).again = again
           /\ \A o \in Objects :
                /\ Kept(Cleared(i).proxy, Cleared(i).monitored, o) \subseteq Kept(proxy, monitored, o)
                /\ o \in shown[i] => Cleared(i).proxy[o] = proxy[o]
                /\ o \notin appeared => Cleared(i).monitored[o] = monitored[o]
           /\ \A j \in Interests \ {i} : Cleared(i).dying[j] = dying[j]
<1> DEFINE e == [dying EXCEPT ![i] = {}]
           ps == Survivors(proxy, shown, e)
           ds == Unmonitored(monitored, Destroyed(shown, e))
           b == [shown |-> shown, dying |-> e, appeared |-> appeared, again |-> again,
                 proxy |-> ps, monitored |-> ds]
<1>0. Cleared(i) = b
  BY DEF Cleared
<1>1. /\ shown \in [Interests -> SUBSET Objects] /\ dying \in [Interests -> SUBSET Objects]
      /\ proxy \in [Objects -> Nat \union {None}] /\ monitored \in [Objects -> Data \union {None}]
      /\ appeared \in SUBSET Objects /\ again \in SUBSET Objects
      /\ \A o \in Objects : (proxy[o] # None) <=> Holds(shown, dying, o)
  BY DEF Types, ViewTypes, ArrivalTypes
<1>2. /\ e \in [Interests -> SUBSET Objects] /\ e[i] = {}
      /\ \A j \in Interests \ {i} : e[j] = dying[j]
  BY <1>1
<1> HIDE DEF e
<1>3. \A o \in Objects : Holds(shown, e, o) => Holds(shown, dying, o)
  BY <1>2 DEF Holds
<1>4. /\ ps \in [Objects -> Nat \union {None}]
      /\ \A o \in Objects : /\ (ps[o] # None) <=> Holds(shown, e, o)
                            /\ Holds(shown, e, o) => ps[o] = proxy[o]
  BY <1>1, <1>3 DEF Survivors
<1> HIDE DEF ps
<1>5. /\ ds \in [Objects -> Data \union {None}]
      /\ \A o \in Objects : /\ ds[o] # None => ds[o] = monitored[o]
                            /\ proxy[o] = None => ds[o] = monitored[o]
  BY <1>1 DEF Unmonitored, Destroyed
<1> HIDE DEF ds
<1>6. b \in ViewStates
  BY <1>1, <1>2, <1>4, <1>5 DEF ViewStates
<1>7. /\ b.shown = shown /\ b.dying = e /\ b.appeared = appeared /\ b.again = again
      /\ b.proxy = ps /\ b.monitored = ds
  OBVIOUS
<1> HIDE DEF b
<1>8. SoundView(b)
  <2>1. \A j \in Interests : b.shown[j] \subseteq b.appeared /\ b.dying[j] \subseteq b.appeared
    BY <1>2, <1>7 DEF Types, ViewTypes
  <2>2. again \subseteq appeared
    BY DEF Types, ViewTypes
  <2> QED
    BY <1>4, <1>6, <1>7, <2>1, <2>2 DEF SoundView
<1>9. ASSUME NEW o \in Objects
      PROVE  /\ Kept(b.proxy, b.monitored, o) \subseteq Kept(proxy, monitored, o)
             /\ o \in shown[i] => b.proxy[o] = proxy[o]
             /\ o \notin appeared => b.monitored[o] = monitored[o]
  <2>1. (ps[o] # None => ps[o] = proxy[o]) /\ (ds[o] # None => ds[o] = monitored[o])
    BY <1>4, <1>5
  <2>2. Kept(ps, ds, o) \subseteq Kept(proxy, monitored, o)
    BY <2>1 DEF Kept
  <2>3. o \in shown[i] => ps[o] = proxy[o]
    BY <1>4 DEF Holds
  <2>4. o \notin appeared => ds[o] = monitored[o]
    <3>1. o \notin appeared => ~Holds(shown, dying, o)
      BY DEF Types, ViewTypes, Holds
    <3> QED
      BY <1>1, <1>5, <3>1
  <2> QED
    BY <1>7, <2>2, <2>3, <2>4
<1> QED
  BY <1>0, <1>2, <1>7, <1>8, <1>9

(* What a cycle of a manager makes of the views. *)
LEMMA DrainIs ==
    ASSUME Types, NEW i \in Interests, Drain(i),
           \A o \in Objects : \A r \in Kept(proxy, monitored, o) : r <= value[o]
    PROVE  \E b, v : /\ b = Cleared(i) /\ Reached(b, v, actions[i], Len(actions[i]), i)
                     /\ shown' = v.shown /\ dying' = v.dying /\ proxy' = v.proxy
                     /\ monitored' = v.monitored /\ appeared' = v.appeared /\ again' = v.again
<1> DEFINE u == Cleared(i)
           w == Processed(Cleared(i), actions[i], i)
<1>1. /\ shown' = w.shown /\ dying' = w.dying /\ proxy' = w.proxy
      /\ monitored' = w.monitored /\ appeared' = w.appeared /\ again' = w.again
  BY DEF Drain
<1>2. PICK b : b = u
  OBVIOUS
<1>3. PICK q \in Seq(Actions) : q = actions[i]
  BY DEF Types, ViewTypes
<1>4. PICK top \in [Objects -> Nat] : top = value
  BY DEF Types, StateTypes
<1>5. SoundView(b)
  BY <1>2, ClearedIs
<1>6. \A o \in Objects : \A r \in Kept(b.proxy, b.monitored, o) : r <= top[o]
  BY <1>2, <1>4, ClearedIs
<1>7. Reached(b, Processed(b, q, i), q, Len(q), i)
  BY <1>5, <1>6, ProcessedReaches
<1> QED
  BY <1>1, <1>2, <1>3, <1>7

(* It keeps the types. *)
LEMMA DrainTypes ==
    ASSUME Types, NEW i \in Interests, Drain(i),
           \A o \in Objects : \A r \in Kept(proxy, monitored, o) : r <= value[o]
    PROVE  Types'
<1>1. PICK b, v : /\ b = Cleared(i) /\ Reached(b, v, actions[i], Len(actions[i]), i)
                  /\ shown' = v.shown /\ dying' = v.dying /\ proxy' = v.proxy
                  /\ monitored' = v.monitored /\ appeared' = v.appeared /\ again' = v.again
  BY DrainIs
<1>2. /\ actions' = [actions EXCEPT ![i] = <<>>] /\ i \in managers
      /\ drained' = IF drained \union {i} = managers THEN {} ELSE drained \union {i}
      /\ UNCHANGED <<handshakeVars, providers, current, typed, pendingAdditions, expired, managers,
                     offerVars, stateVars, network, bounds>>
  BY DEF Drain
<1>3. HandshakeTypes' /\ OfferTypes' /\ StateTypes' /\ NetTypes'
  BY <1>2, FrameTypes DEF Types, offerVars, bounds
<1>4. /\ v.shown \in [Interests -> SUBSET Objects] /\ v.dying \in [Interests -> SUBSET Objects]
      /\ v.proxy \in [Objects -> Nat \union {None}]
      /\ v.monitored \in [Objects -> Data \union {None}] /\ v.appeared \subseteq Objects
  BY <1>1 DEF Reached, SoundView, ViewStates
<1>5. ArrivalTypes'
  BY <1>1, <1>2, <1>4 DEF Types, ArrivalTypes
<1>6. /\ v.again \subseteq v.appeared
      /\ \A j \in Interests : v.shown[j] \subseteq v.appeared /\ v.dying[j] \subseteq v.appeared
      /\ \A o \in Objects : (v.proxy[o] # None) <=> Holds(v.shown, v.dying, o)
  BY <1>1 DEF Reached, SoundView
<1>7. \A j \in Interests \ managers : v.shown[j] = {} /\ v.dying[j] = {}
  <2>1. \A j \in Interests \ {i} : v.shown[j] = shown[j] /\ v.dying[j] = dying[j]
    BY <1>1, ClearedIs DEF Reached
  <2> QED
    BY <1>2, <2>1 DEF Types, ViewTypes
<1>8. /\ actions' \in [Interests -> Seq(Actions)] /\ drained' \subseteq managers
      /\ \A j \in Interests \ managers : actions'[j] = <<>>
  BY <1>2 DEF Types, ViewTypes
<1>9. ViewTypes'
  BY <1>1, <1>2, <1>4, <1>6, <1>7, <1>8 DEF Types, ViewTypes
<1> QED
  BY <1>3, <1>5, <1>9 DEF Types

(* The filter begins to evaluate. *)
LEMMA EvaluateBeginsTypes == Types /\ EvaluateBegins => Types'
<1> SUFFICES ASSUME Types, EvaluateBegins PROVE Types'
  OBVIOUS
<1>1. HandshakeTypes' /\ ViewTypes' /\ OfferTypes' /\ NetTypes' /\ ArrivalTypes'
  BY FrameTypes DEF Types, EvaluateBegins, arrivalVars, viewVars, offerVars, bounds
<1>2. StateTypes'
  BY DEF Types, StateTypes, EvaluateBegins, offerVars, bounds
<1> QED
  BY <1>1, <1>2 DEF Types

(* What the filter tells of an interest. *)
Changes(i) == Notice(Published, i, matching[i] \ offered[i]) \o Notice(Removed, i, offered[i] \ matching[i])

(* A notice is at most one message, and is there if there is something to tell. *)
LEMMA NoticeIs ==
    ASSUME NEW i \in Interests, NEW S, S \subseteq Objects
    PROVE  /\ Notice(Published, i, S) \in Seq(ConsumerMessages)
           /\ Notice(Removed, i, S) \in Seq(ConsumerMessages)
           /\ \A k \in 1..Len(Notice(Published, i, S)) : Notice(Published, i, S)[k].kind = "published"
           /\ \A k \in 1..Len(Notice(Removed, i, S)) : Notice(Removed, i, S)[k].kind = "removed"
           /\ \A o \in S : Later(Notice(Removed, i, S), 0, Takes(o))
<1>0. /\ Published(i, S) \in ConsumerMessages /\ Removed(i, S) \in ConsumerMessages
      /\ Published(i, S).kind = "published" /\ Removed(i, S).kind = "removed"
      /\ Removed(i, S).objects = S
  BY ConsumerTold, ConsumerKinds
<1>1. CASE S = {}
  <2>1. Notice(Published, i, S) = <<>> /\ Notice(Removed, i, S) = <<>>
    BY <1>1 DEF Notice
  <2>2. PICK e : e = <<>>
    OBVIOUS
  <2>3. e \in Seq(ConsumerMessages) /\ \A k \in 1..Len(e) : FALSE
    BY <2>2
  <2>4. Notice(Published, i, S) = e /\ Notice(Removed, i, S) = e
    BY <2>1, <2>2
  <2> QED
    BY <1>1, <2>3, <2>4
<1>2. CASE S # {}
  <2>1. Notice(Published, i, S) = <<Published(i, S)>> /\ Notice(Removed, i, S) = <<Removed(i, S)>>
    BY <1>2 DEF Notice
  <2>2. \A o \in S : Removed(i, S) \in Takes(o)
    BY <1>0 DEF Takes
  <2> DEFINE p == <<Published(i, S)>>
             r == <<Removed(i, S)>>
  <2>3. /\ p \in Seq(ConsumerMessages) /\ r \in Seq(ConsumerMessages) /\ Len(p) = 1 /\ Len(r) = 1
        /\ p[1] = Published(i, S) /\ r[1] = Removed(i, S)
    BY <1>0
  <2> HIDE DEF p, r
  <2>4. \A o \in S : Later(r, 0, Takes(o))
    BY <2>2, <2>3 DEF Later
  <2>5. \A k \in 1..1 : p[k].kind = "published" /\ r[k].kind = "removed"
    BY <1>0, <2>3
  <2> QED
    BY <2>1, <2>3, <2>4, <2>5 DEF p, r
<1> QED
  BY <1>1, <1>2

(* What is told of an interest: nothing about states, and all that is taken back. *)
LEMMA ChangesAre ==
    ASSUME Types, NEW i \in Interests
    PROVE  /\ Changes(i) \in Seq(ConsumerMessages)
           /\ \A k \in 1..Len(Changes(i)) : Changes(i)[k].kind \in {"published", "removed"}
           /\ \A o \in offered[i] \ matching[i] : Later(Changes(i), 0, Takes(o))
<1>1. matching[i] \subseteq Objects /\ offered[i] \subseteq Objects
  BY DEF Types, StateTypes, OfferTypes
<1>2. PICK A, R : A = matching[i] \ offered[i] /\ R = offered[i] \ matching[i]
  OBVIOUS
<1>3. A \subseteq Objects /\ R \subseteq Objects
  BY <1>1, <1>2
<1>4. PICK p : p = Notice(Published, i, A)
  OBVIOUS
<1>5. PICK r : r = Notice(Removed, i, R)
  OBVIOUS
<1>6. /\ p \in Seq(ConsumerMessages) /\ r \in Seq(ConsumerMessages)
      /\ \A k \in 1..Len(p) : p[k].kind = "published"
      /\ \A k \in 1..Len(r) : r[k].kind = "removed"
      /\ \A o \in R : Later(r, 0, Takes(o))
  BY <1>3, <1>4, <1>5, NoticeIs
<1>7. Changes(i) = p \o r
  BY <1>2, <1>4, <1>5 DEF Changes
<1>8. p \o r \in Seq(ConsumerMessages) /\ \A k \in 1..Len(p \o r) : (p \o r)[k].kind \in {"published", "removed"}
  BY <1>6, Concat
<1>9. \A o \in R : Later(p \o r, 0, Takes(o))
  <2>1. 0 \in 0..Len(p)
    BY <1>6
  <2> QED
    BY <1>6, <2>1, LaterConcat
<1> QED
  BY <1>2, <1>7, <1>8, <1>9

(* The filter evaluates an interest. *)
LEMMA EvaluateTypes == ASSUME Types, NEW i \in Interests, Evaluate(i) PROVE Types'
<1>0. /\ i \in toEvaluate /\ toEvaluate' = toEvaluate \ {i}
      /\ offered' = [offered EXCEPT ![i] = matching[i]]
      /\ knownLocal' = (knownLocal \union (matching[i] \ offered[i])) \ (offered[i] \ matching[i])
      /\ linked' = StillLinked(offered', started) \union (matching[i] \ offered[i])
      /\ toConsumer' = toConsumer \o Changes(i)
      /\ UNCHANGED <<handshakeVars, arrivalVars, viewVars, started, matching, value, changed,
                     phase, toPublisher, bounds>>
  BY DEF Evaluate, Changes, ToConsumer
<1>1. HandshakeTypes' /\ ViewTypes' /\ ArrivalTypes'
  BY <1>0, FrameTypes DEF Types, arrivalVars, viewVars
<1>2. OfferTypes'
  <2>1. i \in started
    BY <1>0 DEF Types, StateTypes
  <2>2. matching[i] \subseteq Objects
    BY DEF Types, StateTypes
  <2>3. StillLinked(offered', started) \subseteq Objects
    BY DEF StillLinked, Types, OfferTypes
  <2>4. offered' \in [Interests -> SUBSET Objects] /\ \A j \in Interests \ started : offered'[j] = {}
    BY <1>0, <2>1, <2>2 DEF Types, OfferTypes
  <2>5. knownLocal' \subseteq Objects /\ linked' \subseteq Objects
    BY <1>0, <2>2, <2>3 DEF Types, OfferTypes
  <2> QED
    BY <1>0, <2>4, <2>5 DEF Types, OfferTypes
<1>3. StateTypes'
  BY <1>0 DEF Types, StateTypes, bounds
<1>4. NetTypes'
  <2>1. toConsumer' \in Seq(ConsumerMessages)
    BY <1>0, ChangesAre, Concat DEF Types, NetTypes
  <2> QED
    BY <1>0, <2>1 DEF Types, NetTypes, bounds
<1> QED
  BY <1>1, <1>2, <1>3, <1>4 DEF Types

(* The updates of a cycle. *)
Updates == LET sent == SetToSeq(changed \intersect linked) IN [n \in DOMAIN sent |-> Update(sent[n])]

(* They give every object that changed and is linked the value it has. *)
LEMMA UpdatesAre ==
    ASSUME Types
    PROVE  /\ Updates \in Seq(ConsumerMessages)
           /\ \A k \in 1..Len(Updates) : /\ Updates[k].kind = "update"
                                         /\ Updates[k].value = value[Updates[k].object]
           /\ \A o \in changed \intersect linked : Later(Updates, 0, Brings(o, value[o]))
<1> DEFINE S == changed \intersect linked
           sent == SetToSeq(S)
           us == [n \in DOMAIN sent |-> Update(sent[n])]
<1>0. S \subseteq Objects
  BY DEF Types, StateTypes
<1>1. sent \in Seq(S) /\ \A x \in S : Has(sent, x)
  <2> HIDE DEF S
  <2> QED
    BY <1>0, ObjectsAsSequence
<1>2. Updates = us
  BY DEF Updates
<1> HIDE DEF sent
<1>3. DOMAIN sent = 1..Len(sent) /\ Len(sent) \in Nat /\ \A n \in 1..Len(sent) : sent[n] \in S
  BY <1>1
<1>4. ASSUME NEW o \in Objects
      PROVE  /\ Update(o) \in Brings(o, value[o]) /\ Update(o) \in ConsumerMessages
             /\ Update(o).kind = "update" /\ Update(o).object = o /\ Update(o).value = value[o]
  <2>1. value[o] \in Nat
    BY DEF Types, StateTypes
  <2> QED
    BY <2>1 DEF Update, Brings, ConsumerMessages
<1>5. \A n \in 1..Len(sent) : Update(sent[n]) \in ConsumerMessages
  BY <1>0, <1>3, <1>4
<1>6. us \in Seq(ConsumerMessages) /\ Len(us) = Len(sent)
  BY <1>3, <1>5
<1>7. \A n \in 1..Len(us) : us[n] = Update(sent[n])
  BY <1>3, <1>6
<1> HIDE DEF us
<1>8. \A n \in 1..Len(us) : us[n].kind = "update" /\ us[n].value = value[us[n].object]
  BY <1>0, <1>3, <1>4, <1>6, <1>7
<1>9. ASSUME NEW o \in S PROVE Later(us, 0, Brings(o, value[o]))
  <2>1. PICK n \in 1..Len(sent) : sent[n] = o
    BY <1>1 DEF Has
  <2>2. n \in 1..Len(us) /\ n > 0 /\ us[n] \in Brings(o, value[o])
    BY <1>0, <1>4, <1>6, <1>7, <2>1
  <2> QED
    BY <2>2 DEF Later
<1> QED
  BY <1>2, <1>6, <1>8, <1>9

(* The updates are sent. *)
LEMMA SendUpdatesTypes == Types /\ SendUpdates => Types'
<1> SUFFICES ASSUME Types, SendUpdates PROVE Types'
  OBVIOUS
<1>0. /\ toConsumer' = toConsumer \o Updates /\ changed' = {} /\ phase' = "idle"
      /\ UNCHANGED <<handshakeVars, arrivalVars, viewVars, offerVars, matching, value, toEvaluate,
                     toPublisher, bounds>>
  BY DEF SendUpdates, Updates, ToConsumer
<1>1. HandshakeTypes' /\ ViewTypes' /\ ArrivalTypes' /\ OfferTypes'
  BY <1>0, FrameTypes DEF Types, arrivalVars, viewVars
<1>2. StateTypes'
  BY <1>0 DEF Types, StateTypes, bounds, offerVars
<1>3. NetTypes'
  <2>1. toConsumer' \in Seq(ConsumerMessages)
    BY <1>0, UpdatesAre, Concat DEF Types, NetTypes
  <2> QED
    BY <1>0, <2>1 DEF Types, NetTypes, bounds
<1> QED
  BY <1>1, <1>2, <1>3 DEF Types

(* What a message that the publisher receives leaves to show. *)
LEMMA AnsweredTypes ==
    ASSUME Types, toPublisher # <<>>, toPublisher' = Tail(toPublisher),
           UNCHANGED <<known, ready, pendingStarts, publisherKnows, arrivalVars, viewVars, stateVars,
                       bounds>>,
           publisherReady' \in BOOLEAN, OfferTypes', toEvaluate \subseteq started',
           toConsumer' \in Seq(ConsumerMessages)
    PROVE  Types'
<1>1. HandshakeTypes'
  BY DEF Types, HandshakeTypes, arrivalVars, viewVars
<1>2. ArrivalTypes' /\ ViewTypes'
  BY FrameTypes DEF Types, viewVars
<1>3. StateTypes'
  BY DEF Types, StateTypes, stateVars, bounds
<1>4. NetTypes'
  BY TailOf DEF Types, NetTypes, bounds
<1> QED
  BY <1>1, <1>2, <1>3, <1>4 DEF Types

(* An interest is started. *)
LEMMA StartReceivedTypes ==
    ASSUME Types, NEW i \in Interests, StartReceived(i)
    PROVE  /\ publisherReady' \in BOOLEAN /\ OfferTypes' /\ toEvaluate \subseteq started'
           /\ toConsumer' \in Seq(ConsumerMessages)
<1>0. matching[i] \subseteq Objects /\ offered \in [Interests -> SUBSET Objects]
  BY DEF Types, StateTypes, OfferTypes
<1>1. publisherReady' \in BOOLEAN
  BY DEF Types, HandshakeTypes, StartReceived
<1>2. CASE i \in started
  <2>1. UNCHANGED <<offerVars, toConsumer>>
    BY <1>2 DEF StartReceived
  <2> QED
    BY <1>1, <2>1, FrameTypes DEF Types, offerVars, NetTypes, StateTypes
<1>3. CASE i \notin started
  <2>1. started' = started \union {i} /\ offered' = [offered EXCEPT ![i] = matching[i]]
    BY <1>3 DEF StartReceived
  <2>2. /\ offered' \in [Interests -> SUBSET Objects]
        /\ \A j \in Interests \ started' : offered'[j] = {}
    BY <1>0, <2>1 DEF Types, OfferTypes
  <2>3. OfferTypes'
    BY <1>0, <1>3, <2>1, <2>2 DEF Types, OfferTypes, StartReceived
  <2>4. PICK S : S = matching[i]
    OBVIOUS
  <2>5. Notice(Published, i, S) \in Seq(ConsumerMessages)
    BY <1>0, <2>4, NoticeIs
  <2>6. toConsumer' = toConsumer \o Notice(Published, i, S)
    BY <1>3, <2>4 DEF StartReceived, ToConsumer
  <2>7. toConsumer' \in Seq(ConsumerMessages)
    BY <2>5, <2>6, Concat DEF Types, NetTypes
  <2>8. toEvaluate \subseteq started'
    BY <2>1 DEF Types, StateTypes
  <2> QED
    BY <1>1, <2>3, <2>7, <2>8
<1> QED
  BY <1>2, <1>3

(* The answer to a request. *)
LEMMA AnswerIs ==
    ASSUME Types, NEW m, m.interest \in Interests, m.objects \subseteq Objects
    PROVE  /\ [o \in Answered(m) |-> value[o]] \in States
           /\ StateResponse(m.interest, [o \in Answered(m) |-> value[o]]) \in ConsumerMessages
<1>1. Answered(m) \in SUBSET Objects
  BY DEF Answered
<1>2. [o \in Answered(m) |-> value[o]] \in [Answered(m) -> Nat]
  BY <1>1 DEF Types, StateTypes
<1>3. [o \in Answered(m) |-> value[o]] \in States
  BY <1>1, <1>2, Zenon DEF States
<1> QED
  BY <1>3, ConsumerTold

(* Whatever the publisher receives keeps the types. *)
LEMMA PublisherReceivesTypes == Types /\ PublisherReceives => Types'
<1> SUFFICES ASSUME Types, PublisherReceives PROVE Types'
  OBVIOUS
<1> DEFINE m == Head(toPublisher)
<1>1. m \in PublisherMessages
  BY TailOf DEF Types, NetTypes, PublisherReceives
<1>2. /\ toPublisher # <<>> /\ toPublisher' = Tail(toPublisher)
      /\ UNCHANGED <<known, ready, pendingStarts, publisherKnows, arrivalVars, viewVars, stateVars,
                     bounds>>
  BY DEF PublisherReceives
<1>3. /\ publisherReady' \in BOOLEAN /\ OfferTypes' /\ toEvaluate \subseteq started'
      /\ toConsumer' \in Seq(ConsumerMessages)
  <2>1. \/ UNCHANGED <<publisherReady, offerVars, toConsumer>>
        \/ PublisherReadyReceived
        \/ m.kind = "started" /\ StartReceived(m.interest)
        \/ m.kind = "request" /\ RequestReceived(m)
        \/ TypesRequestReceived
        \/ m.kind = "timeout" /\ RejectionReceived(m.object)
    BY DEF PublisherReceives
  <2> HIDE DEF m
  <2>2. CASE UNCHANGED <<publisherReady, offerVars, toConsumer>>
    BY <2>2, FrameTypes DEF Types, HandshakeTypes, offerVars, NetTypes, StateTypes
  <2>3. CASE PublisherReadyReceived
    <3>1. publisherReady' = TRUE /\ UNCHANGED offerVars
          /\ toConsumer' = toConsumer \o (IF publisherReady THEN <<>> ELSE <<Ready>>)
      BY <2>3 DEF PublisherReadyReceived, ToConsumer
    <3>2. (IF publisherReady THEN <<>> ELSE <<Ready>>) \in Seq(ConsumerMessages)
      BY ConsumerTold
    <3>3. toConsumer' \in Seq(ConsumerMessages)
      BY <3>1, <3>2, Concat DEF Types, NetTypes
    <3> QED
      BY <3>1, <3>3, FrameTypes DEF Types, offerVars, StateTypes
  <2>4. CASE m.kind = "started" /\ StartReceived(m.interest)
    BY <1>1, <2>4, PublisherParts, StartReceivedTypes
  <2>6. CASE m.kind = "request" /\ RequestReceived(m)
    <3>1. PICK a \in ConsumerMessages : a = StateResponse(m.interest, [o \in Answered(m) |-> value[o]])
      BY <1>1, <2>6, PublisherParts, AnswerIs
    <3>2. toConsumer' = toConsumer \o <<a>> /\ UNCHANGED <<publisherReady, offerVars>>
      BY <2>6, <3>1 DEF RequestReceived, ToConsumer
    <3>3. toConsumer' \in Seq(ConsumerMessages)
      BY <3>2, Concat DEF Types, NetTypes
    <3> QED
      BY <3>2, <3>3, FrameTypes DEF Types, HandshakeTypes, offerVars, StateTypes
  <2>7. CASE TypesRequestReceived
    <3>1. toConsumer' = toConsumer \o <<TypesResponse>> /\ UNCHANGED <<publisherReady, offerVars>>
      BY <2>7 DEF TypesRequestReceived, ToConsumer
    <3>2. <<TypesResponse>> \in Seq(ConsumerMessages)
      BY ConsumerTold
    <3>3. toConsumer' \in Seq(ConsumerMessages)
      BY <3>1, <3>2, Concat DEF Types, NetTypes
    <3> QED
      BY <3>1, <3>3, FrameTypes DEF Types, HandshakeTypes, offerVars, StateTypes
  <2>8. CASE m.kind = "timeout" /\ RejectionReceived(m.object)
    BY <2>8 DEF RejectionReceived, Types, HandshakeTypes, OfferTypes, NetTypes, StateTypes
  <2> QED
    BY <2>1, <2>2, <2>3, <2>4, <2>6, <2>7, <2>8
<1> QED
  BY <1>2, <1>3, AnsweredTypes

(* Every step keeps the types, as long as no value that is kept exceeds the one committed. *)
LEMMA NextTypes ==
    ASSUME Types, [Next]_vars,
           \A o \in Objects : \A r \in Kept(proxy, monitored, o) : r <= value[o]
    PROVE  Types'
<1>1. CASE UNCHANGED vars
  BY <1>1, FrameTypes DEF vars, Types, arrivalVars, viewVars, offerVars, bounds
<1>2. CASE Next
  BY <1>2, ConsumerMeetsTypes, ConsumerReceivesTypes, TimerFiresTypes, TimeoutRunsTypes,
     CommitTypes, SubscribeTypes, MetRemovalTypes, UnsubscribeTypes, DrainTypes, EvaluateTypes,
     PublisherMeetsTypes, EvaluateBeginsTypes, SendUpdatesTypes, PublisherReceivesTypes DEF Next
<1> QED
  BY <1>1, <1>2

----------------------------------------------------------------------------
(* The order of the values: what comes is never older than what was kept. *)
Order ==
    \A o \in Objects :
        /\ Rising(toConsumer, o, value[o])
        /\ \A r \in Kept(proxy, monitored, o) : Limits(toConsumer, o, r, value[o])

(* The values that are kept are numbers. *)
LEMMA KeptNat ==
    ASSUME NEW ps \in [Objects -> Nat \union {None}], NEW ds \in [Objects -> Data \union {None}],
           NEW o \in Objects
    PROVE  Kept(ps, ds, o) \subseteq Nat
<1>1. ps[o] # None => ps[o] \in Nat
  OBVIOUS
<1>2. CASE ds[o] = None
  BY <1>1, <1>2 DEF Kept
<1>3. CASE ds[o] # None
  <2>1. PICK d \in Data : d = ds[o]
    BY <1>3
  <2>2. d.state \in Nat /\ d.updates \subseteq Nat
    BY DEF Data
  <2> QED
    BY <1>1, <1>3, <2>1, <2>2 DEF Kept
<1> QED
  BY <1>2, <1>3

(* At the beginning nothing comes. *)
LEMMA InitOrder == Init => Order
<1> SUFFICES ASSUME Init, NEW o \in Objects
             PROVE  /\ Rising(toConsumer, o, value[o])
                    /\ \A r \in Kept(proxy, monitored, o) : Limits(toConsumer, o, r, value[o])
  BY DEF Order
<1>1. /\ toConsumer = <<>> /\ value[o] = 0 /\ proxy[o] = None /\ monitored[o] = None
  BY DEF Init
<1>2. Len(<<>>) = 0
  OBVIOUS
<1>3. Kept(proxy, monitored, o) = {0}
  BY <1>1 DEF Kept
<1>4. \A k \in 1..Len(toConsumer) : FALSE
  BY <1>1, <1>2
<1> QED
  BY <1>1, <1>3, <1>4 DEF Rising, Limits

(* What is kept is at most the value the object has. *)
LEMMA OrderBounds == Order => \A o \in Objects : \A r \in Kept(proxy, monitored, o) : r <= value[o]
BY DEF Order, Limits

(* A step that sends nothing and keeps no more. *)
LEMMA OrderStays ==
    ASSUME Order, UNCHANGED <<toConsumer, value>>,
           \A o \in Objects : Kept(proxy', monitored', o) \subseteq Kept(proxy, monitored, o)
    PROVE  Order'
BY DEF Order

(* A step that sends values as they are. *)
LEMMA OrderSends ==
    ASSUME Types, Order, UNCHANGED <<proxy, monitored, value>>, NEW t \in Seq(ConsumerMessages),
           toConsumer' = toConsumer \o t,
           \A o \in Objects : \A n \in 1..Len(t) : \A v \in Nat : Says(t[n], o, v) => v = value[o]
    PROVE  Order'
<1> SUFFICES ASSUME NEW o \in Objects
             PROVE  /\ Rising(toConsumer', o, value[o])
                    /\ \A r \in Kept(proxy, monitored, o) : Limits(toConsumer', o, r, value[o])
  BY DEF Order
<1>1. PICK s \in Seq(ConsumerMessages) : s = toConsumer
  BY DEF Types, NetTypes
<1>2. PICK top \in Nat : top = value[o]
  BY DEF Types, StateTypes
<1>3. Kept(proxy, monitored, o) \subseteq Nat
  BY KeptNat DEF Types, ViewTypes, ArrivalTypes
<1>4. \A n \in 1..Len(t) : \A v \in Nat : Says(t[n], o, v) => v = top
  BY <1>2
<1>5. /\ Rising(s, o, top) => Rising(s \o t, o, top)
      /\ \A r \in Nat : Limits(s, o, r, top) => Limits(s \o t, o, r, top)
  BY <1>4, RisingConcat
<1> QED
  BY <1>1, <1>2, <1>3, <1>5 DEF Order

(* Messages about no values. *)
LEMMA Silent ==
    ASSUME NEW m, m.kind \notin {"update", "response"}, NEW o, NEW v
    PROVE  ~Says(m, o, v)
BY DEF Says

(* A message is received: what it gives is kept, if it is. *)
LEMMA OrderReceives ==
    ASSUME Types, Order, UNCHANGED value, toConsumer # <<>>, toConsumer' = Tail(toConsumer),
           \A o \in Objects : \A r \in Kept(proxy', monitored', o) :
             r \in Kept(proxy, monitored, o) \/ (r \in Nat /\ Says(Head(toConsumer), o, r))
    PROVE  Order'
<1> SUFFICES ASSUME NEW o \in Objects
             PROVE  /\ Rising(toConsumer', o, value[o])
                    /\ \A r \in Kept(proxy', monitored', o) : Limits(toConsumer', o, r, value[o])
  BY DEF Order
<1>1. PICK s \in Seq(ConsumerMessages) : s = toConsumer
  BY DEF Types, NetTypes
<1>2. PICK top \in Nat : top = value[o]
  BY DEF Types, StateTypes
<1>3. Kept(proxy, monitored, o) \subseteq Nat
  BY KeptNat DEF Types, ViewTypes, ArrivalTypes
<1>4. Rising(s, o, top) /\ \A r \in Kept(proxy, monitored, o) : Limits(s, o, r, top)
  BY <1>1, <1>2 DEF Order
<1>5. /\ Rising(Tail(s), o, top)
      /\ \A v \in Nat : Says(Head(s), o, v) => Limits(Tail(s), o, v, top)
  BY <1>1, <1>4, RisingTail
<1>6. \A r \in Kept(proxy, monitored, o) : Limits(Tail(s), o, r, top)
  BY <1>1, <1>3, <1>4, RisingTail
<1> QED
  BY <1>1, <1>2, <1>5, <1>6

(* A commit only raises the value. *)
LEMMA CommitOrder == ASSUME Types, Order, NEW x \in Objects, Commit(x) PROVE Order'
<1> SUFFICES ASSUME NEW o \in Objects
             PROVE  /\ Rising(toConsumer, o, value'[o])
                    /\ \A r \in Kept(proxy, monitored, o) : Limits(toConsumer, o, r, value'[o])
  BY DEF Order, Commit, network, viewVars, arrivalVars
<1>1. PICK top \in Nat, next \in Nat : top = value[o] /\ next = value'[o] /\ top <= next
  BY DEF Types, StateTypes, Commit
<1>2. PICK s \in Seq(ConsumerMessages) : s = toConsumer
  BY DEF Types, NetTypes
<1>3. Rising(s, o, top) => Rising(s, o, next)
  BY <1>1 DEF Rising
<1>4. Kept(proxy, monitored, o) \subseteq Nat
  BY KeptNat DEF Types, ViewTypes, ArrivalTypes
<1>5. \A r \in Nat : Limits(s, o, r, top) => Limits(s, o, r, next)
  BY <1>1 DEF Limits
<1> QED
  BY <1>1, <1>2, <1>3, <1>4, <1>5 DEF Order

(* A message to the consumer keeps the order. *)
LEMMA ConsumerReceivesOrder == Types /\ Order /\ ConsumerReceives => Order'
<1> SUFFICES ASSUME Types, Order, ConsumerReceives PROVE Order'
  OBVIOUS
<1>0. PICK m \in ConsumerMessages : m = Head(toConsumer)
  BY TailOf DEF Types, NetTypes, ConsumerReceives
<1>1. toConsumer # <<>> /\ toConsumer' = Tail(toConsumer) /\ UNCHANGED value
  BY DEF ConsumerReceives, stateVars
<1>2. \/ UNCHANGED <<handshakeVars, arrivalVars, viewVars, toPublisher>>
      \/ ReadyReceived
      \/ m.kind = "published" /\ PublishedReceived(m)
      \/ TypesReceived
      \/ m.kind = "removed" /\ RemovedReceived(m)
      \/ m.kind = "response" /\ ResponseReceived(m)
      \/ m.kind = "update" /\ UpdateReceived(m)
  BY <1>0 DEF ConsumerReceives
<1> SUFFICES ASSUME NEW o \in Objects, NEW r \in Kept(proxy', monitored', o)
             PROVE  r \in Kept(proxy, monitored, o) \/ (r \in Nat /\ Says(m, o, r))
  BY <1>0, <1>1, OrderReceives
<1>3. CASE UNCHANGED <<proxy, monitored>>
  BY <1>3
<1>4. ASSUME NEW os, monitored' = Monitoring(os), UNCHANGED proxy
      PROVE  r \in Kept(proxy, monitored, o)
  <2>1. \/ monitored'[o] = monitored[o]
        \/ monitored'[o] = [state |-> 0, updates |-> {}]
    BY <1>4, MonitoringIs
  <2>2. [state |-> 0, updates |-> {}].state = 0 /\ [state |-> 0, updates |-> {}].updates = {}
    OBVIOUS
  <2> QED
    BY <1>4, <2>1, <2>2 DEF Kept
<1>5. CASE m.kind = "response" /\ ResponseReceived(m)
  <2>1. /\ m.interest \in Interests /\ DOMAIN m.states \subseteq Objects
        /\ \A p \in DOMAIN m.states : m.states[p] \in Nat
    BY <1>5, ConsumerParts
  <2>2. /\ (o \notin DOMAIN m.states \/ monitored[o] = None) => monitored'[o] = monitored[o]
        /\ (o \in DOMAIN m.states /\ monitored[o] # None) =>
              /\ monitored'[o] # None /\ monitored'[o].state = m.states[o]
              /\ monitored'[o].updates = monitored[o].updates
    BY <1>5, <2>1, ResponseReceivedIs
  <2>3. proxy' = proxy
    BY <1>5 DEF ResponseReceived
  <2>4. CASE o \notin DOMAIN m.states \/ monitored[o] = None
    BY <2>2, <2>3, <2>4 DEF Kept
  <2>5. CASE o \in DOMAIN m.states /\ monitored[o] # None
    <3>1. Says(m, o, m.states[o]) /\ m.states[o] \in Nat
      BY <1>5, <2>1, <2>5 DEF Says
    <3>2. r \in Kept(proxy, monitored, o) \/ r = m.states[o]
      BY <2>2, <2>3, <2>5 DEF Kept
    <3> QED
      BY <3>1, <3>2
  <2> QED
    BY <2>4, <2>5
<1>6. CASE m.kind = "update" /\ UpdateReceived(m)
  <2>1. m.object \in Objects /\ m.value \in Nat
    BY <1>6, ConsumerParts
  <2>2. CASE o # m.object
    <3>1. monitored'[o] = monitored[o] /\ proxy'[o] = proxy[o]
      BY <1>6, <2>1, <2>2, UpdateReceivedIs
    <3> QED
      BY <3>1 DEF Kept
  <2>3. CASE o = m.object
    <3>1. Says(m, o, m.value)
      BY <1>6, <2>3 DEF Says
    <3>2. /\ (proxy'[o] = None) <=> (proxy[o] = None)
          /\ (monitored'[o] = None) <=> (monitored[o] = None)
          /\ proxy[o] # None => proxy'[o] = m.value
          /\ monitored[o] # None => /\ monitored'[o].state = monitored[o].state
                                    /\ monitored'[o].updates = monitored[o].updates \union {m.value}
      BY <1>6, <2>1, <2>3, UpdateReceivedIs
    <3>3. r \in Kept(proxy, monitored, o) \/ r = m.value
      BY <3>2 DEF Kept
    <3> QED
      BY <2>1, <3>1, <3>3
  <2> QED
    BY <2>2, <2>3
<1>7. PublishedReceived(m) => UNCHANGED proxy /\ (UNCHANGED monitored \/ \E os : monitored' = Monitoring(os))
  BY DEF PublishedReceived, viewVars
<1>8. TypesReceived => UNCHANGED proxy /\ \E os : monitored' = Monitoring(os)
  BY DEF TypesReceived, viewVars
<1>9. /\ ReadyReceived => UNCHANGED <<proxy, monitored>>
      /\ RemovedReceived(m) => UNCHANGED <<proxy, monitored>>
      /\ UNCHANGED <<arrivalVars, viewVars>> => UNCHANGED <<proxy, monitored>>
  BY DEF ReadyReceived, RemovedReceived, arrivalVars, viewVars
<1> QED
  BY <1>2, <1>3, <1>4, <1>5, <1>6, <1>7, <1>8, <1>9

(* A single message with nothing about values, or with the value the object has. *)
LEMMA OrderSendsOne ==
    ASSUME Types, Order, UNCHANGED <<proxy, monitored, value>>, NEW m \in ConsumerMessages,
           toConsumer' = toConsumer \o <<m>>,
           \A o \in Objects : \A v \in Nat : Says(m, o, v) => v = value[o]
    PROVE  Order'
<1>1. PICK t : t = <<m>>
  OBVIOUS
<1>2. t \in Seq(ConsumerMessages) /\ Len(t) = 1 /\ t[1] = m
  BY <1>1
<1>3. \A o \in Objects : \A n \in 1..Len(t) : \A v \in Nat : Says(t[n], o, v) => v = value[o]
  BY <1>2
<1> QED
  BY <1>1, <1>2, <1>3, OrderSends

(* Messages of kinds that give no values. *)
LEMMA OrderSendsSilence ==
    ASSUME Types, Order, UNCHANGED <<proxy, monitored, value>>, NEW t \in Seq(ConsumerMessages),
           toConsumer' = toConsumer \o t,
           \A n \in 1..Len(t) : t[n].kind \notin {"update", "response"}
    PROVE  Order'
<1>1. \A o \in Objects : \A n \in 1..Len(t) : \A v \in Nat : Says(t[n], o, v) => v = value[o]
  BY Silent
<1> QED
  BY <1>1, OrderSends

(* A message to the publisher keeps the order: an answer gives the value as it is. *)
LEMMA PublisherReceivesOrder == Types /\ Order /\ PublisherReceives => Order'
<1> SUFFICES ASSUME Types, Order, PublisherReceives PROVE Order'
  OBVIOUS
<1>0. PICK m \in PublisherMessages : m = Head(toPublisher)
  BY TailOf DEF Types, NetTypes, PublisherReceives
<1>1. UNCHANGED <<proxy, monitored, value>>
  BY DEF PublisherReceives, stateVars, viewVars, arrivalVars
<1>2. \/ UNCHANGED toConsumer
      \/ PublisherReadyReceived
      \/ m.kind = "started" /\ StartReceived(m.interest)
      \/ m.kind = "request" /\ RequestReceived(m)
      \/ TypesRequestReceived
  BY <1>0 DEF PublisherReceives, RejectionReceived
<1>3. CASE UNCHANGED toConsumer
  BY <1>1, <1>3, OrderStays
<1>4. CASE PublisherReadyReceived
  <2>1. CASE publisherReady
    <3>1. toConsumer' = toConsumer \o <<>>
      BY <1>4, <2>1 DEF PublisherReadyReceived, ToConsumer
    <3>2. toConsumer' = toConsumer
      BY <3>1 DEF Types, NetTypes
    <3> QED
      BY <1>3, <3>2
  <2>2. CASE ~publisherReady
    <3>1. toConsumer' = toConsumer \o <<Ready>>
      BY <1>4, <2>2 DEF PublisherReadyReceived, ToConsumer
    <3> QED
      BY <1>1, <3>1, ConsumerTold, ConsumerKinds, Silent, OrderSendsOne
  <2> QED
    BY <2>1, <2>2
<1>5. CASE m.kind = "started" /\ StartReceived(m.interest)
  <2>0. PICK i \in Interests : i = m.interest
    BY <1>5, PublisherParts
  <2>1. CASE i \in started
    BY <1>3, <1>5, <2>0, <2>1 DEF StartReceived
  <2>2. CASE i \notin started
    <3>1. PICK S : S = matching[i]
      OBVIOUS
    <3>2. S \subseteq Objects
      BY <3>1 DEF Types, StateTypes
    <3>3. PICK t : t = Notice(Published, i, S)
      OBVIOUS
    <3>4. t \in Seq(ConsumerMessages) /\ \A n \in 1..Len(t) : t[n].kind = "published"
      BY <3>2, <3>3, NoticeIs
    <3>5. toConsumer' = toConsumer \o t
      BY <1>5, <2>0, <2>2, <3>1, <3>3 DEF StartReceived, ToConsumer
    <3> QED
      BY <1>1, <3>4, <3>5, OrderSendsSilence
  <2> QED
    BY <2>1, <2>2
<1>7. CASE m.kind = "request" /\ RequestReceived(m)
  <2>1. PICK st \in States : st = [o \in Answered(m) |-> value[o]]
    BY <1>7, PublisherParts, AnswerIs
  <2>2. PICK a \in ConsumerMessages : a = StateResponse(m.interest, st)
    BY <1>7, <2>1, PublisherParts, ConsumerTold
  <2>3. toConsumer' = toConsumer \o <<a>>
    BY <1>7, <2>1, <2>2 DEF RequestReceived, ToConsumer
  <2>4. a.kind = "response" /\ a.states = st
    BY <2>2, ConsumerKinds
  <2>5. \A o \in Objects : \A v \in Nat : Says(a, o, v) => v = value[o]
    BY <2>1, <2>4 DEF Says
  <2> QED
    BY <1>1, <2>3, <2>5, OrderSendsOne
<1>8. CASE TypesRequestReceived
  <2>1. toConsumer' = toConsumer \o <<TypesResponse>>
    BY <1>8 DEF TypesRequestReceived, ToConsumer
  <2> QED
    BY <1>1, <2>1, ConsumerTold, ConsumerKinds, Silent, OrderSendsOne
<1> QED
  BY <1>2, <1>3, <1>4, <1>5, <1>7, <1>8

(* The publisher's own steps. *)
LEMMA EvaluateOrder == ASSUME Types, Order, NEW i \in Interests, Evaluate(i) PROVE Order'
<1>1. toConsumer' = toConsumer \o Changes(i) /\ UNCHANGED <<proxy, monitored, value>>
  BY DEF Evaluate, Changes, ToConsumer, viewVars, arrivalVars
<1>2. PICK t : t = Changes(i)
  OBVIOUS
<1>3. /\ t \in Seq(ConsumerMessages)
      /\ \A n \in 1..Len(t) : t[n].kind \notin {"update", "response"}
  BY <1>2, ChangesAre
<1> QED
  BY <1>1, <1>2, <1>3, OrderSendsSilence

(* An update gives the value the object has. *)
LEMMA SendUpdatesOrder == Types /\ Order /\ SendUpdates => Order'
<1> SUFFICES ASSUME Types, Order, SendUpdates PROVE Order'
  OBVIOUS
<1>1. toConsumer' = toConsumer \o Updates /\ UNCHANGED <<proxy, monitored, value>>
  BY DEF SendUpdates, Updates, ToConsumer, viewVars, arrivalVars
<1>2. PICK t : t = Updates
  OBVIOUS
<1>3. /\ t \in Seq(ConsumerMessages)
      /\ \A n \in 1..Len(t) : t[n].kind = "update" /\ t[n].value = value[t[n].object]
  BY <1>2, UpdatesAre
<1>4. \A o \in Objects : \A n \in 1..Len(t) : \A v \in Nat : Says(t[n], o, v) => v = value[o]
  BY <1>3 DEF Says
<1> QED
  BY <1>1, <1>2, <1>3, <1>4, OrderSends

(* The consumer's own steps keep no value they did not have. *)
LEMMA ViewsOrder ==
    ASSUME Types, Order
    PROVE  /\ \A x \in Objects : TimeoutRuns(x) => Order'
           /\ \A i \in Interests : (Unsubscribe(i) => Order') /\ (Drain(i) => Order')
<1>1. ASSUME NEW x \in Objects, TimeoutRuns(x) PROVE Order'
  <2>1. monitored' = [monitored EXCEPT ![x] = None] /\ UNCHANGED <<proxy, toConsumer, value>>
    BY <1>1 DEF TimeoutRuns, viewVars, stateVars
  <2>2. \A o \in Objects : monitored'[o] # None => monitored'[o] = monitored[o]
    BY <2>1 DEF Types, ArrivalTypes
  <2>3. \A o \in Objects : Kept(proxy', monitored', o) \subseteq Kept(proxy, monitored, o)
    BY <2>1, <2>2 DEF Kept
  <2> QED
    BY <2>1, <2>3, OrderStays
<1>2. ASSUME NEW i \in Interests, Unsubscribe(i) PROVE Order'
  <2>1. UNCHANGED <<toConsumer, value>>
    BY <1>2 DEF Unsubscribe, stateVars, network
  <2>2. \A o \in Objects : /\ proxy'[o] # None => proxy'[o] = proxy[o]
                           /\ monitored'[o] # None => monitored'[o] = monitored[o]
    BY <1>2, UnsubscribeIs
  <2>3. \A o \in Objects : Kept(proxy', monitored', o) \subseteq Kept(proxy, monitored, o)
    BY <2>2 DEF Kept
  <2> QED
    BY <2>1, <2>3, OrderStays
<1>3. ASSUME NEW i \in Interests, Drain(i) PROVE Order'
  <2>1. UNCHANGED <<toConsumer, value>>
    BY <1>3 DEF Drain, stateVars, network
  <2>2. PICK b, v : /\ b = Cleared(i) /\ Reached(b, v, actions[i], Len(actions[i]), i)
                    /\ proxy' = v.proxy /\ monitored' = v.monitored
    BY <1>3, DrainIs, OrderBounds
  <2>3. \A o \in Objects : Kept(v.proxy, v.monitored, o) \subseteq Kept(b.proxy, b.monitored, o)
    BY <2>2 DEF Reached
  <2>4. \A o \in Objects : Kept(b.proxy, b.monitored, o) \subseteq Kept(proxy, monitored, o)
    BY <2>2, ClearedIs
  <2>5. \A o \in Objects : Kept(proxy', monitored', o) \subseteq Kept(proxy, monitored, o)
    BY <2>2, <2>3, <2>4
  <2> QED
    BY <2>1, <2>5, OrderStays
<1> QED
  BY <1>1, <1>2, <1>3

(* Every step keeps the order. *)
LEMMA NextOrder == Types /\ Order /\ [Next]_vars => Order'
<1> SUFFICES ASSUME Types, Order, [Next]_vars PROVE Order'
  OBVIOUS
<1>1. ASSUME UNCHANGED <<toConsumer, value, proxy, monitored>> PROVE Order'
  BY <1>1, OrderStays
<1>2. CASE UNCHANGED vars
  BY <1>1, <1>2 DEF vars, network, stateVars, viewVars, arrivalVars
<1>3. CASE ConsumerMeets \/ EvaluateBegins
  BY <1>1, <1>3 DEF ConsumerMeets, EvaluateBegins, network, stateVars, viewVars, arrivalVars
<1>4. CASE PublisherMeets
  <2>1. toConsumer' = toConsumer \o <<Ready>> /\ UNCHANGED <<proxy, monitored, value>>
    BY <1>4 DEF PublisherMeets, ToConsumer, viewVars, arrivalVars, stateVars
  <2> QED
    BY <2>1, ConsumerTold, ConsumerKinds, Silent, OrderSendsOne
<1>5. ASSUME NEW o \in Objects, TimerFires(o) PROVE Order'
  BY <1>1, <1>5 DEF TimerFires, network, stateVars, viewVars
<1>6. ASSUME NEW i \in Interests, Subscribe(i) PROVE Order'
  BY <1>1, <1>6 DEF Subscribe, Subscribes, stateVars
<1>7. ASSUME NEW i \in Interests, SubscribeMeetsRemoval(i) PROVE Order'
  <2>1. /\ toConsumer # <<>> /\ toConsumer' = Tail(toConsumer)
        /\ UNCHANGED <<value, proxy, monitored>>
    BY <1>7 DEF SubscribeMeetsRemoval, Subscribes, stateVars
  <2> QED
    BY <2>1, OrderReceives
<1> QED
  BY <1>2, <1>3, <1>4, <1>5, <1>6, <1>7, ConsumerReceivesOrder, PublisherReceivesOrder, CommitOrder,
     EvaluateOrder, SendUpdatesOrder, ViewsOrder DEF Next

----------------------------------------------------------------------------
(* The handshake.  Nothing is said to a side that is not known yet but the greeting; nothing is *)
(* started before the answer; and as long as there is none a greeting is on its way.            *)
Handshake ==
    /\ ~known => /\ ~ready /\ toPublisher = <<>> /\ ~publisherReady /\ started = {} /\ linked = {}
                 /\ pendingStarts = <<>> /\ \A k \in 1..Len(toConsumer) : toConsumer[k] = Ready
                 /\ expired = {} /\ \A o \in Objects : monitored[o] = None
    /\ ~publisherKnows => toConsumer = <<>> /\ ~ready /\ ~publisherReady /\ linked = {}
    /\ ready => known /\ pendingStarts = <<>>
    /\ ~ready => /\ started = {} /\ \A i \in Interests : ~Has(toPublisher, Started(i))
                 /\ known => \A i \in providers : Has(pendingStarts, i)
    /\ (known /\ publisherKnows /\ ~ready) =>
          \/ Has(toConsumer, Ready)
          \/ Has(toPublisher, Ready) /\ ~publisherReady

(* The publisher has started what the consumer has a provider for, or the start is on its way; *)
(* and nothing else.                                                                           *)
Agreement ==
    /\ started \subseteq providers
    /\ \A i \in Interests :
        /\ (ready /\ i \in providers) => (i \in started \/ Has(toPublisher, Started(i)))
        /\ Has(toPublisher, Started(i)) => i \in providers

(* Both hold at the beginning. *)
LEMMA InitHandshake == Init => Handshake /\ Agreement
<1> SUFFICES ASSUME Init PROVE Handshake /\ Agreement
  OBVIOUS
<1>1. \A k \in 1..Len(<<>>) : FALSE
  OBVIOUS
<1>2. /\ ~known /\ ~ready /\ ~publisherReady /\ ~publisherKnows /\ started = {} /\ linked = {}
      /\ pendingStarts = <<>> /\ toPublisher = <<>> /\ toConsumer = <<>>
      /\ expired = {} /\ \A o \in Objects : monitored[o] = None
  BY DEF Init
<1>3. Handshake
  BY <1>1, <1>2 DEF Handshake, Has
<1>4. Agreement
  BY <1>1, <1>2 DEF Agreement, Has
<1> QED
  BY <1>3, <1>4

(* One more message. *)
LEMMA OneMessage ==
    ASSUME NEW M, NEW s \in Seq(M), NEW m \in M
    PROVE  /\ <<m>> \in Seq(M) /\ Len(<<m>>) = 1 /\ <<m>>[1] = m
           /\ \A x : Has(<<m>>, x) <=> x = m
           /\ \A x : Has(s \o <<m>>, x) <=> (Has(s, x) \/ x = m)
<1>1. PICK t : t = <<m>>
  OBVIOUS
<1>2. t \in Seq(M) /\ Len(t) = 1 /\ t[1] = m
  BY <1>1
<1>3. \A x : Has(t, x) <=> x = m
  BY <1>2 DEF Has
<1>4. \A x : Has(s \o t, x) <=> (Has(s, x) \/ x = m)
  BY <1>2, <1>3, HasConcat
<1> QED
  BY <1>1, <1>2, <1>3, <1>4

(* Agreement depends on these only. *)
LEMMA AgreementStays ==
    Agreement /\ UNCHANGED <<ready, providers, started, toPublisher>> => Agreement'
BY DEF Agreement

(* A message that is no start changes nothing of it. *)
LEMMA AgreementSends ==
    ASSUME Types, Agreement, UNCHANGED <<ready, providers, started>>,
           NEW t \in Seq(PublisherMessages), toPublisher' = toPublisher \o t,
           \A k \in 1..Len(t) : t[k].kind # "started"
    PROVE  /\ Agreement' /\ \A i : ~Has(t, Started(i))
<1>1. \A i : ~Has(t, Started(i))
  BY StartsAre DEF Has
<1>2. \A i : Has(toPublisher', Started(i)) <=> Has(toPublisher, Started(i))
  BY <1>1, HasConcat DEF Types, NetTypes
<1>3. Agreement'
  BY <1>2 DEF Agreement
<1> QED
  BY <1>1, <1>3

(* The consumer meets the publisher: the greeting is on its way. *)
LEMMA ConsumerMeetsHandshake ==
    Types /\ Handshake /\ Agreement /\ ConsumerMeets => Handshake' /\ Agreement'
<1> SUFFICES ASSUME Types, Handshake, Agreement, ConsumerMeets PROVE Handshake' /\ Agreement'
  OBVIOUS
<1>1. /\ ~known /\ known' = TRUE /\ pendingStarts' = SetToSeq(managers) /\ providers' = managers
      /\ toPublisher' = toPublisher \o <<Ready>>
      /\ UNCHANGED <<ready, publisherKnows, publisherReady, started, linked, toConsumer>>
  BY DEF ConsumerMeets, ToPublisher, viewVars, offerVars
<1>2. ~ready /\ ~publisherReady /\ started = {} /\ \A i \in Interests : ~Has(toPublisher, Started(i))
  BY <1>1 DEF Handshake
<1>3. /\ <<Ready>> \in Seq(PublisherMessages) /\ Len(<<Ready>>) = 1 /\ <<Ready>>[1] = Ready
      /\ \A x : Has(toPublisher', x) <=> (Has(toPublisher, x) \/ x = Ready)
  BY <1>1, PublisherTold, OneMessage DEF Types, NetTypes
<1>4. \A i \in providers' : Has(pendingStarts', i)
  BY <1>1, InterestsAsSequence DEF Types, ViewTypes
<1>5. \A i : Started(i) # Ready /\ Ready.kind = "ready"
  BY StartsAre
<1>6. Handshake'
  BY <1>1, <1>2, <1>3, <1>4, <1>5 DEF Handshake
<1>7. Agreement'
  BY <1>1, <1>2, <1>3, <1>5 DEF Agreement
<1> QED
  BY <1>6, <1>7

(* The publisher meets the consumer. *)
LEMMA PublisherMeetsHandshake ==
    Types /\ Handshake /\ Agreement /\ PublisherMeets => Handshake' /\ Agreement'
<1> SUFFICES ASSUME Types, Handshake, Agreement, PublisherMeets PROVE Handshake' /\ Agreement'
  OBVIOUS
<1>1. /\ ~publisherKnows /\ publisherKnows' = TRUE /\ toConsumer' = toConsumer \o <<Ready>>
      /\ UNCHANGED <<known, ready, pendingStarts, publisherReady, providers, started, linked,
                     toPublisher, expired, monitored>>
  BY DEF PublisherMeets, ToConsumer, viewVars, offerVars, arrivalVars
<1>2. toConsumer = <<>> /\ ~ready /\ ~publisherReady
  BY <1>1 DEF Handshake
<1>3. toConsumer' = <<Ready>>
  BY <1>1, <1>2
<1>4. PICK t : t = <<Ready>>
  OBVIOUS
<1>5. Len(t) = 1 /\ t[1] = Ready
  BY <1>4
<1>6. Has(t, Ready) /\ \A k \in 1..Len(t) : t[k] = Ready
  BY <1>5 DEF Has
<1>7. Handshake'
  BY <1>1, <1>2, <1>3, <1>4, <1>6 DEF Handshake
<1> QED
  BY <1>1, <1>7, AgreementStays

(* A message that is no greeting, or comes after the first one. *)
LEMMA HandshakeReceives ==
    ASSUME Types, Handshake, Agreement, known, toConsumer # <<>>, toConsumer' = Tail(toConsumer),
           UNCHANGED <<known, ready, pendingStarts, publisherKnows, publisherReady, providers,
                       started, linked>>,
           Head(toConsumer) # Ready \/ ready,
           NEW t \in Seq(PublisherMessages), toPublisher' = toPublisher \o t,
           \A k \in 1..Len(t) : t[k].kind # "started"
    PROVE  Handshake' /\ Agreement'
<1>1. Agreement' /\ \A i : ~Has(t, Started(i))
  BY AgreementSends
<1>2. \A x : Has(toPublisher', x) <=> (Has(toPublisher, x) \/ Has(t, x))
  BY HasConcat DEF Types, NetTypes
<1>3. Has(toConsumer, Ready) <=> (Head(toConsumer) = Ready \/ Has(toConsumer', Ready))
  BY HasTail DEF Types, NetTypes
<1>4. publisherKnows
  BY DEF Handshake
<1>5. Handshake'
  BY <1>1, <1>2, <1>3, <1>4 DEF Handshake
<1> QED
  BY <1>1, <1>5

(* The first greeting: what waited is sent. *)
LEMMA FirstReadyReceived ==
    ASSUME Types, Handshake, Agreement, known, ~ready, toConsumer # <<>>,
           toConsumer' = Tail(toConsumer), ReadyReceived, UNCHANGED offerVars
    PROVE  Handshake' /\ Agreement'
<1>1. /\ ready' = TRUE /\ pendingStarts' = <<>> /\ toPublisher' = toPublisher \o Greeting
      /\ UNCHANGED <<known, publisherKnows, publisherReady, providers, started, linked>>
  BY DEF ReadyReceived, ToPublisher, arrivalVars, offerVars
<1>2. /\ publisherKnows /\ started = {} /\ \A i \in Interests : ~Has(toPublisher, Started(i))
      /\ \A i \in providers : Has(pendingStarts, i)
  BY DEF Handshake
<1>3. Handshake'
  BY <1>1, <1>2 DEF Handshake
<1>4. PICK t \in Seq(PublisherMessages) : t = Greeting
  BY GreetingIs
<1>5. \A i : Has(toPublisher', Started(i)) <=> (Has(toPublisher, Started(i)) \/ Has(t, Started(i)))
  BY <1>1, <1>4, HasConcat DEF Types, NetTypes
<1>6. \A i \in Interests : Has(toPublisher', Started(i)) <=> i \in providers
  BY <1>2, <1>4, <1>5, GreetingIs
<1>7. Agreement'
  BY <1>1, <1>2, <1>6 DEF Agreement
<1> QED
  BY <1>3, <1>7

(* Whatever the consumer receives. *)
LEMMA ConsumerReceivesHandshake ==
    Types /\ Handshake /\ Agreement /\ ConsumerReceives => Handshake' /\ Agreement'
<1> SUFFICES ASSUME Types, Handshake, Agreement, ConsumerReceives PROVE Handshake' /\ Agreement'
  OBVIOUS
<1>0. PICK m \in ConsumerMessages : m = Head(toConsumer)
  BY TailOf DEF Types, NetTypes, ConsumerReceives
<1>1. /\ toConsumer # <<>> /\ toConsumer' = Tail(toConsumer) /\ UNCHANGED <<offerVars, started, linked>>
  BY DEF ConsumerReceives, offerVars
<1>2. \/ ~known /\ UNCHANGED <<handshakeVars, arrivalVars, viewVars, toPublisher>>
      \/ known /\ m.kind = "ready" /\ ReadyReceived
      \/ known /\ m.kind = "published" /\ PublishedReceived(m)
      \/ known /\ m.kind = "types" /\ TypesReceived
      \/ known /\ m.kind = "removed" /\ RemovedReceived(m)
      \/ known /\ m.kind = "response" /\ ResponseReceived(m)
      \/ known /\ m.kind = "update" /\ UpdateReceived(m)
  BY <1>0 DEF ConsumerReceives
<1>3. CASE ~known /\ UNCHANGED <<handshakeVars, arrivalVars, viewVars, toPublisher>>
  <2>1. /\ UNCHANGED <<known, ready, pendingStarts, publisherKnows, publisherReady, providers,
                       toPublisher, expired, monitored>>
    BY <1>3 DEF handshakeVars, viewVars, arrivalVars
  <2>2. \A k \in 1..Len(toConsumer') : toConsumer'[k] = Ready
    BY <1>1, <1>3, TailOf DEF Handshake, Types, NetTypes
  <2>3. publisherKnows
    BY <1>1 DEF Handshake
  <2>4. Handshake'
    BY <1>1, <1>3, <2>1, <2>2, <2>3 DEF Handshake
  <2> QED
    BY <1>1, <2>1, <2>4, AgreementStays
<1>4. CASE known /\ m.kind = "ready" /\ ReadyReceived /\ ~ready
  BY <1>1, <1>4, FirstReadyReceived
<1> DEFINE SameHandshake == UNCHANGED <<known, ready, pendingStarts, publisherKnows, publisherReady, providers>>
<1>5. ASSUME known, SameHandshake, UNCHANGED toPublisher, m.kind # "ready" \/ ready
      PROVE  Handshake' /\ Agreement'
  <2>1. PICK t : t = <<>>
    OBVIOUS
  <2>2. /\ t \in Seq(PublisherMessages) /\ \A k \in 1..Len(t) : FALSE
    BY <2>1
  <2>3. toPublisher' = toPublisher \o t
    BY <1>5, <2>1 DEF Types, NetTypes
  <2>4. Head(toConsumer) # Ready \/ ready
    BY <1>0, <1>5, ConsumerKinds
  <2> QED
    BY <1>1, <1>5, <2>2, <2>3, <2>4, HandshakeReceives
<1>6. CASE known /\ m.kind = "ready" /\ ReadyReceived /\ ready
  BY <1>5, <1>6 DEF ReadyReceived, arrivalVars
<1>7. CASE known /\ m.kind = "published" /\ PublishedReceived(m)
  <2>1. SameHandshake
    BY <1>7 DEF PublishedReceived, handshakeVars
  <2>2. PICK x \in PublisherMessages :
          /\ x.kind # "started" /\ toPublisher' = toPublisher \o <<x>>
    <3>1. m.interest \in Interests /\ m.objects \in SUBSET Objects
      BY <1>7, ConsumerParts
    <3>2. /\ StateRequest(m.interest, m.objects) \in PublisherMessages
          /\ TypesRequest \in PublisherMessages
          /\ StateRequest(m.interest, m.objects).kind = "request" /\ TypesRequest.kind = "types?"
      BY <3>1, PublisherTold, StartsAre
    <3> QED
      BY <1>7, <3>2 DEF PublishedReceived, ToPublisher
  <2>3. /\ <<x>> \in Seq(PublisherMessages)
        /\ \A k \in 1..Len(<<x>>) : <<x>>[k].kind # "started"
    BY <2>2
  <2>4. Head(toConsumer) # Ready
    BY <1>0, <1>7, ConsumerKinds
  <2> QED
    BY <1>1, <1>7, <2>1, <2>2, <2>3, <2>4, HandshakeReceives
<1>8. CASE known /\ m.kind = "types" /\ TypesReceived
  <2>1. SameHandshake /\ toPublisher' = toPublisher \o Requests
    BY <1>8 DEF TypesReceived, handshakeVars, Requests, ToPublisher
  <2>2. PICK t : t = Requests
    OBVIOUS
  <2>3. /\ t \in Seq(PublisherMessages)
        /\ \A k \in 1..Len(t) : t[k].kind # "started"
    BY <2>2, RequestsAre
  <2>4. Head(toConsumer) # Ready
    BY <1>0, <1>8, ConsumerKinds
  <2> QED
    BY <1>1, <1>8, <2>1, <2>2, <2>3, <2>4, HandshakeReceives
<1>9. CASE known /\ m.kind = "removed" /\ RemovedReceived(m)
  BY <1>5, <1>9 DEF RemovedReceived, handshakeVars
<1>10. CASE known /\ m.kind = "response" /\ ResponseReceived(m)
  BY <1>5, <1>10 DEF ResponseReceived, handshakeVars
<1>11. CASE known /\ m.kind = "update" /\ UpdateReceived(m)
  BY <1>5, <1>11 DEF UpdateReceived, handshakeVars
<1> QED
  BY <1>2, <1>3, <1>4, <1>6, <1>7, <1>8, <1>9, <1>10, <1>11

(* A step that changes none of these keeps handshake and agreement. *)
LEMMA HandshakeStays ==
    ASSUME Handshake, Agreement,
           UNCHANGED <<handshakeVars, providers, started, toPublisher, toConsumer>>,
           ~known => linked' = {} /\ expired' = {} /\ \A o \in Objects : monitored'[o] = None,
           ~publisherKnows => linked' = {}
    PROVE  Handshake' /\ Agreement'
<1>1. UNCHANGED <<known, ready, pendingStarts, publisherKnows, publisherReady>>
  BY DEF handshakeVars
<1>2. Agreement'
  BY <1>1, AgreementStays
<1>3. Handshake'
  BY <1>1 DEF Handshake
<1> QED
  BY <1>2, <1>3

(* A callback of a timer, once the publisher is known. *)
LEMMA TimeoutRunsHandshake ==
    ASSUME Types, Handshake, Agreement, NEW o \in Objects, TimeoutRuns(o)
    PROVE  Handshake' /\ Agreement'
<1>1. /\ toPublisher' = toPublisher \o <<Rejection(o)>> /\ o \in expired
      /\ UNCHANGED <<known, ready, pendingStarts, publisherKnows, publisherReady, providers, started,
                     linked, toConsumer>>
  BY DEF TimeoutRuns, ToPublisher, handshakeVars, offerVars
<1>2. known
  BY <1>1 DEF Handshake
<1>3. /\ <<Rejection(o)>> \in Seq(PublisherMessages) /\ Len(<<Rejection(o)>>) = 1
      /\ <<Rejection(o)>>[1] = Rejection(o) /\ Rejection(o).kind = "timeout"
      /\ \A x : Has(toPublisher', x) <=> (Has(toPublisher, x) \/ x = Rejection(o))
  BY <1>1, PublisherTold, OneMessage, StartsAre DEF Types, NetTypes
<1>4. \A k \in 1..Len(<<Rejection(o)>>) : <<Rejection(o)>>[k].kind # "started"
  BY <1>3
<1>5. Agreement'
  BY <1>1, <1>3, <1>4, AgreementSends
<1>6. \A i : Started(i) # Rejection(o)
  BY <1>3, StartsAre
<1>7. Handshake'
  BY <1>1, <1>2, <1>3, <1>6 DEF Handshake
<1> QED
  BY <1>5, <1>7

(* A manager is made: the publisher is told, or will be with the answer to the greeting. *)
LEMMA SubscribesHandshake ==
    ASSUME Types, Handshake, Agreement, NEW i \in Interests, NEW news, Subscribes(i, news),
           \/ UNCHANGED toConsumer
           \/ known /\ toConsumer # <<>> /\ Head(toConsumer) # Ready /\ toConsumer' = Tail(toConsumer)
    PROVE  Handshake' /\ Agreement'
<1>1. /\ providers' = IF known THEN providers \union {i} ELSE providers
      /\ ready => toPublisher' = toPublisher \o <<Started(i)>>
      /\ ~ready => toPublisher' = toPublisher
      /\ pendingStarts' = IF known /\ ~ready THEN Append(pendingStarts, i) ELSE pendingStarts
      /\ UNCHANGED <<known, ready, publisherKnows, publisherReady, started, linked, expired,
                     monitored>>
  BY DEF Subscribes, ToPublisher, offerVars
<1>2. /\ Has(toConsumer, Ready) => Has(toConsumer', Ready)
      /\ toConsumer = <<>> => toConsumer' = <<>>
      /\ ~known => toConsumer' = toConsumer
  BY HasTail DEF Types, NetTypes
<1>3. CASE ~ready
  <2>1. \A x : Has(Append(pendingStarts, i), x) <=> (Has(pendingStarts, x) \/ x = i)
    <3>1. PICK s \in Seq(providers \union {i}) : s = pendingStarts
      BY DEF Types, HandshakeTypes
    <3>2. Append(s, i) = s \o <<i>>
      OBVIOUS
    <3>3. \A x : Has(s \o <<i>>, x) <=> (Has(s, x) \/ x = i)
      BY OneMessage
    <3> QED
      BY <3>1, <3>2, <3>3
  <2>2. Handshake'
    BY <1>1, <1>2, <1>3, <2>1 DEF Handshake
  <2>3. Agreement'
    BY <1>1, <1>3 DEF Agreement
  <2> QED
    BY <2>2, <2>3
<1>4. CASE ready
  <2>1. known /\ publisherKnows /\ pendingStarts' = pendingStarts
    BY <1>1, <1>4 DEF Handshake
  <2>2. Handshake'
    BY <1>1, <1>2, <1>4, <2>1 DEF Handshake
  <2>3. \A x : Has(toPublisher', x) <=> (Has(toPublisher, x) \/ x = Started(i))
    <3>1. PICK x \in PublisherMessages : x = Started(i)
      BY PublisherTold
    <3>2. PICK s \in Seq(PublisherMessages) : s = toPublisher
      BY DEF Types, NetTypes
    <3>3. \A y : Has(s \o <<x>>, y) <=> (Has(s, y) \/ y = x)
      BY OneMessage
    <3> QED
      BY <1>1, <1>4, <3>1, <3>2, <3>3
  <2>4. \A j \in Interests :
          Has(toPublisher', Started(j)) <=> (Has(toPublisher, Started(j)) \/ j = i)
    BY <2>3, StartsAre
  <2>5. Agreement'
    BY <1>1, <1>4, <2>1, <2>4 DEF Agreement
  <2> QED
    BY <2>2, <2>5
<1> QED
  BY <1>3, <1>4

(* The same whether a removal is met or not. *)
LEMMA SubscribeHandshake ==
    ASSUME Types, Handshake, Agreement, NEW i \in Interests, Subscribe(i) \/ SubscribeMeetsRemoval(i)
    PROVE  Handshake' /\ Agreement'
<1>1. CASE Subscribe(i)
  <2>1. UNCHANGED toConsumer /\ Subscribes(i, Adding(current[i]))
    BY <1>1 DEF Subscribe
  <2> QED
    BY <2>1, SubscribesHandshake
<1>2. CASE SubscribeMeetsRemoval(i)
  <2>1. PICK m \in ConsumerMessages, news \in Seq(Actions) :
          m = Head(toConsumer) /\ m.kind = "removed" /\ Subscribes(i, news)
    BY <1>2, MetRemovalIs
  <2>2. known /\ toConsumer # <<>> /\ toConsumer' = Tail(toConsumer)
    BY <1>2 DEF SubscribeMeetsRemoval
  <2>3. Head(toConsumer) # Ready
    BY <2>1, ConsumerKinds
  <2> QED
    BY <2>1, <2>2, <2>3, SubscribesHandshake
<1> QED
  BY <1>1, <1>2

(* A manager goes: nobody is told. *)
LEMMA UnsubscribeHandshake ==
    ASSUME Types, Handshake, Agreement, NEW i \in Interests, Unsubscribe(i)
    PROVE  Handshake' /\ Agreement'
<1>1. UNCHANGED <<handshakeVars, providers, started, linked, toPublisher, toConsumer, expired>>
  BY DEF Unsubscribe, network, offerVars
<1>2. ~known => linked' = {} /\ expired' = {} /\ \A o \in Objects : monitored'[o] = None
  BY <1>1, UnsubscribeIs DEF Handshake
<1>3. ~publisherKnows => linked' = {}
  BY <1>1 DEF Handshake
<1> QED
  BY <1>1, <1>2, <1>3, HandshakeStays

(* What a message does to the publisher's interests. *)
LEMMA PublisherReceivesStarts ==
    ASSUME Types, Handshake, PublisherReceives, NEW m \in PublisherMessages, m = Head(toPublisher)
    PROVE  /\ known
           /\ \A i \in Interests :
                /\ m = Started(i) => publisherKnows /\ i \in started'
                /\ m # Started(i) => (i \in started' <=> i \in started)
           /\ publisherKnows => \E t \in Seq(ConsumerMessages) : toConsumer' = toConsumer \o t
           /\ ~publisherKnows => UNCHANGED <<publisherReady, offerVars, toConsumer>>
           /\ (m = Ready /\ publisherKnows /\ ~publisherReady) => Has(toConsumer', Ready)
           /\ m # Ready => publisherReady' = publisherReady
<1>0. toPublisher # <<>> /\ toPublisher \in Seq(PublisherMessages)
      /\ toConsumer \in Seq(ConsumerMessages)
  BY DEF PublisherReceives, Types, NetTypes
<1>1. known
  BY <1>0 DEF Handshake
<1>2. \/ ~publisherKnows /\ UNCHANGED <<publisherReady, offerVars, toConsumer>>
      \/ publisherKnows /\ m.kind = "ready" /\ PublisherReadyReceived
      \/ publisherKnows /\ m.kind = "started" /\ StartReceived(m.interest)
      \/ publisherKnows /\ m.kind = "request" /\ RequestReceived(m)
      \/ publisherKnows /\ m.kind = "types?" /\ TypesRequestReceived
      \/ publisherKnows /\ m.kind = "timeout" /\ RejectionReceived(m.object)
  BY DEF PublisherReceives
<1>3. CASE ~publisherKnows
  <2>1. UNCHANGED <<publisherReady, offerVars, toConsumer>> /\ started' = started
    BY <1>2, <1>3 DEF offerVars
  <2>2. started = {} /\ \A i \in Interests : ~Has(toPublisher, Started(i))
    BY <1>3 DEF Handshake
  <2>3. Has(toPublisher, m)
    BY <1>0, HasTail
  <2> QED
    BY <1>1, <1>3, <2>1, <2>2, <2>3
<1>4. CASE publisherKnows
  <2>1. \A i : /\ m = Started(i) => m.kind = "started" /\ m.interest = i
               /\ m = Ready => m.kind = "ready"
    BY StartsAre
  <2>2. /\ m.kind = "started" => m = Started(m.interest) /\ m.interest \in Interests
        /\ m.kind = "ready" => m = Ready
        /\ m.kind = "request" => m.interest \in Interests /\ m.objects \subseteq Objects
    BY PublisherParts
  <2>3. CASE m.kind = "ready" /\ PublisherReadyReceived
    <3>1. /\ started' = started
          /\ toConsumer' = toConsumer \o (IF publisherReady THEN <<>> ELSE <<Ready>>)
      BY <2>3 DEF PublisherReadyReceived, ToConsumer, offerVars
    <3>2. (IF publisherReady THEN <<>> ELSE <<Ready>>) \in Seq(ConsumerMessages)
      BY ConsumerTold
    <3>3. ~publisherReady => Has(toConsumer', Ready)
      BY <1>0, <3>1, ConsumerTold, OneMessage
    <3> QED
      BY <1>1, <1>4, <2>1, <2>2, <2>3, <3>1, <3>2, <3>3
  <2>4. CASE m.kind = "started" /\ StartReceived(m.interest)
    <3>1. PICK i \in Interests : i = m.interest
      BY <2>2, <2>4
    <3>2. PICK S : S = matching[i]
      OBVIOUS
    <3>3. S \subseteq Objects
      BY <3>2 DEF Types, StateTypes
    <3>4. Notice(Published, i, S) \in Seq(ConsumerMessages)
      BY <3>3, NoticeIs
    <3>5. started' = started \union {i} /\ publisherReady' = publisherReady
      BY <2>4, <3>1 DEF StartReceived, offerVars
    <3>6. CASE i \in started
      <4>1. toConsumer' = toConsumer \o <<>> /\ <<>> \in Seq(ConsumerMessages)
        BY <1>0, <2>4, <3>1, <3>6 DEF StartReceived
      <4> QED
        BY <1>1, <1>4, <2>1, <2>2, <2>4, <3>1, <3>5, <4>1
    <3>7. CASE i \notin started
      <4>1. toConsumer' = toConsumer \o Notice(Published, i, S)
        BY <2>4, <3>1, <3>2, <3>7 DEF StartReceived, ToConsumer
      <4> QED
        BY <1>1, <1>4, <2>1, <2>2, <2>4, <3>1, <3>4, <3>5, <4>1
    <3> QED
      BY <3>6, <3>7
  <2>6. CASE m.kind = "request" /\ RequestReceived(m)
    <3>1. PICK x \in ConsumerMessages : x = StateResponse(m.interest, [o \in Answered(m) |-> value[o]])
      BY <2>2, <2>6, AnswerIs
    <3>2. /\ started' = started /\ publisherReady' = publisherReady
          /\ toConsumer' = toConsumer \o <<x>> /\ <<x>> \in Seq(ConsumerMessages)
      BY <2>6, <3>1 DEF RequestReceived, ToConsumer, offerVars
    <3> QED
      BY <1>1, <1>4, <2>1, <2>6, <3>2
  <2>7. CASE m.kind = "types?" /\ TypesRequestReceived
    <3>1. /\ started' = started /\ publisherReady' = publisherReady
          /\ toConsumer' = toConsumer \o <<TypesResponse>> /\ <<TypesResponse>> \in Seq(ConsumerMessages)
      BY <2>7, ConsumerTold DEF TypesRequestReceived, ToConsumer, offerVars
    <3> QED
      BY <1>1, <1>4, <2>1, <2>7, <3>1
  <2>8. CASE m.kind = "timeout" /\ RejectionReceived(m.object)
    <3>1. started' = started /\ publisherReady' = publisherReady /\ toConsumer' = toConsumer
      BY <2>8 DEF RejectionReceived
    <3>2. toConsumer' = toConsumer \o <<>> /\ <<>> \in Seq(ConsumerMessages)
      BY <1>0, <3>1
    <3> QED
      BY <1>1, <1>4, <2>1, <2>8, <3>1, <3>2
  <2> QED
    BY <1>2, <1>4, <2>3, <2>4, <2>6, <2>7, <2>8
<1> QED
  BY <1>3, <1>4

(* Whatever the publisher receives keeps handshake and agreement. *)
LEMMA PublisherReceivesHandshake ==
    Types /\ Handshake /\ Agreement /\ PublisherReceives => Handshake' /\ Agreement'
<1> SUFFICES ASSUME Types, Handshake, Agreement, PublisherReceives PROVE Handshake' /\ Agreement'
  OBVIOUS
<1>0. PICK s \in Seq(PublisherMessages) : s = toPublisher
  BY DEF Types, NetTypes
<1>1. s # <<>> /\ toPublisher' = Tail(s)
      /\ UNCHANGED <<known, ready, pendingStarts, publisherKnows, providers>>
  BY <1>0 DEF PublisherReceives, arrivalVars
<1>2. PICK m \in PublisherMessages : m = Head(s)
  BY <1>1, TailOf
<1>3. /\ known
      /\ \A i \in Interests :
           /\ m = Started(i) => publisherKnows /\ i \in started'
           /\ m # Started(i) => (i \in started' <=> i \in started)
      /\ publisherKnows => \E t \in Seq(ConsumerMessages) : toConsumer' = toConsumer \o t
      /\ ~publisherKnows => UNCHANGED <<publisherReady, offerVars, toConsumer>>
      /\ (m = Ready /\ publisherKnows /\ ~publisherReady) => Has(toConsumer', Ready)
      /\ m # Ready => publisherReady' = publisherReady
  BY <1>0, <1>2, PublisherReceivesStarts
<1>4. \A x : Has(s, x) <=> (m = x \/ Has(toPublisher', x))
  BY <1>1, <1>2, HasTail
<1>5. publisherKnows /\ Has(toConsumer, Ready) => Has(toConsumer', Ready)
  <2> SUFFICES ASSUME publisherKnows, Has(toConsumer, Ready) PROVE Has(toConsumer', Ready)
    OBVIOUS
  <2>1. PICK t \in Seq(ConsumerMessages) : toConsumer' = toConsumer \o t
    BY <1>3
  <2>2. toConsumer \in Seq(ConsumerMessages)
    BY DEF Types, NetTypes
  <2>3. Has(toConsumer \o t, Ready)
    BY <2>2, HasConcat
  <2> QED
    BY <2>1, <2>3
<1>6. ~ready => started' = {}
  <2>1. SUFFICES ASSUME ~ready PROVE started' = {}
    OBVIOUS
  <2>2. started = {} /\ \A i \in Interests : m # Started(i)
    BY <1>0, <1>4, <2>1 DEF Handshake
  <2>3. \A i \in Interests : i \notin started'
    BY <1>3, <2>2
  <2>4. started' \subseteq Interests
    BY PublisherReceivesTypes DEF Types, OfferTypes
  <2> QED
    BY <2>3, <2>4
<1>7. Handshake'
  BY <1>0, <1>1, <1>3, <1>4, <1>5, <1>6 DEF Handshake, offerVars
<1>8. started' \subseteq Interests
  BY PublisherReceivesTypes DEF Types, OfferTypes
<1>9. Agreement'
  BY <1>0, <1>1, <1>3, <1>4, <1>8 DEF Agreement
<1> QED
  BY <1>7, <1>9

(* Without an object that changed and is linked there are none. *)
LEMMA NoUpdates ==
    ASSUME changed \intersect linked = {}
    PROVE  Updates = <<>>
<1>1. PICK S : S = changed \intersect linked
  OBVIOUS
<1>2. PICK sent \in Seq(S) : sent = SetToSeq(S)
  BY <1>1, InterestsAsSequence
<1>3. Len(sent) = 0 /\ DOMAIN sent = {}
  <2>1. Len(sent) \in Nat /\ DOMAIN sent = 1..Len(sent) /\ \A k \in 1..Len(sent) : sent[k] \in S
    OBVIOUS
  <2>2. \A k \in 1..Len(sent) : FALSE
    BY <1>1, <2>1
  <2> QED
    BY <2>1, <2>2
<1>4. Updates = [n \in DOMAIN sent |-> Update(sent[n])]
  BY <1>1, <1>2 DEF Updates
<1> QED
  BY <1>3, <1>4

(* The publisher's own steps. *)
LEMMA PublisherHandshake ==
    ASSUME Types, Handshake, Agreement, NEW t \in Seq(ConsumerMessages),
           toConsumer' = toConsumer \o t,
           UNCHANGED <<handshakeVars, providers, started, toPublisher, expired, monitored>>,
           known /\ publisherKnows
    PROVE  Handshake' /\ Agreement'
<1>1. UNCHANGED <<known, ready, pendingStarts, publisherKnows, publisherReady>>
  BY DEF handshakeVars
<1>2. Agreement'
  BY <1>1, AgreementStays
<1>3. Has(toConsumer, Ready) => Has(toConsumer', Ready)
  BY HasConcat DEF Types, NetTypes
<1>4. Handshake'
  BY <1>1, <1>3 DEF Handshake
<1> QED
  BY <1>2, <1>4

(* Every step keeps handshake and agreement. *)
LEMMA NextHandshake ==
    Types /\ Order /\ Handshake /\ Agreement /\ [Next]_vars => Handshake' /\ Agreement'
<1> SUFFICES ASSUME Types, Order, Handshake, Agreement, [Next]_vars PROVE Handshake' /\ Agreement'
  OBVIOUS
<1>1. ASSUME UNCHANGED <<handshakeVars, providers, started, toPublisher, toConsumer, linked, expired,
                         monitored>>
      PROVE  Handshake' /\ Agreement'
  <2>1. ~known => linked' = {} /\ expired' = {} /\ \A o \in Objects : monitored'[o] = None
    BY <1>1 DEF Handshake
  <2>2. ~publisherKnows => linked' = {}
    BY <1>1 DEF Handshake
  <2> QED
    BY <1>1, <2>1, <2>2, HandshakeStays
<1>2. CASE UNCHANGED vars
  BY <1>1, <1>2 DEF vars, network, offerVars, viewVars, arrivalVars
<1>3. CASE EvaluateBegins
  BY <1>1, <1>3 DEF EvaluateBegins, network, offerVars, viewVars, arrivalVars
<1>4. ASSUME NEW o \in Objects, Commit(o) PROVE Handshake' /\ Agreement'
  BY <1>1, <1>4 DEF Commit, network, offerVars, viewVars, arrivalVars
<1>5. ASSUME NEW o \in Objects, TimerFires(o) PROVE Handshake' /\ Agreement'
  <2>1. known
    BY <1>5 DEF TimerFires, Handshake
  <2>2. UNCHANGED <<handshakeVars, providers, started, linked, toPublisher, toConsumer>>
    BY <1>5 DEF TimerFires, network, offerVars
  <2>3. ~publisherKnows => linked' = {}
    BY <2>2 DEF Handshake
  <2> QED
    BY <2>1, <2>2, <2>3, HandshakeStays
<1>6. ASSUME NEW i \in Interests, Drain(i) PROVE Handshake' /\ Agreement'
  <2>1. UNCHANGED <<handshakeVars, providers, started, toPublisher, toConsumer, linked, expired>>
    BY <1>6 DEF Drain, network, offerVars
  <2>2. ASSUME ~known, NEW o \in Objects PROVE monitored'[o] = None
    <3>1. PICK b, v : /\ b = Cleared(i) /\ Reached(b, v, actions[i], Len(actions[i]), i)
                      /\ monitored' = v.monitored
      BY <1>6, DrainIs, OrderBounds
    <3>2. v.monitored[o] # None => v.monitored[o] = b.monitored[o]
      BY <3>1 DEF Reached
    <3>3. b.monitored = Unmonitored(monitored, Destroyed(shown, [dying EXCEPT ![i] = {}]))
      BY <3>1 DEF Cleared
    <3>4. monitored[o] = None
      BY <2>2 DEF Handshake
    <3>5. b.monitored[o] = None
      BY <3>3, <3>4 DEF Unmonitored
    <3> QED
      BY <3>1, <3>2, <3>5
  <2>3. ~known => linked' = {} /\ expired' = {} /\ \A o \in Objects : monitored'[o] = None
    BY <2>1, <2>2 DEF Handshake
  <2>4. ~publisherKnows => linked' = {}
    BY <2>1 DEF Handshake
  <2> QED
    BY <2>1, <2>3, <2>4, HandshakeStays
<1>7. ASSUME NEW i \in Interests, Evaluate(i) PROVE Handshake' /\ Agreement'
  <2>1. i \in started
    BY <1>7 DEF Evaluate, Types, StateTypes
  <2>2. known /\ publisherKnows
    BY <2>1 DEF Handshake
  <2>3. /\ toConsumer' = toConsumer \o Changes(i)
        /\ UNCHANGED <<handshakeVars, providers, started, toPublisher, expired, monitored>>
    BY <1>7 DEF Evaluate, Changes, ToConsumer, viewVars, arrivalVars
  <2>4. Changes(i) \in Seq(ConsumerMessages)
    BY ChangesAre
  <2> QED
    BY <2>2, <2>3, <2>4, PublisherHandshake
<1>8. CASE SendUpdates
  <2>1. /\ toConsumer' = toConsumer \o Updates
        /\ UNCHANGED <<handshakeVars, providers, started, toPublisher, expired, monitored, linked>>
    BY <1>8 DEF SendUpdates, Updates, ToConsumer, viewVars, arrivalVars, offerVars
  <2>2. Updates \in Seq(ConsumerMessages)
    BY UpdatesAre
  <2>3. CASE known /\ publisherKnows
    BY <2>1, <2>2, <2>3, PublisherHandshake
  <2>4. CASE ~(known /\ publisherKnows)
    <3>1. linked = {}
      BY <2>4 DEF Handshake
    <3>2. Updates = <<>>
      <4>1. changed \intersect linked = {}
        BY <3>1
      <4> QED
        BY <4>1, NoUpdates
    <3>3. toConsumer' = toConsumer
      BY <2>1, <3>2 DEF Types, NetTypes
    <3> QED
      BY <1>1, <2>1, <3>3
  <2> QED
    BY <2>3, <2>4
<1> QED
  BY <1>2, <1>3, <1>4, <1>5, <1>6, <1>7, <1>8, ConsumerMeetsHandshake, ConsumerReceivesHandshake,
     TimeoutRunsHandshake, SubscribeHandshake, UnsubscribeHandshake, PublisherMeetsHandshake,
     PublisherReceivesHandshake DEF Next

----------------------------------------------------------------------------
(* Types, order and handshake are an invariant of their own, whatever the interests. *)
Exchange == Types /\ Order /\ Handshake /\ Agreement

(* It holds at the beginning. *)
LEMMA InitExchange == Init => Exchange
BY InitTypes, InitOrder, InitHandshake DEF Exchange

(* Every step keeps it. *)
LEMMA NextExchange == Exchange /\ [Next]_vars => Exchange'
<1> SUFFICES ASSUME Exchange, [Next]_vars PROVE Exchange'
  OBVIOUS
<1>1. Types'
  BY NextTypes, OrderBounds DEF Exchange
<1>2. Order'
  BY NextOrder DEF Exchange
<1>3. Handshake' /\ Agreement'
  BY NextHandshake DEF Exchange
<1> QED
  BY <1>1, <1>2, <1>3 DEF Exchange

(* The types the runs check follow from it. *)
LEMMA ExchangeTypes == Exchange => TypeOK
<1> SUFFICES ASSUME Exchange PROVE TypeOK
  OBVIOUS
<1>0. Types /\ Order /\ Handshake
  BY DEF Exchange
<1>1. /\ \A i \in Interests \ managers : shown[i] \union dying[i] = {}
      /\ \A i \in Interests \ providers : current[i] = {}
  BY <1>0 DEF Types, ViewTypes, ArrivalTypes
<1>2. \A o \in Objects : proxy[o] \in 0..value[o] \union {None}
  <2> SUFFICES ASSUME NEW o \in Objects, proxy[o] # None PROVE proxy[o] \in 0..value[o]
    OBVIOUS
  <2>1. proxy[o] \in Nat /\ value[o] \in Nat
    BY <1>0 DEF Types, ViewTypes, StateTypes
  <2>2. proxy[o] \in Kept(proxy, monitored, o)
    BY DEF Kept
  <2>3. proxy[o] <= value[o]
    BY <1>0, <2>2, OrderBounds
  <2> QED
    BY <2>1, <2>3
<1>3. value \in [Objects -> 0..MaxCommits]
  <2>1. /\ value \in [Objects -> Nat] /\ commits \in Nat /\ commits <= MaxCommits
        /\ \A o \in Objects : value[o] <= commits
    BY <1>0 DEF Types, StateTypes
  <2>2. ASSUME NEW o \in Objects PROVE value[o] \in 0..MaxCommits
    <3>1. value[o] \in Nat /\ value[o] <= commits
      BY <2>1
    <3> QED
      BY <2>1, <3>1, BoundsAreNaturals DEF BoundsAreNaturals
  <2> QED
    BY <2>1, <2>2
<1>4. /\ {known, ready, typed, publisherKnows, publisherReady} \subseteq BOOLEAN
      /\ pendingStarts \in Seq(providers) /\ (ready => pendingStarts = <<>>)
      /\ IF known THEN managers \subseteq providers ELSE providers = {}
      /\ pendingAdditions \subseteq Interests \X Objects
      /\ typed => pendingAdditions = {}
  BY <1>0 DEF Types, HandshakeTypes, ArrivalTypes, Handshake
<1>5. /\ expired \union knownLocal \union linked \union changed \subseteq Objects
      /\ again \subseteq appeared /\ appeared \subseteq Objects
      /\ managers \union providers \union started \union toEvaluate \subseteq Interests
      /\ drained \subseteq managers
      /\ phase \in {"idle", "committed", "evaluate"}
  BY <1>0 DEF Types, ArrivalTypes, ViewTypes, OfferTypes, StateTypes
<1>6. {current, shown, dying, offered, matching} \subseteq [Interests -> SUBSET Objects]
  BY <1>0 DEF Types, ArrivalTypes, ViewTypes, OfferTypes, StateTypes
<1>7. \A o \in Objects : (proxy[o] # None) <=> Holds(shown, dying, o)
  BY <1>0 DEF Types, ViewTypes
<1> QED
  BY <1>1, <1>2, <1>3, <1>4, <1>5, <1>6, <1>7 DEF TypeOK

(* When all is settled the handshake is over and both sides have the same interests. *)
LEMMA ExchangeAgrees ==
    Exchange /\ Settled => ready /\ started = providers /\ managers \subseteq started
<1> SUFFICES ASSUME Exchange, Settled PROVE ready /\ started = providers /\ managers \subseteq started
  OBVIOUS
<1>1. known /\ publisherKnows /\ toPublisher = <<>> /\ toConsumer = <<>>
  BY DEF Settled
<1>2. \A k \in 1..Len(<<>>) : FALSE
  OBVIOUS
<1>3. \A m : ~Has(toPublisher, m) /\ ~Has(toConsumer, m)
  BY <1>1, <1>2 DEF Has
<1>4. ready
  BY <1>1, <1>3 DEF Exchange, Handshake
<1>5. providers \subseteq Interests /\ started \subseteq providers /\ managers \subseteq providers
  BY <1>1 DEF Exchange, Types, ArrivalTypes, HandshakeTypes, Agreement
<1>6. \A i \in providers : i \in started
  BY <1>3, <1>4, <1>5 DEF Exchange, Agreement
<1> QED
  BY <1>4, <1>5, <1>6

(* The records of both sides are consistent at any moment, for any number of interests: what   *)
(* waits for its class is told apart from what is known, a proxy exists exactly as long as a   *)
(* manager holds it (getOrCreateProxy, proxyAboutToBeDeleted) and never holds a state the      *)
(* object has not had, and only a provider (which outlives its manager) keeps objects or waits *)
(* to be started.                                                                              *)
THEOREM RemoteTypes == Spec => []TypeOK
<1>1. Init => Exchange
  BY InitExchange
<1>2. Exchange /\ [Next]_vars => Exchange'
  BY NextExchange
<1>3. Exchange => TypeOK
  BY ExchangeTypes
<1> QED
  BY <1>1, <1>2, <1>3, PTL DEF Spec

(* An interest is never lost: however the handshake, the starts that waited for it and later   *)
(* ones (pendingInterestStartedMessages_, localInterestStarted) are interleaved with            *)
(* subscriptions and unsubscriptions, once all is settled the publisher has started exactly the *)
(* interests with a provider, among them every one the consumer holds.                          *)
THEOREM InterestsAgree ==
    Spec => [](Settled => ready /\ started = providers /\ managers \subseteq started)
<1>1. Init => Exchange
  BY InitExchange
<1>2. Exchange /\ [Next]_vars => Exchange'
  BY NextExchange
<1>3. Exchange => (Settled => ready /\ started = providers /\ managers \subseteq started)
  BY ExchangeAgrees
<1> QED
  BY <1>1, <1>2, <1>3, PTL DEF Spec

----------------------------------------------------------------------------
(* Ghosts.  What the actions of a manager will have done to an object: it is shown in the end. *)
Wanted(q, S, o) == Adds(q, Len(q), o) \/ (o \in S /\ Clean(q, Len(q), o))

(* More actions are queued: who adds last, and who removes. *)
LEMMA QueueConcat ==
    ASSUME NEW q \in Seq(Actions), NEW t \in Seq(Actions), NEW o
    PROVE  /\ Clean(q \o t, Len(q \o t), o) => Clean(q, Len(q), o) /\ Clean(t, Len(t), o)
           /\ Adds(q \o t, Len(q \o t), o) =>
                (Adds(q, Len(q), o) /\ Clean(t, Len(t), o)) \/ Has(t, <<"add", o>>)
<1>1. ASSUME Clean(q \o t, Len(q \o t), o) PROVE Clean(q, Len(q), o) /\ Clean(t, Len(t), o)
  <2>1. \A k \in 1..Len(q) : k \in 1..Len(q \o t) /\ (q \o t)[k] = q[k]
    BY Concat
  <2>2. \A k \in 1..Len(t) : Len(q) + k \in 1..Len(q \o t) /\ (q \o t)[Len(q) + k] = t[k]
    BY Concat
  <2> QED
    BY <1>1, <2>1, <2>2 DEF Clean
<1>2. ASSUME Adds(q \o t, Len(q \o t), o), ~Has(t, <<"add", o>>)
      PROVE  Adds(q, Len(q), o) /\ Clean(t, Len(t), o)
  <2>1. PICK k \in 1..Len(q \o t) :
          (q \o t)[k] = <<"add", o>> /\ \A p \in (k + 1)..Len(q \o t) : (q \o t)[p] # <<"remove", o>>
    BY <1>2 DEF Adds
  <2>2. Len(q) \in Nat /\ Len(t) \in Nat /\ Len(q \o t) = Len(q) + Len(t) /\ k \in Nat
    BY Concat
  <2>3. k \in 1..Len(q) /\ q[k] = <<"add", o>>
    <3>1. \/ k \in 1..Len(q) /\ (q \o t)[k] = q[k]
          \/ k > Len(q) /\ k - Len(q) \in 1..Len(t) /\ (q \o t)[k] = t[k - Len(q)]
      BY Concat
    <3> QED
      BY <1>2, <2>1, <3>1 DEF Has
  <2>4. \A p \in (k + 1)..Len(q) : p \in (k + 1)..Len(q \o t) /\ (q \o t)[p] = q[p]
    BY <2>2, <2>3, Concat
  <2>5. Adds(q, Len(q), o)
    BY <2>1, <2>3, <2>4 DEF Adds
  <2>6. ASSUME NEW p \in 1..Len(t) PROVE t[p] # <<"remove", o>>
    <3>1. (q \o t)[Len(q) + p] = t[p]
      BY Concat
    <3>2. Len(q) + p \in (k + 1)..Len(q \o t)
      BY <2>2, <2>3
    <3> QED
      BY <2>1, <3>1, <3>2
  <2> QED
    BY <2>5, <2>6 DEF Clean
<1> QED
  BY <1>1, <1>2

(* No actions. *)
LEMMA QueueEmpty ==
    ASSUME NEW q, q = <<>>, NEW o
    PROVE  Clean(q, Len(q), o) /\ ~Adds(q, Len(q), o)
<1>1. Len(q) = 0
  OBVIOUS
<1>2. \A k \in 1..Len(q) : FALSE
  BY <1>1
<1> QED
  BY <1>2 DEF Clean, Adds

(* The publisher offers the object, or a message after the k-th takes it back. *)
Covered(k, o) == (\E j \in Interests : o \in offered[j]) \/ Later(toConsumer, k, Takes(o))

(* Only objects that are offered are known; the states that were served are of such objects; *)
(* and so are those that a view will hold or its provider has.                                *)
KnownOffered == \A o \in knownLocal : \E j \in Interests : o \in offered[j]

ServedOffered ==
    \A k \in 1..Len(toConsumer) : toConsumer[k].kind = "response" =>
        \A o \in DOMAIN toConsumer[k].states : Covered(k, o)

(* What a view will hold, unless a removal was met while the manager was made. *)
Pledged(i, o) == (~crossed /\ Wanted(actions[i], shown[i], o)) \/ o \in current[i]

ViewsOffered == \A i \in Interests, o \in Objects : Pledged(i, o) => Covered(0, o)

NoGhostsComing == KnownOffered /\ ServedOffered /\ ViewsOffered

(* It holds at the beginning. *)
LEMMA InitGhosts == Init => NoGhostsComing
<1> SUFFICES ASSUME Init PROVE NoGhostsComing
  OBVIOUS
<1>1. KnownOffered
  BY DEF Init, KnownOffered
<1>2. \A k \in 1..Len(<<>>) : FALSE
  OBVIOUS
<1>3. ServedOffered
  BY <1>2 DEF Init, ServedOffered
<1>4. ASSUME NEW i \in Interests, NEW o \in Objects
      PROVE  ~Pledged(i, o)
  <2>1. actions[i] = <<>> /\ shown[i] = {} /\ current[i] = {}
    BY DEF Init
  <2> QED
    BY <2>1, QueueEmpty DEF Wanted, Pledged
<1> QED
  BY <1>1, <1>3, <1>4 DEF NoGhostsComing, ViewsOffered

(* What the publisher sends: it takes back what it no longer offers. *)
LEMMA CoveredSends ==
    ASSUME Types, NEW t \in Seq(ConsumerMessages), toConsumer' = toConsumer \o t,
           \A o \in Objects : (\E j \in Interests : o \in offered[j]) =>
             (\E j \in Interests : o \in offered'[j]) \/ Later(t, 0, Takes(o)),
           NEW k \in 0..Len(toConsumer), NEW o \in Objects, Covered(k, o)
    PROVE  Covered(k, o)'
<1>1. PICK s \in Seq(ConsumerMessages) : s = toConsumer
  BY DEF Types, NetTypes
<1>2. Later(s, k, Takes(o)) \/ Later(t, 0, Takes(o)) => Later(s \o t, k, Takes(o))
  BY <1>1, LaterConcat
<1> QED
  BY <1>1, <1>2 DEF Covered

(* The publisher sends, and the consumer does nothing. *)
LEMMA GhostsSend ==
    ASSUME Types, NoGhostsComing, NEW t \in Seq(ConsumerMessages), toConsumer' = toConsumer \o t,
           UNCHANGED <<actions, shown, current, crossed>>, KnownOffered',
           \A o \in Objects : (\E j \in Interests : o \in offered[j]) =>
             (\E j \in Interests : o \in offered'[j]) \/ Later(t, 0, Takes(o)),
           \A k \in 1..Len(t) : t[k].kind = "response" =>
             \A o \in DOMAIN t[k].states : \E j \in Interests : o \in offered'[j]
    PROVE  NoGhostsComing'
<1>1. PICK s \in Seq(ConsumerMessages) : s = toConsumer
  BY DEF Types, NetTypes
<1>2. ASSUME NEW k \in 1..Len(s \o t), (s \o t)[k].kind = "response",
             NEW o \in DOMAIN (s \o t)[k].states
      PROVE  Covered(k, o)'
  <2>1. CASE k \in 1..Len(s) /\ (s \o t)[k] = s[k]
    <3>1. s[k] \in ConsumerMessages /\ s[k].kind = "response" /\ o \in DOMAIN s[k].states
      BY <1>2, <2>1
    <3>2. o \in Objects
      BY <3>1, ConsumerParts
    <3>3. Covered(k, o)
      BY <1>1, <2>1, <3>1 DEF NoGhostsComing, ServedOffered
    <3>4. k \in 0..Len(toConsumer)
      BY <1>1, <2>1
    <3> QED
      BY <3>2, <3>3, <3>4, CoveredSends
  <2>2. CASE k - Len(s) \in 1..Len(t) /\ (s \o t)[k] = t[k - Len(s)]
    <3>1. \E j \in Interests : o \in offered'[j]
      BY <1>2, <2>2
    <3> QED
      BY <3>1 DEF Covered
  <2> QED
    BY <2>1, <2>2, Concat
<1>3. ServedOffered'
  BY <1>1, <1>2 DEF ServedOffered
<1>4. ViewsOffered'
  <2>1. 0 \in 0..Len(toConsumer)
    BY <1>1
  <2>2. \A o \in Objects : Covered(0, o) => Covered(0, o)'
    BY <2>1, CoveredSends
  <2>3. \A i \in Interests, o \in Objects : Pledged(i, o)' => Pledged(i, o)
    BY DEF Pledged
  <2> QED
    BY <2>2, <2>3 DEF NoGhostsComing, ViewsOffered
<1> QED
  BY <1>3, <1>4 DEF NoGhostsComing

(* The filter evaluates an interest. *)
LEMMA EvaluateGhosts ==
    ASSUME Types, NoGhostsComing, NEW i \in Interests, Evaluate(i)
    PROVE  NoGhostsComing'
<1>1. /\ toConsumer' = toConsumer \o Changes(i) /\ offered' = [offered EXCEPT ![i] = matching[i]]
      /\ knownLocal' = (knownLocal \union (matching[i] \ offered[i])) \ (offered[i] \ matching[i])
      /\ UNCHANGED <<actions, shown, current, crossed>>
  BY DEF Evaluate, Changes, ToConsumer, viewVars, arrivalVars
<1>2. /\ offered \in [Interests -> SUBSET Objects]
  BY DEF Types, OfferTypes
<1>3. offered'[i] = matching[i] /\ \A j \in Interests \ {i} : offered'[j] = offered[j]
  BY <1>1, <1>2
<1>4. PICK t \in Seq(ConsumerMessages) : t = Changes(i)
  BY ChangesAre
<1>5. /\ \A k \in 1..Len(t) : t[k].kind \in {"published", "removed"}
      /\ \A o \in offered[i] \ matching[i] : Later(t, 0, Takes(o))
  BY <1>4, ChangesAre
<1>6. ASSUME NEW o \in Objects, NEW j \in Interests, o \in offered[j]
      PROVE  (\E x \in Interests : o \in offered'[x]) \/ Later(t, 0, Takes(o))
  BY <1>3, <1>5, <1>6
<1>7. KnownOffered'
  <2> SUFFICES ASSUME NEW o \in knownLocal' PROVE \E j \in Interests : o \in offered'[j]
    BY DEF KnownOffered
  <2>1. CASE o \in matching[i]
    BY <1>3, <2>1
  <2>2. CASE o \notin matching[i]
    <3>1. o \in knownLocal /\ o \notin offered[i]
      BY <1>1, <2>2
    <3>2. PICK j \in Interests : o \in offered[j]
      BY <3>1 DEF NoGhostsComing, KnownOffered
    <3> QED
      BY <1>3, <3>1, <3>2
  <2> QED
    BY <2>1, <2>2
<1> QED
  BY <1>1, <1>4, <1>5, <1>6, <1>7, GhostsSend

(* The publisher sends without changing what it offers. *)
LEMMA GhostsTell ==
    ASSUME Types, NoGhostsComing, NEW t \in Seq(ConsumerMessages), toConsumer' = toConsumer \o t,
           UNCHANGED <<actions, shown, current, crossed, offered, knownLocal>>,
           \A k \in 1..Len(t) : t[k].kind = "response" => DOMAIN t[k].states \subseteq knownLocal
    PROVE  NoGhostsComing'
<1>1. KnownOffered /\ KnownOffered'
  BY DEF NoGhostsComing, KnownOffered
<1>2. \A o \in Objects : (\E j \in Interests : o \in offered[j]) =>
             (\E j \in Interests : o \in offered'[j]) \/ Later(t, 0, Takes(o))
  OBVIOUS
<1>3. \A k \in 1..Len(t) : t[k].kind = "response" =>
             \A o \in DOMAIN t[k].states : \E j \in Interests : o \in offered'[j]
  BY <1>1 DEF KnownOffered
<1> QED
  BY <1>1, <1>2, <1>3, GhostsSend

(* One message. *)
LEMMA GhostsTellOne ==
    ASSUME Types, NoGhostsComing, NEW x \in ConsumerMessages, toConsumer' = toConsumer \o <<x>>,
           UNCHANGED <<actions, shown, current, crossed, offered, knownLocal>>,
           x.kind = "response" => DOMAIN x.states \subseteq knownLocal
    PROVE  NoGhostsComing'
<1>1. PICK t : t = <<x>>
  OBVIOUS
<1>2. t \in Seq(ConsumerMessages) /\ Len(t) = 1 /\ t[1] = x
  BY <1>1
<1>3. \A k \in 1..Len(t) : t[k].kind = "response" => DOMAIN t[k].states \subseteq knownLocal
  BY <1>2
<1> QED
  BY <1>1, <1>2, <1>3, GhostsTell

(* A step that is about something else. *)
LEMMA GhostsStay ==
    ASSUME NoGhostsComing, UNCHANGED <<toConsumer, actions, shown, current, crossed, offered, knownLocal>>
    PROVE  NoGhostsComing'
<1>1. \A k, o : Covered(k, o)' <=> Covered(k, o)
  BY DEF Covered
<1> QED
  BY <1>1 DEF NoGhostsComing, KnownOffered, ServedOffered, ViewsOffered, Pledged

(* Whatever the publisher receives. *)
LEMMA PublisherReceivesGhosts ==
    Types /\ NoGhostsComing /\ PublisherReceives => NoGhostsComing'
<1> SUFFICES ASSUME Types, NoGhostsComing, PublisherReceives PROVE NoGhostsComing'
  OBVIOUS
<1>1. /\ toPublisher # <<>> /\ UNCHANGED <<actions, shown, current, crossed>>
  BY DEF PublisherReceives, viewVars, arrivalVars
<1>0. toConsumer \in Seq(ConsumerMessages) /\ offered \in [Interests -> SUBSET Objects]
      /\ matching \in [Interests -> SUBSET Objects]
  BY DEF Types, NetTypes, OfferTypes, StateTypes
<1>2. PICK m \in PublisherMessages : m = Head(toPublisher)
  BY <1>1, TailOf DEF Types, NetTypes
<1>3. \/ ~publisherKnows /\ UNCHANGED <<publisherReady, offerVars, toConsumer>>
      \/ publisherKnows /\ m.kind = "ready" /\ PublisherReadyReceived
      \/ publisherKnows /\ m.kind = "started" /\ StartReceived(m.interest)
      \/ publisherKnows /\ m.kind = "request" /\ RequestReceived(m)
      \/ publisherKnows /\ m.kind = "types?" /\ TypesRequestReceived
      \/ publisherKnows /\ m.kind = "timeout" /\ RejectionReceived(m.object)
  BY <1>2 DEF PublisherReceives
<1>4. CASE UNCHANGED <<publisherReady, offerVars, toConsumer>>
  BY <1>1, <1>4, GhostsStay DEF offerVars
<1>5. CASE PublisherReadyReceived
  <2>1. UNCHANGED <<offered, knownLocal>>
    BY <1>5 DEF PublisherReadyReceived, offerVars
  <2>2. CASE publisherReady
    <3>1. toConsumer' = toConsumer
      BY <1>0, <1>5, <2>2 DEF PublisherReadyReceived, ToConsumer
    <3> QED
      BY <1>1, <2>1, <3>1, GhostsStay
  <2>3. CASE ~publisherReady
    <3>1. toConsumer' = toConsumer \o <<Ready>>
      BY <1>5, <2>3 DEF PublisherReadyReceived, ToConsumer
    <3> QED
      BY <1>1, <2>1, <3>1, GhostsTellOne, ConsumerTold, ConsumerKinds
  <2> QED
    BY <2>2, <2>3
<1>6. CASE m.kind = "started" /\ StartReceived(m.interest) /\ m.interest \in started
  BY <1>1, <1>6, GhostsStay DEF StartReceived, offerVars
<1>7. CASE m.kind = "started" /\ StartReceived(m.interest) /\ m.interest \notin started
  <2>1. PICK i \in Interests : i = m.interest /\ m = Started(i)
    BY <1>7, PublisherParts
  <2>2. PICK S : S = matching[i]
    OBVIOUS
  <2>3. /\ toConsumer' = toConsumer \o Notice(Published, i, S) /\ S \subseteq Objects
        /\ offered' = [offered EXCEPT ![i] = S] /\ knownLocal' = knownLocal \union S
    BY <1>0, <1>7, <2>1, <2>2 DEF StartReceived, ToConsumer
  <2>4. offered[i] = {}
    BY <1>7, <2>1 DEF Types, OfferTypes
  <2>5. offered'[i] = S /\ \A j \in Interests \ {i} : offered'[j] = offered[j]
    BY <1>0, <2>3
  <2>6. PICK t \in Seq(ConsumerMessages) : t = Notice(Published, i, S)
    BY <2>3, NoticeIs
  <2>7. \A k \in 1..Len(t) : t[k].kind = "published"
    BY <2>3, <2>6, NoticeIs
  <2>8. KnownOffered'
    BY <2>3, <2>4, <2>5 DEF NoGhostsComing, KnownOffered
  <2>9. \A o \in Objects : (\E j \in Interests : o \in offered[j]) =>
             (\E j \in Interests : o \in offered'[j]) \/ Later(t, 0, Takes(o))
    BY <2>4, <2>5
  <2> QED
    BY <1>1, <2>3, <2>6, <2>7, <2>8, <2>9, GhostsSend
<1>8. CASE m.kind = "request" /\ RequestReceived(m)
  <2>1. m.interest \in Interests /\ m.objects \subseteq Objects
    BY <1>8, PublisherParts
  <2>2. PICK st : st = [o \in Answered(m) |-> value[o]]
    OBVIOUS
  <2>3. PICK x \in ConsumerMessages : x = StateResponse(m.interest, st)
    BY <2>1, <2>2, AnswerIs
  <2>4. x.states = st /\ DOMAIN st \subseteq knownLocal
    BY <2>2, <2>3, ConsumerKinds DEF Answered
  <2>5. toConsumer' = toConsumer \o <<x>> /\ UNCHANGED <<offered, knownLocal>>
    BY <1>8, <2>2, <2>3 DEF RequestReceived, ToConsumer, offerVars
  <2> QED
    BY <1>1, <2>4, <2>5, GhostsTellOne
<1>9. CASE TypesRequestReceived
  <2>1. toConsumer' = toConsumer \o <<TypesResponse>> /\ UNCHANGED <<offered, knownLocal>>
    BY <1>9 DEF TypesRequestReceived, ToConsumer, offerVars
  <2> QED
    BY <1>1, <2>1, GhostsTellOne, ConsumerTold, ConsumerKinds
<1>10. CASE RejectionReceived(m.object)
  BY <1>1, <1>10, GhostsStay DEF RejectionReceived
<1> QED
  BY <1>3, <1>4, <1>5, <1>6, <1>7, <1>8, <1>9, <1>10

(* The consumer receives a message: what was covered is, unless the message took it back. *)
LEMMA CoveredReceives ==
    ASSUME Types, NoGhostsComing, toConsumer # <<>>, toConsumer' = Tail(toConsumer),
           UNCHANGED <<offered, knownLocal>>
    PROVE  /\ KnownOffered' /\ ServedOffered'
           /\ \A o \in Objects : Covered(0, o) /\ Head(toConsumer) \notin Takes(o) => Covered(0, o)'
           /\ Head(toConsumer).kind = "response" =>
                \A o \in DOMAIN Head(toConsumer).states : Covered(0, o)'
<1>1. PICK s \in Seq(ConsumerMessages) : s = toConsumer
  BY DEF Types, NetTypes
<1>2. KnownOffered'
  BY DEF NoGhostsComing, KnownOffered
<1>3. ASSUME NEW k \in Nat, NEW o, Covered(k + 1, o) PROVE Covered(k, o)'
  <2>1. Later(s, k + 1, Takes(o)) => Later(Tail(s), k, Takes(o))
    BY <1>1, LaterTail
  <2> QED
    BY <1>1, <1>3, <2>1 DEF Covered
<1>4. ServedOffered'
  <2> SUFFICES ASSUME NEW k \in 1..Len(Tail(s)), Tail(s)[k].kind = "response",
                      NEW o \in DOMAIN Tail(s)[k].states
               PROVE  Covered(k, o)'
    BY <1>1 DEF ServedOffered
  <2>1. k + 1 \in 1..Len(s) /\ Tail(s)[k] = s[k + 1]
    BY <1>1, TailOf
  <2>2. Covered(k + 1, o)
    BY <1>1, <2>1 DEF NoGhostsComing, ServedOffered
  <2> QED
    BY <1>3, <2>2
<1>5. ASSUME NEW o \in Objects, Covered(0, o), Head(toConsumer) \notin Takes(o)
      PROVE  Covered(0, o)'
  <2>1. Later(s, 0, Takes(o)) => Head(s) \in Takes(o) \/ Later(Tail(s), 0, Takes(o))
    BY <1>1, LaterTail
  <2> QED
    BY <1>1, <1>5, <2>1 DEF Covered
<1>6. ASSUME Head(toConsumer).kind = "response", NEW o \in DOMAIN Head(toConsumer).states
      PROVE  Covered(0, o)'
  <2>1. 1 \in 1..Len(s) /\ Head(s) = s[1]
    BY <1>1, TailOf
  <2>2. Covered(0 + 1, o)
    BY <1>1, <1>6, <2>1 DEF NoGhostsComing, ServedOffered
  <2> QED
    BY <1>3, <2>2
<1> QED
  BY <1>2, <1>4, <1>5, <1>6

(* A message that takes nothing back and brings no state. *)
LEMMA GhostsIgnore ==
    ASSUME Types, NoGhostsComing, toConsumer # <<>>, toConsumer' = Tail(toConsumer),
           UNCHANGED <<offered, knownLocal, actions, shown, current, crossed>>,
           Head(toConsumer).kind # "removed"
    PROVE  NoGhostsComing'
<1>1. \A o : Head(toConsumer) \notin Takes(o)
  BY DEF Takes
<1>2. KnownOffered' /\ ServedOffered' /\ \A o \in Objects : Covered(0, o) => Covered(0, o)'
  BY <1>1, CoveredReceives
<1>3. ViewsOffered'
  BY <1>2 DEF NoGhostsComing, ViewsOffered, Pledged
<1> QED
  BY <1>2, <1>3 DEF NoGhostsComing

(* Objects are taken back.  With one interest they are taken from where they are. *)
LEMMA RemovedGhosts ==
    ASSUME Types, NoGhostsComing, toConsumer # <<>>, toConsumer' = Tail(toConsumer),
           UNCHANGED <<offered, knownLocal>>, \A i, j \in Interests : i = j,
           NEW m \in ConsumerMessages, m = Head(toConsumer), m.kind = "removed", RemovedReceived(m)
    PROVE  NoGhostsComing'
<1>0. PICK i \in Interests : i = m.interest
  BY ConsumerParts
<1>1. PICK S : S = m.objects
  OBVIOUS
<1>2. S \subseteq Objects
  BY <1>1, ConsumerParts
<1>3. /\ KnownOffered' /\ ServedOffered'
      /\ \A o \in Objects : Covered(0, o) /\ o \notin S => Covered(0, o)'
  <2>1. \A o : o \notin S => m \notin Takes(o)
    BY <1>1 DEF Takes
  <2> QED
    BY <2>1, CoveredReceives
<1>4. PICK q \in Seq(Actions) : q = actions[i]
  BY DEF Types, ViewTypes
<1>5. PICK t \in Seq(Actions) : t = Each("remove", S)
  BY <1>2, EachIs
<1>6. /\ \A k \in 1..Len(t) : \E o \in S : t[k] = <<"remove", o>>
      /\ \A o \in S : Has(t, <<"remove", o>>)
  BY <1>2, <1>5, EachIs
<1>7. /\ current \in [Interests -> SUBSET Objects] /\ actions \in [Interests -> Seq(Actions)]
  BY DEF Types, ArrivalTypes, ViewTypes
<1>8. /\ current' = [current EXCEPT ![i] = @ \ S] /\ actions' = Queued(i, t)
      /\ UNCHANGED <<shown, crossed>>
  BY <1>0, <1>1, <1>5, EachQueued DEF RemovedReceived, Forgets
<1>9. /\ current'[i] = current[i] \ S
      /\ i \in managers => actions'[i] = q \o t
      /\ i \notin managers => actions'[i] = <<>> /\ shown[i] = {}
  <2>1. /\ i \in managers => Queued(i, t)[i] = actions[i] \o t
        /\ i \notin managers => Queued(i, t)[i] = actions[i]
    BY QueuedHere
  <2> QED
    BY <1>4, <1>7, <1>8, <2>1 DEF Types, ViewTypes
<1>10. ASSUME NEW o \in Objects, Wanted(actions'[i], shown[i], o)
       PROVE  Wanted(q, shown[i], o) /\ o \notin S
  <2>0. i \in managers /\ Wanted(q \o t, shown[i], o)
    BY <1>9, <1>10, QueueEmpty DEF Wanted
  <2>1. ~Has(t, <<"add", o>>)
    BY <1>6 DEF Has
  <2>2. (Adds(q, Len(q), o) \/ (o \in shown[i] /\ Clean(q, Len(q), o))) /\ Clean(t, Len(t), o)
    BY <2>0, <2>1, QueueConcat DEF Wanted
  <2>3. o \notin S
    BY <1>6, <2>2 DEF Clean, Has
  <2> QED
    BY <2>2, <2>3 DEF Wanted
<1>11. ASSUME NEW j \in Interests, NEW o \in Objects, Pledged(j, o)' PROVE Covered(0, o)'
  <2>1. j = i
    OBVIOUS
  <2>2. (~crossed /\ Wanted(actions'[i], shown[i], o)) \/ o \in current'[i]
    BY <1>8, <1>11, <2>1 DEF Pledged
  <2>3. Pledged(i, o) /\ o \notin S
    BY <1>4, <1>9, <1>10, <2>2 DEF Pledged
  <2>4. Covered(0, o)
    BY <2>3 DEF NoGhostsComing, ViewsOffered
  <2> QED
    BY <1>3, <2>3, <2>4
<1>12. ViewsOffered'
  BY <1>11 DEF ViewsOffered
<1> QED
  BY <1>3, <1>12 DEF NoGhostsComing

(* A state arrives: the objects it is about are offered, or will be taken back. *)
LEMMA ResponseGhosts ==
    ASSUME Types, NoGhostsComing, toConsumer # <<>>, toConsumer' = Tail(toConsumer),
           UNCHANGED <<offered, knownLocal>>,
           NEW m \in ConsumerMessages, m = Head(toConsumer), m.kind = "response", ResponseReceived(m)
    PROVE  NoGhostsComing'
<1>0. PICK i \in Interests : i = m.interest
  BY ConsumerParts
<1>1. PICK A : A = Additions(m)
  OBVIOUS
<1>2. A \subseteq DOMAIN m.states /\ A \subseteq Objects
  BY <1>1, ConsumerParts DEF Additions
<1>3. /\ KnownOffered' /\ ServedOffered'
      /\ \A o \in Objects : Covered(0, o) => Covered(0, o)'
      /\ \A o \in A : Covered(0, o)'
  <2>1. \A o : m \notin Takes(o)
    BY DEF Takes
  <2> QED
    BY <1>2, <2>1, CoveredReceives
<1>4. PICK q \in Seq(Actions) : q = actions[i]
  BY DEF Types, ViewTypes
<1>5. PICK t \in Seq(Actions) : t = Each("add", A \ current[i])
  BY <1>2, EachIs
<1>6. \A k \in 1..Len(t) : \E o \in A \ current[i] : t[k] = <<"add", o>>
  BY <1>2, <1>5, EachIs
<1>7. /\ current \in [Interests -> SUBSET Objects] /\ actions \in [Interests -> Seq(Actions)]
  BY DEF Types, ArrivalTypes, ViewTypes
<1>8. /\ current' = [current EXCEPT ![i] = IF i \in providers THEN @ \union A ELSE @]
      /\ actions' = Queued(i, t) /\ UNCHANGED <<shown, crossed>>
  BY <1>0, <1>1, <1>5, EachQueued DEF ResponseReceived, Additions
<1>9. /\ current'[i] \subseteq current[i] \union A
      /\ actions'[i] = q \o t \/ actions'[i] = q
      /\ \A j \in Interests \ {i} : current'[j] = current[j] /\ actions'[j] = actions[j]
  <2>1. /\ i \in managers => Queued(i, t)[i] = actions[i] \o t
        /\ i \notin managers => Queued(i, t)[i] = actions[i]
        /\ \A j \in Interests \ {i} : Queued(i, t)[j] = actions[j]
    BY QueuedIs
  <2> QED
    BY <1>4, <1>7, <1>8, <2>1
<1>10. ASSUME NEW o \in Objects, Wanted(actions'[i], shown[i], o) PROVE Wanted(q, shown[i], o) \/ o \in A
  <2>1. Has(t, <<"add", o>>) => o \in A
    BY <1>6 DEF Has
  <2>2. Wanted(q \o t, shown[i], o) => Wanted(q, shown[i], o) \/ o \in A
    BY <2>1, QueueConcat DEF Wanted
  <2> QED
    BY <1>9, <1>10, <2>2
<1>11. ASSUME NEW j \in Interests, NEW o \in Objects, Pledged(j, o)' PROVE Covered(0, o)'
  <2>1. (~crossed /\ Wanted(actions'[j], shown[j], o)) \/ o \in current'[j]
    BY <1>8, <1>11 DEF Pledged
  <2>2. Pledged(j, o) \/ o \in A
    BY <1>4, <1>9, <1>10, <2>1 DEF Pledged
  <2>3. Covered(0, o) \/ o \in A
    BY <2>2 DEF NoGhostsComing, ViewsOffered
  <2> QED
    BY <1>3, <2>3
<1>12. ViewsOffered'
  BY <1>11 DEF ViewsOffered
<1> QED
  BY <1>3, <1>12 DEF NoGhostsComing

(* Whatever the consumer receives. *)
LEMMA ConsumerReceivesGhosts ==
    ASSUME Types, Handshake, NoGhostsComing, ConsumerReceives, \A i, j \in Interests : i = j
    PROVE  NoGhostsComing'
<1>0. toConsumer \in Seq(ConsumerMessages)
  BY DEF Types, NetTypes
<1>1. /\ toConsumer # <<>> /\ toConsumer' = Tail(toConsumer) /\ UNCHANGED <<offered, knownLocal>>
  BY DEF ConsumerReceives, offerVars
<1>2. PICK m \in ConsumerMessages : m = Head(toConsumer)
  BY <1>0, <1>1, TailOf
<1>3. \/ ~known /\ UNCHANGED <<handshakeVars, arrivalVars, viewVars, toPublisher>>
      \/ known /\ m.kind = "ready" /\ ReadyReceived
      \/ known /\ m.kind = "published" /\ PublishedReceived(m)
      \/ known /\ m.kind = "types" /\ TypesReceived
      \/ known /\ m.kind = "removed" /\ RemovedReceived(m)
      \/ known /\ m.kind = "response" /\ ResponseReceived(m)
      \/ known /\ m.kind = "update" /\ UpdateReceived(m)
  BY <1>2 DEF ConsumerReceives
<1>4. ASSUME m.kind # "removed", UNCHANGED <<actions, shown, current, crossed>> PROVE NoGhostsComing'
  BY <1>1, <1>2, <1>4, GhostsIgnore
<1>5. CASE ~known /\ UNCHANGED <<handshakeVars, arrivalVars, viewVars, toPublisher>>
  <2>1. m = Ready
    BY <1>0, <1>1, <1>2, <1>5, TailOf DEF Handshake
  <2>2. m.kind # "removed"
    BY <2>1, ConsumerKinds
  <2> QED
    BY <1>4, <1>5, <2>2 DEF arrivalVars, viewVars
<1>6. CASE m.kind = "ready" /\ ReadyReceived
  BY <1>4, <1>6 DEF ReadyReceived, arrivalVars, viewVars
<1>7. CASE m.kind = "published" /\ PublishedReceived(m)
  BY <1>4, <1>7 DEF PublishedReceived, viewVars
<1>8. CASE m.kind = "types" /\ TypesReceived
  BY <1>4, <1>8 DEF TypesReceived, viewVars
<1>9. CASE m.kind = "removed" /\ RemovedReceived(m)
  BY <1>1, <1>2, <1>9, RemovedGhosts
<1>10. CASE m.kind = "response" /\ ResponseReceived(m)
  BY <1>1, <1>2, <1>10, ResponseGhosts
<1>11. CASE m.kind = "update" /\ UpdateReceived(m)
  BY <1>4, <1>11 DEF UpdateReceived
<1> QED
  BY <1>3, <1>5, <1>6, <1>7, <1>8, <1>9, <1>10, <1>11

(* A manager applies its actions: what it shows then is what it was going to show. *)
LEMMA DrainGhosts ==
    ASSUME Types, Order, NoGhostsComing, NEW i \in Interests, Drain(i)
    PROVE  NoGhostsComing'
<1>1. /\ actions' = [actions EXCEPT ![i] = <<>>]
      /\ UNCHANGED <<toConsumer, current, crossed, offered, knownLocal>>
  BY DEF Drain, network, offerVars
<1>2. PICK b, v : /\ b = Cleared(i) /\ Reached(b, v, actions[i], Len(actions[i]), i)
                  /\ shown' = v.shown
  BY DrainIs, OrderBounds
<1>3. b.shown = shown
  BY <1>2, ClearedIs
<1>4. actions \in [Interests -> Seq(Actions)]
  BY DEF Types, ViewTypes
<1>5. actions'[i] = <<>> /\ \A j \in Interests \ {i} : actions'[j] = actions[j]
  BY <1>1, <1>4
<1>6. ASSUME NEW j \in Interests, NEW o \in Objects, Wanted(actions'[j], shown'[j], o)
      PROVE  Wanted(actions[j], shown[j], o)
  <2>1. CASE j # i
    <3>1. shown'[j] = shown[j]
      BY <1>2, <1>3, <2>1 DEF Reached
    <3> QED
      BY <1>5, <1>6, <2>1, <3>1
  <2>2. CASE j = i
    <3>1. o \in v.shown[i]
      BY <1>2, <1>5, <1>6, <2>2, QueueEmpty DEF Wanted
    <3>2. Origin(b, v, actions[i], Len(actions[i]), i, o)
      BY <1>2 DEF Reached
    <3> QED
      BY <1>3, <2>2, <3>1, <3>2 DEF Origin, Wanted
  <2> QED
    BY <2>1, <2>2
<1>7. \A k, o : Covered(k, o)' <=> Covered(k, o)
  BY <1>1 DEF Covered
<1>8. KnownOffered' /\ ServedOffered'
  BY <1>1, <1>7 DEF NoGhostsComing, KnownOffered, ServedOffered
<1>9. ViewsOffered'
  BY <1>1, <1>6, <1>7 DEF NoGhostsComing, ViewsOffered, Pledged
<1> QED
  BY <1>8, <1>9 DEF NoGhostsComing

(* A manager goes: it wants nothing any more. *)
LEMMA UnsubscribeGhosts ==
    ASSUME Types, NoGhostsComing, NEW i \in Interests, Unsubscribe(i)
    PROVE  NoGhostsComing'
<1>1. UNCHANGED <<toConsumer, current, crossed, offered, knownLocal>>
  BY DEF Unsubscribe, network, offerVars
<1>2. /\ shown'[i] = {} /\ actions'[i] = <<>>
      /\ \A j \in Interests \ {i} : shown'[j] = shown[j] /\ actions'[j] = actions[j]
  BY UnsubscribeIs
<1>3. \A o : ~Wanted(actions'[i], shown'[i], o)
  BY <1>2, QueueEmpty DEF Wanted
<1>4. ASSUME NEW j \in Interests, NEW o \in Objects, Pledged(j, o)' PROVE Pledged(j, o)
  BY <1>1, <1>2, <1>3, <1>4 DEF Pledged
<1>5. \A k, o : Covered(k, o)' <=> Covered(k, o)
  BY <1>1 DEF Covered
<1>6. KnownOffered' /\ ServedOffered'
  BY <1>1, <1>5 DEF NoGhostsComing, KnownOffered, ServedOffered
<1>7. ViewsOffered'
  BY <1>4, <1>5 DEF NoGhostsComing, ViewsOffered
<1> QED
  BY <1>6, <1>7 DEF NoGhostsComing

(* A manager is made: it is told of what its provider has, and that is offered. *)
LEMMA SubscribeGhosts ==
    ASSUME Types, NoGhostsComing, NEW i \in Interests, Subscribe(i)
    PROVE  NoGhostsComing'
<1>1. PICK t \in Seq(Actions) : t = Each("add", current[i])
  BY EachIs DEF Types, ArrivalTypes
<1>2. \A k \in 1..Len(t) : \E o \in current[i] : t[k] = <<"add", o>>
  BY <1>1, EachIs DEF Types, ArrivalTypes
<1>3. /\ actions' = [actions EXCEPT ![i] = t] /\ i \notin managers
      /\ UNCHANGED <<toConsumer, shown, current, crossed, offered, knownLocal>>
  BY <1>1, EachQueued DEF Subscribe, Subscribes, offerVars
<1>4. /\ actions'[i] = t /\ shown[i] = {}
      /\ \A j \in Interests \ {i} : actions'[j] = actions[j]
  BY <1>3 DEF Types, ViewTypes
<1>5. ASSUME NEW o \in Objects, Wanted(t, shown[i], o) PROVE o \in current[i]
  <2>1. Adds(t, Len(t), o)
    BY <1>4, <1>5 DEF Wanted
  <2>2. Has(t, <<"add", o>>)
    BY <2>1 DEF Adds, Has
  <2> QED
    BY <1>2, <2>2 DEF Has
<1>6. \A j \in Interests, o \in Objects : Pledged(j, o)' => Pledged(j, o)
  BY <1>3, <1>4, <1>5 DEF Pledged
<1>7. \A k, o : Covered(k, o)' <=> Covered(k, o)
  BY <1>3 DEF Covered
<1>8. KnownOffered' /\ ServedOffered'
  BY <1>3, <1>7 DEF NoGhostsComing, KnownOffered, ServedOffered
<1>9. ViewsOffered'
  BY <1>6, <1>7 DEF NoGhostsComing, ViewsOffered
<1> QED
  BY <1>8, <1>9 DEF NoGhostsComing

(* A removal is met: the provider forgets the objects, whatever its manager is told. *)
LEMMA MetRemovalGhosts ==
    ASSUME Types, NoGhostsComing, NEW i \in Interests, SubscribeMeetsRemoval(i),
           \A j, k \in Interests : j = k
    PROVE  NoGhostsComing'
<1>1. PICK m \in ConsumerMessages, news \in Seq(Actions) :
        /\ m = Head(toConsumer) /\ m.kind = "removed" /\ m.interest = i
        /\ m.objects \subseteq Objects
        /\ Subscribes(i, news) /\ Forgets(m)
  BY MetRemovalIs
<1>2. /\ toConsumer # <<>> /\ toConsumer' = Tail(toConsumer) /\ crossed' = TRUE
      /\ current' = [current EXCEPT ![i] = @ \ m.objects] /\ UNCHANGED <<offered, knownLocal>>
  BY <1>1 DEF SubscribeMeetsRemoval, Subscribes, Forgets, offerVars
<1>3. /\ KnownOffered' /\ ServedOffered'
      /\ \A o \in Objects : Covered(0, o) /\ o \notin m.objects => Covered(0, o)'
  <2>1. \A o : o \notin m.objects => m \notin Takes(o)
    BY DEF Takes
  <2> QED
    BY <1>1, <1>2, <2>1, CoveredReceives
<1>4. ASSUME NEW j \in Interests, NEW o \in Objects, Pledged(j, o)' PROVE Covered(0, o)'
  <2>1. j = i /\ o \in current'[j]
    BY <1>2, <1>4 DEF Pledged
  <2>2. o \in current[i] /\ o \notin m.objects
    BY <1>2, <2>1 DEF Types, ArrivalTypes
  <2>3. Covered(0, o)
    BY <2>2 DEF NoGhostsComing, ViewsOffered, Pledged
  <2> QED
    BY <1>3, <2>2, <2>3
<1>5. ViewsOffered'
  BY <1>4 DEF ViewsOffered
<1> QED
  BY <1>3, <1>5 DEF NoGhostsComing

(* Every step of a consumer with one interest. *)
LEMMA NextGhosts ==
    ASSUME Exchange, NoGhostsComing, [Next]_vars, \A i, j \in Interests : i = j
    PROVE  NoGhostsComing'
<1>0. Types /\ Order /\ Handshake /\ Agreement
  BY DEF Exchange
<1>1. CASE UNCHANGED vars
  BY <1>1, GhostsStay DEF vars, network, arrivalVars, viewVars, offerVars
<1>2. CASE ConsumerMeets \/ EvaluateBegins
  BY <1>2, GhostsStay DEF ConsumerMeets, EvaluateBegins, network, arrivalVars, viewVars, offerVars
<1>3. ASSUME NEW o \in Objects, TimerFires(o) \/ TimeoutRuns(o) \/ Commit(o) PROVE NoGhostsComing'
  BY <1>3, GhostsStay DEF TimerFires, TimeoutRuns, Commit, network, arrivalVars, viewVars, offerVars
<1>4. ASSUME NEW i \in Interests, Subscribe(i) \/ SubscribeMeetsRemoval(i) PROVE NoGhostsComing'
  BY <1>0, <1>4, SubscribeGhosts, MetRemovalGhosts
<1>5. CASE PublisherMeets
  <2>1. toConsumer' = toConsumer \o <<Ready>>
        /\ UNCHANGED <<actions, shown, current, crossed, offered, knownLocal>>
    BY <1>5 DEF PublisherMeets, ToConsumer, arrivalVars, viewVars, offerVars
  <2> QED
    BY <1>0, <2>1, GhostsTellOne, ConsumerTold, ConsumerKinds
<1>6. CASE SendUpdates
  <2>1. toConsumer' = toConsumer \o Updates
        /\ UNCHANGED <<actions, shown, current, crossed, offered, knownLocal>>
    BY <1>6 DEF SendUpdates, Updates, ToConsumer, arrivalVars, viewVars, offerVars
  <2>2. PICK t \in Seq(ConsumerMessages) : t = Updates
    BY <1>0, UpdatesAre
  <2>3. \A k \in 1..Len(t) : t[k].kind = "update"
    BY <1>0, <2>2, UpdatesAre
  <2> QED
    BY <1>0, <2>1, <2>2, <2>3, GhostsTell
<1> QED
  BY <1>0, <1>1, <1>2, <1>3, <1>4, <1>5, <1>6, ConsumerReceivesGhosts, PublisherReceivesGhosts,
     EvaluateGhosts, DrainGhosts, UnsubscribeGhosts DEF Next

(* When all is settled nothing is shown that is not offered. *)
LEMMA SettledGhosts ==
    ASSUME Exchange, NoGhostsComing, \A i, j \in Interests : i = j
    PROVE  NoGhosts
<1> SUFFICES ASSUME Settled
             PROVE  /\ started = providers /\ managers \subseteq started
                    /\ \A i \in Interests : /\ current[i] \subseteq offered[i]
                                            /\ crossed \/ shown[i] \subseteq offered[i]
  BY DEF NoGhosts
<1>1. started = providers /\ managers \subseteq started
  BY ExchangeAgrees
<1>2. ASSUME NEW i \in Interests, NEW o \in Objects, Pledged(i, o) PROVE o \in offered[i]
  <2>1. Covered(0, o)
    BY <1>2 DEF NoGhostsComing, ViewsOffered
  <2>2. \A k \in 1..Len(toConsumer) : FALSE
    BY DEF Settled
  <2>3. \E j \in Interests : o \in offered[j]
    BY <2>1, <2>2 DEF Covered, Later
  <2> QED
    BY <2>3
<1>3. ASSUME NEW i \in Interests PROVE current[i] \subseteq offered[i]
  <2>1. \A o \in current[i] : o \in Objects /\ Pledged(i, o)
    BY DEF Exchange, Types, ArrivalTypes, Pledged
  <2> QED
    BY <1>2, <2>1
<1>4. ASSUME NEW i \in Interests, ~crossed, NEW o \in shown[i] PROVE o \in offered[i]
  <2>1. o \in Objects /\ actions[i] = <<>>
    BY DEF Exchange, Types, ViewTypes, Settled
  <2>2. Wanted(actions[i], shown[i], o)
    BY <2>1, QueueEmpty DEF Wanted
  <2>3. Pledged(i, o)
    BY <1>4, <2>2 DEF Pledged
  <2> QED
    BY <1>2, <2>1, <2>3
<1> QED
  BY <1>1, <1>3, <1>4

----------------------------------------------------------------------------
(* Populated.  Without a timeout no timer has fired, nothing was rejected, and the updates of *)
(* every object that is offered go to the consumer.                                           *)
Patient == expired = {} /\ \A k \in 1..Len(toPublisher) : toPublisher[k].kind # "timeout"
OffersLinked == \A i \in Interests : offered[i] \subseteq linked
Calm == timeouts = 0 => Patient /\ OffersLinked

(* It holds at the beginning. *)
LEMMA InitCalm == Init => Calm
<1> SUFFICES ASSUME Init PROVE Patient /\ OffersLinked
  BY DEF Calm
<1>1. \A k \in 1..Len(<<>>) : FALSE
  OBVIOUS
<1> QED
  BY <1>1 DEF Init, Patient, OffersLinked

(* Messages to the publisher that reject nothing. *)
LEMMA PatientSends ==
    ASSUME Types, Patient, NEW t \in Seq(PublisherMessages), toPublisher' = toPublisher \o t,
           UNCHANGED expired, \A k \in 1..Len(t) : t[k].kind # "timeout"
    PROVE  Patient'
<1>1. PICK s \in Seq(PublisherMessages) : s = toPublisher
  BY DEF Types, NetTypes
<1>2. \A k \in 1..Len(s \o t) : (s \o t)[k].kind # "timeout"
  BY <1>1, Concat DEF Patient
<1> QED
  BY <1>1, <1>2 DEF Patient

(* One of them. *)
LEMMA PatientSendsOne ==
    ASSUME Types, Patient, NEW x \in PublisherMessages, toPublisher' = toPublisher \o <<x>>,
           UNCHANGED expired, x.kind # "timeout"
    PROVE  Patient'
<1>1. PICK t : t = <<x>>
  OBVIOUS
<1>2. t \in Seq(PublisherMessages) /\ Len(t) = 1 /\ t[1] = x
  BY <1>1
<1>3. \A k \in 1..Len(t) : t[k].kind # "timeout"
  BY <1>2
<1> QED
  BY <1>1, <1>2, <1>3, PatientSends

(* None. *)
LEMMA PatientStays == Patient /\ UNCHANGED <<expired, toPublisher>> => Patient'
BY DEF Patient

(* What the consumer does on a message rejects nothing. *)
LEMMA ConsumerReceivesPatient == Types /\ Patient /\ ConsumerReceives => Patient'
<1> SUFFICES ASSUME Types, Patient, ConsumerReceives PROVE Patient'
  OBVIOUS
<1>0. toConsumer \in Seq(ConsumerMessages) /\ toConsumer # <<>>
  BY DEF Types, NetTypes, ConsumerReceives
<1>2. PICK m \in ConsumerMessages : m = Head(toConsumer)
  BY <1>0, TailOf
<1>3. \/ ~known /\ UNCHANGED <<handshakeVars, arrivalVars, viewVars, toPublisher>>
      \/ known /\ m.kind = "ready" /\ ReadyReceived
      \/ known /\ m.kind = "published" /\ PublishedReceived(m)
      \/ known /\ m.kind = "types" /\ TypesReceived
      \/ known /\ m.kind = "removed" /\ RemovedReceived(m)
      \/ known /\ m.kind = "response" /\ ResponseReceived(m)
      \/ known /\ m.kind = "update" /\ UpdateReceived(m)
  BY <1>2 DEF ConsumerReceives
<1>4. CASE UNCHANGED <<handshakeVars, arrivalVars, viewVars, toPublisher>>
  BY <1>4, PatientStays DEF arrivalVars
<1>5. CASE ReadyReceived
  <2>1. CASE ready
    BY <1>5, <2>1, PatientStays DEF ReadyReceived, arrivalVars
  <2>2. CASE ~ready
    <3>1. toPublisher' = toPublisher \o Greeting /\ UNCHANGED expired
      BY <1>5, <2>2 DEF ReadyReceived, arrivalVars, ToPublisher
    <3>2. PICK t \in Seq(PublisherMessages) : t = Greeting
      BY GreetingIs
    <3>3. \A k \in 1..Len(t) : t[k].kind # "timeout"
      BY <3>2, GreetingIs
    <3> QED
      BY <3>1, <3>2, <3>3, PatientSends
  <2> QED
    BY <2>1, <2>2
<1>6. CASE m.kind = "published" /\ PublishedReceived(m)
  <2>1. m.interest \in Interests /\ m.objects \in SUBSET Objects
    BY <1>6, ConsumerParts
  <2>2. /\ StateRequest(m.interest, m.objects) \in PublisherMessages
        /\ TypesRequest \in PublisherMessages
        /\ StateRequest(m.interest, m.objects).kind = "request" /\ TypesRequest.kind = "types?"
    BY <2>1, PublisherTold, StartsAre
  <2>3. PICK x \in PublisherMessages : x.kind # "timeout" /\ toPublisher' = toPublisher \o <<x>>
    BY <1>6, <2>2 DEF PublishedReceived, ToPublisher
  <2>4. UNCHANGED expired
    BY <1>6 DEF PublishedReceived
  <2> QED
    BY <2>3, <2>4, PatientSendsOne
<1>7. CASE TypesReceived
  <2>1. toPublisher' = toPublisher \o Requests /\ UNCHANGED expired
    BY <1>7 DEF TypesReceived, Requests, ToPublisher
  <2>2. PICK t \in Seq(PublisherMessages) : t = Requests
    BY RequestsAre
  <2>3. \A k \in 1..Len(t) : t[k].kind # "timeout"
    BY <2>2, RequestsAre
  <2> QED
    BY <2>1, <2>2, <2>3, PatientSends
<1>8. CASE RemovedReceived(m) \/ ResponseReceived(m) \/ UpdateReceived(m)
  BY <1>8, PatientStays DEF RemovedReceived, ResponseReceived, UpdateReceived
<1> QED
  BY <1>3, <1>4, <1>5, <1>6, <1>7, <1>8

(* Every step without a timeout. *)
LEMMA NextPatient ==
    ASSUME Types, timeouts = 0 => Patient, [Next]_vars, timeouts' = 0
    PROVE  timeouts = 0 /\ Patient'
<1>0. timeouts \in Nat
  BY DEF Types, NetTypes
<1>1. ASSUME NEW o \in Objects PROVE ~TimerFires(o)
  BY <1>0 DEF TimerFires
<1>2. timeouts = 0
  <2>1. CASE UNCHANGED vars
    BY <2>1 DEF vars, bounds
  <2>2. CASE Next
    BY <1>1, <2>2 DEF Next, ConsumerMeets, ConsumerReceives, TimeoutRuns, Commit, Subscribe,
       SubscribeMeetsRemoval, Subscribes, Unsubscribe, Drain, Evaluate, PublisherMeets, EvaluateBegins, SendUpdates, PublisherReceives,
       bounds
  <2> QED
    BY <2>1, <2>2
<1>3. Patient
  BY <1>2
<1> SUFFICES Patient'
  BY <1>2
<1>4. CASE UNCHANGED vars
  BY <1>3, <1>4, PatientStays DEF vars, network, arrivalVars
<1>5. CASE ConsumerMeets
  <2>1. toPublisher' = toPublisher \o <<Ready>> /\ UNCHANGED expired
    BY <1>5 DEF ConsumerMeets, ToPublisher, arrivalVars
  <2> QED
    BY <1>3, <2>1, PatientSendsOne, PublisherTold, StartsAre
<1>6. ASSUME NEW o \in Objects, TimeoutRuns(o) PROVE FALSE
  BY <1>3, <1>6 DEF Patient, TimeoutRuns
<1>7. ASSUME NEW o \in Objects, Commit(o) PROVE Patient'
  BY <1>3, <1>7, PatientStays DEF Commit, network, arrivalVars
<1>8. ASSUME NEW i \in Interests, Subscribe(i) \/ SubscribeMeetsRemoval(i) PROVE Patient'
  <2>1. UNCHANGED expired /\ (toPublisher' = toPublisher \o <<Started(i)>> \/ UNCHANGED toPublisher)
    BY <1>8 DEF Subscribe, SubscribeMeetsRemoval, Subscribes, ToPublisher
  <2>2. Started(i) \in PublisherMessages /\ Started(i).kind # "timeout"
    BY PublisherTold, StartsAre
  <2> QED
    BY <1>3, <2>1, <2>2, PatientSendsOne, PatientStays
<1>9. ASSUME NEW i \in Interests, Unsubscribe(i) PROVE Patient'
  BY <1>3, <1>9, PatientStays DEF Unsubscribe, network
<1>10. ASSUME NEW i \in Interests, Drain(i) \/ Evaluate(i) PROVE Patient'
  BY <1>3, <1>10, PatientStays DEF Drain, Evaluate, network, arrivalVars
<1>11. CASE PublisherMeets \/ EvaluateBegins \/ SendUpdates
  BY <1>3, <1>11, PatientStays DEF PublisherMeets, EvaluateBegins, SendUpdates, network, arrivalVars
<1>12. CASE PublisherReceives
  <2>1. toPublisher # <<>> /\ toPublisher' = Tail(toPublisher) /\ UNCHANGED expired
    BY <1>12 DEF PublisherReceives, arrivalVars
  <2>2. \A k \in 1..Len(Tail(toPublisher)) : Tail(toPublisher)[k].kind # "timeout"
    BY <1>3, <2>1, TailOf DEF Patient, Types, NetTypes
  <2> QED
    BY <1>3, <2>1, <2>2 DEF Patient
<1> QED
  BY <1>1, <1>2, <1>3, <1>4, <1>5, <1>6, <1>7, <1>8, <1>9, <1>10, <1>11, <1>12,
     ConsumerReceivesPatient DEF Next

(* The links follow the offers. *)
LEMMA NextLinked ==
    ASSUME Types, Patient, OffersLinked, [Next]_vars
    PROVE  OffersLinked'
<1>0. /\ offered \in [Interests -> SUBSET Objects] /\ matching \in [Interests -> SUBSET Objects]
      /\ \A i \in Interests \ started : offered[i] = {}
      /\ toEvaluate \subseteq started
  BY DEF Types, OfferTypes, StateTypes
<1>1. ASSUME UNCHANGED <<offered, linked>> PROVE OffersLinked'
  BY <1>1 DEF OffersLinked
<1>2. CASE UNCHANGED vars
  BY <1>1, <1>2 DEF vars, offerVars
<1>3. CASE ConsumerMeets \/ ConsumerReceives \/ PublisherMeets \/ EvaluateBegins \/ SendUpdates
  BY <1>1, <1>3 DEF ConsumerMeets, ConsumerReceives, PublisherMeets, EvaluateBegins, SendUpdates,
     offerVars
<1>4. ASSUME NEW o \in Objects, TimerFires(o) \/ TimeoutRuns(o) \/ Commit(o) PROVE OffersLinked'
  BY <1>1, <1>4 DEF TimerFires, TimeoutRuns, Commit, offerVars
<1>5. ASSUME NEW i \in Interests, Subscribe(i) \/ SubscribeMeetsRemoval(i) \/ Unsubscribe(i) \/ Drain(i)
      PROVE  OffersLinked'
  BY <1>1, <1>5 DEF Subscribe, SubscribeMeetsRemoval, Subscribes, Unsubscribe, Drain, offerVars
<1>6. ASSUME NEW i \in Interests, Evaluate(i) PROVE OffersLinked'
  <2>1. /\ offered' = [offered EXCEPT ![i] = matching[i]] /\ i \in started
        /\ linked' = StillLinked(offered', started) \union (matching[i] \ offered[i])
    BY <1>0, <1>6 DEF Evaluate
  <2>2. offered'[i] = matching[i] /\ \A j \in Interests \ {i} : offered'[j] = offered[j]
    BY <1>0, <2>1
  <2>3. ASSUME NEW j \in Interests, NEW o \in offered'[j] PROVE o \in linked'
    <3>1. CASE o \in matching[i] \ offered[i]
      BY <2>1, <3>1
    <3>2. CASE o \notin matching[i] \ offered[i]
      <4>1. o \in offered[j]
        BY <2>2, <2>3, <3>2
      <4>2. o \in linked /\ j \in started
        BY <1>0, <4>1 DEF OffersLinked
      <4> QED
        BY <2>1, <2>3, <4>2 DEF StillLinked
    <3> QED
      BY <3>1, <3>2
  <2> QED
    BY <2>3 DEF OffersLinked
<1>7. CASE PublisherReceives
  <2>1. toPublisher # <<>> /\ toPublisher \in Seq(PublisherMessages)
    BY <1>7 DEF PublisherReceives, Types, NetTypes
  <2>2. PICK m \in PublisherMessages : m = Head(toPublisher)
    BY <2>1, TailOf
  <2>3. m.kind # "timeout"
    BY <2>1, <2>2, TailOf DEF Patient
  <2>4. \/ ~publisherKnows /\ UNCHANGED <<publisherReady, offerVars, toConsumer>>
        \/ publisherKnows /\ m.kind = "ready" /\ PublisherReadyReceived
        \/ publisherKnows /\ m.kind = "started" /\ StartReceived(m.interest)
        \/ publisherKnows /\ m.kind = "request" /\ RequestReceived(m)
        \/ publisherKnows /\ m.kind = "types?" /\ TypesRequestReceived
    BY <1>7, <2>2, <2>3 DEF PublisherReceives
  <2>5. CASE UNCHANGED offerVars
    BY <1>1, <2>5 DEF offerVars
  <2>6. CASE m.kind = "started" /\ StartReceived(m.interest)
    <3>1. PICK i \in Interests : i = m.interest
      BY <2>6, PublisherParts
    <3>2. CASE i \in started
      BY <1>1, <2>6, <3>1, <3>2 DEF StartReceived, offerVars
    <3>3. CASE i \notin started
      <4>1. /\ offered' = [offered EXCEPT ![i] = matching[i]] /\ linked' = linked \union matching[i]
        BY <2>6, <3>1, <3>3 DEF StartReceived
      <4>2. offered'[i] = matching[i] /\ \A j \in Interests \ {i} : offered'[j] = offered[j]
        BY <1>0, <4>1
      <4> QED
        BY <4>1, <4>2 DEF OffersLinked
    <3> QED
      BY <3>2, <3>3
  <2>8. CASE PublisherReadyReceived \/ RequestReceived(m) \/ TypesRequestReceived
    BY <1>1, <2>8 DEF PublisherReadyReceived, RequestReceived, TypesRequestReceived, offerVars
  <2> QED
    BY <2>4, <2>5, <2>6, <2>8
<1> QED
  BY <1>2, <1>3, <1>4, <1>5, <1>6, <1>7 DEF Next

(* Every step keeps the calm. *)
LEMMA NextCalm == Types /\ Calm /\ [Next]_vars => Calm'
<1> SUFFICES ASSUME Types, Calm, [Next]_vars, timeouts' = 0 PROVE Patient' /\ OffersLinked'
  BY DEF Calm
<1>1. timeouts = 0 /\ Patient'
  BY NextPatient DEF Calm
<1>2. OffersLinked'
  BY <1>1, NextLinked DEF Calm
<1> QED
  BY <1>1, <1>2

(* The latest value of the object is still to come, or the object is taken back. *)
Latest(k, o) ==
    \/ o \in changed
    \/ Later(toConsumer, k, Brings(o, value[o]))
    \/ Later(toConsumer, k, Takes(o))

(* A state that was served is the latest, or the latest comes after it. *)
ServedLatest ==
    \A k \in 1..Len(toConsumer) : toConsumer[k].kind = "response" =>
        \A o \in DOMAIN toConsumer[k].states : toConsumer[k].states[o] = value[o] \/ Latest(k, o)

(* The proxy of an object that stays has it, or it comes. *)
ShownLatest ==
    \A i \in Interests, o \in Objects :
        (o \in shown[i] \ again /\ Clean(actions[i], Len(actions[i]), o)) =>
            proxy[o] = value[o] \/ Latest(0, o)

(* An object that is about to appear for the first time, to the manager or to the next one to  *)
(* which the provider repeats what it has, is monitored, and the latest is kept or comes.      *)
Kin(o) == {monitored[o].state} \union monitored[o].updates
Awaited(i, o) == Adds(actions[i], Len(actions[i]), o) \/ o \in current[i]
ComingLatest ==
    \A i \in Interests, o \in Objects :
        (o \notin appeared /\ Awaited(i, o)) =>
            \/ Later(toConsumer, 0, Takes(o))
            \/ monitored[o] # None /\ (Latest(0, o) \/ value[o] \in Kin(o))

Populated == (timeouts = 0 /\ ~crossed) => ServedLatest /\ ShownLatest /\ ComingLatest

(* It holds at the beginning. *)
LEMMA InitPopulated == Init => Populated
<1> SUFFICES ASSUME Init PROVE ServedLatest /\ ShownLatest /\ ComingLatest
  BY DEF Populated
<1>1. \A k \in 1..Len(<<>>) : FALSE
  OBVIOUS
<1>2. ServedLatest
  BY <1>1 DEF Init, ServedLatest
<1>3. \A i \in Interests : actions[i] = <<>> /\ shown[i] = {} /\ current[i] = {}
  BY DEF Init
<1>4. ShownLatest
  BY <1>3 DEF ShownLatest
<1>5. ComingLatest
  BY <1>3, QueueEmpty DEF ComingLatest, Awaited
<1> QED
  BY <1>2, <1>4, <1>5

(* What depends on these variables only. *)
LEMMA LatestStays ==
    ASSUME ServedLatest, ShownLatest, ComingLatest,
           UNCHANGED <<toConsumer, value, changed, shown, again, actions, current, proxy, appeared,
                       monitored>>
    PROVE  (ServedLatest /\ ShownLatest /\ ComingLatest)'
<1>1. \A k, o : Latest(k, o)' <=> Latest(k, o)
  BY DEF Latest
<1> QED
  BY <1>1 DEF ServedLatest, ShownLatest, ComingLatest, Awaited, Kin

(* The publisher sends states as they are. *)
LEMMA LatestSends ==
    ASSUME Types, ServedLatest, ShownLatest, ComingLatest, NEW t \in Seq(ConsumerMessages),
           toConsumer' = toConsumer \o t,
           UNCHANGED <<value, changed, shown, again, actions, current, proxy, appeared, monitored>>,
           \A k \in 1..Len(t) : t[k].kind = "response" =>
             \A o \in DOMAIN t[k].states : t[k].states[o] = value[o]
    PROVE  (ServedLatest /\ ShownLatest /\ ComingLatest)'
<1>1. PICK s \in Seq(ConsumerMessages) : s = toConsumer
  BY DEF Types, NetTypes
<1>2. ASSUME NEW k \in 0..Len(s), NEW A, Later(toConsumer, k, A) PROVE Later(toConsumer', k, A)
  BY <1>1, <1>2, LaterConcat
<1>3. \A k \in 0..Len(s) : \A o : Latest(k, o) => Latest(k, o)'
  BY <1>2 DEF Latest
<1>4. 0 \in 0..Len(s)
  OBVIOUS
<1>5. ShownLatest'
  BY <1>3, <1>4 DEF ShownLatest
<1>6. ComingLatest'
  BY <1>2, <1>3, <1>4 DEF ComingLatest, Awaited, Kin
<1>7. ASSUME NEW k \in 1..Len(s \o t), (s \o t)[k].kind = "response",
             NEW o \in DOMAIN (s \o t)[k].states
      PROVE  (s \o t)[k].states[o] = value[o] \/ Latest(k, o)'
  <2>1. CASE k \in 1..Len(s) /\ (s \o t)[k] = s[k]
    <3>1. s[k].states[o] = value[o] \/ Latest(k, o)
      BY <1>1, <1>7, <2>1 DEF ServedLatest
    <3>2. k \in 0..Len(s)
      BY <2>1
    <3> QED
      BY <1>3, <2>1, <3>1, <3>2
  <2>2. CASE k - Len(s) \in 1..Len(t) /\ (s \o t)[k] = t[k - Len(s)]
    BY <1>7, <2>2
  <2> QED
    BY <2>1, <2>2, Concat
<1>8. ServedLatest'
  BY <1>1, <1>7 DEF ServedLatest
<1> QED
  BY <1>5, <1>6, <1>8

(* One message. *)
LEMMA LatestSendsOne ==
    ASSUME Types, ServedLatest, ShownLatest, ComingLatest, NEW x \in ConsumerMessages,
           toConsumer' = toConsumer \o <<x>>,
           UNCHANGED <<value, changed, shown, again, actions, current, proxy, appeared, monitored>>,
           x.kind = "response" => \A o \in DOMAIN x.states : x.states[o] = value[o]
    PROVE  (ServedLatest /\ ShownLatest /\ ComingLatest)'
<1>1. PICK t : t = <<x>>
  OBVIOUS
<1>2. t \in Seq(ConsumerMessages) /\ Len(t) = 1 /\ t[1] = x
  BY <1>1
<1>3. \A k \in 1..Len(t) : t[k].kind = "response" =>
             \A o \in DOMAIN t[k].states : t[k].states[o] = value[o]
  BY <1>2
<1> QED
  BY <1>1, <1>2, <1>3, LatestSends

(* A commit: the latest value is a new one, which is not sent yet. *)
LEMMA CommitLatest ==
    ASSUME Types, ServedLatest, ShownLatest, ComingLatest, NEW x \in Objects, Commit(x)
    PROVE  (ServedLatest /\ ShownLatest /\ ComingLatest)'
<1>1. /\ value' = [value EXCEPT ![x] = @ + 1] /\ changed' = changed \union {x}
      /\ UNCHANGED <<toConsumer, shown, again, actions, current, proxy, appeared, monitored>>
  BY DEF Commit, network, viewVars, arrivalVars
<1>2. \A o \in Objects : o # x => value'[o] = value[o]
  BY <1>1 DEF Types, StateTypes
<1>3. \A k : Latest(k, x)'
  BY <1>1 DEF Latest
<1>4. \A k : \A o \in Objects : Latest(k, o) => Latest(k, o)'
  BY <1>1, <1>2, <1>3 DEF Latest
<1>5. \A k \in 1..Len(toConsumer) : toConsumer[k].kind = "response" =>
        DOMAIN toConsumer[k].states \subseteq Objects
  BY ConsumerParts DEF Types, NetTypes
<1>6. ServedLatest'
  BY <1>1, <1>2, <1>3, <1>4, <1>5 DEF ServedLatest
<1>7. ShownLatest'
  BY <1>1, <1>2, <1>3, <1>4 DEF ShownLatest
<1>8. ComingLatest'
  BY <1>1, <1>2, <1>3, <1>4 DEF ComingLatest, Awaited, Kin
<1> QED
  BY <1>6, <1>7, <1>8

(* The updates go out: an object that changed and is not linked is on its way back. *)
LEMMA SendUpdatesLatest ==
    ASSUME Types, NoGhostsComing, OffersLinked, ServedLatest, ShownLatest, ComingLatest, SendUpdates,
           ~crossed
    PROVE  (ServedLatest /\ ShownLatest /\ ComingLatest)'
<1>1. /\ toConsumer' = toConsumer \o Updates /\ changed' = {}
      /\ UNCHANGED <<value, shown, again, actions, current, proxy, appeared, monitored>>
  BY DEF SendUpdates, Updates, ToConsumer, viewVars, arrivalVars
<1>2. PICK s \in Seq(ConsumerMessages) : s = toConsumer
  BY DEF Types, NetTypes
<1>3. PICK t \in Seq(ConsumerMessages) : t = Updates
  BY UpdatesAre
<1>4. /\ \A k \in 1..Len(t) : t[k].kind = "update"
      /\ \A o \in changed \intersect linked : Later(t, 0, Brings(o, value[o]))
  BY <1>3, UpdatesAre
<1>5. ASSUME NEW k \in 0..Len(s), NEW A, Later(s, k, A) \/ Later(t, 0, A) PROVE Later(toConsumer', k, A)
  BY <1>1, <1>2, <1>3, <1>5, LaterConcat
<1>6. ASSUME NEW k \in 0..Len(s), NEW o \in Objects, Latest(k, o), Covered(k, o) PROVE Latest(k, o)'
  <2>1. CASE o \in changed /\ o \in linked
    <3>1. Later(t, 0, Brings(o, value[o]))
      BY <1>4, <2>1
    <3>2. Later(toConsumer', k, Brings(o, value'[o]))
      BY <1>1, <1>5, <3>1
    <3> QED
      BY <3>2 DEF Latest
  <2>2. CASE o \notin linked
    <3>1. Later(s, k, Takes(o))
      BY <1>2, <1>6, <2>2 DEF Covered, OffersLinked
    <3> QED
      BY <1>5, <3>1 DEF Latest
  <2>3. CASE o \notin changed
    <3>1. Later(s, k, Brings(o, value[o])) \/ Later(s, k, Takes(o))
      BY <1>2, <1>6, <2>3 DEF Latest
    <3> QED
      BY <1>1, <1>5, <3>1 DEF Latest
  <2> QED
    BY <2>1, <2>2, <2>3
<1>7. 0 \in 0..Len(s)
  OBVIOUS
<1>8. ASSUME NEW i \in Interests, NEW o \in Objects, Pledged(i, o), Latest(0, o)
      PROVE  Latest(0, o)'
  <2>1. Covered(0, o)
    BY <1>8 DEF NoGhostsComing, ViewsOffered
  <2> QED
    BY <1>6, <1>7, <1>8, <2>1
<1>9. ShownLatest'
  BY <1>1, <1>8 DEF ShownLatest, Pledged, Wanted
<1>10. ComingLatest'
  <2>1. \A o : Later(toConsumer, 0, Takes(o)) => Later(toConsumer', 0, Takes(o))
    BY <1>2, <1>5, <1>7
  <2> QED
    BY <1>1, <1>8, <2>1 DEF ComingLatest, Awaited, Pledged, Wanted, Kin
<1>11. ASSUME NEW k \in 1..Len(s \o t), (s \o t)[k].kind = "response",
              NEW o \in DOMAIN (s \o t)[k].states
       PROVE  (s \o t)[k].states[o] = value[o] \/ Latest(k, o)'
  <2>1. k \in 1..Len(s) /\ (s \o t)[k] = s[k]
    BY <1>4, <1>11, Concat
  <2>2. s[k] \in ConsumerMessages /\ s[k].kind = "response" /\ o \in DOMAIN s[k].states
    BY <1>11, <2>1
  <2>3. o \in Objects /\ k \in 0..Len(s)
    BY <2>1, <2>2, ConsumerParts
  <2>4. Covered(k, o) /\ (s[k].states[o] = value[o] \/ Latest(k, o))
    BY <1>2, <2>1, <2>2 DEF ServedLatest, NoGhostsComing, ServedOffered
  <2> QED
    BY <1>6, <2>1, <2>3, <2>4
<1>12. ServedLatest'
  BY <1>1, <1>2, <1>3, <1>11 DEF ServedLatest
<1> QED
  BY <1>9, <1>10, <1>12

(* What the publisher receives makes it send states as they are. *)
LEMMA PublisherReceivesLatest ==
    ASSUME Types, ServedLatest, ShownLatest, ComingLatest, PublisherReceives
    PROVE  (ServedLatest /\ ShownLatest /\ ComingLatest)'
<1>1. /\ toPublisher # <<>>
      /\ UNCHANGED <<value, changed, shown, again, actions, current, proxy, appeared, monitored>>
  BY DEF PublisherReceives, viewVars, arrivalVars, stateVars
<1>0. toConsumer \in Seq(ConsumerMessages) /\ offered \in [Interests -> SUBSET Objects]
      /\ matching \in [Interests -> SUBSET Objects]
  BY DEF Types, NetTypes, OfferTypes, StateTypes
<1>2. PICK m \in PublisherMessages : m = Head(toPublisher)
  BY <1>1, TailOf DEF Types, NetTypes
<1>3. \/ ~publisherKnows /\ UNCHANGED <<publisherReady, offerVars, toConsumer>>
      \/ publisherKnows /\ m.kind = "ready" /\ PublisherReadyReceived
      \/ publisherKnows /\ m.kind = "started" /\ StartReceived(m.interest)
      \/ publisherKnows /\ m.kind = "request" /\ RequestReceived(m)
      \/ publisherKnows /\ m.kind = "types?" /\ TypesRequestReceived
      \/ publisherKnows /\ m.kind = "timeout" /\ RejectionReceived(m.object)
  BY <1>2 DEF PublisherReceives
<1>4. ASSUME UNCHANGED toConsumer PROVE (ServedLatest /\ ShownLatest /\ ComingLatest)'
  BY <1>1, <1>4, LatestStays
<1>5. CASE UNCHANGED toConsumer \/ RejectionReceived(m.object)
  BY <1>4, <1>5 DEF RejectionReceived
<1>6. CASE PublisherReadyReceived
  <2>1. CASE publisherReady
    <3>1. toConsumer' = toConsumer
      BY <1>0, <1>6, <2>1 DEF PublisherReadyReceived, ToConsumer
    <3> QED
      BY <1>4, <3>1
  <2>2. CASE ~publisherReady
    <3>1. toConsumer' = toConsumer \o <<Ready>>
      BY <1>6, <2>2 DEF PublisherReadyReceived, ToConsumer
    <3> QED
      BY <1>1, <3>1, LatestSendsOne, ConsumerTold, ConsumerKinds
  <2> QED
    BY <2>1, <2>2
<1>7. ASSUME NEW t \in Seq(ConsumerMessages), toConsumer' = toConsumer \o t,
             \A k \in 1..Len(t) : t[k].kind # "response"
      PROVE  (ServedLatest /\ ShownLatest /\ ComingLatest)'
  BY <1>1, <1>7, LatestSends
<1>8. CASE m.kind = "started" /\ StartReceived(m.interest)
  <2>0. CASE m.interest \in started
    BY <1>4, <1>8, <2>0 DEF StartReceived
  <2> SUFFICES ASSUME m.interest \notin started PROVE (ServedLatest /\ ShownLatest /\ ComingLatest)'
    BY <2>0
  <2>1. PICK i \in Interests : i = m.interest
    BY <1>8, PublisherParts
  <2>2. PICK S : S = matching[i]
    OBVIOUS
  <2>3. toConsumer' = toConsumer \o Notice(Published, i, S) /\ S \subseteq Objects
    BY <1>0, <1>8, <2>1, <2>2 DEF StartReceived, ToConsumer
  <2>4. PICK t \in Seq(ConsumerMessages) : t = Notice(Published, i, S)
    BY <2>3, NoticeIs
  <2>5. \A k \in 1..Len(t) : t[k].kind = "published"
    BY <2>3, <2>4, NoticeIs
  <2> QED
    BY <1>7, <2>3, <2>4, <2>5
<1>10. CASE m.kind = "request" /\ RequestReceived(m)
  <2>1. m.interest \in Interests /\ m.objects \subseteq Objects
    BY <1>10, PublisherParts
  <2>2. PICK st : st = [o \in Answered(m) |-> value[o]]
    OBVIOUS
  <2>3. PICK x \in ConsumerMessages : x = StateResponse(m.interest, st)
    BY <2>1, <2>2, AnswerIs
  <2>4. x.states = st /\ \A o \in DOMAIN st : st[o] = value[o]
    BY <2>2, <2>3, ConsumerKinds
  <2>5. toConsumer' = toConsumer \o <<x>>
    BY <1>10, <2>2, <2>3 DEF RequestReceived, ToConsumer
  <2> QED
    BY <1>1, <2>4, <2>5, LatestSendsOne
<1>11. CASE TypesRequestReceived
  <2>1. toConsumer' = toConsumer \o <<TypesResponse>>
    BY <1>11 DEF TypesRequestReceived, ToConsumer
  <2> QED
    BY <1>1, <2>1, LatestSendsOne, ConsumerTold, ConsumerKinds
<1> QED
  BY <1>3, <1>5, <1>6, <1>8, <1>10, <1>11

(* The consumer receives a message: what was to come does, unless the message was that. *)
LEMMA LatestReceives ==
    ASSUME Types, ServedLatest, toConsumer # <<>>, toConsumer' = Tail(toConsumer),
           UNCHANGED <<value, changed>>
    PROVE  /\ ServedLatest'
           /\ \A o : (Latest(0, o) /\ Head(toConsumer) \notin Takes(o)
                      /\ Head(toConsumer) \notin Brings(o, value[o])) => Latest(0, o)'
           /\ \A o : (Later(toConsumer, 0, Takes(o)) /\ Head(toConsumer) \notin Takes(o)) =>
                Later(toConsumer', 0, Takes(o))
           /\ Head(toConsumer).kind = "response" =>
                \A o \in DOMAIN Head(toConsumer).states :
                    Head(toConsumer).states[o] = value[o] \/ Latest(0, o)'
<1>1. PICK s \in Seq(ConsumerMessages) : s = toConsumer
  BY DEF Types, NetTypes
<1>2. ASSUME NEW k \in Nat, NEW A, Later(s, k + 1, A) PROVE Later(toConsumer', k, A)
  BY <1>1, <1>2, LaterTail
<1>3. ASSUME NEW A, Later(s, 0, A), Head(s) \notin A PROVE Later(toConsumer', 0, A)
  BY <1>1, <1>3, LaterTail
<1>4. ASSUME NEW k \in Nat, NEW o, Latest(k + 1, o) PROVE Latest(k, o)'
  BY <1>1, <1>2, <1>4 DEF Latest
<1>5. ASSUME NEW k \in 1..Len(Tail(s)), Tail(s)[k].kind = "response",
             NEW o \in DOMAIN Tail(s)[k].states
      PROVE  Tail(s)[k].states[o] = value[o] \/ Latest(k, o)'
  <2>1. k + 1 \in 1..Len(s) /\ Tail(s)[k] = s[k + 1]
    BY <1>1, TailOf
  <2>2. s[k + 1].states[o] = value[o] \/ Latest(k + 1, o)
    BY <1>1, <1>5, <2>1 DEF ServedLatest
  <2> QED
    BY <1>4, <2>1, <2>2
<1>6. ServedLatest'
  BY <1>1, <1>5 DEF ServedLatest
<1>7. ASSUME NEW o, Latest(0, o), Head(toConsumer) \notin Takes(o),
             Head(toConsumer) \notin Brings(o, value[o])
      PROVE  Latest(0, o)'
  BY <1>1, <1>3, <1>7 DEF Latest
<1>8. ASSUME Head(toConsumer).kind = "response", NEW o \in DOMAIN Head(toConsumer).states
      PROVE  Head(toConsumer).states[o] = value[o] \/ Latest(0, o)'
  <2>1. 1 \in 1..Len(s) /\ Head(s) = s[1]
    BY <1>1, TailOf
  <2>2. s[1].states[o] = value[o] \/ Latest(0 + 1, o)
    BY <1>1, <1>8, <2>1 DEF ServedLatest
  <2> QED
    BY <1>1, <1>4, <2>1, <2>2
<1> QED
  BY <1>1, <1>3, <1>6, <1>7, <1>8

(* A message that brings no value and takes nothing back. *)
LEMMA LatestIgnores ==
    ASSUME Types, ServedLatest, ShownLatest, ComingLatest, toConsumer # <<>>,
           toConsumer' = Tail(toConsumer),
           UNCHANGED <<value, changed, shown, again, actions, current, proxy, appeared>>,
           Head(toConsumer).kind \notin {"removed", "update"},
           \A o \in Objects : monitored[o] # None => monitored'[o] = monitored[o]
    PROVE  (ServedLatest /\ ShownLatest /\ ComingLatest)'
<1>1. \A o : Head(toConsumer) \notin Takes(o) /\ \A v : Head(toConsumer) \notin Brings(o, v)
  BY DEF Takes, Brings
<1>2. /\ ServedLatest' /\ \A o : Latest(0, o) => Latest(0, o)'
      /\ \A o : Later(toConsumer, 0, Takes(o)) => Later(toConsumer', 0, Takes(o))
  BY <1>1, LatestReceives
<1>3. ShownLatest'
  BY <1>2 DEF ShownLatest
<1>4. ASSUME NEW o \in Objects, monitored[o] # None PROVE monitored'[o] # None /\ Kin(o)' = Kin(o)
  BY <1>4 DEF Kin
<1>5. ComingLatest'
  BY <1>2, <1>4 DEF ComingLatest, Awaited
<1> QED
  BY <1>2, <1>3, <1>5

(* Objects are taken back: with one interest, from the only view. *)
LEMMA RemovedLatest ==
    ASSUME Types, ServedLatest, ShownLatest, ComingLatest, toConsumer # <<>>,
           toConsumer' = Tail(toConsumer), UNCHANGED <<value, changed>>,
           \A i, j \in Interests : i = j,
           NEW m \in ConsumerMessages, m = Head(toConsumer), m.kind = "removed", RemovedReceived(m)
    PROVE  (ServedLatest /\ ShownLatest /\ ComingLatest)'
<1>0. PICK i \in Interests : i = m.interest
  BY ConsumerParts
<1>1. PICK S : S = m.objects
  OBVIOUS
<1>2. S \subseteq Objects
  BY <1>1, ConsumerParts
<1>3. /\ ServedLatest'
      /\ \A o : o \notin S => /\ Latest(0, o) => Latest(0, o)'
                              /\ Later(toConsumer, 0, Takes(o)) => Later(toConsumer', 0, Takes(o))
  <2>1. \A o : (o \notin S => m \notin Takes(o)) /\ \A v : m \notin Brings(o, v)
    BY <1>1 DEF Takes, Brings
  <2> QED
    BY <2>1, LatestReceives
<1>4. PICK q \in Seq(Actions) : q = actions[i]
  BY DEF Types, ViewTypes
<1>5. PICK t \in Seq(Actions) : t = Each("remove", S)
  BY <1>2, EachIs
<1>6. /\ \A k \in 1..Len(t) : \E o \in S : t[k] = <<"remove", o>>
      /\ \A o \in S : Has(t, <<"remove", o>>)
  BY <1>2, <1>5, EachIs
<1>7. /\ current' = [current EXCEPT ![i] = @ \ S] /\ actions' = Queued(i, t)
      /\ UNCHANGED <<shown, again, proxy, appeared, monitored>> /\ \A o : Kin(o)' = Kin(o)
  BY <1>0, <1>1, <1>5, EachQueued DEF RemovedReceived, Forgets, Kin
<1>8. \A o : Clean(t, Len(t), o) => o \notin S
  BY <1>6 DEF Clean, Has
<1>9. /\ current'[i] = current[i] \ S
      /\ i \in managers => actions'[i] = q \o t
      /\ i \notin managers => actions'[i] = <<>> /\ shown[i] = {}
  <2>1. /\ i \in managers => Queued(i, t)[i] = actions[i] \o t
        /\ i \notin managers => Queued(i, t)[i] = actions[i]
    BY QueuedHere
  <2> QED
    BY <1>4, <1>7, <2>1 DEF Types, ViewTypes, ArrivalTypes
<1>10. ASSUME NEW o \in Objects, o \in shown[i] \ again, Clean(actions'[i], Len(actions'[i]), o)
       PROVE  proxy[o] = value[o] \/ Latest(0, o)'
  <2>1. Clean(q \o t, Len(q \o t), o)
    BY <1>9, <1>10
  <2>2. Clean(q, Len(q), o) /\ o \notin S
    BY <1>8, <2>1, QueueConcat
  <2>3. proxy[o] = value[o] \/ Latest(0, o)
    BY <1>4, <1>10, <2>2 DEF ShownLatest
  <2> QED
    BY <1>3, <2>2, <2>3
<1>11. ShownLatest'
  BY <1>7, <1>10 DEF ShownLatest
<1>12. ASSUME NEW o \in Objects, o \notin appeared,
              Adds(actions'[i], Len(actions'[i]), o) \/ o \in current'[i]
       PROVE  \/ Later(toConsumer', 0, Takes(o))
              \/ monitored[o] # None /\ (Latest(0, o)' \/ value[o] \in Kin(o))
  <2>1. Awaited(i, o) /\ o \notin S
    <3>1. CASE Adds(actions'[i], Len(actions'[i]), o)
      <4>1. Adds(q \o t, Len(q \o t), o)
        BY <1>9, <3>1, QueueEmpty
      <4>2. ~Has(t, <<"add", o>>)
        BY <1>6 DEF Has
      <4>3. Adds(q, Len(q), o) /\ o \notin S
        BY <1>8, <4>1, <4>2, QueueConcat
      <4> QED
        BY <1>4, <4>3 DEF Awaited
    <3>2. CASE o \in current'[i]
      BY <1>9, <3>2 DEF Awaited
    <3> QED
      BY <1>12, <3>1, <3>2
  <2>2. \/ Later(toConsumer, 0, Takes(o))
        \/ monitored[o] # None /\ (Latest(0, o) \/ value[o] \in Kin(o))
    BY <1>12, <2>1 DEF ComingLatest
  <2> QED
    BY <1>3, <2>1, <2>2
<1>13. ComingLatest'
  BY <1>7, <1>12 DEF ComingLatest, Awaited
<1> QED
  BY <1>3, <1>11, <1>13

(* A state arrives. *)
LEMMA ResponseLatest ==
    ASSUME Types, ServedLatest, ShownLatest, ComingLatest, toConsumer # <<>>,
           toConsumer' = Tail(toConsumer), UNCHANGED <<value, changed>>,
           NEW m \in ConsumerMessages, m = Head(toConsumer), m.kind = "response", ResponseReceived(m)
    PROVE  (ServedLatest /\ ShownLatest /\ ComingLatest)'
<1>0. /\ m.interest \in Interests /\ DOMAIN m.states \subseteq Objects
      /\ \A o \in DOMAIN m.states : m.states[o] \in Nat
  BY ConsumerParts
<1>1. PICK i \in Interests : i = m.interest
  BY <1>0
<1>2. PICK A : A = Additions(m)
  OBVIOUS
<1>3. /\ ServedLatest' /\ \A o : Latest(0, o) => Latest(0, o)'
      /\ \A o : Later(toConsumer, 0, Takes(o)) => Later(toConsumer', 0, Takes(o))
      /\ \A o \in DOMAIN m.states : m.states[o] = value[o] \/ Latest(0, o)'
  <2>1. \A o : m \notin Takes(o) /\ \A v : m \notin Brings(o, v)
    BY DEF Takes, Brings
  <2> QED
    BY <2>1, LatestReceives
<1>4. PICK q \in Seq(Actions) : q = actions[i]
  BY DEF Types, ViewTypes
<1>13. A \subseteq Objects
  BY <1>0, <1>2 DEF Additions
<1>5. PICK t \in Seq(Actions) : t = Each("add", A \ current[i])
  BY <1>13, EachIs
<1>6. \A k \in 1..Len(t) : \E o \in A \ current[i] : t[k] = <<"add", o>>
  BY <1>13, <1>5, EachIs
<1>7. /\ current' = [current EXCEPT ![i] = IF i \in providers THEN @ \union A ELSE @]
      /\ actions' = Queued(i, t) /\ UNCHANGED <<shown, again, proxy, appeared>>
  BY <1>1, <1>2, <1>5, EachQueued DEF ResponseReceived, Additions
<1>8. ASSUME NEW j \in Interests, NEW o \in Objects
      PROVE  /\ Clean(actions'[j], Len(actions'[j]), o) => Clean(actions[j], Len(actions[j]), o)
             /\ Awaited(j, o)' => Awaited(j, o) \/ o \in A
  <2>1. current'[j] \subseteq current[j] \union A
    BY <1>7 DEF Types, ArrivalTypes
  <2>2. CASE i \in managers /\ j = i
    <3>1. actions'[j] = q \o t
      BY <1>4, <1>7, <2>2, QueuedIs
    <3>2. Has(t, <<"add", o>>) => o \in A
      BY <1>6 DEF Has
    <3>3. /\ Clean(q \o t, Len(q \o t), o) => Clean(q, Len(q), o)
          /\ Adds(q \o t, Len(q \o t), o) => Adds(q, Len(q), o) \/ o \in A
      BY <3>2, QueueConcat
    <3> QED
      BY <1>4, <2>1, <2>2, <3>1, <3>3 DEF Awaited
  <2>3. CASE ~(i \in managers /\ j = i)
    <3>1. actions'[j] = actions[j]
      BY <1>7, <2>3, QueuedIs
    <3> QED
      BY <2>1, <3>1 DEF Awaited
  <2> QED
    BY <2>2, <2>3
<1>9. ShownLatest'
  BY <1>3, <1>7, <1>8 DEF ShownLatest
<1>10. ASSUME NEW o \in Objects, monitored[o] # None, o \in DOMAIN m.states
       PROVE  monitored'[o] # None /\ (Latest(0, o)' \/ value[o] \in Kin(o)')
  <2>1. monitored'[o] # None /\ monitored'[o].state = m.states[o]
    BY <1>0, <1>10, ResponseReceivedIs
  <2>2. m.states[o] \in Kin(o)'
    BY <2>1 DEF Kin
  <2> QED
    BY <1>3, <1>10, <2>1, <2>2
<1>11. ASSUME NEW o \in Objects, monitored[o] # None, o \notin DOMAIN m.states
       PROVE  monitored'[o] # None /\ Kin(o)' = Kin(o)
  BY <1>0, <1>11, ResponseReceivedIs DEF Kin
<1>12. ASSUME NEW j \in Interests, NEW o \in Objects, o \notin appeared, Awaited(j, o)'
       PROVE  \/ Later(toConsumer', 0, Takes(o))
              \/ monitored'[o] # None /\ (Latest(0, o)' \/ value[o] \in Kin(o)')
  <2>1. CASE Awaited(j, o)
    <3>1. \/ Later(toConsumer, 0, Takes(o))
          \/ monitored[o] # None /\ (Latest(0, o) \/ value[o] \in Kin(o))
      BY <1>12, <2>1 DEF ComingLatest
    <3> QED
      BY <1>3, <1>10, <1>11, <3>1
  <2>2. CASE o \in A
    <3>1. o \in DOMAIN m.states /\ (monitored[o] # None \/ proxy[o] # None)
      BY <1>2, <2>2 DEF Additions
    <3>2. proxy[o] = None
      BY <1>12 DEF Types, ViewTypes, Holds
    <3> QED
      BY <1>10, <3>1, <3>2
  <2> QED
    BY <1>8, <1>12, <2>1, <2>2
<1>14. ComingLatest'
  BY <1>7, <1>12 DEF ComingLatest
<1> QED
  BY <1>3, <1>9, <1>14

(* What was kept of an object is not newer than an update that arrives, nor that than the object. *)
LEMMA UpdateInOrder ==
    ASSUME Types, Order, toConsumer # <<>>, NEW m \in ConsumerMessages, m = Head(toConsumer),
           m.kind = "update", NEW r \in Kept(proxy, monitored, m.object)
    PROVE  r <= m.value /\ m.value <= value[m.object] /\ m.value \in Nat /\ value[m.object] \in Nat
<1>1. m.object \in Objects /\ m.value \in Nat
  BY ConsumerParts
<1>2. 1 \in 1..Len(toConsumer) /\ toConsumer[1] = m
  BY TailOf DEF Types, NetTypes
<1>3. Says(toConsumer[1], m.object, m.value)
  BY <1>2 DEF Says
<1>4. value[m.object] \in Nat
  BY <1>1 DEF Types, StateTypes
<1>5. Rising(toConsumer, m.object, value[m.object]) /\ Limits(toConsumer, m.object, r, value[m.object])
  BY <1>1 DEF Order
<1>6. m.value <= value[m.object]
  BY <1>1, <1>2, <1>3, <1>5 DEF Rising
<1>7. r <= m.value
  BY <1>1, <1>2, <1>3, <1>5 DEF Limits
<1> QED
  BY <1>1, <1>4, <1>6, <1>7

(* An update arrives: it is the latest value, or that still comes. *)
LEMMA UpdateLatest ==
    ASSUME Types, Order, ServedLatest, ShownLatest, ComingLatest, toConsumer # <<>>,
           toConsumer' = Tail(toConsumer), UNCHANGED <<value, changed>>,
           NEW m \in ConsumerMessages, m = Head(toConsumer), m.kind = "update", UpdateReceived(m)
    PROVE  (ServedLatest /\ ShownLatest /\ ComingLatest)'
<1>0. m.object \in Objects /\ m.value \in Nat
  BY ConsumerParts
<1>1. PICK x \in Objects : x = m.object
  BY <1>0
<1>2. UNCHANGED <<shown, again, actions, current, appeared>>
  BY DEF UpdateReceived
<1>3. \A o : m \notin Takes(o)
  BY DEF Takes
<1>4. \A o, v : m \in Brings(o, v) => o = x /\ v = m.value
  BY <1>1 DEF Brings
<1>5. /\ ServedLatest'
      /\ \A o : Latest(0, o) /\ (o # x \/ m.value # value[x]) => Latest(0, o)'
      /\ \A o : Later(toConsumer, 0, Takes(o)) => Later(toConsumer', 0, Takes(o))
  <2>1. \A o : (o # x \/ m.value # value[x]) => m \notin Brings(o, value[o])
    BY <1>4
  <2> QED
    BY <1>3, <2>1, LatestReceives
<1>6. /\ \A o \in Objects : /\ o # x => monitored'[o] = monitored[o] /\ proxy'[o] = proxy[o]
                            /\ (monitored'[o] = None) <=> (monitored[o] = None)
      /\ proxy[x] # None => proxy'[x] = m.value
      /\ monitored[x] # None =>
           /\ monitored'[x].state = monitored[x].state
           /\ monitored'[x].updates = monitored[x].updates \union {m.value}
  BY <1>0, <1>1, UpdateReceivedIs
<1>7. ASSUME NEW i \in Interests, NEW o \in Objects, o \in shown[i] \ again,
             Clean(actions[i], Len(actions[i]), o)
      PROVE  proxy'[o] = value[o] \/ Latest(0, o)'
  <2>1. proxy[o] = value[o] \/ Latest(0, o)
    BY <1>7 DEF ShownLatest
  <2>2. CASE o # x
    BY <1>5, <1>6, <2>1, <2>2
  <2>3. CASE o = x
    <3>1. proxy[x] # None
      BY <1>7, <2>3 DEF Types, ViewTypes, Holds
    <3>2. CASE m.value = value[x]
      BY <1>6, <2>3, <3>1, <3>2
    <3>3. CASE m.value # value[x]
      <4>1. proxy[x] \in Kept(proxy, monitored, x)
        BY <3>1 DEF Kept
      <4>2. /\ proxy[x] <= m.value /\ m.value <= value[x]
            /\ m.value \in Nat /\ value[x] \in Nat
        BY <1>1, <4>1, UpdateInOrder
      <4>3. proxy[x] # value[x]
        BY <3>3, <4>2
      <4> QED
        BY <1>5, <2>1, <2>3, <3>3, <4>3
    <3> QED
      BY <3>2, <3>3
  <2> QED
    BY <2>2, <2>3
<1>8. ShownLatest'
  BY <1>2, <1>7 DEF ShownLatest
<1>9. ASSUME NEW o \in Objects, monitored[o] # None, Latest(0, o) \/ value[o] \in Kin(o)
      PROVE  monitored'[o] # None /\ (Latest(0, o)' \/ value[o] \in Kin(o)')
  <2>1. monitored'[o] # None
    BY <1>6, <1>9
  <2>2. Kin(o) \subseteq Kin(o)'
    BY <1>6, <1>9 DEF Kin
  <2>3. CASE Latest(0, o) /\ o = x /\ m.value = value[x]
    <3>1. m.value \in Kin(o)'
      BY <1>6, <1>9, <2>3 DEF Kin
    <3> QED
      BY <2>1, <2>3, <3>1
  <2> QED
    BY <1>5, <1>9, <2>1, <2>2, <2>3
<1>10. ComingLatest'
  BY <1>2, <1>5, <1>9 DEF ComingLatest, Awaited
<1> QED
  BY <1>5, <1>8, <1>10

(* Whatever the consumer receives. *)
LEMMA ConsumerReceivesLatest ==
    ASSUME Types, Order, Handshake, ServedLatest, ShownLatest, ComingLatest, ConsumerReceives,
           \A i, j \in Interests : i = j
    PROVE  (ServedLatest /\ ShownLatest /\ ComingLatest)'
<1>0. toConsumer \in Seq(ConsumerMessages)
  BY DEF Types, NetTypes
<1>1. /\ toConsumer # <<>> /\ toConsumer' = Tail(toConsumer) /\ UNCHANGED <<value, changed>>
  BY DEF ConsumerReceives, stateVars
<1>2. PICK m \in ConsumerMessages : m = Head(toConsumer)
  BY <1>0, <1>1, TailOf
<1>3. \/ ~known /\ UNCHANGED <<handshakeVars, arrivalVars, viewVars, toPublisher>>
      \/ known /\ m.kind = "ready" /\ ReadyReceived
      \/ known /\ m.kind = "published" /\ PublishedReceived(m)
      \/ known /\ m.kind = "types" /\ TypesReceived
      \/ known /\ m.kind = "removed" /\ RemovedReceived(m)
      \/ known /\ m.kind = "response" /\ ResponseReceived(m)
      \/ known /\ m.kind = "update" /\ UpdateReceived(m)
  BY <1>2 DEF ConsumerReceives
<1>4. ASSUME m.kind \notin {"removed", "update"},
             UNCHANGED <<shown, again, actions, current, proxy, appeared>>,
             \A o \in Objects : monitored[o] # None => monitored'[o] = monitored[o]
      PROVE  (ServedLatest /\ ShownLatest /\ ComingLatest)'
  BY <1>1, <1>2, <1>4, LatestIgnores
<1>5. CASE ~known /\ UNCHANGED <<handshakeVars, arrivalVars, viewVars, toPublisher>>
  <2>1. m = Ready
    BY <1>0, <1>1, <1>2, <1>5, TailOf DEF Handshake
  <2>2. m.kind = "ready"
    BY <2>1, ConsumerKinds
  <2> QED
    BY <1>4, <1>5, <2>2 DEF arrivalVars, viewVars
<1>6. CASE m.kind = "ready" /\ ReadyReceived
  BY <1>4, <1>6 DEF ReadyReceived, arrivalVars, viewVars
<1>7. CASE m.kind = "published" /\ PublishedReceived(m)
  <2>1. monitored' = Monitoring(m.objects) \/ monitored' = monitored
    BY <1>7 DEF PublishedReceived
  <2>2. \A o \in Objects : monitored[o] # None => monitored'[o] = monitored[o]
    BY <2>1, MonitoringIs
  <2> QED
    BY <1>4, <1>7, <2>2 DEF PublishedReceived, viewVars
<1>8. CASE m.kind = "types" /\ TypesReceived
  <2>1. monitored' = Monitoring(UNION {Waiting(i) : i \in Interests})
    BY <1>8 DEF TypesReceived
  <2>2. \A o \in Objects : monitored[o] # None => monitored'[o] = monitored[o]
    BY <2>1, MonitoringIs
  <2> QED
    BY <1>4, <1>8, <2>2 DEF TypesReceived, viewVars
<1>9. CASE m.kind = "removed" /\ RemovedReceived(m)
  BY <1>1, <1>2, <1>9, RemovedLatest
<1>10. CASE m.kind = "response" /\ ResponseReceived(m)
  BY <1>1, <1>2, <1>10, ResponseLatest
<1>11. CASE m.kind = "update" /\ UpdateReceived(m)
  BY <1>1, <1>2, <1>11, UpdateLatest
<1> QED
  BY <1>3, <1>5, <1>6, <1>7, <1>8, <1>9, <1>10, <1>11

(* A manager applies its actions: a first appearance begins with the newest that was kept. *)
LEMMA DrainLatest ==
    ASSUME Types, Order, ServedLatest, ShownLatest, ComingLatest, NEW i \in Interests, Drain(i),
           \A a, c \in Interests : a = c
    PROVE  (ServedLatest /\ ShownLatest /\ ComingLatest)'
<1>1. /\ actions' = [actions EXCEPT ![i] = <<>>] /\ UNCHANGED <<toConsumer, value, changed, current>>
  BY DEF Drain, network, stateVars
<1>2. PICK b, v : /\ b = Cleared(i) /\ Reached(b, v, actions[i], Len(actions[i]), i)
                  /\ shown' = v.shown /\ proxy' = v.proxy /\ again' = v.again
                  /\ monitored' = v.monitored /\ appeared' = v.appeared
  BY DrainIs, OrderBounds
<1>3. /\ b.shown = shown /\ b.appeared = appeared /\ b.again = again
      /\ \A o \in Objects : /\ o \in shown[i] => b.proxy[o] = proxy[o]
                            /\ o \notin appeared => b.monitored[o] = monitored[o]
  BY <1>2, ClearedIs
<1>4. \A k, o : Latest(k, o)' <=> Latest(k, o)
  BY <1>1 DEF Latest
<1>5. actions'[i] = <<>>
  BY <1>1 DEF Types, ViewTypes
<1>6. ServedLatest'
  BY <1>1, <1>4 DEF ServedLatest
<1>7. ComingLatest'
  <2> SUFFICES ASSUME NEW o \in Objects, o \notin appeared', Awaited(i, o)'
               PROVE  \/ Later(toConsumer, 0, Takes(o))
                      \/ monitored'[o] # None /\ (Latest(0, o) \/ value[o] \in Kin(o)')
    BY <1>1, <1>4 DEF ComingLatest
  <2>1. o \in current[i]
    BY <1>1, <1>5, QueueEmpty DEF Awaited
  <2>2. o \notin appeared /\ monitored'[o] = monitored[o]
    BY <1>2, <1>3 DEF Reached, Origin
  <2>3. Kin(o)' = Kin(o)
    BY <2>2 DEF Kin
  <2>4. \/ Later(toConsumer, 0, Takes(o))
        \/ monitored[o] # None /\ (Latest(0, o) \/ value[o] \in Kin(o))
    BY <2>1, <2>2 DEF ComingLatest, Awaited
  <2> QED
    BY <2>2, <2>3, <2>4
<1>8. ASSUME NEW o \in Objects, o \in v.shown[i] \ v.again PROVE v.proxy[o] = value[o] \/ Latest(0, o)
  <2>1. o \notin again
    BY <1>2, <1>3, <1>8 DEF Reached
  <2>2. Origin(b, v, actions[i], Len(actions[i]), i, o)
    BY <1>2 DEF Reached
  <2>3. \/ o \in shown[i] /\ Clean(actions[i], Len(actions[i]), o) /\ v.proxy[o] = proxy[o]
        \/ /\ o \notin appeared /\ Adds(actions[i], Len(actions[i]), o)
           /\ v.proxy[o] = InitialState(monitored[o])
    BY <1>3, <1>8, <2>2 DEF Origin
  <2>4. CASE o \in shown[i] /\ Clean(actions[i], Len(actions[i]), o) /\ v.proxy[o] = proxy[o]
    BY <2>1, <2>4 DEF ShownLatest
  <2>5. CASE /\ o \notin appeared /\ Adds(actions[i], Len(actions[i]), o)
             /\ v.proxy[o] = InitialState(monitored[o])
    <3>1. \/ Later(toConsumer, 0, Takes(o))
          \/ monitored[o] # None /\ (Latest(0, o) \/ value[o] \in Kin(o))
      BY <2>5 DEF ComingLatest, Awaited
    <3>2. CASE monitored[o] # None /\ value[o] \in Kin(o)
      <4>1. PICK d \in Data : d = monitored[o]
        BY <3>2 DEF Types, ArrivalTypes
      <4>2. PICK top \in Nat : top = value[o]
        BY DEF Types, StateTypes
      <4>3. d.state \in Nat /\ d.updates \subseteq Nat
        BY DEF Data
      <4>4. {d.state} \union d.updates \subseteq Kept(proxy, monitored, o)
        BY <3>2, <4>1 DEF Kept
      <4>5. d.state <= top /\ \A u \in d.updates : u <= top
        BY <4>2, <4>4, OrderBounds
      <4>6. /\ InitialState(d) \in {d.state} \union d.updates
            /\ \A u \in {d.state} \union d.updates : u <= InitialState(d)
        BY <4>5, InitialStateIs
      <4>7. top \in {d.state} \union d.updates
        BY <3>2, <4>1, <4>2 DEF Kin
      <4>8. InitialState(d) \in Nat /\ InitialState(d) <= top /\ top <= InitialState(d)
        BY <4>3, <4>5, <4>6, <4>7
      <4>9. InitialState(d) = top
        BY <4>8
      <4> QED
        BY <2>5, <4>1, <4>2, <4>9
    <3> QED
      BY <3>1, <3>2 DEF Latest
  <2> QED
    BY <2>3, <2>4, <2>5
<1>9. ShownLatest'
  BY <1>1, <1>2, <1>4, <1>8 DEF ShownLatest
<1> QED
  BY <1>6, <1>7, <1>9

(* A manager goes: with one interest nothing is shown any more, and its provider keeps what it has. *)
LEMMA UnsubscribeLatest ==
    ASSUME Types, ServedLatest, ComingLatest, NEW i \in Interests, Unsubscribe(i),
           \A a, c \in Interests : a = c
    PROVE  (ServedLatest /\ ShownLatest /\ ComingLatest)'
<1>1. UNCHANGED <<toConsumer, value, changed, current, appeared>>
  BY DEF Unsubscribe, stateVars, network
<1>2. /\ shown'[i] = {} /\ actions'[i] = <<>>
      /\ \A o \in Objects : o \notin appeared => monitored'[o] = monitored[o]
  BY UnsubscribeIs
<1>3. \A k, o : Latest(k, o)' <=> Latest(k, o)
  BY <1>1 DEF Latest
<1>4. ServedLatest'
  BY <1>1, <1>3 DEF ServedLatest
<1>5. ShownLatest'
  BY <1>2 DEF ShownLatest
<1>6. ASSUME NEW o \in Objects, Awaited(i, o)' PROVE Awaited(i, o)
  BY <1>1, <1>2, <1>6, QueueEmpty DEF Awaited
<1>7. \A o \in Objects : o \notin appeared => Kin(o)' = Kin(o)
  BY <1>2 DEF Kin
<1>8. ComingLatest'
  BY <1>1, <1>2, <1>3, <1>6, <1>7 DEF ComingLatest
<1> QED
  BY <1>4, <1>5, <1>8

(* A manager comes: the provider repeats what it has, and a view of nothing stays one. *)
LEMMA SubscribeLatest ==
    ASSUME Types, ServedLatest, ShownLatest, ComingLatest, NEW i \in Interests, Subscribe(i)
    PROVE  (ServedLatest /\ ShownLatest /\ ComingLatest)'
<1>1. PICK t \in Seq(Actions) : t = Each("add", current[i])
  BY EachIs DEF Types, ArrivalTypes
<1>2. \A k \in 1..Len(t) : \E o \in current[i] : t[k] = <<"add", o>>
  BY <1>1, EachIs DEF Types, ArrivalTypes
<1>3. /\ actions' = [actions EXCEPT ![i] = t] /\ i \notin managers
      /\ UNCHANGED <<toConsumer, value, changed, shown, again, current, proxy, appeared, monitored>>
  BY <1>1, EachQueued DEF Subscribe, Subscribes, stateVars
<1>4. /\ actions'[i] = t /\ shown[i] = {}
      /\ \A j \in Interests \ {i} : actions'[j] = actions[j]
  BY <1>3 DEF Types, ViewTypes
<1>5. ASSUME NEW o \in Objects, Adds(t, Len(t), o) PROVE o \in current[i]
  <2>1. Has(t, <<"add", o>>)
    BY <1>5 DEF Adds, Has
  <2> QED
    BY <1>2, <2>1 DEF Has
<1>6. \A j \in Interests, o \in Objects : Awaited(j, o)' => Awaited(j, o)
  BY <1>3, <1>4, <1>5 DEF Awaited
<1>7. \A k, o : Latest(k, o)' <=> Latest(k, o)
  BY <1>3 DEF Latest
<1>8. ServedLatest'
  BY <1>3, <1>7 DEF ServedLatest
<1>9. ShownLatest'
  BY <1>3, <1>4, <1>7 DEF ShownLatest
<1>10. \A o : Kin(o)' = Kin(o)
  BY <1>3 DEF Kin
<1>11. ComingLatest'
  BY <1>3, <1>6, <1>7, <1>10 DEF ComingLatest
<1> QED
  BY <1>8, <1>9, <1>11

(* That a removal crossed a subscription is not forgotten. *)
LEMMA CrossedStays ==
    ASSUME [Next]_vars, crossed
    PROVE  crossed'
<1>1. CASE UNCHANGED vars
  BY <1>1 DEF vars, viewVars
<1>2. CASE ConsumerReceives
  BY <1>2 DEF ConsumerReceives, ReadyReceived, PublishedReceived, TypesReceived, RemovedReceived,
     ResponseReceived, UpdateReceived, viewVars
<1>3. CASE ConsumerMeets \/ PublisherMeets \/ EvaluateBegins \/ SendUpdates \/ PublisherReceives
  BY <1>3 DEF ConsumerMeets, PublisherMeets, EvaluateBegins, SendUpdates, PublisherReceives, viewVars
<1>4. ASSUME NEW o \in Objects, TimerFires(o) \/ TimeoutRuns(o) \/ Commit(o) PROVE crossed'
  BY <1>4 DEF TimerFires, TimeoutRuns, Commit, viewVars
<1>5. ASSUME NEW i \in Interests,
             \/ Subscribe(i) \/ SubscribeMeetsRemoval(i) \/ Unsubscribe(i) \/ Drain(i) \/ Evaluate(i)
      PROVE  crossed'
  BY <1>5 DEF Subscribe, SubscribeMeetsRemoval, Unsubscribe, Drain, Evaluate, viewVars
<1> QED
  BY <1>1, <1>2, <1>3, <1>4, <1>5 DEF Next

(* Every step of a consumer with one interest. *)
LEMMA NextPopulated ==
    ASSUME Exchange, NoGhostsComing, Calm, Populated, [Next]_vars, \A i, j \in Interests : i = j
    PROVE  Populated'
<1> SUFFICES ASSUME timeouts' = 0, ~crossed' PROVE (ServedLatest /\ ShownLatest /\ ComingLatest)'
  BY DEF Populated
<1>0. Types /\ Order /\ Handshake /\ Agreement
  BY DEF Exchange
<1>1. timeouts = 0 /\ ~crossed
  <2>1. timeouts = 0
    BY <1>0, NextPatient DEF Calm
  <2>2. crossed => crossed'
    BY CrossedStays
  <2> QED
    BY <2>1, <2>2
<1>2. Patient /\ OffersLinked /\ ServedLatest /\ ShownLatest /\ ComingLatest
  BY <1>1 DEF Calm, Populated
<1>3. CASE UNCHANGED vars
  BY <1>2, <1>3, LatestStays DEF vars, network, arrivalVars, viewVars, stateVars
<1>4. CASE ConsumerMeets \/ EvaluateBegins
  BY <1>2, <1>4, LatestStays DEF ConsumerMeets, EvaluateBegins, network, arrivalVars, viewVars,
     stateVars
<1>5. ASSUME NEW o \in Objects, TimerFires(o) \/ TimeoutRuns(o) PROVE FALSE
  BY <1>1, <1>2, <1>5 DEF TimerFires, TimeoutRuns, Patient
<1>6. ASSUME NEW i \in Interests, SubscribeMeetsRemoval(i) PROVE FALSE
  BY <1>6 DEF SubscribeMeetsRemoval
<1>7. CASE PublisherMeets
  <2>1. toConsumer' = toConsumer \o <<Ready>>
        /\ UNCHANGED <<value, changed, shown, again, actions, current, proxy, appeared, monitored>>
    BY <1>7 DEF PublisherMeets, ToConsumer, arrivalVars, viewVars, stateVars
  <2> QED
    BY <1>0, <1>2, <2>1, LatestSendsOne, ConsumerTold, ConsumerKinds
<1>8. ASSUME NEW i \in Interests, Evaluate(i) PROVE (ServedLatest /\ ShownLatest /\ ComingLatest)'
  <2>1. toConsumer' = toConsumer \o Changes(i)
        /\ UNCHANGED <<value, changed, shown, again, actions, current, proxy, appeared, monitored>>
    BY <1>8 DEF Evaluate, Changes, ToConsumer, arrivalVars, viewVars
  <2>2. PICK t \in Seq(ConsumerMessages) : t = Changes(i)
    BY <1>0, ChangesAre
  <2>3. \A k \in 1..Len(t) : t[k].kind \in {"published", "removed"}
    BY <1>0, <2>2, ChangesAre
  <2> QED
    BY <1>0, <1>2, <2>1, <2>2, <2>3, LatestSends
<1> QED
  BY <1>0, <1>1, <1>2, <1>3, <1>4, <1>5, <1>6, <1>7, <1>8, ConsumerReceivesLatest,
     PublisherReceivesLatest, CommitLatest, SendUpdatesLatest, DrainLatest, SubscribeLatest,
     UnsubscribeLatest DEF Next

(* When all is settled what is shown is populated. *)
LEMMA SettledPopulated ==
    ASSUME Exchange, Populated
    PROVE  AppearsPopulated
<1> SUFFICES ASSUME Settled, timeouts = 0, ~crossed, NEW i \in Interests, NEW o \in shown[i] \ again
             PROVE  proxy[o] = value[o]
  BY DEF AppearsPopulated
<1>1. o \in Objects /\ actions[i] = <<>>
  BY DEF Exchange, Types, ViewTypes, Settled
<1>2. Clean(actions[i], Len(actions[i]), o)
  BY <1>1, QueueEmpty
<1>3. proxy[o] = value[o] \/ Latest(0, o)
  BY <1>1, <1>2 DEF Populated, ShownLatest
<1>4. \A k \in 1..Len(toConsumer) : FALSE
  BY DEF Settled
<1>5. ~Later(toConsumer, 0, Brings(o, value[o])) /\ ~Later(toConsumer, 0, Takes(o))
  BY <1>4 DEF Later
<1>6. o \notin changed
  BY DEF Settled, Exchange, Types, StateTypes
<1> QED
  BY <1>3, <1>5, <1>6 DEF Latest

----------------------------------------------------------------------------
(* The invariants of a consumer with one interest hold from the beginning and at every step. *)
LEMMA InitArrival == Init => Exchange /\ NoGhostsComing /\ Calm /\ Populated
BY InitExchange, InitGhosts, InitCalm, InitPopulated

(* Every step keeps them. *)
LEMMA NextArrival ==
    ASSUME Exchange, NoGhostsComing, Calm, Populated, [Next]_vars, \A i, j \in Interests : i = j
    PROVE  (Exchange /\ NoGhostsComing /\ Calm /\ Populated)'
<1>1. Exchange'
  BY NextExchange
<1>2. NoGhostsComing'
  BY NextGhosts
<1>3. Calm'
  BY NextCalm DEF Exchange
<1>4. Populated'
  BY NextPopulated
<1> QED
  BY <1>1, <1>2, <1>3, <1>4

(* No ghosts: a consumer with one interest, and any number of objects, subscriptions, commits   *)
(* and timeouts.  Whatever crossed on the way (objectsStateResponse against remoteObjectsRemoved, *)
(* an unsubscription against either, a timeout against a late answer), once all is settled both  *)
(* sides agree on the interest, and the consumer keeps no object that is not offered for it: in  *)
(* its RemoteProvider, which outlives the manager and repeats what it has to the next one         *)
(* (addSubscriber), and in what the manager shows. The latter leaves out a removal that was       *)
(* handled while a subscription was made.                                                        *)
(* With two interests it is false of the code: knownLocalObjects_ is kept per participant, so a  *)
(* state request for an interest that has lost the object is still answered when the other has it *)
(* (objectsStateRequest), after the consumer has handled the removal.                            *)
THEOREM RemoteViews ==
    ASSUME \A i, j \in Interests : i = j
    PROVE  Spec => []RemoteViewsAreSound
<1> DEFINE Whole == Exchange /\ NoGhostsComing
<1>1. Init => Whole
  BY InitExchange, InitGhosts
<1>2. Whole /\ [Next]_vars => Whole'
  BY NextExchange, NextGhosts
<1>3. Whole => RemoteViewsAreSound
  BY ExchangeTypes, SettledGhosts DEF RemoteViewsAreSound
<1> QED
  BY <1>1, <1>2, <1>3, PTL DEF Spec

(* An object that appears is populated: a consumer with one interest, any number of objects.     *)
(* The state it was made from, the updates that were kept in the meantime (addUpdatesIfNeeded,   *)
(* applyStateAndStopMonitoring) and those still to come never leave its proxy behind the object  *)
(* once all is settled, also for an object that a provider without a manager has kept. Left out   *)
(* are an object that had appeared before, and behaviours in which a resolution timer expired or  *)
(* a removal was handled while a subscription was made.                                          *)
THEOREM ArrivalPopulates ==
    ASSUME \A i, j \in Interests : i = j
    PROVE  Spec => []AppearsPopulated
<1> DEFINE Whole == Exchange /\ NoGhostsComing /\ Calm /\ Populated
<1>1. Init => Whole
  BY InitArrival
<1>2. Whole /\ [Next]_vars => Whole'
  BY NextArrival
<1>3. Whole => AppearsPopulated
  BY SettledPopulated
<1> QED
  BY <1>1, <1>2, <1>3, PTL DEF Spec

============================================================================
