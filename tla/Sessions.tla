------------------------------ MODULE Sessions ------------------------------
(***************************************************************************)
(* Which sessions there are, and who is told: SessionManager               *)
(* (libs/kernel/src/bus/session_manager.cpp) and the SourceInfo of every   *)
(* runner's SessionsDiscoverer (source_info.cpp).                          *)
(*                                                                         *)
(* One session name, which is enough: names share nothing but the locks.   *)
(* The components open the session and drop it again from their threads,   *)
(* and the ether component's thread reports the processes it sees in it.   *)
(* The session is available while a component holds it open or a process   *)
(* was detected in it, and every change of that is announced to every      *)
(* runner, which hands it to its component when it drains its inputs.      *)
(*                                                                         *)
(* A watcher is a component that opens a session when its discoverer calls *)
(* back (TopologyService of the jsonrpc component); the others open and    *)
(* drop it when they like.  What is done under localSessionsMutex_ takes   *)
(* no other lock and is one step.                                          *)
(***************************************************************************)
EXTENDS Integers

CONSTANTS
    Components,
    Ether,        \* the thread of the ether component
    Processes,    \* remote processes
    WatcherSets,  \* which components may be watchers
    Nobody

ASSUME SessionsAssumption ==
    /\ Ether \notin Components /\ Nobody \notin Components \union {Ether}
    /\ WatcherSets \subseteq SUBSET Components

Threads == Components \union {Ether}

VARIABLES
    watchers,
    \* SessionManager
    holders,               \* the owners of the live session listed in locallyOpenedSessions_
    remotes,               \* remotelyDetectedProcessesPerSession_
    usageMutex_, remoteSessionsMutex_,   \* the thread that holds it, or Nobody
    \* SourceInfo, per component
    sourcesMutex_,
    currentSources_,       \* how many times the session is in the vector
    pendingAdditions_, pendingRemovals_, \* whether it is in the vector
    \* per thread
    pc,
    what, todo,            \* what is being announced, and to whom it was not yet
    nameStillOpen,
    \* history
    told,      \* the last announcement made to each component
    raced,     \* a detection came between the two halves of an opening, or an opening between the
               \* two halves of a closing
    flapped    \* an announcement came while its opposite was pending

manager == <<holders, remotes, usageMutex_, remoteSessionsMutex_>>
sources == <<currentSources_, pendingAdditions_, pendingRemovals_>>
local   == <<what, todo, nameStillOpen>>
history == <<told, raced, flapped>>
sessionsVars == <<watchers, manager, sourcesMutex_, sources, pc, local, history>>

SessionsInit ==
    /\ watchers \in WatcherSets
    /\ holders = {} /\ remotes = {}
    /\ usageMutex_ = Nobody /\ remoteSessionsMutex_ = Nobody
    /\ sourcesMutex_ = [c \in Components |-> Nobody]
    /\ currentSources_ = [c \in Components |-> 0]
    /\ pendingAdditions_ = [c \in Components |-> FALSE]
    /\ pendingRemovals_ = [c \in Components |-> FALSE]
    /\ pc = [t \in Threads |-> "idle"]
    /\ what = [t \in Threads |-> "available"] /\ todo = [t \in Threads |-> {}]
    /\ nameStillOpen = [c \in Components |-> FALSE]
    /\ told = [c \in Components |-> "unavailable"]
    /\ raced = FALSE
    /\ flapped = [c \in Components |-> FALSE]

Goto(t, label) == pc' = [pc EXCEPT ![t] = label]

\* the call returns; one that a callback made ends the drain with it
Finish(t) ==
    /\ Goto(t, "idle")
    /\ sourcesMutex_' = [c \in Components |-> IF c = t THEN Nobody ELSE sourcesMutex_[c]]

\* under remoteSessionsMutex_: KernelImpl::sessionAvailable or sessionUnavailable follows
Announce(t, news) ==
    /\ remoteSessionsMutex_' = t
    /\ what' = [what EXCEPT ![t] = news]
    /\ todo' = [todo EXCEPT ![t] = Components]
    /\ Goto(t, "tell")
    /\ UNCHANGED sourcesMutex_

\* nothing to announce
Quiet == UNCHANGED <<remoteSessionsMutex_, what, todo>>

----------------------------------------------------------------------------
(* getOrOpenSession *)

\* under localSessionsMutex_: the live session, or a new one
Open(c) ==
    /\ \/ pc[c] = "detected"
       \/ pc[c] = "idle" /\ c \notin watchers /\ c \notin holders
    /\ holders' = holders \union {c}
    /\ IF holders = {} THEN Goto(c, "opened") /\ UNCHANGED sourcesMutex_ ELSE Finish(c)
    /\ raced' = \/ raced
                \/ holders = {} /\ \E d \in Components : pc[d] = "unlisted" /\ ~nameStillOpen[d]
    /\ UNCHANGED <<watchers, remotes, usageMutex_, remoteSessionsMutex_, sources, local, told, flapped>>

\* under remoteSessionsMutex_
OpenAnnounces(c) ==
    /\ pc[c] = "opened" /\ remoteSessionsMutex_ = Nobody
    /\ IF remotes = {} THEN Announce(c, "available") ELSE Finish(c) /\ Quiet
    /\ UNCHANGED <<watchers, holders, remotes, usageMutex_, sources, nameStillOpen, history>>

----------------------------------------------------------------------------
(* ~Session and sessionDeleted *)

\* a handle goes, and the session with the last one
Release(c) ==
    /\ \/ pc[c] = "undetected"
       \/ pc[c] = "idle" /\ c \notin watchers /\ c \in holders
    /\ holders' = holders \ {c}
    /\ IF holders = {c} THEN Goto(c, "dying") /\ UNCHANGED sourcesMutex_ ELSE Finish(c)
    /\ UNCHANGED <<watchers, remotes, usageMutex_, remoteSessionsMutex_, sources, local, history>>

\* makeDeletionGuard
MakeDeletionGuard(c) ==
    /\ pc[c] = "dying" /\ usageMutex_ = Nobody
    /\ usageMutex_' = c
    /\ Goto(c, "guarded")
    /\ UNCHANGED <<watchers, holders, remotes, remoteSessionsMutex_, sourcesMutex_, sources, local, history>>

\* mutant: a session opened again under the name is not looked for
Unlist(c) ==
    /\ pc[c] = "guarded"
    /\ nameStillOpen' = [nameStillOpen EXCEPT ![c] = FALSE]
    /\ Goto(c, "unlisted")
    /\ UNCHANGED <<watchers, manager, sourcesMutex_, sources, what, todo, history>>

\* under localSessionsMutex_: the expired entries go
CloseUnlists(c) ==
    /\ pc[c] = "guarded"
    /\ nameStillOpen' = [nameStillOpen EXCEPT ![c] = holders # {}]
    /\ Goto(c, "unlisted")
    /\ UNCHANGED <<watchers, manager, sourcesMutex_, sources, what, todo, history>>

\* under remoteSessionsMutex_
CloseAnnounces(c) ==
    /\ pc[c] = "unlisted" /\ remoteSessionsMutex_ = Nobody
    /\ IF ~nameStillOpen[c] /\ remotes = {}
         THEN Announce(c, "unavailable") /\ UNCHANGED usageMutex_
         ELSE Finish(c) /\ Quiet /\ usageMutex_' = Nobody
    /\ UNCHANGED <<watchers, holders, remotes, sources, nameStillOpen, history>>

----------------------------------------------------------------------------
(* What the ether component reports; both read whether the session is open locally while they *)
(* hold remoteSessionsMutex_                                                                   *)

RemoteProcessDetected(p) ==
    /\ pc[Ether] = "idle" /\ remoteSessionsMutex_ = Nobody /\ p \notin remotes
    /\ remotes' = remotes \union {p}
    /\ IF remotes = {} /\ holders = {}
         THEN Announce(Ether, "available")
         ELSE Quiet /\ UNCHANGED <<pc, sourcesMutex_>>
    /\ raced' = (raced \/ (remotes = {} /\ \E c \in Components : pc[c] = "opened"))
    /\ UNCHANGED <<watchers, holders, usageMutex_, sources, nameStillOpen, told, flapped>>

RemoteProcessLost(p) ==
    /\ pc[Ether] = "idle" /\ remoteSessionsMutex_ = Nobody /\ p \in remotes
    /\ remotes' = remotes \ {p}
    /\ IF remotes = {p} /\ holders = {}
         THEN Announce(Ether, "unavailable")
         ELSE Quiet /\ UNCHANGED <<pc, sourcesMutex_>>
    /\ UNCHANGED <<watchers, holders, usageMutex_, sources, nameStillOpen, history>>

----------------------------------------------------------------------------
(* SourceInfo *)

\* mutant: a source that is listed is added again
AddSourceAgain(c) ==
    /\ pendingAdditions_' = [pendingAdditions_ EXCEPT ![c] = TRUE]
    /\ pendingRemovals_' = [pendingRemovals_ EXCEPT ![c] = FALSE]

AddSource(c) ==
    IF currentSources_[c] = 0
      THEN /\ pendingAdditions_' = [pendingAdditions_ EXCEPT ![c] = TRUE]
           /\ pendingRemovals_' = [pendingRemovals_ EXCEPT ![c] = FALSE]
      ELSE UNCHANGED <<pendingAdditions_, pendingRemovals_>>

RemoveSource(c) ==
    IF currentSources_[c] > 0
      THEN /\ pendingRemovals_' = [pendingRemovals_ EXCEPT ![c] = TRUE]
           /\ pendingAdditions_' = [pendingAdditions_ EXCEPT ![c] = FALSE]
      ELSE UNCHANGED <<pendingAdditions_, pendingRemovals_>>

\* the announcement reaches the next runner, whose sourcesMutex_ is recursive
Tell(t, c) ==
    /\ pc[t] = "tell" /\ c \in todo[t]
    /\ sourcesMutex_[c] \in {Nobody, t}
    /\ IF what[t] = "available" THEN AddSource(c) ELSE RemoveSource(c)
    /\ todo' = [todo EXCEPT ![t] = @ \ {c}]
    /\ told' = [told EXCEPT ![c] = what[t]]
    /\ flapped' = [flapped EXCEPT ![c] =
                     @ \/ (IF what[t] = "available" THEN pendingRemovals_[c] ELSE pendingAdditions_[c])]
    /\ UNCHANGED <<watchers, manager, sourcesMutex_, currentSources_, pc, what, nameStillOpen, raced>>

\* every runner was told: the locks go
Told(t) ==
    /\ pc[t] = "tell" /\ todo[t] = {}
    /\ remoteSessionsMutex_' = Nobody
    /\ usageMutex_' = IF usageMutex_ = t THEN Nobody ELSE usageMutex_
    /\ Finish(t)
    /\ UNCHANGED <<watchers, holders, remotes, sources, local, history>>

\* mutant: the removals are forgotten
DrainAdditions(c) == currentSources_[c] + (IF pendingAdditions_[c] THEN 1 ELSE 0)

\* the additions are appended, the removals erased
Drained(c) ==
    IF pendingRemovals_[c] THEN 0
                           ELSE currentSources_[c] + (IF pendingAdditions_[c] THEN 1 ELSE 0)

\* SessionsDiscoverer::drainInputs and SourceInfo::drainInputs: the callbacks run under sourcesMutex_
DrainInputs(c) ==
    /\ pc[c] = "idle" /\ sourcesMutex_[c] = Nobody
    /\ currentSources_' = [currentSources_ EXCEPT ![c] = Drained(c)]
    /\ pendingAdditions_' = [pendingAdditions_ EXCEPT ![c] = FALSE]
    /\ pendingRemovals_' = [pendingRemovals_ EXCEPT ![c] = FALSE]
    /\ IF c \in watchers /\ (pendingAdditions_[c] \/ pendingRemovals_[c])
         THEN /\ Goto(c, IF pendingRemovals_[c] THEN "undetected" ELSE "detected")
              /\ sourcesMutex_' = [sourcesMutex_ EXCEPT ![c] = c]
         ELSE UNCHANGED <<pc, sourcesMutex_>>
    /\ UNCHANGED <<watchers, manager, local, history>>

----------------------------------------------------------------------------

\* a thread goes on with what it began
Proceed(t) ==
    \/ /\ t \in Components
       /\ \/ pc[t] = "detected" /\ Open(t)
          \/ pc[t] = "undetected" /\ Release(t)
          \/ OpenAnnounces(t) \/ MakeDeletionGuard(t) \/ CloseUnlists(t) \/ CloseAnnounces(t)
    \/ \E c \in Components : Tell(t, c)
    \/ Told(t)

SessionsNext ==
    \/ \E t \in Threads : Proceed(t)
    \/ \E c \in Components : DrainInputs(c) \/ (pc[c] = "idle" /\ (Open(c) \/ Release(c)))
    \/ \E p \in Processes : RemoteProcessDetected(p) \/ RemoteProcessLost(p)

SessionsSpec == SessionsInit /\ [][SessionsNext]_sessionsVars

----------------------------------------------------------------------------
(* Properties *)

\* The variables keep their types; in particular no list holds the session twice (addSource).
SessionsTypeOK ==
    /\ holders \subseteq Components /\ remotes \subseteq Processes
    /\ usageMutex_ \in Components \union {Nobody}
    /\ remoteSessionsMutex_ \in Threads \union {Nobody}
    /\ \A c \in Components : sourcesMutex_[c] \in {Nobody, c}
    /\ currentSources_ \in [Components -> {0, 1}]   \* a session is listed once
    /\ pendingAdditions_ \in [Components -> BOOLEAN] /\ pendingRemovals_ \in [Components -> BOOLEAN]
    /\ pc \in [Threads -> {"idle", "opened", "dying", "guarded", "unlisted", "tell",
                           "detected", "undetected"}]
    /\ what \in [Threads -> {"available", "unavailable"}] /\ todo \in [Threads -> SUBSET Components]
    /\ nameStillOpen \in [Components -> BOOLEAN]

Available == holders # {} \/ remotes # {}

\* no call is in progress
SessionsSettled == \A t \in Threads : pc[t] \in {"idle", "detected", "undetected"}

\* Between calls, the last thing every runner was told is what is true: whichever way openings,
\* closings and detections follow each other, the session was announced when it appeared and
\* retired when the last holder and the last process were gone, and a session opened again while
\* the old one was being destroyed was not retired with it.  Only the two windows between the
\* halves of an opening or a closing are left open (raced).
AnnouncementsAreRight ==
    (SessionsSettled /\ ~raced) => \A c \in Components : (told[c] = "available") = Available

\* What a component sees after a drain is what its runner was told last, unless two opposite
\* announcements came between two drains.
ListFollowsAnnouncements ==
    \A c \in Components :
        (~pendingAdditions_[c] /\ ~pendingRemovals_[c] /\ ~flapped[c])
            => (currentSources_[c] > 0) = (told[c] = "available")

=============================================================================
