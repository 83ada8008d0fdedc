-------------------------- MODULE EtherConnections --------------------------
(***************************************************************************)
(* Two kernels that find each other and talk through the ether component   *)
(* (components/ether/src: beam_tracker, discovery, ether_transport,        *)
(* process_handler), for one session.                                      *)
(*                                                                         *)
(* Each kernel beams its presence while its transport runs.  The first     *)
(* beam of the other makes a track; the kernel with the higher process id  *)
(* opens a TCP connection then, and only then.  A connection has a handler *)
(* at each end that exchanges Hello and Ready and then announces the local *)
(* participants.  A track that gets no beam expires, and the handler of    *)
(* that process is disconnected by the discovery thread, while the         *)
(* transport's i/o thread may be handling a message of it.  A Hello of a   *)
(* connection that has failed may end the i/o thread with an exception.    *)
(*                                                                         *)
(* External: TCP, as two first-in first-out streams that either end may    *)
(* close; asio, whose one i/o thread per transport runs the completion of  *)
(* an operation that was cancelled before those that finish later; the     *)
(* session behind TransportListener, as the set of participants it has     *)
(* been told of (its own queue is in SessionBuses).                        *)
(***************************************************************************)
EXTENDS Integers, Sequences, FiniteSets

CONSTANTS
    Kernels,        \* the two kernels
    Initiator,      \* the one with the higher process id
    Participants,   \* the ids a kernel gives its local participants
    MaxConns,       \* bound: connections ever opened
    MaxFaults,      \* bound: beams lost, connections broken, kernels crashed, sessions reopened
    MaxJoins        \* bound: participants that join

ASSUME EtherAssumption ==
    /\ IsFiniteSet(Kernels) /\ Cardinality(Kernels) = 2 /\ Initiator \in Kernels
    /\ MaxConns \in Nat /\ MaxFaults \in Nat /\ MaxJoins \in Nat

Conns == 1..MaxConns
Other(k) == CHOOSE o \in Kernels : o # k
Acceptor == Other(Initiator)

\* "stuck" is open, but the i/o thread that should read and write it has ended
Sockets == {"none", "connecting", "open", "stuck", "aborting", "gone"}
Held == {"open", "stuck", "aborting"}
Messages == {<<"hello">>, <<"ready">>} \cup ({"joined", "left"} \X Participants)

VARIABLES
    up,             \* of the transport: "down", "up", or "crashed" with its kernel
    starts,         \* how often it was started: the endpoints it beams
    named,          \* the appName that is configured is the name of the process
    compatible,     \* the versions in the Hello allow a connection
    ioEnded,        \* the kernels whose transport runs without its i/o thread
    participants,   \* localBuses_
    joins,
    track,          \* of the other kernel: 0, or the endpoints it had when it was found
    expiring,       \* the expiry of the track has been queued
    detaching,      \* the connection the discovery thread is disconnecting, or 0
    opened,         \* how many connections the initiator has opened
    handler,        \* processes_: per kernel and connection
    wire,           \* what is on its way to a kernel, per connection
    late,           \* the message the i/o thread is handling while its socket is being shut
    readyProcesses_,\* the connection found under the other's process id, or 0
    broken,         \* the connections TCP will report as failed
    silent,         \* those whose peer vanished without a word
    faults,
    known,          \* external: the participants the session has been told of
    overlapped      \* history: a connection became ready before another one was all gone

kernelVars == <<up, starts, named, compatible, ioEnded>>
localVars == <<participants, joins>>
trackVars == <<track, expiring, detaching>>
connVars == <<opened, handler, wire, late>>
netVars == <<broken, silent, faults>>
stateVars == <<readyProcesses_, known, overlapped>>
vars == <<kernelVars, localVars, trackVars, connVars, netVars, stateVars>>

\* info_ and procId_ are what the Hello and the Ready of the other side brought
NoHandler == [sock |-> "none", info |-> FALSE, procId |-> FALSE]

Init ==
    /\ up = [k \in Kernels |-> "down"]
    /\ starts = [k \in Kernels |-> 0]
    /\ named \in BOOLEAN
    /\ compatible \in BOOLEAN
    /\ ioEnded = {}
    /\ participants = [k \in Kernels |-> {}]
    /\ joins = 0
    /\ track = [k \in Kernels |-> 0]
    /\ expiring = [k \in Kernels |-> FALSE]
    /\ detaching = [k \in Kernels |-> 0]
    /\ opened = 0
    /\ handler = [k \in Kernels |-> [c \in Conns |-> NoHandler]]
    /\ wire = [k \in Kernels |-> [c \in Conns |-> <<>>]]
    /\ late = [k \in Kernels |-> <<>>]
    /\ readyProcesses_ = [k \in Kernels |-> 0]
    /\ broken = {}
    /\ silent = {}
    /\ faults = 0
    /\ known = [k \in Kernels |-> {}]
    /\ overlapped = FALSE

Open(k, c) == handler[k][c].sock = "open"

\* tcpSendControlMessage, by a handler that still has its socket
Sent(w, k, c, msgs) ==
    IF handler[k][c].sock \in {"connecting", "open"}
    THEN [w EXCEPT ![Other(k)][c] = @ \o msgs]
    ELSE w

\* BusJoined, BusLeft
About(kind, p) == <<kind, p>>

\* the announcement of a set of participants, in some order
Announcing(kind, ps) ==
    LET n == Cardinality(ps)
    IN {s \in [1..n -> {About(kind, p) : p \in ps}] : \A i, j \in 1..n : i # j => s[i] # s[j]}

\* the i/o thread is not in a handler, and no cancelled operation is waiting for it
IoIsFree(k) ==
    /\ up[k] = "up" /\ k \notin ioEnded /\ late[k] = <<>>
    /\ \A c \in Conns : handler[k][c].sock # "aborting"

CanRead(k, c) == Open(k, c) /\ IoIsFree(k) /\ wire[k][c] # <<>>

-----------------------------------------------------------------------------
(* Discovery: the thread of the ether component *)

\* mutant: both wait for a connection
WaitsForConnection(k) == FALSE

\* the comparison of the process ids
StartsConnection(k) == k = Initiator

\* detectedNewProcess: the initiator opens a connection, the other waits for one
Detected(k) ==
    IF StartsConnection(k) /\ up'[k] = "up"
    THEN /\ opened < MaxConns
         /\ opened' = opened + 1
         /\ handler' = [handler EXCEPT ![k][opened + 1].sock = "connecting"]
         /\ UNCHANGED <<wire, late>>
    ELSE UNCHANGED connVars

\* beamReceived for the first time; another beam only restarts the timer, and cannot take back an
\* expiry that is queued
BeamReceived(k) ==
    /\ up[Other(k)] = "up" /\ up[k] # "crashed" /\ detaching[k] = 0
    /\ track[k] = 0
    /\ track' = [track EXCEPT ![k] = starts[Other(k)]]
    /\ UNCHANGED kernelVars
    /\ Detected(k)
    /\ UNCHANGED <<localVars, expiring, detaching, netVars, stateVars>>

\* the timer of a track: the other does not beam, or its beams are lost
TimerFires(k) ==
    /\ track[k] # 0 /\ ~expiring[k] /\ up[k] # "crashed"
    /\ expiring' = [expiring EXCEPT ![k] = TRUE]
    /\ IF up[Other(k)] = "up"
       THEN faults < MaxFaults /\ faults' = faults + 1
       ELSE UNCHANGED faults
    /\ UNCHANGED <<kernelVars, localVars, track, detaching, connVars, broken, silent, stateVars>>

\* mutant: nobody is disconnected when a beam is lost
NobodyLost(k) == {}

\* lostExistingProcess: the handlers whose info_ equals the lost one, appName included, which is
\* the name of the process in a beam and the configured one in a Hello
LostHandlers(k) ==
    {c \in Conns : /\ handler[k][c].sock \in {"connecting", "open", "stuck"}
                   /\ handler[k][c].info
                   /\ named}

\* readyProcesses_.erase(procId_), remoteProcessLost(procId_)
Erased(k, c) ==
    IF handler[k][c].procId THEN [readyProcesses_ EXCEPT ![k] = 0] ELSE readyProcesses_
Forgotten(k, c) == IF handler[k][c].procId THEN [known EXCEPT ![k] = {}] ELSE known

\* the discovery thread shuts the sockets of a handler and takes it from the ready ones
Shut(k, c) ==
    /\ detaching' = [detaching EXCEPT ![k] = c]
    /\ handler' = [handler EXCEPT ![k][c].sock = "aborting"]
    /\ wire' = [wire EXCEPT ![k][c] = <<>>]
    /\ readyProcesses_' = Erased(k, c)

\* the i/o thread has taken a message of it
TakenLate(k, c) == CanRead(k, c) /\ late' = [late EXCEPT ![k] = <<c, Head(wire[k][c])>>]

RemoveTrack(k) ==
    /\ expiring[k] /\ detaching[k] = 0 /\ up[k] # "crashed"
    /\ expiring' = [expiring EXCEPT ![k] = FALSE]
    /\ track' = [track EXCEPT ![k] = 0]
    /\ UNCHANGED <<kernelVars, localVars, opened, netVars, known, overlapped>>

\* removeTrack: the first of them is disconnected
ExpiryRuns(k) ==
    /\ RemoveTrack(k)
    /\ IF up[k] = "up" /\ LostHandlers(k) # {}
       THEN LET c == CHOOSE d \in LostHandlers(k) : \A e \in LostHandlers(k) : d <= e
            IN Shut(k, c) /\ (UNCHANGED late \/ TakenLate(k, c))
       ELSE UNCHANGED <<detaching, late, handler, wire, readyProcesses_>>

\* or one whose Hello the i/o thread is handling: it has set info_ already
ExpiryMeetsHello(k, c) ==
    /\ RemoveTrack(k)
    /\ named /\ compatible /\ \A d \in LostHandlers(k) : c < d
    /\ TakenLate(k, c) /\ Head(wire[k][c]) = <<"hello">>
    /\ Shut(k, c)

\* and then the session is told, by what procId_ is now
LostBeamDone(k) ==
    /\ detaching[k] # 0
    /\ detaching' = [detaching EXCEPT ![k] = 0]
    /\ known' = Forgotten(k, detaching[k])
    /\ UNCHANGED <<kernelVars, localVars, track, expiring, connVars, netVars, readyProcesses_,
                   overlapped>>

-----------------------------------------------------------------------------
(* The handlers: the i/o thread of a transport *)

\* onDisconnected and processDisconnected by the i/o thread
Disconnect(k, c) ==
    /\ handler' = [handler EXCEPT ![k][c].sock = "gone"]
    /\ wire' = [wire EXCEPT ![k][c] = <<>>]
    /\ readyProcesses_' = Erased(k, c)
    /\ known' = Forgotten(k, c)
    /\ UNCHANGED <<kernelVars, localVars, trackVars, opened, late, netVars, overlapped>>

\* onConnected of the initiator
Connected(c) ==
    /\ handler[Initiator][c].sock = "connecting" /\ IoIsFree(Initiator)
    /\ up[Acceptor] = "up"
    /\ handler' = [handler EXCEPT ![Initiator][c].sock = "open"]
    /\ wire' = Sent(wire, Initiator, c, <<<<"hello">>>>)
    /\ UNCHANGED <<kernelVars, localVars, trackVars, opened, late, netVars, stateVars>>

\* none of the endpoints answers: they are old ones, or the network is down
ConnectFails(c) ==
    /\ handler[Initiator][c].sock = "connecting" /\ IoIsFree(Initiator)
    /\ (up[Acceptor] # "up" \/ track[Initiator] # starts[Acceptor])
    /\ Disconnect(Initiator, c)

\* processConnected: the acceptor takes a connection that was made (the Hello of the initiator is
\* in the stream) and says Hello
Accepted(c) ==
    /\ handler[Acceptor][c].sock = "none" /\ IoIsFree(Acceptor)
    /\ handler[Initiator][c].sock \notin {"none", "connecting"} /\ c \notin broken \cup silent
    /\ wire[Acceptor][c] # <<>>
    /\ handler' = [handler EXCEPT ![Acceptor][c].sock = "open"]
    /\ wire' = IF Open(Initiator, c)
               THEN [wire EXCEPT ![Initiator][c] = Append(@, <<"hello">>)]
               ELSE wire
    /\ UNCHANGED <<kernelVars, localVars, trackVars, opened, late, netVars, stateVars>>

\* a Hello is answered with Ready; with one of another protocol version the connection ends
Hello(k, c, w) ==
    IF compatible
    THEN /\ handler' = [handler EXCEPT ![k][c].info = TRUE]
         /\ wire' = Sent(w, k, c, <<<<"ready">>>>)
         /\ UNCHANGED stateVars
    ELSE /\ handler' = [handler EXCEPT ![k][c].sock = "aborting"]
         /\ wire' = [w EXCEPT ![k][c] = <<>>]
         /\ readyProcesses_' = Erased(k, c)
         /\ known' = Forgotten(k, c)
         /\ UNCHANGED overlapped

\* another connection with the same process is not all gone
Lingering(k, c) ==
    \E d \in Conns \ {c} : /\ handler[k][d].procId
                           /\ (handler[k][d].sock \in Held \/ detaching[k] = d)

\* mutant: only those that join later are announced
NewOnes(k) == {}

\* the existing local participants
ExistingOnes(k) == participants[k]

\* processReady; insert keeps the entry there is
Ready(k, c, w) ==
    /\ handler' = [handler EXCEPT ![k][c].procId = TRUE]
    /\ readyProcesses_' = [readyProcesses_ EXCEPT ![k] = IF @ = 0 THEN c ELSE @]
    /\ \E msgs \in Announcing("joined", ExistingOnes(k)) : wire' = Sent(w, k, c, msgs)
    /\ overlapped' = (overlapped \/ Lingering(k, c))
    /\ UNCHANGED known

BusJoined(k, p) == known' = [known EXCEPT ![k] = @ \cup {p}]

BusLeft(k, p) == known' = [known EXCEPT ![k] = @ \ {p}]

\* std::visit, w being what is left on the wires
Visit(k, c, msg, w) ==
    \/ msg[1] = "hello" /\ Hello(k, c, w)
    \/ msg[1] = "ready" /\ Ready(k, c, w)
    \/ /\ \/ msg[1] = "joined" /\ BusJoined(k, msg[2])
          \/ msg[1] = "left" /\ BusLeft(k, msg[2])
       /\ wire' = w
       /\ UNCHANGED <<handler, readyProcesses_, overlapped>>

Read(k, c) ==
    /\ CanRead(k, c)
    /\ Visit(k, c, Head(wire[k][c]), [wire EXCEPT ![k][c] = Tail(@)])
    /\ UNCHANGED <<kernelVars, localVars, trackVars, opened, late, netVars>>

\* a message is handled to its end even if the discovery thread shut the socket meanwhile
VisitLate(k) ==
    /\ late[k] # <<>>
    /\ late' = [late EXCEPT ![k] = <<>>]
    /\ Visit(k, late[k][1], late[k][2], wire)
    /\ UNCHANGED <<kernelVars, localVars, trackVars, opened, netVars>>

\* TCP broke, or the other end closed
HasFailed(k, c) ==
    c \in broken \cup silent \/ handler[Other(k)][c].sock \in {"aborting", "gone"}

\* a read or a write fails
IoError(k, c) ==
    /\ Open(k, c) /\ IoIsFree(k)
    /\ HasFailed(k, c)
    /\ Disconnect(k, c)

\* what may have been written of a stream when its writer ended
Beginning(s) == {SubSeq(s, 1, n) : n \in 0..Len(s)}
Cut(ws) == {v \in [Conns -> UNION {Beginning(ws[c]) : c \in Conns}] :
                \A c \in Conns : v[c] \in Beginning(ws[c])}

\* tcpSocket_.remote_endpoint() throws in the Hello of a connection and the i/o thread ends: the
\* handlers stay as they are, and what they had still to write is not written
IoThreadEnds(k, c) ==
    /\ ioEnded' = ioEnded \cup {k}
    /\ handler' = [handler EXCEPT ![k] = [d \in Conns |->
           [sock |-> IF Open(k, d) THEN "stuck" ELSE handler[k][d].sock,
            info |-> handler[k][d].info \/ d = c,
            procId |-> handler[k][d].procId]]]
    /\ \E written \in Cut(wire[Other(k)]) : wire' = [wire EXCEPT ![Other(k)] = written]
    /\ late' = [late EXCEPT ![k] = <<>>]
    /\ UNCHANGED <<up, starts, named, compatible, localVars, trackVars, opened, netVars, stateVars>>

\* the connection has failed, or the discovery thread has just shut it
HelloThrows(k, c) ==
    /\ compatible
    /\ \/ CanRead(k, c) /\ Head(wire[k][c]) = <<"hello">> /\ HasFailed(k, c)
       \/ late[k] = <<c, <<"hello">>>>
    /\ IoThreadEnds(k, c)

\* mutant: a cancelled read is not an error
DropHandler(k, c) ==
    /\ handler' = [handler EXCEPT ![k][c].sock = "gone"]
    /\ UNCHANGED <<kernelVars, localVars, trackVars, opened, wire, late, netVars, stateVars>>

\* the read that was cancelled when the sockets were shut ends as an error, and disconnects again
CancelledRead(k, c) == Disconnect(k, c)

IoAborted(k, c) ==
    /\ handler[k][c].sock = "aborting" /\ up[k] = "up" /\ k \notin ioEnded /\ late[k] = <<>>
    /\ CancelledRead(k, c)

-----------------------------------------------------------------------------
(* The session: other threads, under procMutex_ *)

Tell(k, kind, p) ==
    wire' = IF readyProcesses_[k] = 0 THEN wire
            ELSE Sent(wire, k, readyProcesses_[k], <<About(kind, p)>>)

LocalParticipantJoinedBus(k, p) ==
    /\ up[k] = "up" /\ p \notin participants[k] /\ joins < MaxJoins
    /\ joins' = joins + 1
    /\ participants' = [participants EXCEPT ![k] = @ \cup {p}]
    /\ Tell(k, "joined", p)
    /\ UNCHANGED <<kernelVars, trackVars, opened, handler, late, netVars, stateVars>>

LocalParticipantLeftBus(k, p) ==
    /\ up[k] = "up" /\ p \in participants[k]
    /\ participants' = [participants EXCEPT ![k] = @ \ {p}]
    /\ Tell(k, "left", p)
    /\ UNCHANGED <<kernelVars, joins, trackVars, opened, handler, late, netVars, stateVars>>

\* start: present beams are found again, and the own beams start
Start(k) ==
    /\ up[k] = "down"
    /\ starts[k] > 0 => faults < MaxFaults
    /\ faults' = IF starts[k] > 0 THEN faults + 1 ELSE faults
    /\ up' = [up EXCEPT ![k] = "up"]
    /\ starts' = [starts EXCEPT ![k] = @ + 1]
    /\ IF track[k] # 0 THEN Detected(k) ELSE UNCHANGED connVars
    /\ UNCHANGED <<named, compatible, ioEnded, localVars, trackVars, broken, silent, stateVars>>

\* what a transport leaves behind when it ends
Gone(k) ==
    /\ handler' = [handler EXCEPT ![k] = [c \in Conns |->
           IF handler[k][c].sock = "none" /\ handler[Other(k)][c].sock \in {"none", "connecting"}
           THEN NoHandler ELSE [NoHandler EXCEPT !.sock = "gone"]]]
    /\ wire' = [wire EXCEPT ![k] = [c \in Conns |-> <<>>]]
    /\ late' = [late EXCEPT ![k] = <<>>]
    /\ readyProcesses_' = [readyProcesses_ EXCEPT ![k] = 0]
    /\ known' = [known EXCEPT ![k] = {}]
    /\ ioEnded' = ioEnded \ {k}
    /\ UNCHANGED <<starts, named, compatible, joins, opened, overlapped>>

\* stop, when the session is closed: the discovery thread is not in a callback of ours, and the i/o
\* thread has been joined; the other end sees the sockets close
Stop(k) ==
    /\ up[k] = "up" /\ participants[k] = {} /\ detaching[k] = 0 /\ late[k] = <<>>
    /\ up' = [up EXCEPT ![k] = "down"]
    /\ Gone(k)
    /\ UNCHANGED <<participants, trackVars, netVars>>

-----------------------------------------------------------------------------
(* The environment *)

\* the kernel's machine is switched off or unplugged: nobody closes its sockets
Crash(k) ==
    /\ up[k] = "up" /\ faults < MaxFaults
    /\ faults' = faults + 1
    /\ up' = [up EXCEPT ![k] = "crashed"]
    /\ participants' = [participants EXCEPT ![k] = {}]
    /\ silent' = silent \cup {c \in Conns : Open(Other(k), c)}
    /\ Gone(k)
    /\ detaching' = [detaching EXCEPT ![k] = 0]
    /\ UNCHANGED <<track, expiring, broken>>

\* TCP gives up on a connection
Break(c) ==
    /\ faults < MaxFaults /\ c \notin broken
    /\ \E k \in Kernels : Open(k, c)
    /\ faults' = faults + 1
    /\ broken' = broken \cup {c}
    /\ UNCHANGED <<kernelVars, localVars, trackVars, connVars, silent, stateVars>>

-----------------------------------------------------------------------------

Discovery(k) ==
    \/ BeamReceived(k) \/ TimerFires(k) \/ ExpiryRuns(k) \/ LostBeamDone(k)
    \/ \E c \in Conns : ExpiryMeetsHello(k, c)

Io(k) ==
    \/ \E c \in Conns : Read(k, c) \/ IoError(k, c) \/ IoAborted(k, c) \/ HelloThrows(k, c)
    \/ VisitLate(k)

Connection(c) == Connected(c) \/ ConnectFails(c) \/ Accepted(c)

Session(k) ==
    \/ Start(k) \/ Stop(k)
    \/ \E p \in Participants : LocalParticipantJoinedBus(k, p) \/ LocalParticipantLeftBus(k, p)

Next ==
    \/ \E k \in Kernels : Discovery(k) \/ Io(k) \/ Session(k) \/ Crash(k)
    \/ \E c \in Conns : Connection(c) \/ Break(c)

Spec == Init /\ [][Next]_vars

\* Beams are sent in every period and timers fire when none comes; the threads that run take every
\* handler that is ready, and TCP reports a connection that was closed or broke, though not one
\* whose peer vanished.  An i/o thread that has ended does nothing.  Nobody has to join, to leave, to
\* stop or to start.
Fairness ==
    /\ \A k \in Kernels :
         /\ WF_vars(BeamReceived(k)) /\ WF_vars(ExpiryRuns(k)) /\ WF_vars(LostBeamDone(k))
         /\ WF_vars(up[Other(k)] # "up" /\ TimerFires(k))
         /\ WF_vars(VisitLate(k))
         /\ \A c \in Conns :
              WF_vars(Read(k, c) \/ IoAborted(k, c) \/ (c \notin silent /\ IoError(k, c)))
    /\ \A c \in Conns : WF_vars(Connection(c))

FairSpec == Spec /\ Fairness

-----------------------------------------------------------------------------

TypeOK ==
    /\ up \in [Kernels -> {"down", "up", "crashed"}]
    /\ starts \in [Kernels -> Nat]
    /\ named \in BOOLEAN /\ compatible \in BOOLEAN /\ ioEnded \subseteq Kernels
    /\ participants \in [Kernels -> SUBSET Participants]
    /\ joins \in 0..MaxJoins
    /\ track \in [Kernels -> Nat] /\ expiring \in [Kernels -> BOOLEAN]
    /\ detaching \in [Kernels -> Conns \cup {0}]
    /\ opened \in 0..MaxConns
    /\ handler \in [Kernels -> [Conns -> [sock : Sockets, info : BOOLEAN, procId : BOOLEAN]]]
    /\ \A k \in Kernels, c \in Conns : wire[k][c] \in Seq(Messages)
    /\ \A k \in Kernels : late[k] \in {<<>>} \cup (Conns \X Messages)
    /\ readyProcesses_ \in [Kernels -> Conns \cup {0}]
    /\ broken \subseteq Conns /\ silent \subseteq Conns
    /\ faults \in 0..MaxFaults
    /\ known \in [Kernels -> SUBSET Participants]
    /\ overlapped \in BOOLEAN

\* a connection both ends of which are ready
Joined(c) == \A k \in Kernels : Open(k, c) /\ handler[k][c].procId

\* nothing is on its way to a handler, and no thread is in the middle of anything
Settled ==
    \A k \in Kernels : /\ late[k] = <<>> /\ detaching[k] = 0
                       /\ \A c \in Conns : Open(k, c) => wire[k][c] = <<>>

\* Once two kernels are connected and the announcements have arrived, each knows exactly the
\* participants the other has, whatever joined, left or broke before (ether_transport.cpp:468-573,
\* process_handler.cpp:322-350), unless a connection had become ready before the one it replaces
\* was all gone.
ParticipantsAgree ==
    ((\E c \in Conns : Joined(c)) /\ Settled /\ ~overlapped)
        => \A k \in Kernels : known[k] = participants[Other(k)]

\* A kernel that has no ready connection left knows nobody and announces to nobody: what the i/o
\* thread applied while the discovery thread disconnected is undone by the cancelled read
\* (process_handler.cpp:200-212, 454-461, 639-650).
NoGhosts ==
    \A k \in Kernels :
        (\A c \in Conns : handler[k][c].procId => handler[k][c].sock \notin Held)
            => known[k] = {} /\ readyProcesses_[k] = 0

\* A participant is announced under the id of its process only after the Ready that sets it
\* (process_handler.cpp:312-350).
AnnouncedByKnown ==
    \A k \in Kernels, c \in Conns :
        (Open(k, c) /\ wire[k][c] # <<>> /\ Head(wire[k][c])[1] \in {"joined", "left"})
            => handler[k][c].procId

\* What holds at any moment of a kernel's view of the other: nobody is announced by an unknown
\* process and nobody stays known without a connection.
ConnectionsAreSound == TypeOK /\ AnnouncedByKnown /\ NoGhosts

Reachable == \A k \in Kernels : up[k] = "up" /\ k \notin ioEnded
Meeting == \E c \in Conns : Joined(c)

\* the initiator still sees the beams of a meeting whose connection is gone
Outlived ==
    /\ track[Initiator] # 0
    /\ \E c \in Conns : handler[Initiator][c].sock = "gone"
    /\ \A c \in Conns : handler[Initiator][c].sock \notin {"connecting", "open"}

\* Two kernels that stay up, with their i/o threads, end up connected, or the initiator has a track
\* that outlived its connection (ether_transport.cpp:405-437: only a beam that is new opens one).
MeetOrOutlived == <>[]Reachable => <>[](Meeting \/ Outlived)

\* nothing of the other kernel is left, for as long as this one is up and has its i/o thread
Clean(k) == known[k] = {} \/ up[k] # "up" \/ k \in ioEnded \/ overlapped

\* The participants of a kernel that is gone are forgotten: it closed its sockets, or it vanished,
\* its beams had been seen and its name is the one it beamed (ether_transport.cpp:450-501).
GoneIsForgotten ==
    \A k \in Kernels :
        (\/ <>[](up[Other(k)] = "down")
         \/ <>(up[Other(k)] = "crashed" /\ track[k] # 0 /\ named))
            => <>[]Clean(k)

=============================================================================
