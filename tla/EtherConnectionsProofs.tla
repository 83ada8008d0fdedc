----------------------- MODULE EtherConnectionsProofs -----------------------
(***************************************************************************)
(* Proofs about EtherConnections for any number of connections, faults and *)
(* participants: nobody is announced by a process that is not known,       *)
(* nobody stays known without a connection, and two kernels that are       *)
(* connected agree about the participants once the announcements arrived.  *)
(***************************************************************************)
EXTENDS EtherConnections, FiniteSetTheorems, WellFoundedInduction, TLAPS

Announcements == {"joined", "left"} \X Participants

(* What a handler is, by its parts. *)
Sock(k, c) == handler[k][c].sock
Info(k, c) == handler[k][c].info
ProcId(k, c) == handler[k][c].procId

(* How many messages of the handshake a handler has read. *)
HasRead(k, c) == IF ProcId(k, c) THEN 2 ELSE IF Info(k, c) THEN 1 ELSE 0

(* The n-th message of a connection: Hello, Ready, then announcements. *)
IsNth(n, m) ==
    IF n = 1 THEN m = <<"hello">> ELSE IF n = 2 THEN m = <<"ready">> ELSE m \in Announcements

Types ==
    /\ TypeOK
    /\ wire \in [Kernels -> [Conns -> Seq(Messages)]]
    /\ late \in [Kernels -> {<<>>} \cup (Conns \X Messages)]
    /\ \A k \in Kernels : IsFiniteSet(participants[k])

(* A connection starts at the initiator; the acceptor finds its Hello. *)
Beginnings(c) ==
    /\ Sock(Acceptor, c) # "connecting"
    /\ c > opened => Sock(Initiator, c) = "none"
    /\ \A k \in Kernels : Sock(k, c) \in {"none", "connecting"} => ~Info(k, c) /\ ~ProcId(k, c)
    /\ Sock(Initiator, c) \in {"none", "connecting"}
         => /\ Sock(Acceptor, c) = "none"
            /\ wire[Initiator][c] = <<>> /\ wire[Acceptor][c] = <<>>
    /\ Sock(Initiator, c) \notin {"none", "connecting"} /\ Sock(Acceptor, c) = "none"
         => wire[Acceptor][c] \in {<<>>, <<<<"hello">>>>}
    /\ Sock(Initiator, c) = "open" /\ Sock(Acceptor, c) = "none"
         => /\ ~Info(Initiator, c) /\ ~ProcId(Initiator, c)
            /\ wire[Initiator][c] = <<>> /\ wire[Acceptor][c] = <<<<"hello">>>>

(* What waits continues what has been read, *)
Continues(n, w) == \A j \in 1..Len(w) : IsNth(n + j, w[j])

(* and ends where the other handler is. *)
EndsAt(n, k, c) ==
    /\ ~Info(k, c) => n = 1
    /\ Info(k, c) /\ ~ProcId(k, c) => n = 2
    /\ ProcId(k, c) => n >= 2

InOrder(k, c) ==
    Sock(k, c) = "open" =>
      /\ ProcId(k, c) => Info(k, c)
      /\ Continues(HasRead(k, c), wire[k][c])
      /\ Sock(Other(k), c) = "open" => EndsAt(HasRead(k, c) + Len(wire[k][c]), Other(k), c)

ConnInv(c) == Beginnings(c) /\ \A k \in Kernels : InOrder(k, c)

(* A message that is handled late is one of a handler that is being shut. *)
LateInv(k) ==
    late[k] # <<>> => /\ Sock(k, late[k][1]) = "aborting"
                      /\ late[k][2] \in Announcements => ProcId(k, late[k][1])

(* The connections that count: known to be of the other process, and not all gone. *)
Counts(k, c) == ProcId(k, c) /\ Sock(k, c) \in Held
Live(k, c) == ProcId(k, c) /\ (Sock(k, c) \in Held \/ detaching[k] = c)

(* Who is known, and who is announced to, has a connection that counts; one that is *)
(* being disconnected has had its socket shut.                                       *)
KnownInv(k) ==
    /\ readyProcesses_[k] # 0 => Counts(k, readyProcesses_[k])
    /\ known[k] # {} => \E c \in Conns : Counts(k, c)
    /\ \A c \in Conns : Sock(k, c) = "open" => up[k] = "up"
    /\ detaching[k] # 0 => Sock(k, detaching[k]) \in {"aborting", "gone"}

SoundInv ==
    /\ Types
    /\ \A c \in Conns : ConnInv(c)
    /\ \A k \in Kernels : LateInv(k) /\ KnownInv(k)

(* One connection at a time. *)
OneLive(k) ==
    /\ \A c, d \in Conns : Live(k, c) /\ Live(k, d) => c = d
    /\ \A c \in Conns : Sock(k, c) = "open" /\ ProcId(k, c) => readyProcesses_[k] = c

(* After the i-th message of w the participant is not mentioned, *)
Final(w, i, p) == \A j \in (i + 1)..Len(w) : w[j] \notin {About("joined", p), About("left", p)}

(* so that it is not mentioned at all, or that it joins last. *)
Mute(w, p) == Final(w, 0, p)
JoinsLast(w, p) == \E i \in 1..Len(w) : w[i] = About("joined", p) /\ Final(w, i, p)

(* Whether p is known when a handler has read what waits. *)
WillKnow(k, c, p) ==
    \/ JoinsLast(wire[k][c], p)
    \/ Mute(wire[k][c], p) /\ ProcId(k, c) /\ p \in known[k]

(* It is what the other handler has announced. *)
WillAgree(k, c) ==
    Sock(k, c) = "open" /\ Sock(Other(k), c) = "open" =>
        \A p \in Participants :
            WillKnow(k, c, p) <=> ProcId(Other(k), c) /\ p \in participants[Other(k)]

AgreeInv ==
    ~overlapped => \A k \in Kernels : OneLive(k) /\ \A c \in Conns : WillAgree(k, c)

EInv == SoundInv /\ AgreeInv
----------------------------------------------------------------------------
(* Two kernels: the other of the other is oneself. *)
LEMMA TwoKernels ==
    /\ Initiator \in Kernels /\ Acceptor \in Kernels /\ Acceptor # Initiator
    /\ \A k \in Kernels : /\ Other(k) \in Kernels /\ Other(k) # k /\ Other(Other(k)) = k
                          /\ \A l \in Kernels : l = k \/ l = Other(k)
<1>1. IsFiniteSet(Kernels) /\ Cardinality(Kernels) = 2 /\ Initiator \in Kernels
  BY EtherAssumption DEF EtherAssumption
<1>2. ASSUME NEW k \in Kernels
      PROVE  /\ Other(k) \in Kernels /\ Other(k) # k
             /\ \A l \in Kernels : l = k \/ l = Other(k)
  <2>1. IsFiniteSet(Kernels \ {k}) /\ Cardinality(Kernels \ {k}) = Cardinality(Kernels) - 1
    BY <1>1, FS_RemoveElement
  <2>2. Cardinality(Kernels \ {k}) = 1
    BY <1>1, <2>1
  <2>3. PICK o : Kernels \ {k} = {o}
    BY <2>1, <2>2, FS_Singleton
  <2>4. o \in Kernels /\ o # k /\ \A l \in Kernels : l = k \/ l = o
    BY <2>3
  <2>5. \E x \in Kernels : x # k
    BY <2>4
  <2>6. Other(k) \in Kernels /\ Other(k) # k
    BY <2>5 DEF Other
  <2> QED
    BY <2>4, <2>6
<1>3. \A k \in Kernels : Other(Other(k)) = k
  BY <1>2
<1> QED
  BY <1>1, <1>2, <1>3 DEF Acceptor

(* The messages, by their kinds. *)
LEMMA MessageKinds ==
    /\ <<"hello">> \in Messages /\ <<"ready">> \in Messages /\ Announcements \subseteq Messages
    /\ \A p : About("joined", p) # About("left", p)
    /\ \A p \in Participants : About("joined", p) \in Announcements /\ About("left", p) \in Announcements
    /\ \A m \in Messages :
         /\ m[1] \in {"hello", "ready", "joined", "left"}
         /\ m[1] = "hello" <=> m = <<"hello">>
         /\ m[1] = "ready" <=> m = <<"ready">>
         /\ m \in Announcements <=> m[1] \in {"joined", "left"}
         /\ m[1] \in {"joined", "left"} => m[2] \in Participants
         /\ \A p : m = About("joined", p) <=> m[1] = "joined" /\ m[2] = p
         /\ \A p : m = About("left", p) <=> m[1] = "left" /\ m[2] = p
<1>1. \A m \in Announcements : /\ m = <<m[1], m[2]>> /\ m[1] \in {"joined", "left"}
                               /\ m[2] \in Participants
  BY DEF Announcements
<1>2. \A m \in Messages : m \in Announcements \/ m = <<"hello">> \/ m = <<"ready">>
  BY DEF Messages, Announcements
<1>3. <<"hello">>[1] = "hello" /\ <<"ready">>[1] = "ready"
  OBVIOUS
<1>4. \A x, y : <<x, y>>[1] = x /\ <<x, y>>[2] = y
  OBVIOUS
<1>5. /\ <<"hello">> \in Messages /\ <<"ready">> \in Messages /\ Announcements \subseteq Messages
  BY DEF Messages, Announcements
<1>6. \A p \in Participants : About("joined", p) \in Announcements /\ About("left", p) \in Announcements
  BY DEF About, Announcements
<1>7. ASSUME NEW m \in Messages
      PROVE  /\ m[1] \in {"hello", "ready", "joined", "left"}
             /\ m[1] = "hello" <=> m = <<"hello">>
             /\ m[1] = "ready" <=> m = <<"ready">>
             /\ m \in Announcements <=> m[1] \in {"joined", "left"}
             /\ m[1] \in {"joined", "left"} => m[2] \in Participants
  BY <1>1, <1>2, <1>3
<1>8. ASSUME NEW m \in Messages, NEW p
      PROVE  /\ m = About("joined", p) <=> m[1] = "joined" /\ m[2] = p
             /\ m = About("left", p) <=> m[1] = "left" /\ m[2] = p
  BY <1>1, <1>4, <1>7 DEF About
<1> QED
  BY <1>4, <1>5, <1>6, <1>7, <1>8 DEF About

(* The parts of a handler, when one of them is set. *)
HandlerStates == [sock : Sockets, info : BOOLEAN, procId : BOOLEAN]
Handlers == [Kernels -> [Conns -> HandlerStates]]

SameElsewhere(k, c) ==
    \A l \in Kernels, d \in Conns : ~(l = k /\ d = c) =>
        /\ Sock(l, d)' = Sock(l, d) /\ (Info(l, d)' <=> Info(l, d))
        /\ (ProcId(l, d)' <=> ProcId(l, d))

(* Its socket, *)
LEMMA SockSet ==
    ASSUME NEW k \in Kernels, NEW c \in Conns, NEW s \in Sockets
    PROVE  handler \in Handlers /\ handler' = [handler EXCEPT ![k][c].sock = s]
             => /\ handler' \in Handlers /\ SameElsewhere(k, c)
                /\ Sock(k, c)' = s /\ (Info(k, c)' <=> Info(k, c)) /\ (ProcId(k, c)' <=> ProcId(k, c))
<1>0. SUFFICES ASSUME handler \in Handlers, handler' = [handler EXCEPT ![k][c].sock = s]
               PROVE  /\ handler' \in Handlers /\ SameElsewhere(k, c)
                      /\ Sock(k, c)' = s /\ (Info(k, c)' <=> Info(k, c)) /\ (ProcId(k, c)' <=> ProcId(k, c))
  OBVIOUS
<1>1. PICK h \in HandlerStates : h = handler[k][c]
  BY <1>0 DEF Handlers
<1>2. PICK r : r = [h EXCEPT !.sock = s]
  OBVIOUS
<1>3. r \in HandlerStates
  BY <1>2 DEF HandlerStates
<1>4. /\ r.sock = s
      /\ r.info = h.info /\ r.procId = h.procId
  BY <1>2 DEF HandlerStates
<1>5. handler' = [handler EXCEPT ![k][c] = r]
  BY <1>0, <1>1, <1>2 DEF Handlers
<1>6. handler \in Handlers
  BY <1>0
<1>7. /\ handler' \in Handlers /\ handler'[k][c] = r
      /\ \A l \in Kernels, d \in Conns : ~(l = k /\ d = c) => handler'[l][d] = handler[l][d]
  BY <1>3, <1>5, <1>6 DEF Handlers
<1> QED
  BY <1>1, <1>4, <1>7 DEF SameElsewhere, Sock, Info, ProcId

(* the info a Hello brings, *)
LEMMA InfoSet ==
    ASSUME NEW k \in Kernels, NEW c \in Conns
    PROVE  handler \in Handlers /\ handler' = [handler EXCEPT ![k][c].info = TRUE]
             => /\ handler' \in Handlers /\ SameElsewhere(k, c)
                /\ Sock(k, c)' = Sock(k, c) /\ Info(k, c)' /\ (ProcId(k, c)' <=> ProcId(k, c))
<1>0. SUFFICES ASSUME handler \in Handlers, handler' = [handler EXCEPT ![k][c].info = TRUE]
               PROVE  /\ handler' \in Handlers /\ SameElsewhere(k, c)
                      /\ Sock(k, c)' = Sock(k, c) /\ Info(k, c)' /\ (ProcId(k, c)' <=> ProcId(k, c))
  OBVIOUS
<1>1. PICK h \in HandlerStates : h = handler[k][c]
  BY <1>0 DEF Handlers
<1>2. PICK r : r = [h EXCEPT !.info = TRUE]
  OBVIOUS
<1>3. r \in HandlerStates
  BY <1>2 DEF HandlerStates
<1>4. /\ r.info = TRUE
      /\ r.sock = h.sock /\ r.procId = h.procId
  BY <1>2 DEF HandlerStates
<1>5. handler' = [handler EXCEPT ![k][c] = r]
  BY <1>0, <1>1, <1>2 DEF Handlers
<1>6. handler \in Handlers
  BY <1>0
<1>7. /\ handler' \in Handlers /\ handler'[k][c] = r
      /\ \A l \in Kernels, d \in Conns : ~(l = k /\ d = c) => handler'[l][d] = handler[l][d]
  BY <1>3, <1>5, <1>6 DEF Handlers
<1> QED
  BY <1>1, <1>4, <1>7 DEF SameElsewhere, Sock, Info, ProcId

(* and the process id a Ready brings. *)
LEMMA ProcIdSet ==
    ASSUME NEW k \in Kernels, NEW c \in Conns
    PROVE  handler \in Handlers /\ handler' = [handler EXCEPT ![k][c].procId = TRUE]
             => /\ handler' \in Handlers /\ SameElsewhere(k, c)
                /\ Sock(k, c)' = Sock(k, c) /\ (Info(k, c)' <=> Info(k, c)) /\ ProcId(k, c)'
<1>0. SUFFICES ASSUME handler \in Handlers, handler' = [handler EXCEPT ![k][c].procId = TRUE]
               PROVE  /\ handler' \in Handlers /\ SameElsewhere(k, c)
                      /\ Sock(k, c)' = Sock(k, c) /\ (Info(k, c)' <=> Info(k, c)) /\ ProcId(k, c)'
  OBVIOUS
<1>1. PICK h \in HandlerStates : h = handler[k][c]
  BY <1>0 DEF Handlers
<1>2. PICK r : r = [h EXCEPT !.procId = TRUE]
  OBVIOUS
<1>3. r \in HandlerStates
  BY <1>2 DEF HandlerStates
<1>4. /\ r.procId = TRUE
      /\ r.sock = h.sock /\ r.info = h.info
  BY <1>2 DEF HandlerStates
<1>5. handler' = [handler EXCEPT ![k][c] = r]
  BY <1>0, <1>1, <1>2 DEF Handlers
<1>6. handler \in Handlers
  BY <1>0
<1>7. /\ handler' \in Handlers /\ handler'[k][c] = r
      /\ \A l \in Kernels, d \in Conns : ~(l = k /\ d = c) => handler'[l][d] = handler[l][d]
  BY <1>3, <1>5, <1>6 DEF Handlers
<1> QED
  BY <1>1, <1>4, <1>7 DEF SameElsewhere, Sock, Info, ProcId

(* What waits on the wires, when something is sent on one of them. *)
Wires == [Kernels -> [Conns -> Seq(Messages)]]

(* Sending appends to one wire, of a connection that is being made or open, and to no other. *)
LEMMA SentWhere ==
    ASSUME NEW w \in Wires, NEW k \in Kernels, NEW c \in Conns, NEW msgs \in Seq(Messages)
    PROVE  /\ Sent(w, k, c, msgs) \in Wires
           /\ \A l \in Kernels, d \in Conns :
                ~(l = Other(k) /\ d = c) => Sent(w, k, c, msgs)[l][d] = w[l][d]
           /\ Sent(w, k, c, msgs)[Other(k)][c] =
                IF Sock(k, c) \in {"connecting", "open"} THEN w[Other(k)][c] \o msgs
                                                         ELSE w[Other(k)][c]
<1>1. PICK o \in Kernels : o = Other(k)
  BY TwoKernels
<1>2. Sent(w, k, c, msgs) =
        IF Sock(k, c) \in {"connecting", "open"} THEN [w EXCEPT ![o][c] = @ \o msgs] ELSE w
  BY <1>1 DEF Sent, Sock
<1>3. w[o][c] \o msgs \in Seq(Messages)
  BY DEF Wires
<1>4. PICK x : x = w[o][c] \o msgs
  OBVIOUS
<1>5. PICK v : v = [w EXCEPT ![o][c] = x]
  OBVIOUS
<1>6. /\ v \in Wires /\ v[o][c] = x
      /\ \A l \in Kernels, d \in Conns : ~(l = o /\ d = c) => v[l][d] = w[l][d]
  BY <1>3, <1>4, <1>5 DEF Wires
<1>7. PICK u : u = Sent(w, k, c, msgs)
  OBVIOUS
<1>8. u = IF Sock(k, c) \in {"connecting", "open"} THEN v ELSE w
  BY <1>2, <1>4, <1>5, <1>7
<1>9. /\ u \in Wires
      /\ u[o][c] = IF Sock(k, c) \in {"connecting", "open"} THEN x ELSE w[o][c]
      /\ \A l \in Kernels, d \in Conns : ~(l = o /\ d = c) => u[l][d] = w[l][d]
  <2>1. CASE Sock(k, c) \in {"connecting", "open"}
    BY <1>6, <1>8, <2>1
  <2>2. CASE Sock(k, c) \notin {"connecting", "open"}
    BY <1>8, <2>2
  <2> QED
    BY <2>1, <2>2
<1> QED
  BY <1>1, <1>4, <1>7, <1>9, Zenon

----------------------------------------------------------------------------
(* The handshake on one connection *)

(* Reading takes the next message, *)
LEMMA TailContinues ==
    ASSUME NEW w \in Seq(Messages), NEW n \in Nat, w # <<>>, Continues(n, w)
    PROVE  /\ IsNth(n + 1, Head(w)) /\ Head(w) \in Messages
           /\ Tail(w) \in Seq(Messages) /\ Len(Tail(w)) = Len(w) - 1 /\ Len(w) > 0
           /\ Continues(n + 1, Tail(w))
<1>1. /\ Tail(w) \in Seq(Messages) /\ Len(Tail(w)) = Len(w) - 1 /\ Len(w) > 0 /\ Len(w) \in Nat
      /\ \A j \in 1..(Len(w) - 1) : Tail(w)[j] = w[j + 1]
      /\ Head(w) = w[1] /\ Head(w) \in Messages
  OBVIOUS
<1>2. PICK l \in Nat : l = Len(w) /\ l > 0
  BY <1>1
<1>3. ASSUME NEW j \in 1..(l - 1) PROVE IsNth((n + 1) + j, Tail(w)[j])
  <2>1. j + 1 \in 1..l /\ n + (j + 1) = (n + 1) + j
    BY <1>2
  <2>2. IsNth(n + (j + 1), w[j + 1])
    BY <1>2, <2>1 DEF Continues
  <2> QED
    BY <1>1, <1>2, <2>1, <2>2, Zenon
<1>4. 1 \in 1..l
  BY <1>2
<1> QED
  BY <1>1, <1>2, <1>3, <1>4 DEF Continues

(* and sending puts the next ones behind. *)
LEMMA AppendContinues ==
    ASSUME NEW w \in Seq(Messages), NEW m \in Seq(Messages), NEW e, e = w \o m, NEW n \in Nat,
           Continues(n, w), \A j \in 1..Len(m) : IsNth(n + Len(w) + j, m[j])
    PROVE  Continues(n, e) /\ Len(e) = Len(w) + Len(m) /\ e \in Seq(Messages)
<1>1. /\ e \in Seq(Messages) /\ Len(e) = Len(w) + Len(m)
      /\ \A j \in 1..Len(w) : e[j] = w[j]
      /\ \A j \in 1..Len(m) : e[Len(w) + j] = m[j]
  OBVIOUS
<1>2. PICK lw \in Nat, lm \in Nat : lw = Len(w) /\ lm = Len(m)
  OBVIOUS
<1>3. ASSUME NEW j \in 1..(lw + lm) PROVE IsNth(n + j, e[j])
  <2>1. CASE j <= lw
    <3>1. j \in 1..lw
      BY <2>1
    <3> QED
      BY <1>1, <1>2, <3>1 DEF Continues
  <2>2. CASE j > lw
    <3>1. j - lw \in 1..lm /\ lw + (j - lw) = j /\ n + lw + (j - lw) = n + j
      BY <2>2
    <3>2. e[j] = m[j - lw]
      BY <1>1, <1>2, <3>1
    <3>3. IsNth(n + lw + (j - lw), m[j - lw])
      BY <1>2, <3>1
    <3> QED
      BY <3>1, <3>2, <3>3, Zenon
  <2>3. j <= lw \/ j > lw
    OBVIOUS
  <2> QED
    BY <2>1, <2>2, <2>3, Zenon
<1>4. Len(e) = lw + lm
  BY <1>1, <1>2
<1> QED
  BY <1>1, <1>2, <1>3, <1>4 DEF Continues

(* How far a handler has read. *)
LEMMA ReadSoFar ==
    ASSUME NEW k, NEW c
    PROVE  /\ HasRead(k, c) \in 0..2
           /\ HasRead(k, c) = 2 <=> ProcId(k, c)
           /\ HasRead(k, c) = 1 <=> Info(k, c) /\ ~ProcId(k, c)
           /\ HasRead(k, c) = 0 <=> ~Info(k, c) /\ ~ProcId(k, c)
BY DEF HasRead

(* Nothing happens on a connection. *)
SameEnd(k, c) ==
    /\ Sock(k, c)' = Sock(k, c) /\ (Info(k, c)' <=> Info(k, c)) /\ (ProcId(k, c)' <=> ProcId(k, c))
    /\ wire'[k][c] = wire[k][c]

(* What a handler has read depends on its two flags only. *)
LEMMA SameRead ==
    ASSUME NEW k, NEW c, Info(k, c)' <=> Info(k, c), ProcId(k, c)' <=> ProcId(k, c)
    PROVE  HasRead(k, c)' = HasRead(k, c) /\ \A n : EndsAt(n, k, c)' <=> EndsAt(n, k, c)
BY DEF HasRead, EndsAt

(* The order of a connection depends on its two ends, *)
LEMMA OrderFrame ==
    ASSUME NEW k \in Kernels, NEW c \in Conns, SameEnd(k, c), SameEnd(Other(k), c), InOrder(k, c)
    PROVE  InOrder(k, c)'
<1>1. HasRead(k, c)' = HasRead(k, c)
  BY SameRead DEF SameEnd
<1>2. \A n : EndsAt(n, Other(k), c)' <=> EndsAt(n, Other(k), c)
  BY SameRead DEF SameEnd
<1> QED
  BY <1>1, <1>2 DEF InOrder, SameEnd

(* and so does all that is said of a connection, whatever is opened beside it. *)
LEMMA ConnFrame ==
    ASSUME NEW c \in Conns, ConnInv(c), \A k \in Kernels : SameEnd(k, c),
           opened \in Nat, opened' \in Nat, opened <= opened'
    PROVE  ConnInv(c)'
<1>1. \A k \in Kernels : InOrder(k, c)'
  BY OrderFrame, TwoKernels DEF ConnInv
<1>2. c > opened' => c > opened
  BY DEF Conns
<1>3. Beginnings(c)'
  BY <1>2, TwoKernels DEF ConnInv, Beginnings, SameEnd
<1> QED
  BY <1>1, <1>3 DEF ConnInv

(* An end closes, or changes when it is closed. *)
LEMMA Closes ==
    ASSUME NEW c \in Conns, NEW k \in Kernels, ConnInv(c), SameEnd(Other(k), c),
           opened \in Nat, opened' \in Nat, opened <= opened',
           k = Initiator => Sock(k, c) # "none",
           k = Acceptor => Sock(Initiator, c) \notin {"none", "connecting"},
           Sock(k, c)' \in {"aborting", "gone"}
    PROVE  ConnInv(c)'
<1>1. Initiator \in Kernels /\ Acceptor \in Kernels /\ Acceptor # Initiator
  BY TwoKernels
<1>2. Other(Initiator) = Acceptor /\ Other(Acceptor) = Initiator
  BY TwoKernels DEF Acceptor
<1>3. k = Initiator \/ k = Acceptor
  BY TwoKernels DEF Acceptor
<1>4. Beginnings(c)'
  <2>1. CASE k = Initiator
    <3>1. SameEnd(Acceptor, c)
      BY <1>2, <2>1
    <3>2. ~(c > opened')
      BY <2>1 DEF ConnInv, Beginnings, Conns
    <3>3. Sock(Acceptor, c) = "none" => wire[Acceptor][c] \in {<<>>, <<<<"hello">>>>}
      BY DEF ConnInv, Beginnings
    <3>4. Sock(Acceptor, c) \in {"none", "connecting"} => ~Info(Acceptor, c) /\ ~ProcId(Acceptor, c)
      BY <1>1 DEF ConnInv, Beginnings
    <3>5. Sock(Acceptor, c) # "connecting"
      BY DEF ConnInv, Beginnings
    <3>6. \A l \in Kernels : l = Initiator \/ l = Acceptor
      BY <1>2, TwoKernels
    <3> QED
      BY <2>1, <3>1, <3>2, <3>3, <3>4, <3>5, <3>6 DEF Beginnings, SameEnd
  <2>2. CASE k = Acceptor
    <3>1. SameEnd(Initiator, c)
      BY <1>2, <2>2
    <3>2. ~(c > opened)
      BY <2>2 DEF ConnInv, Beginnings
    <3>3. ~(c > opened')
      BY <3>2 DEF Conns
    <3>6. \A l \in Kernels : l = Initiator \/ l = Acceptor
      BY <1>2, TwoKernels
    <3> QED
      BY <2>2, <3>1, <3>3, <3>6 DEF Beginnings, SameEnd
  <2> QED
    BY <1>3, <2>1, <2>2
<1>5. InOrder(k, c)'
  BY DEF InOrder
<1>6. InOrder(Other(k), c)'
  <2>1. Other(k) \in Kernels /\ Other(Other(k)) = k
    BY TwoKernels
  <2>2. HasRead(Other(k), c)' = HasRead(Other(k), c)
    BY SameRead DEF SameEnd
  <2>3. InOrder(Other(k), c)
    BY <2>1 DEF ConnInv
  <2> QED
    BY <2>1, <2>2, <2>3 DEF InOrder, SameEnd
<1>7. \A l \in Kernels : l = k \/ l = Other(k)
  BY TwoKernels
<1> QED
  BY <1>4, <1>5, <1>6, <1>7 DEF ConnInv

(* The initiator starts a connection. *)
LEMMA Begins ==
    ASSUME NEW c \in Conns, ConnInv(c), SameEnd(Acceptor, c), opened \in Nat,
           c = opened + 1, opened' = opened + 1,
           Sock(Initiator, c)' = "connecting", wire'[Initiator][c] = wire[Initiator][c],
           Info(Initiator, c)' <=> Info(Initiator, c),
           ProcId(Initiator, c)' <=> ProcId(Initiator, c)
    PROVE  ConnInv(c)'
<1>1. Initiator \in Kernels /\ Acceptor \in Kernels /\ Acceptor # Initiator
      /\ \A l \in Kernels : l = Initiator \/ l = Acceptor
  BY TwoKernels DEF Acceptor
<1>2. c > opened /\ ~(c > opened')
  OBVIOUS
<1>3. Sock(Initiator, c) = "none"
  BY <1>2 DEF ConnInv, Beginnings
<1>4. /\ Sock(Acceptor, c) = "none" /\ wire[Initiator][c] = <<>> /\ wire[Acceptor][c] = <<>>
      /\ \A k \in Kernels : ~Info(k, c) /\ ~ProcId(k, c)
  BY <1>1, <1>3 DEF ConnInv, Beginnings
<1>5. Beginnings(c)'
  BY <1>1, <1>2, <1>4 DEF Beginnings, SameEnd
<1>6. \A k \in Kernels : InOrder(k, c)'
  BY <1>1, <1>4 DEF InOrder, SameEnd
<1> QED
  BY <1>5, <1>6 DEF ConnInv

(* The connection is made, and the initiator says Hello. *)
LEMMA Connects ==
    ASSUME NEW c \in Conns, ConnInv(c), opened' = opened,
           Sock(Initiator, c) = "connecting", Sock(Initiator, c)' = "open",
           \A k \in Kernels : (Info(k, c)' <=> Info(k, c)) /\ (ProcId(k, c)' <=> ProcId(k, c)),
           Sock(Acceptor, c)' = Sock(Acceptor, c),
           wire'[Initiator][c] = wire[Initiator][c],
           wire'[Acceptor][c] = wire[Acceptor][c] \o <<<<"hello">>>>
    PROVE  ConnInv(c)'
<1>1. Initiator \in Kernels /\ Acceptor \in Kernels /\ Acceptor # Initiator
      /\ \A l \in Kernels : l = Initiator \/ l = Acceptor
  BY TwoKernels DEF Acceptor
<1>2. Other(Initiator) = Acceptor /\ Other(Acceptor) = Initiator
  BY TwoKernels DEF Acceptor
<1>3. /\ Sock(Acceptor, c) = "none" /\ wire[Initiator][c] = <<>> /\ wire[Acceptor][c] = <<>>
      /\ ~(c > opened) /\ \A k \in Kernels : ~Info(k, c) /\ ~ProcId(k, c)
  BY <1>1 DEF ConnInv, Beginnings
<1>4. wire'[Acceptor][c] = <<<<"hello">>>>
  BY <1>3
<1>5. Beginnings(c)'
  BY <1>1, <1>3, <1>4 DEF Beginnings
<1>6. InOrder(Acceptor, c)'
  BY <1>3 DEF InOrder
<1>7. InOrder(Initiator, c)'
  <2>1. Continues(HasRead(Initiator, c)', <<>>)
    BY DEF Continues
  <2>2. ~ProcId(Initiator, c)' /\ Sock(Acceptor, c)' # "open"
    BY <1>1, <1>3
  <2> QED
    BY <1>2, <1>3, <2>1, <2>2 DEF InOrder
<1> QED
  BY <1>1, <1>5, <1>6, <1>7 DEF ConnInv

(* The acceptor takes it, and says Hello. *)
LEMMA Accepts ==
    ASSUME NEW c \in Conns, ConnInv(c), opened' = opened,
           Sock(Acceptor, c) = "none", Sock(Acceptor, c)' = "open",
           Sock(Initiator, c) \notin {"none", "connecting"},
           \A k \in Kernels : (Info(k, c)' <=> Info(k, c)) /\ (ProcId(k, c)' <=> ProcId(k, c)),
           Sock(Initiator, c)' = Sock(Initiator, c),
           wire'[Acceptor][c] = wire[Acceptor][c],
           Sock(Initiator, c) = "open"
             => wire'[Initiator][c] = Append(wire[Initiator][c], <<"hello">>)
    PROVE  ConnInv(c)'
<1>1. Initiator \in Kernels /\ Acceptor \in Kernels /\ Acceptor # Initiator
      /\ \A l \in Kernels : l = Initiator \/ l = Acceptor
  BY TwoKernels DEF Acceptor
<1>2. Other(Initiator) = Acceptor /\ Other(Acceptor) = Initiator
  BY TwoKernels DEF Acceptor
<1>3. /\ wire[Acceptor][c] \in {<<>>, <<<<"hello">>>>} /\ ~(c > opened)
      /\ ~Info(Acceptor, c) /\ ~ProcId(Acceptor, c)
      /\ Sock(Initiator, c) = "open"
           => /\ ~Info(Initiator, c) /\ ~ProcId(Initiator, c)
              /\ wire[Initiator][c] = <<>> /\ wire[Acceptor][c] = <<<<"hello">>>>
  BY <1>1 DEF ConnInv, Beginnings
<1>4. Beginnings(c)'
  BY <1>1, <1>3 DEF Beginnings
<1>5. /\ Len(<<>>) = 0 /\ Len(<<<<"hello">>>>) = 1 /\ Continues(0, <<>>)
      /\ Continues(0, <<<<"hello">>>>)
  BY DEF Continues, IsNth
<1>6. InOrder(Acceptor, c)'
  <2>1. HasRead(Acceptor, c)' = 0
    BY <1>1, <1>3 DEF HasRead
  <2>2. Continues(0, wire'[Acceptor][c])
    BY <1>3, <1>5
  <2>3. ASSUME Sock(Initiator, c) = "open" PROVE EndsAt(0 + Len(wire[Acceptor][c]), Initiator, c)'
    BY <1>1, <1>3, <1>5, <2>3 DEF EndsAt
  <2>4. ~ProcId(Acceptor, c)'
    BY <1>1, <1>3
  <2> QED
    BY <1>2, <2>1, <2>2, <2>3, <2>4 DEF InOrder
<1>7. InOrder(Initiator, c)'
  <2>1. CASE Sock(Initiator, c) = "open"
    <3>1. wire'[Initiator][c] = <<<<"hello">>>>
      BY <1>3, <2>1
    <3>2. HasRead(Initiator, c)' = 0 /\ ~ProcId(Initiator, c)'
      BY <1>1, <1>3, <2>1 DEF HasRead
    <3>3. EndsAt(0 + 1, Acceptor, c)'
      BY <1>1, <1>3 DEF EndsAt
    <3> QED
      BY <1>2, <1>5, <3>1, <3>2, <3>3 DEF InOrder
  <2>2. CASE Sock(Initiator, c) # "open"
    BY <2>2 DEF InOrder
  <2> QED
    BY <2>1, <2>2
<1> QED
  BY <1>1, <1>4, <1>6, <1>7 DEF ConnInv

(* What one end reads does not move the end of what is sent to it. *)
LEMMA ReadKeepsOrder ==
    ASSUME NEW k \in Kernels, NEW c \in Conns, wire \in Wires, InOrder(k, c),
           Sock(k, c) = "open", Sock(k, c)' = "open", wire[k][c] # <<>>,
           wire'[k][c] = Tail(wire[k][c]),
           \/ HasRead(k, c)' = HasRead(k, c) + 1
           \/ HasRead(k, c) = 2 /\ HasRead(k, c)' = 2,
           ProcId(k, c)' => Info(k, c)',
           Sock(Other(k), c)' = Sock(Other(k), c), Info(Other(k), c)' <=> Info(Other(k), c),
           ProcId(Other(k), c)' <=> ProcId(Other(k), c)
    PROVE  InOrder(k, c)'
<1>1. PICK n \in Nat, w \in Seq(Messages) :
         n = HasRead(k, c) /\ w = wire[k][c] /\ w # <<>> /\ Continues(n, w)
  BY ReadSoFar DEF InOrder, Wires
<1>2. Continues(n + 1, Tail(w)) /\ Len(Tail(w)) = Len(w) - 1 /\ Tail(w) \in Seq(Messages)
  BY <1>1, TailContinues
<1>3. PICK t \in Seq(Messages) : t = Tail(w)
  BY <1>2
<1>4. PICK lt \in Nat : lt = Len(t) /\ Len(w) = lt + 1
  <2>1. Len(t) \in Nat /\ Len(w) \in Nat
    OBVIOUS
  <2>2. Len(t) = Len(w) - 1
    BY <1>2, <1>3
  <2>3. Len(w) = Len(t) + 1
    BY <2>1, <2>2
  <2> QED
    BY <2>1, <2>3
<1>5. wire'[k][c] = t
  BY <1>1, <1>3
<1>6. ASSUME Sock(Other(k), c) = "open" PROVE EndsAt(n + (lt + 1), Other(k), c)
  BY <1>1, <1>4, <1>6 DEF InOrder
<1>7. \A m : EndsAt(m, Other(k), c)' <=> EndsAt(m, Other(k), c)
  BY SameRead
<1>8. CASE HasRead(k, c)' = HasRead(k, c) + 1
  <2>1. HasRead(k, c)' = n + 1 /\ Continues(n + 1, t)
    BY <1>1, <1>2, <1>3, <1>8
  <2>2. (n + 1) + lt = n + (lt + 1)
    OBVIOUS
  <2>3. ASSUME Sock(Other(k), c) = "open" PROVE EndsAt((n + 1) + lt, Other(k), c)'
    BY <1>6, <1>7, <2>2, <2>3
  <2> QED
    BY <1>4, <1>5, <2>1, <2>3 DEF InOrder
<1>9. CASE HasRead(k, c) = 2 /\ HasRead(k, c)' = 2
  <2>1. n = 2 /\ HasRead(k, c)' = 2 /\ Continues(3, t)
    BY <1>1, <1>2, <1>3, <1>9
  <2>2. Continues(2, t)
    <3>1. ASSUME NEW j \in 1..Len(t) PROVE IsNth(2 + j, t[j])
      <4>1. IsNth(3 + j, t[j])
        BY <2>1 DEF Continues
      <4>2. 3 + j # 1 /\ 3 + j # 2 /\ 2 + j # 1 /\ 2 + j # 2
        BY <1>4
      <4> QED
        BY <4>1, <4>2 DEF IsNth
    <3> QED
      BY <3>1 DEF Continues
  <2>3. ASSUME Sock(Other(k), c) = "open" PROVE EndsAt(2 + lt, Other(k), c)'
    <3>1. EndsAt(2 + (lt + 1), Other(k), c)
      BY <1>6, <2>1, <2>3
    <3>2. 2 + (lt + 1) # 1 /\ 2 + (lt + 1) # 2 /\ 2 + lt >= 2
      OBVIOUS
    <3>3. Info(Other(k), c) /\ ProcId(Other(k), c)
      <4>1. PICK m : m = 2 + (lt + 1)
        OBVIOUS
      <4> QED
        BY <3>1, <3>2, <4>1 DEF EndsAt
    <3>4. EndsAt(2 + lt, Other(k), c)
      BY <3>2, <3>3 DEF EndsAt
    <3> QED
      BY <1>7, <3>4
  <2> QED
    BY <1>4, <1>5, <2>1, <2>2, <2>3 DEF InOrder
<1> QED
  BY <1>8, <1>9

(* What is sent to an open end comes in order, if the sender is there. *)
LEMMA SendKeepsOrder ==
    ASSUME NEW o \in Kernels, NEW c \in Conns, wire \in Wires, InOrder(o, c),
           Sock(o, c) = "open", Sock(o, c)' = Sock(o, c), Info(o, c)' <=> Info(o, c),
           ProcId(o, c)' <=> ProcId(o, c),
           NEW msgs \in Seq(Messages), wire'[o][c] = wire[o][c] \o msgs,
           NEW n \in Nat, n = HasRead(o, c) + Len(wire[o][c]),
           \A j \in 1..Len(msgs) : IsNth(n + j, msgs[j]),
           EndsAt(n + Len(msgs), Other(o), c)'
    PROVE  InOrder(o, c)'
<1>1. PICK h \in Nat, w \in Seq(Messages) :
         h = HasRead(o, c) /\ w = wire[o][c] /\ Continues(h, w)
  BY ReadSoFar DEF InOrder, Wires
<1>2. PICK e : e = w \o msgs
  OBVIOUS
<1>3. PICK lw \in Nat, lm \in Nat : lw = Len(w) /\ lm = Len(msgs)
  OBVIOUS
<1>4. n = h + lw
  BY <1>1, <1>3
<1>5. \A j \in 1..Len(msgs) : IsNth(h + Len(w) + j, msgs[j])
  BY <1>3, <1>4
<1>6. Continues(h, e) /\ Len(e) = Len(w) + Len(msgs)
  BY <1>1, <1>2, <1>5, AppendContinues
<1>7. n + Len(msgs) = h + Len(e)
  <2>1. Len(e) = lw + lm
    BY <1>3, <1>6
  <2>2. (h + lw) + lm = h + (lw + lm)
    OBVIOUS
  <2> QED
    BY <1>3, <1>4, <2>1, <2>2
<1>8. HasRead(o, c)' = h /\ wire'[o][c] = e
  BY <1>1, <1>2, SameRead
<1>9. EndsAt(h + Len(e), Other(o), c)'
  <2>1. PICK x : x = h + Len(e)
    OBVIOUS
  <2>2. EndsAt(x, Other(o), c)'
    BY <1>7, <2>1
  <2> QED
    BY <2>1, <2>2
<1>10. ProcId(o, c)' => Info(o, c)'
  BY DEF InOrder
<1> QED
  BY <1>6, <1>8, <1>9, <1>10 DEF InOrder

(* An end that is open and reads has its other end behind its beginnings. *)
LEMMA BothHaveBegun ==
    ASSUME NEW k \in Kernels, NEW c \in Conns, ConnInv(c), Sock(k, c) = "open",
           wire[k][c] # <<>> \/ ProcId(k, c)
    PROVE  /\ Sock(Initiator, c) \notin {"none", "connecting"}
           /\ Sock(Acceptor, c) \notin {"none", "connecting"} /\ ~(c > opened)
<1>1. k = Initiator \/ k = Acceptor
  BY TwoKernels DEF Acceptor
<1>2. Beginnings(c)
  BY DEF ConnInv
<1>3. CASE k = Initiator
  BY <1>2, <1>3 DEF Beginnings
<1>4. CASE k = Acceptor
  BY <1>2, <1>4 DEF Beginnings
<1> QED
  BY <1>1, <1>3, <1>4

(* After the beginnings only the order matters. *)
LEMMA HasBegun ==
    ASSUME NEW c \in Conns, opened' = opened, ~(c > opened),
           Sock(Initiator, c)' \notin {"none", "connecting"},
           Sock(Acceptor, c)' \notin {"none", "connecting"},
           \A k \in Kernels : InOrder(k, c)'
    PROVE  ConnInv(c)'
<1>1. Initiator \in Kernels /\ Acceptor \in Kernels
      /\ \A l \in Kernels : l = Initiator \/ l = Acceptor
  BY TwoKernels DEF Acceptor
<1>2. Beginnings(c)'
  BY <1>1 DEF Beginnings
<1> QED
  BY <1>2 DEF ConnInv

(* One message, as what is sent. *)
LEMMA OneMessage ==
    ASSUME NEW m \in Messages
    PROVE  /\ <<m>> \in Seq(Messages) /\ Len(<<m>>) = 1
           /\ \A j \in 1..Len(<<m>>) : j = 1 /\ <<m>>[j] = m
OBVIOUS

(* A Hello is read, and answered with Ready. *)
LEMMA ReadsHello ==
    ASSUME NEW k \in Kernels, NEW c \in Conns, ConnInv(c), wire \in Wires, opened' = opened,
           Sock(k, c) = "open", Sock(k, c)' = "open", wire[k][c] # <<>>,
           Head(wire[k][c]) = <<"hello">>,
           Info(k, c)', ProcId(k, c)' <=> ProcId(k, c),
           Sock(Other(k), c)' = Sock(Other(k), c), Info(Other(k), c)' <=> Info(Other(k), c),
           ProcId(Other(k), c)' <=> ProcId(Other(k), c),
           wire'[k][c] = Tail(wire[k][c]),
           wire'[Other(k)][c] = wire[Other(k)][c] \o <<<<"ready">>>>
    PROVE  /\ ConnInv(c)' /\ ~ProcId(k, c)
           /\ Sock(Other(k), c) = "open" => ~ProcId(Other(k), c)
<1>1. PICK o \in Kernels : o = Other(k) /\ o # k /\ Other(o) = k /\ \A l \in Kernels : l = k \/ l = o
  BY TwoKernels
<1>2. InOrder(k, c) /\ InOrder(o, c)
  BY <1>1 DEF ConnInv
<1>3. IsNth(HasRead(k, c) + 1, <<"hello">>)
  <2>1. PICK n \in Nat, w \in Seq(Messages) : n = HasRead(k, c) /\ w = wire[k][c]
    BY ReadSoFar DEF Wires
  <2>2. Continues(n, w)
    BY <1>2, <2>1 DEF InOrder
  <2> QED
    BY <2>1, <2>2, TailContinues
<1>4. HasRead(k, c) = 0
  <2>1. <<"hello">> # <<"ready">> /\ <<"hello">> \notin Announcements
    BY MessageKinds
  <2>2. HasRead(k, c) \in 0..2
    BY ReadSoFar
  <2>3. HasRead(k, c) + 1 = 1
    BY <1>3, <2>1 DEF IsNth
  <2> QED
    BY <2>2, <2>3
<1>5. ~Info(k, c) /\ ~ProcId(k, c) /\ HasRead(k, c)' = 1
  BY <1>4, ReadSoFar DEF HasRead
<1>6. InOrder(k, c)'
  <2>1. HasRead(k, c)' = HasRead(k, c) + 1
    BY <1>4, <1>5
  <2> QED
    BY <1>2, <2>1, ReadKeepsOrder
<1>7. InOrder(o, c)'
  <2>1. CASE Sock(o, c) = "open"
    <3>1. PICK n \in Nat : n = HasRead(o, c) + Len(wire[o][c])
      <4>1. HasRead(o, c) \in Nat
        BY ReadSoFar
      <4>2. Len(wire[o][c]) \in Nat
        BY DEF Wires
      <4> QED
        BY <4>1, <4>2
    <3>2. EndsAt(n, k, c)
      BY <1>1, <1>2, <2>1, <3>1 DEF InOrder
    <3>3. n = 1
      BY <1>5, <3>2 DEF EndsAt
    <3>4. PICK m \in Messages, msgs \in Seq(Messages) :
            /\ m = <<"ready">> /\ msgs = <<m>> /\ Len(msgs) = 1
            /\ \A j \in 1..Len(msgs) : j = 1 /\ msgs[j] = m
      BY MessageKinds, OneMessage, ZenonT(60)
    <3>5. \A j \in 1..Len(msgs) : IsNth(n + j, msgs[j])
      <4>1. n + 1 = 2 /\ IsNth(2, m)
        BY <3>3, <3>4 DEF IsNth
      <4> QED
        BY <3>4, <4>1
    <3>6. EndsAt(n + Len(msgs), k, c)'
      <4>1. PICK x : x = n + Len(msgs)
        OBVIOUS
      <4>2. EndsAt(x, k, c)'
        BY <1>5, <3>3, <3>4, <4>1 DEF EndsAt
      <4> QED
        BY <4>1, <4>2
    <3>7. wire'[o][c] = wire[o][c] \o msgs
      BY <1>1, <3>4
    <3> QED
      BY <1>1, <1>2, <2>1, <3>1, <3>5, <3>6, <3>7, SendKeepsOrder
  <2>2. CASE Sock(o, c) # "open"
    BY <1>1, <2>2 DEF InOrder
  <2> QED
    BY <2>1, <2>2
<1>8. /\ Sock(Initiator, c) \notin {"none", "connecting"}
      /\ Sock(Acceptor, c) \notin {"none", "connecting"} /\ ~(c > opened)
  BY BothHaveBegun
<1>9. Sock(Initiator, c)' = Sock(Initiator, c) /\ Sock(Acceptor, c)' = Sock(Acceptor, c)
  BY <1>1, TwoKernels DEF Acceptor
<1>10. Sock(Other(k), c) = "open" => ~ProcId(Other(k), c)
  <2>1. SUFFICES ASSUME Sock(o, c) = "open" PROVE ~ProcId(o, c)
    BY <1>1
  <2>2. PICK h \in Nat, l \in Nat : h = HasRead(o, c) /\ l = Len(wire[o][c])
    <3>1. Len(wire[o][c]) \in Nat
      BY DEF Wires
    <3> QED
      BY <3>1, ReadSoFar
  <2>3. EndsAt(h + l, k, c)
    BY <1>1, <1>2, <2>1, <2>2 DEF InOrder
  <2>4. PICK x : x = h + l
    OBVIOUS
  <2>5. x = 1
    BY <1>5, <2>3, <2>4 DEF EndsAt
  <2>6. h # 2
    BY <2>2, <2>4, <2>5
  <2> QED
    BY <2>2, <2>6, ReadSoFar
<1>11. ConnInv(c)'
  BY <1>1, <1>6, <1>7, <1>8, <1>9, HasBegun
<1> QED
  BY <1>5, <1>10, <1>11

(* Announcements may come behind the handshake. *)
LEMMA NewsComeBehind ==
    ASSUME NEW n \in Nat, n >= 2, NEW msgs \in Seq(Announcements)
    PROVE  /\ msgs \in Seq(Messages)
           /\ \A j \in 1..Len(msgs) : IsNth(n + j, msgs[j])
           /\ n + Len(msgs) >= 2
<1>1. msgs \in Seq(Messages)
  BY MessageKinds
<1>2. \A j \in 1..Len(msgs) : msgs[j] \in Announcements /\ n + j # 1 /\ n + j # 2
  OBVIOUS
<1>3. PICK l \in Nat : l = Len(msgs)
  OBVIOUS
<1> QED
  BY <1>1, <1>2, <1>3 DEF IsNth

(* Announcements are sent by an end that knows the other's process. *)
LEMMA NewsKeepOrder ==
    ASSUME NEW k \in Kernels, NEW c \in Conns, wire \in Wires, InOrder(Other(k), c),
           Sock(k, c) = "open", Sock(Other(k), c) = "open",
           Info(k, c), Info(k, c)', ProcId(k, c)',
           Sock(Other(k), c)' = Sock(Other(k), c), Info(Other(k), c)' <=> Info(Other(k), c),
           ProcId(Other(k), c)' <=> ProcId(Other(k), c),
           NEW msgs \in Seq(Announcements),
           wire'[Other(k)][c] = wire[Other(k)][c] \o msgs
    PROVE  InOrder(Other(k), c)'
<1>1. PICK o \in Kernels : o = Other(k) /\ o # k /\ Other(o) = k /\ \A l \in Kernels : l = k \/ l = o
  BY TwoKernels
<1>2. PICK n \in Nat : n = HasRead(o, c) + Len(wire[o][c])
  <2>1. HasRead(o, c) \in Nat
    BY ReadSoFar
  <2>2. Len(wire[o][c]) \in Nat
    BY DEF Wires
  <2> QED
    BY <2>1, <2>2
<1>3. EndsAt(n, k, c)
  BY <1>1, <1>2 DEF InOrder
<1>4. n >= 2
  BY <1>3 DEF EndsAt
<1>5. PICK ms \in Seq(Messages) :
        /\ ms = msgs /\ \A j \in 1..Len(ms) : IsNth(n + j, ms[j])
        /\ n + Len(ms) >= 2
  BY <1>4, NewsComeBehind
<1>6. EndsAt(n + Len(ms), k, c)'
  <2>1. PICK x : x = n + Len(ms)
    OBVIOUS
  <2>2. EndsAt(x, k, c)'
    BY <1>5, <2>1 DEF EndsAt
  <2> QED
    BY <2>1, <2>2
<1>7. wire'[o][c] = wire[o][c] \o ms
  BY <1>1, <1>5
<1>8. InOrder(o, c)'
  BY <1>1, <1>2, <1>5, <1>6, <1>7, SendKeepsOrder
<1> QED
  BY <1>1, <1>8

(* A Ready is read, and answered with the announcement of the participants. *)
LEMMA ReadsReady ==
    ASSUME NEW k \in Kernels, NEW c \in Conns, ConnInv(c), wire \in Wires, opened' = opened,
           Sock(k, c) = "open", Sock(k, c)' = "open", wire[k][c] # <<>>,
           Head(wire[k][c]) = <<"ready">>,
           Info(k, c)' <=> Info(k, c), ProcId(k, c)',
           Sock(Other(k), c)' = Sock(Other(k), c), Info(Other(k), c)' <=> Info(Other(k), c),
           ProcId(Other(k), c)' <=> ProcId(Other(k), c),
           wire'[k][c] = Tail(wire[k][c]),
           NEW msgs \in Seq(Announcements),
           wire'[Other(k)][c] = wire[Other(k)][c] \o msgs
    PROVE  ConnInv(c)' /\ ~ProcId(k, c)
<1>1. PICK o \in Kernels : o = Other(k) /\ o # k /\ Other(o) = k /\ \A l \in Kernels : l = k \/ l = o
  BY TwoKernels
<1>2. InOrder(k, c) /\ InOrder(o, c)
  BY <1>1 DEF ConnInv
<1>3. IsNth(HasRead(k, c) + 1, <<"ready">>)
  <2>1. PICK n \in Nat, w \in Seq(Messages) : n = HasRead(k, c) /\ w = wire[k][c]
    BY ReadSoFar DEF Wires
  <2>2. Continues(n, w)
    BY <1>2, <2>1 DEF InOrder
  <2> QED
    BY <2>1, <2>2, TailContinues
<1>4. HasRead(k, c) = 1
  <2>1. <<"hello">> # <<"ready">> /\ <<"ready">> \notin Announcements
    BY MessageKinds
  <2>2. HasRead(k, c) \in 0..2
    BY ReadSoFar
  <2>3. HasRead(k, c) + 1 = 2
    BY <1>3, <2>1 DEF IsNth
  <2> QED
    BY <2>2, <2>3
<1>5. Info(k, c) /\ ~ProcId(k, c) /\ HasRead(k, c)' = 2
  BY <1>4, ReadSoFar DEF HasRead
<1>6. InOrder(k, c)'
  <2>1. HasRead(k, c)' = HasRead(k, c) + 1
    BY <1>4, <1>5
  <2> QED
    BY <1>2, <1>5, <2>1, ReadKeepsOrder
<1>7. InOrder(o, c)'
  <2>1. CASE Sock(o, c) = "open"
    BY <1>1, <1>2, <1>5, <2>1, NewsKeepOrder
  <2>2. CASE Sock(o, c) # "open"
    BY <1>1, <2>2 DEF InOrder
  <2> QED
    BY <2>1, <2>2
<1>8. /\ Sock(Initiator, c) \notin {"none", "connecting"}
      /\ Sock(Acceptor, c) \notin {"none", "connecting"} /\ ~(c > opened)
  BY BothHaveBegun
<1>9. Sock(Initiator, c)' = Sock(Initiator, c) /\ Sock(Acceptor, c)' = Sock(Acceptor, c)
  BY <1>1, TwoKernels DEF Acceptor
<1> QED
  BY <1>1, <1>5, <1>6, <1>7, <1>8, <1>9, HasBegun

(* An announcement is read: the process is known. *)
LEMMA ReadsNews ==
    ASSUME NEW k \in Kernels, NEW c \in Conns, ConnInv(c), wire \in Wires, opened' = opened,
           Sock(k, c) = "open", Sock(k, c)' = "open", wire[k][c] # <<>>,
           Head(wire[k][c]) \in Announcements,
           Info(k, c)' <=> Info(k, c), ProcId(k, c)' <=> ProcId(k, c),
           SameEnd(Other(k), c),
           wire'[k][c] = Tail(wire[k][c])
    PROVE  ConnInv(c)' /\ ProcId(k, c)
<1>1. PICK o \in Kernels : o = Other(k) /\ o # k /\ Other(o) = k /\ \A l \in Kernels : l = k \/ l = o
  BY TwoKernels
<1>2. InOrder(k, c) /\ InOrder(o, c)
  BY <1>1 DEF ConnInv
<1>3. PICK m \in Announcements : m = Head(wire[k][c]) /\ IsNth(HasRead(k, c) + 1, m)
  <2>1. PICK n \in Nat, w \in Seq(Messages) : n = HasRead(k, c) /\ w = wire[k][c]
    BY ReadSoFar DEF Wires
  <2>2. Continues(n, w)
    BY <1>2, <2>1 DEF InOrder
  <2> QED
    BY <2>1, <2>2, TailContinues
<1>4. HasRead(k, c) = 2
  <2>1. m # <<"hello">> /\ m # <<"ready">>
    BY MessageKinds
  <2>2. HasRead(k, c) \in 0..2
    BY ReadSoFar
  <2>3. HasRead(k, c) + 1 # 1 /\ HasRead(k, c) + 1 # 2
    BY <1>3, <2>1 DEF IsNth
  <2> QED
    BY <2>2, <2>3
<1>5. Info(k, c) /\ ProcId(k, c) /\ HasRead(k, c)' = 2
  BY <1>2, <1>4, ReadSoFar, SameRead DEF InOrder
<1>6. InOrder(k, c)'
  BY <1>2, <1>4, <1>5, ReadKeepsOrder DEF SameEnd
<1>7. InOrder(o, c)'
  <2>1. InOrder(o, c)
    BY <1>2
  <2>2. HasRead(o, c)' = HasRead(o, c)
    BY <1>1, SameRead DEF SameEnd
  <2>3. \A n : EndsAt(n, k, c)' <=> EndsAt(n, k, c)
    BY SameRead
  <2> QED
    BY <1>1, <2>1, <2>2, <2>3 DEF InOrder, SameEnd
<1>8. /\ Sock(Initiator, c) \notin {"none", "connecting"}
      /\ Sock(Acceptor, c) \notin {"none", "connecting"} /\ ~(c > opened)
  BY BothHaveBegun
<1>9. Sock(Initiator, c)' = Sock(Initiator, c) /\ Sock(Acceptor, c)' = Sock(Acceptor, c)
  BY <1>1, TwoKernels DEF Acceptor, SameEnd
<1> QED
  BY <1>1, <1>5, <1>6, <1>7, <1>8, <1>9, HasBegun

(* A join or a leave is announced by an end that is open and knows the process. *)
LEMMA Announces ==
    ASSUME NEW k \in Kernels, NEW c \in Conns, ConnInv(c), wire \in Wires, opened' = opened,
           Sock(k, c) = "open", ProcId(k, c),
           \A l \in Kernels : /\ Sock(l, c)' = Sock(l, c) /\ (Info(l, c)' <=> Info(l, c))
                              /\ (ProcId(l, c)' <=> ProcId(l, c)),
           wire'[k][c] = wire[k][c],
           NEW msgs \in Seq(Announcements),
           wire'[Other(k)][c] = wire[Other(k)][c] \o msgs
    PROVE  ConnInv(c)'
<1>1. PICK o \in Kernels : o = Other(k) /\ o # k /\ Other(o) = k /\ \A l \in Kernels : l = k \/ l = o
  BY TwoKernels
<1>2. InOrder(k, c) /\ InOrder(o, c)
  BY <1>1 DEF ConnInv
<1>3. Info(k, c)
  BY <1>2 DEF InOrder
<1>4. InOrder(k, c)'
  <2>1. HasRead(k, c)' = HasRead(k, c)
    BY SameRead
  <2>2. \A n : EndsAt(n, o, c)' <=> EndsAt(n, o, c)
    BY SameRead
  <2> QED
    BY <1>1, <1>2, <2>1, <2>2 DEF InOrder
<1>5. InOrder(o, c)'
  <2>1. CASE Sock(o, c) = "open"
    BY <1>1, <1>2, <1>3, <2>1, NewsKeepOrder
  <2>2. CASE Sock(o, c) # "open"
    BY <2>2 DEF InOrder
  <2> QED
    BY <2>1, <2>2
<1>6. /\ Sock(Initiator, c) \notin {"none", "connecting"}
      /\ Sock(Acceptor, c) \notin {"none", "connecting"} /\ ~(c > opened)
  BY BothHaveBegun
<1>7. Sock(Initiator, c)' = Sock(Initiator, c) /\ Sock(Acceptor, c)' = Sock(Acceptor, c)
  BY TwoKernels
<1> QED
  BY <1>1, <1>4, <1>5, <1>6, <1>7, HasBegun

----------------------------------------------------------------------------
(* What holds of the parts, when nothing or little happens to them *)

(* The types of the variables that the actions change most. *)
LEMMA TypesParts ==
    ASSUME Types
    PROVE  /\ handler \in Handlers /\ wire \in Wires /\ opened \in Nat /\ opened \in 0..MaxConns
           /\ late \in [Kernels -> {<<>>} \cup (Conns \X Messages)]
           /\ readyProcesses_ \in [Kernels -> Conns \cup {0}]
           /\ detaching \in [Kernels -> Conns \cup {0}]
           /\ known \in [Kernels -> SUBSET Participants]
           /\ participants \in [Kernels -> SUBSET Participants]
           /\ up \in [Kernels -> {"down", "up", "crashed"}]
           /\ \A k \in Kernels, c \in Conns : Sock(k, c) \in Sockets
BY EtherAssumption DEF EtherAssumption, Types, TypeOK, Handlers, HandlerStates, Wires, Sock

(* A message being handled stays one of a handler that is being shut. *)
LEMMA LateFrame ==
    ASSUME NEW k \in Kernels, LateInv(k), late'[k] = late[k],
           late \in [Kernels -> {<<>>} \cup (Conns \X Messages)],
           \A c \in Conns : Sock(k, c) = "aborting"
                              => Sock(k, c)' = "aborting" /\ (ProcId(k, c) => ProcId(k, c)')
    PROVE  LateInv(k)'
<1>1. SUFFICES ASSUME late[k] # <<>> PROVE LateInv(k)'
  BY DEF LateInv
<1>2. PICK c \in Conns : c = late[k][1]
  BY <1>1
<1> QED
  BY <1>1, <1>2 DEF LateInv

(* What a kernel knows and announces to stays with the connections that count. *)
LEMMA KnownFrame ==
    ASSUME NEW k \in Kernels, KnownInv(k), NEW r, r = readyProcesses_[k], r = 0 \/ r \in Conns,
           NEW d, d = detaching[k], d = 0 \/ d \in Conns,
           readyProcesses_'[k] = r \/ readyProcesses_'[k] = 0,
           readyProcesses_'[k] # 0 => (Counts(k, r) => Counts(k, r)'),
           known'[k] # {} => known[k] # {} /\ \A c \in Conns : Counts(k, c) => Counts(k, c)',
           \A c \in Conns : Sock(k, c)' = "open"
                              => Sock(k, c) = "open" /\ (up[k] = "up" => up'[k] = "up"),
           detaching'[k] = d \/ detaching'[k] = 0,
           Sock(k, d) \in {"aborting", "gone"} /\ d # 0 => Sock(k, d)' \in {"aborting", "gone"}
    PROVE  KnownInv(k)'
<1>1. readyProcesses_'[k] # 0 => Counts(k, r)' /\ readyProcesses_'[k] = r
  BY DEF KnownInv
<1>2. known'[k] # {} => \E c \in Conns : Counts(k, c)'
  BY DEF KnownInv
<1>3. \A c \in Conns : Sock(k, c)' = "open" => up'[k] = "up"
  BY DEF KnownInv
<1>4. detaching'[k] # 0 => Sock(k, d)' \in {"aborting", "gone"} /\ detaching'[k] = d
  BY DEF KnownInv
<1>5. readyProcesses_'[k] # 0 => Counts(k, readyProcesses_[k])'
  BY <1>1
<1>6. detaching'[k] # 0 => Sock(k, detaching[k])' \in {"aborting", "gone"}
  BY <1>4
<1> QED
  BY <1>2, <1>3, <1>5, <1>6 DEF KnownInv

(* The end of a connection that changed in nothing but what waits for it. *)
SameHandler(k, c) ==
    Sock(k, c)' = Sock(k, c) /\ (Info(k, c)' <=> Info(k, c)) /\ (ProcId(k, c)' <=> ProcId(k, c))

(* A kernel to which nothing happened. *)
SameKernel(k) ==
    /\ \A c \in Conns : SameHandler(k, c)
    /\ late'[k] = late[k] /\ readyProcesses_'[k] = readyProcesses_[k] /\ known'[k] = known[k]
    /\ detaching'[k] = detaching[k] /\ up'[k] = up[k]

(* What is said of a kernel depends on its own state. *)
LEMMA KernelFrame ==
    ASSUME NEW k \in Kernels, Types, SameKernel(k), LateInv(k), KnownInv(k)
    PROVE  LateInv(k)' /\ KnownInv(k)'
<1>1. LateInv(k)'
  BY TypesParts, LateFrame DEF SameKernel, SameHandler
<1>2. \A c \in Conns : Counts(k, c)' <=> Counts(k, c)
  BY DEF Counts, Held, SameKernel, SameHandler
<1>3. PICK r, d : /\ r = readyProcesses_[k] /\ d = detaching[k]
                  /\ r \in Conns \cup {0} /\ d \in Conns \cup {0}
  BY TypesParts
<1>4. KnownInv(k)'
  BY <1>2, <1>3, KnownFrame DEF SameKernel, SameHandler
<1> QED
  BY <1>1, <1>4

(* One connection at a time stays one, *)
LEMMA OneLiveFrame ==
    ASSUME NEW k \in Kernels, OneLive(k),
           \A c \in Conns : Live(k, c)' => Live(k, c),
           \A c \in Conns : Sock(k, c)' = "open" /\ ProcId(k, c)'
             => Sock(k, c) = "open" /\ ProcId(k, c) /\ readyProcesses_'[k] = readyProcesses_[k]
    PROVE  OneLive(k)'
BY DEF OneLive

(* and two ends that agreed agree. *)
LEMMA WillAgreeFrame ==
    ASSUME NEW k \in Kernels, NEW c \in Conns, WillAgree(k, c),
           Sock(k, c)' = "open" /\ Sock(Other(k), c)' = "open" =>
             /\ Sock(k, c) = "open" /\ Sock(Other(k), c) = "open"
             /\ wire'[k][c] = wire[k][c]
             /\ ProcId(k, c)' <=> ProcId(k, c)
             /\ ProcId(Other(k), c)' <=> ProcId(Other(k), c)
             /\ ProcId(k, c) => known'[k] = known[k]
             /\ ProcId(Other(k), c) => participants'[Other(k)] = participants[Other(k)]
    PROVE  WillAgree(k, c)'
<1>1. SUFFICES ASSUME Sock(k, c)' = "open", Sock(Other(k), c)' = "open",
                      NEW p \in Participants
               PROVE  WillKnow(k, c, p)' <=>
                        (ProcId(Other(k), c)' /\ p \in participants'[Other(k)])
  BY DEF WillAgree
<1>2. WillKnow(k, c, p)' <=> WillKnow(k, c, p)
  BY <1>1 DEF WillKnow
<1>3. WillKnow(k, c, p) <=> ProcId(Other(k), c) /\ p \in participants[Other(k)]
  BY <1>1 DEF WillAgree
<1> QED
  BY <1>1, <1>2, <1>3

(* What ends before the second message is not followed by announcements, *)
LEMMA NoNews ==
    ASSUME NEW n \in Nat, NEW w \in Seq(Messages), Continues(n, w), n + Len(w) <= 2
    PROVE  \A j \in 1..Len(w) : w[j] \notin Announcements
<1>1. PICK l \in Nat : l = Len(w) /\ n + l <= 2
  OBVIOUS
<1>2. ASSUME NEW j \in 1..l PROVE w[j] \notin Announcements
  <2>1. n + j = 1 \/ n + j = 2
    BY <1>1
  <2>2. IsNth(n + j, w[j])
    BY <1>1 DEF Continues
  <2>3. <<"hello">> \notin Announcements /\ <<"ready">> \notin Announcements
    BY MessageKinds
  <2> QED
    BY <2>1, <2>2, <2>3 DEF IsNth
<1> QED
  BY <1>1, <1>2

(* so before an end knows the other's process it has announced nothing, *)
LEMMA NothingAnnounced ==
    ASSUME NEW k \in Kernels, NEW c \in Conns, wire \in Wires, InOrder(k, c),
           Sock(k, c) = "open", Sock(Other(k), c) = "open", ~ProcId(Other(k), c)
    PROVE  \A j \in 1..Len(wire[k][c]) : wire[k][c][j] \notin Announcements
<1>1. PICK n \in Nat, w \in Seq(Messages), l \in Nat :
         n = HasRead(k, c) /\ w = wire[k][c] /\ l = Len(w)
  BY ReadSoFar DEF Wires
<1>2. Continues(n, w) /\ EndsAt(n + l, Other(k), c)
  BY <1>1 DEF InOrder
<1>3. PICK x : x = n + l
  OBVIOUS
<1>4. x = 1 \/ x = 2
  BY <1>2, <1>3 DEF EndsAt
<1>5. n + Len(w) <= 2
  BY <1>1, <1>3, <1>4
<1> QED
  BY <1>1, <1>2, <1>5, NoNews

(* and after a step the two ends agree as long as they do not know each other. *)
LEMMA EarlyEnds ==
    ASSUME NEW k \in Kernels, NEW c \in Conns, wire' \in Wires, InOrder(k, c)',
           ~ProcId(k, c)', ~ProcId(Other(k), c)'
    PROVE  WillAgree(k, c)'
<1>1. SUFFICES ASSUME Sock(k, c)' = "open", Sock(Other(k), c)' = "open", NEW p \in Participants
               PROVE  ~WillKnow(k, c, p)'
  BY DEF WillAgree
<1>2. PICK n \in Nat, w \in Seq(Messages), l \in Nat :
         n = HasRead(k, c)' /\ w = wire'[k][c] /\ l = Len(w)
  <2>1. HasRead(k, c)' \in Nat
    BY DEF HasRead
  <2>2. wire'[k][c] \in Seq(Messages)
    BY DEF Wires
  <2> QED
    BY <2>1, <2>2
<1>3. Continues(n, w) /\ EndsAt(n + l, Other(k), c)'
  BY <1>1, <1>2 DEF InOrder
<1>4. PICK x : x = n + l
  OBVIOUS
<1>5. x = 1 \/ x = 2
  <2>1. EndsAt(x, Other(k), c)'
    BY <1>3, <1>4
  <2> QED
    BY <2>1 DEF EndsAt
<1>6. n + Len(w) <= 2
  BY <1>2, <1>4, <1>5
<1>7. \A j \in 1..Len(w) : w[j] \notin Announcements
  BY <1>3, <1>6, NoNews
<1>8. About("joined", p) \in Announcements
  BY MessageKinds
<1> QED
  BY <1>2, <1>7, <1>8 DEF WillKnow, JoinsLast

(* At the beginning. *)
LEMMA InitHolds == Init => EInv
<1> SUFFICES ASSUME Init PROVE EInv
  OBVIOUS
<1>1. Initiator \in Kernels /\ Acceptor \in Kernels
  BY TwoKernels
<1>2. MaxConns \in Nat /\ MaxJoins \in Nat /\ MaxFaults \in Nat
  BY EtherAssumption DEF EtherAssumption
<1>3. NoHandler \in HandlerStates /\ NoHandler.sock = "none" /\ ~NoHandler.info /\ ~NoHandler.procId
  BY DEF NoHandler, HandlerStates, Sockets, Held
<1>4. handler \in Handlers /\ \A k \in Kernels, c \in Conns : handler[k][c] = NoHandler
  BY <1>3 DEF Init, Handlers
<1>5. \A k \in Kernels, c \in Conns : Sock(k, c) = "none" /\ ~Info(k, c) /\ ~ProcId(k, c)
  BY <1>3, <1>4 DEF Sock, Info, ProcId
<1>6. wire \in Wires /\ \A k \in Kernels, c \in Conns : wire[k][c] = <<>>
  BY DEF Init, Wires
<1>7. Types
  <2>1. IsFiniteSet({})
    BY FS_EmptySet
  <2>2. /\ \A k \in Kernels : participants[k] = {}
        /\ participants \in [Kernels -> SUBSET Participants]
        /\ late \in [Kernels -> {<<>>} \cup (Conns \X Messages)]
    BY DEF Init
  <2>3. \A k \in Kernels, c \in Conns : wire[k][c] \in Seq(Messages)
    BY <1>6 DEF Wires
  <2>4. handler \in [Kernels -> [Conns -> [sock : Sockets, info : BOOLEAN, procId : BOOLEAN]]]
    BY <1>4 DEF Handlers, HandlerStates
  <2>5. 0 \in 0..MaxJoins /\ 0 \in 0..MaxConns /\ 0 \in 0..MaxFaults /\ 0 \in Nat
    BY <1>2
  <2>6. /\ up \in [Kernels -> {"down", "up", "crashed"}] /\ starts \in [Kernels -> Nat]
        /\ track \in [Kernels -> Nat] /\ expiring \in [Kernels -> BOOLEAN]
        /\ detaching \in [Kernels -> Conns \cup {0}]
        /\ readyProcesses_ \in [Kernels -> Conns \cup {0}]
        /\ known \in [Kernels -> SUBSET Participants]
    BY DEF Init
  <2>7. joins \in 0..MaxJoins /\ opened \in 0..MaxConns /\ faults \in 0..MaxFaults
    BY <2>5 DEF Init
  <2>8. /\ named \in BOOLEAN /\ compatible \in BOOLEAN /\ overlapped \in BOOLEAN
        /\ broken \subseteq Conns /\ silent \subseteq Conns /\ ioEnded \subseteq Kernels
    BY DEF Init
  <2>9. TypeOK
    BY <2>2, <2>3, <2>4, <2>6, <2>7, <2>8 DEF TypeOK
  <2> QED
    BY <1>6, <2>1, <2>2, <2>9 DEF Types, Wires
<1>8. ASSUME NEW c \in Conns PROVE ConnInv(c)
  BY <1>1, <1>5, <1>6 DEF ConnInv, Beginnings, InOrder
<1>9. ASSUME NEW k \in Kernels PROVE LateInv(k) /\ KnownInv(k)
  BY <1>5 DEF LateInv, KnownInv, Init
<1>10. ASSUME NEW k \in Kernels PROVE OneLive(k) /\ \A c \in Conns : WillAgree(k, c)
  BY <1>5 DEF OneLive, Live, Held, WillAgree
<1> QED
  BY <1>7, <1>8, <1>9, <1>10 DEF EInv, SoundInv, AgreeInv

----------------------------------------------------------------------------
(* Discovery *)

(* A kernel detects another: nothing, or a connection begins. *)
LEMMA Detects ==
    ASSUME SoundInv, NEW k \in Kernels, Detected(k)
    PROVE  /\ handler' \in Handlers /\ wire' = wire /\ late' = late /\ opened' \in 0..MaxConns
           /\ \A c \in Conns : ConnInv(c)'
           /\ \A l \in Kernels, c \in Conns :
                /\ Info(l, c)' <=> Info(l, c)
                /\ ProcId(l, c)' <=> ProcId(l, c)
                /\ Sock(l, c)' = Sock(l, c) \/ (Sock(l, c) = "none" /\ Sock(l, c)' = "connecting")
<1>1. /\ handler \in Handlers /\ wire \in Wires /\ opened \in Nat /\ opened \in 0..MaxConns
      /\ \A c \in Conns : ConnInv(c)
  BY TypesParts DEF SoundInv
<1>2. CASE UNCHANGED connVars
  <2>1. opened' = opened /\ handler' = handler /\ wire' = wire /\ late' = late
    BY <1>2 DEF connVars
  <2>2. \A l \in Kernels, c \in Conns : SameEnd(l, c)
    BY <2>1 DEF SameEnd, Sock, Info, ProcId
  <2>3. opened' \in Nat /\ opened <= opened'
    BY <1>1, <2>1
  <2>4. \A c \in Conns : ConnInv(c)'
    BY <1>1, <2>2, <2>3, ConnFrame
  <2> QED
    BY <1>1, <2>1, <2>2, <2>4 DEF SameEnd
<1>3. CASE /\ k = Initiator /\ opened < MaxConns /\ opened' = opened + 1
           /\ handler' = [handler EXCEPT ![k][opened + 1].sock = "connecting"]
           /\ UNCHANGED <<wire, late>>
  <2>1. PICK n \in Conns : n = opened + 1
    BY <1>1, <1>3, EtherAssumption DEF EtherAssumption, Conns
  <2>2. handler' = [handler EXCEPT ![k][n].sock = "connecting"]
    BY <1>3, <2>1
  <2>3. "connecting" \in Sockets
    BY DEF Sockets, Held
  <2>4. /\ handler' \in Handlers /\ SameElsewhere(k, n) /\ Sock(k, n)' = "connecting"
        /\ (Info(k, n)' <=> Info(k, n)) /\ (ProcId(k, n)' <=> ProcId(k, n))
    BY <1>1, <2>2, <2>3, SockSet
  <2>5. Sock(k, n) = "none"
    <3>1. n > opened
      BY <1>1, <2>1
    <3> QED
      BY <1>1, <1>3, <3>1 DEF ConnInv, Beginnings
  <2>6. ASSUME NEW c \in Conns PROVE ConnInv(c)'
    <3>1. CASE c = n
      <4>1. Acceptor \in Kernels /\ Acceptor # k
        BY <1>3, TwoKernels
      <4>2. SameEnd(Acceptor, c)
        BY <1>3, <2>4, <4>1 DEF SameEnd, SameElsewhere
      <4> QED
        BY <1>1, <1>3, <2>1, <2>4, <3>1, <4>2, Begins
    <3>2. CASE c # n
      <4>1. \A l \in Kernels : SameEnd(l, c)
        BY <1>3, <2>4, <3>2 DEF SameEnd, SameElsewhere
      <4>2. opened' \in Nat /\ opened <= opened'
        BY <1>1, <1>3
      <4> QED
        BY <1>1, <4>1, <4>2, ConnFrame
    <3> QED
      BY <3>1, <3>2
  <2>7. ASSUME NEW l \in Kernels, NEW c \in Conns
        PROVE  /\ Info(l, c)' <=> Info(l, c)
               /\ ProcId(l, c)' <=> ProcId(l, c)
               /\ Sock(l, c)' = Sock(l, c) \/ (Sock(l, c) = "none" /\ Sock(l, c)' = "connecting")
    BY <2>4, <2>5 DEF SameElsewhere
  <2>8. opened' \in 0..MaxConns
    BY <1>1, <1>3, <2>1 DEF Conns
  <2> QED
    BY <1>3, <2>4, <2>6, <2>7, <2>8
<1> QED
  BY <1>2, <1>3 DEF Detected, StartsConnection

(* A message that is handled late may be done. *)
LEMMA LateGoesWell ==
    ASSUME NEW k \in Kernels, Types, LateInv(k), late'[k] = late[k] \/ late'[k] = <<>>,
           \A c \in Conns : Sock(k, c) = "aborting"
                              => Sock(k, c)' = "aborting" /\ (ProcId(k, c) => ProcId(k, c)')
    PROVE  LateInv(k)'
<1>1. CASE late'[k] = <<>>
  BY <1>1 DEF LateInv
<1>2. CASE late'[k] = late[k]
  BY <1>2, TypesParts, LateFrame
<1> QED
  BY <1>1, <1>2

(* Where at most a connection begins, what is known stays. *)
LEMMA Unmoved ==
    ASSUME EInv,
           \A l \in Kernels, c \in Conns :
             /\ ProcId(l, c)' <=> ProcId(l, c)
             /\ Sock(l, c)' = Sock(l, c) \/ (Sock(l, c) = "none" /\ Sock(l, c)' = "connecting"),
           UNCHANGED <<wire, detaching, participants>>, UNCHANGED stateVars,
           \A l \in Kernels : late'[l] = late[l] \/ late'[l] = <<>>,
           \A l \in Kernels : up[l] = "up" => up'[l] = "up"
    PROVE  /\ \A l \in Kernels : LateInv(l)' /\ KnownInv(l)'
           /\ AgreeInv'
<1>1. Types
  BY DEF EInv, SoundInv
<1>2. /\ wire' = wire /\ detaching' = detaching /\ participants' = participants
      /\ readyProcesses_' = readyProcesses_ /\ known' = known /\ overlapped' = overlapped
  BY DEF stateVars
<1>3. ASSUME NEW l \in Kernels PROVE LateInv(l)' /\ KnownInv(l)'
  <2>1. LateInv(l) /\ KnownInv(l)
    BY DEF EInv, SoundInv
  <2>2. LateInv(l)'
    BY <1>1, <2>1, LateGoesWell
  <2>3. PICK r, d : /\ r = readyProcesses_[l] /\ d = detaching[l]
                    /\ r \in Conns \cup {0} /\ d \in Conns \cup {0}
    BY <1>1, TypesParts
  <2>4. \A c \in Conns : Counts(l, c) => Counts(l, c)'
    BY DEF Counts, Held
  <2>5. KnownInv(l)'
    <3>1. readyProcesses_'[l] = r /\ detaching'[l] = d /\ known'[l] = known[l]
      BY <1>2, <2>3
    <3>2. readyProcesses_'[l] # 0 => (Counts(l, r) => Counts(l, r)')
      BY <2>3, <2>4, <3>1
    <3>3. Sock(l, d) \in {"aborting", "gone"} /\ d # 0 => Sock(l, d)' \in {"aborting", "gone"}
      BY <2>3
    <3>4. \A c \in Conns : Sock(l, c)' = "open"
                             => Sock(l, c) = "open" /\ (up[l] = "up" => up'[l] = "up")
      OBVIOUS
    <3> QED
      BY <2>1, <2>3, <2>4, <3>1, <3>2, <3>3, <3>4, KnownFrame
  <2> QED
    BY <2>2, <2>5
<1>4. ASSUME ~overlapped, NEW l \in Kernels PROVE OneLive(l)' /\ \A c \in Conns : WillAgree(l, c)'
  <2>1. OneLive(l) /\ \A c \in Conns : WillAgree(l, c)
    BY <1>4 DEF EInv, AgreeInv
  <2>2. OneLive(l)'
    <3>1. \A c \in Conns : Live(l, c)' => Live(l, c)
      BY <1>2 DEF Live, Held
    <3>2. \A c \in Conns : Sock(l, c)' = "open" /\ ProcId(l, c)'
            => Sock(l, c) = "open" /\ ProcId(l, c) /\ readyProcesses_'[l] = readyProcesses_[l]
      BY <1>2
    <3> QED
      BY <2>1, <3>1, <3>2, OneLiveFrame
  <2>3. ASSUME NEW c \in Conns PROVE WillAgree(l, c)'
    <3>1. Other(l) \in Kernels
      BY TwoKernels
    <3> QED
      BY <1>2, <2>1, <3>1, WillAgreeFrame
  <2> QED
    BY <2>2, <2>3
<1> QED
  BY <1>2, <1>3, <1>4 DEF AgreeInv

(* A beam opens a connection only if the process was not being tracked. *)
LEMMA BeamKeeps ==
    ASSUME EInv, NEW k \in Kernels, BeamReceived(k)
    PROVE  EInv'
<1>1. /\ SoundInv /\ Types /\ Detected(k) /\ UNCHANGED <<detaching, participants>>
      /\ UNCHANGED stateVars /\ UNCHANGED kernelVars /\ UNCHANGED <<joins, expiring>>
      /\ UNCHANGED netVars /\ track' = [track EXCEPT ![k] = starts[Other(k)]]
  BY DEF EInv, SoundInv, BeamReceived, localVars
<1>2. /\ handler' \in Handlers /\ wire' = wire /\ late' = late /\ opened' \in 0..MaxConns
      /\ \A c \in Conns : ConnInv(c)'
      /\ \A l \in Kernels, c \in Conns :
           /\ Info(l, c)' <=> Info(l, c)
           /\ ProcId(l, c)' <=> ProcId(l, c)
           /\ Sock(l, c)' = Sock(l, c) \/ (Sock(l, c) = "none" /\ Sock(l, c)' = "connecting")
  BY <1>1, Detects
<1>3. /\ \A l \in Kernels : LateInv(l)' /\ KnownInv(l)'
      /\ AgreeInv'
  BY <1>1, <1>2, Unmoved DEF kernelVars
<1>4. Types'
  <2>1. Other(k) \in Kernels
    BY TwoKernels
  <2>2. track' \in [Kernels -> Nat]
    BY <1>1, <2>1 DEF Types, TypeOK
  <2>3. handler' \in [Kernels -> [Conns -> [sock : Sockets, info : BOOLEAN, procId : BOOLEAN]]]
    BY <1>2 DEF Handlers, HandlerStates
  <2> QED
    BY <1>1, <1>2, <2>2, <2>3 DEF Types, TypeOK, kernelVars, netVars, stateVars
<1> QED
  BY <1>2, <1>3, <1>4 DEF EInv, SoundInv

(* Steps that change neither a connection nor what is known of it. *)
LEMMA NothingMoves ==
    ASSUME EInv, UNCHANGED connVars, UNCHANGED <<detaching, participants>>, UNCHANGED stateVars,
           UNCHANGED up, Types'
    PROVE  EInv'
<1>1. /\ handler' = handler /\ wire' = wire /\ late' = late /\ opened' = opened
      /\ opened \in Nat /\ opened' \in Nat
  BY TypesParts DEF connVars, EInv, SoundInv
<1>2. \A l \in Kernels, c \in Conns : SameEnd(l, c)
  BY <1>1 DEF SameEnd, Sock, Info, ProcId
<1>3. ASSUME NEW c \in Conns PROVE ConnInv(c)'
  <2>1. ConnInv(c) /\ opened <= opened'
    BY <1>1 DEF EInv, SoundInv
  <2> QED
    BY <1>1, <1>2, <2>1, ConnFrame
<1>4. /\ \A l \in Kernels : LateInv(l)' /\ KnownInv(l)'
      /\ AgreeInv'
  <2>1. \A l \in Kernels, c \in Conns : /\ ProcId(l, c)' <=> ProcId(l, c)
                                        /\ Sock(l, c)' = Sock(l, c)
    BY <1>2 DEF SameEnd
  <2> QED
    BY <1>1, <2>1, Unmoved
<1> QED
  BY <1>3, <1>4 DEF EInv, SoundInv

(* A timer that fires queues an expiry, which runs later. *)
LEMMA TimerKeeps ==
    ASSUME EInv, NEW k \in Kernels, TimerFires(k)
    PROVE  EInv'
<1>1. faults \in 0..MaxFaults /\ faults' \in 0..MaxFaults
  BY EtherAssumption DEF TimerFires, EInv, SoundInv, Types, TypeOK, EtherAssumption
<1>2. Types'
  BY <1>1 DEF TimerFires, EInv, SoundInv, Types, TypeOK, kernelVars, localVars, connVars, stateVars
<1> QED
  BY <1>2, NothingMoves DEF TimerFires, kernelVars, localVars

(* A connection that breaks is noticed by its handlers later. *)
LEMMA BreakKeeps ==
    ASSUME EInv, NEW c \in Conns, Break(c)
    PROVE  EInv'
<1>1. faults \in 0..MaxFaults /\ faults' \in 0..MaxFaults
  BY EtherAssumption DEF Break, EInv, SoundInv, Types, TypeOK, EtherAssumption
<1>2. Types'
  BY <1>1 DEF Break, EInv, SoundInv, Types, TypeOK, kernelVars, localVars, trackVars, connVars,
              stateVars
<1> QED
  BY <1>2, NothingMoves DEF Break, kernelVars, localVars, trackVars

(* A step of nobody. *)
LEMMA StutterKeeps ==
    ASSUME EInv, UNCHANGED vars
    PROVE  EInv'
<1>1. Types'
  BY DEF EInv, SoundInv, Types, TypeOK, vars, kernelVars, localVars, trackVars, connVars, netVars,
         stateVars
<1> QED
  BY <1>1, NothingMoves DEF vars, kernelVars, localVars, trackVars

(* A kernel that starts knows nobody, and may open a connection to one that is up. *)
LEMMA StartKeeps ==
    ASSUME EInv, NEW k \in Kernels, Start(k)
    PROVE  EInv'
<1>1. Detected(k) \/ UNCHANGED connVars
  BY DEF Start, EInv, SoundInv
<1>2. SoundInv /\ Types
  BY DEF EInv, SoundInv
<1>3. /\ handler' \in Handlers /\ wire' = wire /\ late' = late /\ opened' \in 0..MaxConns
      /\ \A c \in Conns : ConnInv(c)'
      /\ \A l \in Kernels, c \in Conns :
           /\ ProcId(l, c)' <=> ProcId(l, c)
           /\ Sock(l, c)' = Sock(l, c) \/ (Sock(l, c) = "none" /\ Sock(l, c)' = "connecting")
  <2>1. CASE Detected(k)
    BY <1>2, <2>1, Detects
  <2>2. CASE UNCHANGED connVars
    <3>1. /\ handler' = handler /\ wire' = wire /\ late' = late /\ opened' = opened
          /\ opened \in Nat /\ opened' \in Nat /\ handler \in Handlers /\ opened \in 0..MaxConns
      BY <1>2, <2>2, TypesParts DEF connVars
    <3>2. \A l \in Kernels, c \in Conns : SameEnd(l, c)
      BY <3>1 DEF SameEnd, Sock, Info, ProcId
    <3>3. ASSUME NEW c \in Conns PROVE ConnInv(c)'
      <4>1. ConnInv(c) /\ opened <= opened'
        BY <1>2, <3>1 DEF SoundInv
      <4> QED
        BY <3>1, <3>2, <4>1, ConnFrame
    <3> QED
      BY <3>1, <3>2, <3>3 DEF SameEnd
  <2> QED
    BY <1>1, <2>1, <2>2
<1>4. /\ up' = [up EXCEPT ![k] = "up"] /\ UNCHANGED <<detaching, participants>>
      /\ UNCHANGED stateVars /\ UNCHANGED <<named, compatible, broken, silent, joins, track, expiring>>
      /\ starts' = [starts EXCEPT ![k] = @ + 1]
  BY DEF Start, localVars, trackVars
<1>5. /\ \A l \in Kernels : LateInv(l)' /\ KnownInv(l)'
      /\ AgreeInv'
  <2>1. \A l \in Kernels : up[l] = "up" => up'[l] = "up"
    BY <1>2, <1>4, TypesParts
  <2> QED
    BY <1>3, <1>4, <2>1, Unmoved
<1>6. faults \in 0..MaxFaults /\ faults' \in 0..MaxFaults
  BY <1>2, EtherAssumption DEF Start, Types, TypeOK, EtherAssumption
<1>7. Types'
  <2>1. starts' \in [Kernels -> Nat] /\ up' \in [Kernels -> {"down", "up", "crashed"}]
    BY <1>2, <1>4 DEF Types, TypeOK
  <2>2. handler' \in [Kernels -> [Conns -> [sock : Sockets, info : BOOLEAN, procId : BOOLEAN]]]
    BY <1>3 DEF Handlers, HandlerStates
  <2>3. ioEnded' = ioEnded
    BY DEF Start
  <2> QED
    BY <1>2, <1>3, <1>4, <1>6, <2>1, <2>2, <2>3 DEF Types, TypeOK, stateVars
<1> QED
  BY <1>3, <1>5, <1>7 DEF EInv, SoundInv

----------------------------------------------------------------------------
(* The end of a connection *)

(* One end is shut, and what was known by it is taken back now or later: its order, *)
LEMMA ShutEnds ==
    ASSUME SoundInv, NEW k \in Kernels, NEW c \in Conns, NEW s \in {"aborting", "gone"},
           Sock(k, c) # "none", Sock(k, c)' = s, SameElsewhere(k, c),
           wire' = [wire EXCEPT ![k][c] = <<>>], opened' = opened
    PROVE  wire' \in Wires /\ \A d \in Conns : ConnInv(d)'
<1>1. /\ wire \in Wires /\ opened \in Nat /\ opened' \in Nat /\ opened <= opened'
      /\ \A d \in Conns : ConnInv(d)
  BY TypesParts DEF SoundInv
<1>2. PICK o \in Kernels : o = Other(k) /\ o # k /\ \A l \in Kernels : l = k \/ l = o
  BY TwoKernels
<1>3. /\ wire' \in Wires
      /\ \A l \in Kernels, d \in Conns : ~(l = k /\ d = c) => wire'[l][d] = wire[l][d]
  BY <1>1 DEF Wires
<1>4. \A l \in Kernels, d \in Conns : ~(l = k /\ d = c) => SameEnd(l, d)
  BY <1>3 DEF SameEnd, SameElsewhere
<1>5. ASSUME NEW d \in Conns PROVE ConnInv(d)'
  <2>1. CASE d = c
    <3>1. SameEnd(Other(k), d)
      BY <1>2, <1>4
    <3>2. k = Acceptor => Sock(Initiator, d) \notin {"none", "connecting"}
      <4>1. Beginnings(c)
        BY <1>1 DEF ConnInv
      <4> QED
        BY <2>1, <4>1 DEF Beginnings
    <3>3. ConnInv(d) /\ Sock(k, d) # "none" /\ Sock(k, d)' \in {"aborting", "gone"}
      BY <1>1, <2>1
    <3> QED
      BY <1>1, <3>1, <3>2, <3>3, Closes
  <2>2. CASE d # c
    <3>1. \A l \in Kernels : SameEnd(l, d)
      BY <1>4, <2>2
    <3> QED
      BY <1>1, <3>1, ConnFrame
  <2> QED
    BY <2>1, <2>2
<1> QED
  BY <1>3, <1>5

(* what is taken back, *)
LEMMA TakenBack ==
    ASSUME Types, NEW k \in Kernels, NEW c \in Conns
    PROVE  /\ Erased(k, c) \in [Kernels -> Conns \cup {0}]
           /\ Forgotten(k, c) \in [Kernels -> SUBSET Participants]
           /\ Erased(k, c)[k] = IF ProcId(k, c) THEN 0 ELSE readyProcesses_[k]
           /\ Forgotten(k, c)[k] = IF ProcId(k, c) THEN {} ELSE known[k]
           /\ \A l \in Kernels : l # k => /\ Erased(k, c)[l] = readyProcesses_[l]
                                          /\ Forgotten(k, c)[l] = known[l]
BY TypesParts DEF Erased, Forgotten, ProcId

(* what is known, *)
LEMMA ShutKnown ==
    ASSUME SoundInv, NEW k \in Kernels, NEW c \in Conns, NEW s \in {"aborting", "gone"},
           Sock(k, c)' = s, SameElsewhere(k, c), ProcId(k, c)' <=> ProcId(k, c),
           readyProcesses_' = Erased(k, c),
           \/ known' = Forgotten(k, c)
           \/ known' = known /\ s = "aborting",
           \/ detaching' = detaching
           \/ detaching' = [detaching EXCEPT ![k] = c],
           up' = up
    PROVE  \A l \in Kernels : KnownInv(l)'
<1>1. /\ Types /\ \A l \in Kernels : KnownInv(l)
      /\ detaching \in [Kernels -> Conns \cup {0}]
  BY TypesParts DEF SoundInv
<1>2. ASSUME NEW l \in Kernels, l # k PROVE KnownInv(l)'
  <2>1. /\ readyProcesses_'[l] = readyProcesses_[l] /\ known'[l] = known[l]
        /\ detaching'[l] = detaching[l] /\ up'[l] = up[l]
    BY <1>1, <1>2, TakenBack
  <2>2. \A d \in Conns : Sock(l, d)' = Sock(l, d) /\ (ProcId(l, d)' <=> ProcId(l, d))
    BY <1>2 DEF SameElsewhere
  <2>3. \A d \in Conns : Counts(l, d)' <=> Counts(l, d)
    BY <2>2 DEF Counts, Held
  <2>4. PICK r, d : /\ r = readyProcesses_[l] /\ d = detaching[l]
                    /\ r \in Conns \cup {0} /\ d \in Conns \cup {0}
    BY <1>1, TypesParts
  <2> QED
    BY <1>1, <2>1, <2>2, <2>3, <2>4, KnownFrame
<1>3. KnownInv(k)'
  <2>1. \A d \in Conns : d # c => /\ Sock(k, d)' = Sock(k, d) /\ (ProcId(k, d)' <=> ProcId(k, d))
    BY DEF SameElsewhere
  <2>2. \A d \in Conns : d # c => (Counts(k, d)' <=> Counts(k, d))
    BY <2>1 DEF Counts, Held
  <2>3. KnownInv(k)
    BY <1>1
  <2>4. PICK r, b : /\ r = readyProcesses_[k] /\ b = detaching[k]
                    /\ r \in Conns \cup {0} /\ b \in Conns \cup {0}
    BY <1>1, TypesParts
  <2>5. readyProcesses_'[k] # 0 => readyProcesses_'[k] = r /\ Counts(k, r)'
    <3>1. SUFFICES ASSUME readyProcesses_'[k] # 0
                   PROVE  readyProcesses_'[k] = r /\ Counts(k, r)'
      OBVIOUS
    <3>2. ~ProcId(k, c) /\ readyProcesses_'[k] = r
      BY <1>1, <2>4, <3>1, TakenBack
    <3>3. Counts(k, r)
      BY <2>3, <2>4, <3>1, <3>2 DEF KnownInv
    <3>4. r # c
      BY <3>2, <3>3 DEF Counts, Held
    <3> QED
      BY <2>2, <2>4, <3>1, <3>2, <3>3, <3>4
  <2>6. readyProcesses_'[k] # 0 => Counts(k, readyProcesses_[k])'
    BY <2>5
  <2>7. known'[k] # {} => \E d \in Conns : Counts(k, d)'
    <3>1. SUFFICES ASSUME known'[k] # {} PROVE \E d \in Conns : Counts(k, d)'
      OBVIOUS
    <3>2. CASE known' = Forgotten(k, c)
      <4>1. ~ProcId(k, c) /\ known[k] # {}
        BY <1>1, <3>1, <3>2, TakenBack
      <4>2. PICK d \in Conns : Counts(k, d)
        BY <2>3, <4>1 DEF KnownInv
      <4>3. d # c
        BY <4>1, <4>2 DEF Counts, Held
      <4> QED
        BY <2>2, <4>2, <4>3
    <3>3. CASE known' = known /\ s = "aborting"
      <4>1. PICK d \in Conns : Counts(k, d)
        BY <2>3, <3>1, <3>3 DEF KnownInv
      <4>2. Counts(k, d)'
        BY <2>2, <3>3, <4>1 DEF Counts, Held
      <4> QED
        BY <4>2
    <3> QED
      BY <3>2, <3>3
  <2>8. \A d \in Conns : Sock(k, d)' = "open" => up'[k] = "up"
    BY <2>1, <2>3 DEF KnownInv
  <2>9. detaching'[k] # 0 => Sock(k, detaching[k])' \in {"aborting", "gone"}
    <3>1. PICK e : e = detaching'[k]
      OBVIOUS
    <3>2. e = b \/ e = c
      BY <1>1, <2>4, <3>1
    <3>3. e # 0 => Sock(k, e)' \in {"aborting", "gone"}
      <4>1. b # 0 => Sock(k, b) \in {"aborting", "gone"}
        BY <2>3, <2>4 DEF KnownInv
      <4> QED
        BY <2>1, <2>4, <3>2, <4>1
    <3> QED
      BY <3>1, <3>3
  <2> QED
    BY <2>6, <2>7, <2>8, <2>9 DEF KnownInv
<1> QED
  BY <1>2, <1>3

(* and the agreement of the others. *)
LEMMA ShutAgrees ==
    ASSUME EInv, NEW k \in Kernels, NEW c \in Conns, Sock(k, c)' \in {"aborting", "gone"},
           Sock(k, c) \in Held \cup {"connecting"},
           SameElsewhere(k, c), ProcId(k, c)' <=> ProcId(k, c),
           wire' = [wire EXCEPT ![k][c] = <<>>],
           readyProcesses_' = Erased(k, c), known' = Forgotten(k, c) \/ known' = known,
           \/ detaching' = detaching
           \/ detaching' = [detaching EXCEPT ![k] = c],
           overlapped' = overlapped, participants' = participants
    PROVE  AgreeInv'
<1>1. SUFFICES ASSUME ~overlapped PROVE \A l \in Kernels : OneLive(l)' /\ \A d \in Conns : WillAgree(l, d)'
  BY DEF AgreeInv
<1>2. /\ Types /\ wire \in Wires /\ detaching \in [Kernels -> Conns \cup {0}] /\ ConnInv(c)
      /\ \A l \in Kernels : OneLive(l) /\ \A d \in Conns : WillAgree(l, d)
  BY <1>1, TypesParts DEF EInv, SoundInv, AgreeInv
<1>3. ProcId(k, c) => Live(k, c)
  BY <1>2 DEF ConnInv, Beginnings, Live, Held
<1>4. /\ \A l \in Kernels, d \in Conns : ~(l = k /\ d = c) =>
           /\ Sock(l, d)' = Sock(l, d)
           /\ ProcId(l, d)' <=> ProcId(l, d)
           /\ wire'[l][d] = wire[l][d]
           /\ detaching'[l] = d => detaching[l] = d
  BY <1>2 DEF SameElsewhere, Wires
<1>5. \A d \in Conns : d # c /\ ProcId(k, d) /\ Sock(k, d) = "open" => ~ProcId(k, c)
  <2>1. \A d \in Conns : ProcId(k, d) /\ Sock(k, d) = "open" => Live(k, d)
    BY DEF Live, Held
  <2> QED
    BY <1>2, <1>3, <2>1 DEF OneLive
<1>6. ~ProcId(k, c) => readyProcesses_'[k] = readyProcesses_[k] /\ known'[k] = known[k]
  BY <1>2, TakenBack
<1>7. \A l \in Kernels : l # k => readyProcesses_'[l] = readyProcesses_[l] /\ known'[l] = known[l]
  BY <1>2, TakenBack
<1>8. ASSUME NEW l \in Kernels PROVE OneLive(l)'
  <2>1. ASSUME NEW d \in Conns PROVE Live(l, d)' => Live(l, d)
    BY <1>3, <1>4 DEF Live, Held
  <2>2. ASSUME NEW d \in Conns, Sock(l, d)' = "open", ProcId(l, d)'
        PROVE  Sock(l, d) = "open" /\ ProcId(l, d) /\ readyProcesses_'[l] = readyProcesses_[l]
    <3>1. ~(l = k /\ d = c)
      BY <2>2
    <3>2. Sock(l, d) = "open" /\ ProcId(l, d)
      BY <1>4, <2>2, <3>1
    <3> QED
      BY <1>5, <1>6, <1>7, <3>1, <3>2
  <2> QED
    BY <1>2, <2>1, <2>2, OneLiveFrame
<1>9. ASSUME NEW l \in Kernels, NEW d \in Conns PROVE WillAgree(l, d)'
  <2>1. Other(l) \in Kernels
    BY TwoKernels
  <2>2. ASSUME Sock(l, d)' = "open", Sock(Other(l), d)' = "open"
        PROVE  /\ Sock(l, d) = "open" /\ Sock(Other(l), d) = "open"
               /\ wire'[l][d] = wire[l][d]
               /\ ProcId(l, d)' <=> ProcId(l, d)
               /\ ProcId(Other(l), d)' <=> ProcId(Other(l), d)
               /\ ProcId(l, d) => known'[l] = known[l]
               /\ ProcId(Other(l), d) => participants'[Other(l)] = participants[Other(l)]
    <3>1. ~(l = k /\ d = c) /\ ~(Other(l) = k /\ d = c)
      BY <2>2
    <3>2. ProcId(l, d) => known'[l] = known[l]
      BY <1>4, <1>5, <1>6, <1>7, <2>2, <3>1
    <3> QED
      BY <1>4, <2>1, <2>2, <3>1, <3>2
  <2> QED
    BY <1>2, <2>2, WillAgreeFrame
<1> QED
  BY <1>8, <1>9

(* A handler that is gone, with all it brought. *)
LEMMA DisconnectKeeps ==
    ASSUME EInv, NEW k \in Kernels, NEW c \in Conns, Disconnect(k, c),
           Sock(k, c) \in Held \cup {"connecting"}, late[k] = <<>>
    PROVE  EInv'
<1>1. /\ SoundInv /\ Types /\ handler \in Handlers /\ opened' = opened /\ late' = late
      /\ handler' = [handler EXCEPT ![k][c].sock = "gone"]
      /\ wire' = [wire EXCEPT ![k][c] = <<>>] /\ readyProcesses_' = Erased(k, c)
      /\ known' = Forgotten(k, c) /\ UNCHANGED kernelVars /\ UNCHANGED localVars
      /\ UNCHANGED trackVars /\ UNCHANGED netVars /\ overlapped' = overlapped
  BY TypesParts DEF Disconnect, EInv, SoundInv
<1>2. /\ handler' \in Handlers /\ SameElsewhere(k, c) /\ Sock(k, c)' = "gone"
      /\ ProcId(k, c)' <=> ProcId(k, c)
  <2>1. "gone" \in Sockets
    BY DEF Sockets, Held
  <2> QED
    BY <1>1, <2>1, SockSet
<1>3. wire' \in Wires /\ \A d \in Conns : ConnInv(d)'
  BY <1>1, <1>2, ShutEnds DEF Held
<1>4. \A l \in Kernels : KnownInv(l)'
  BY <1>1, <1>2, ShutKnown DEF kernelVars, trackVars
<1>5. AgreeInv'
  BY <1>1, <1>2, ShutAgrees DEF localVars, trackVars
<1>6. ASSUME NEW l \in Kernels PROVE LateInv(l)'
  <2>1. CASE l = k
    BY <1>1, <2>1 DEF LateInv
  <2>2. CASE l # k
    <3>1. LateInv(l) /\ late'[l] = late[l] /\ late \in [Kernels -> {<<>>} \cup (Conns \X Messages)]
      BY <1>1, TypesParts DEF SoundInv
    <3>2. \A d \in Conns : Sock(l, d)' = Sock(l, d) /\ (ProcId(l, d)' <=> ProcId(l, d))
      BY <1>2, <2>2 DEF SameElsewhere
    <3> QED
      BY <3>1, <3>2, LateFrame
  <2> QED
    BY <2>1, <2>2
<1>7. Types'
  <2>1. handler' \in [Kernels -> [Conns -> [sock : Sockets, info : BOOLEAN, procId : BOOLEAN]]]
    BY <1>2 DEF Handlers, HandlerStates
  <2>2. readyProcesses_' \in [Kernels -> Conns \cup {0}] /\ known' \in [Kernels -> SUBSET Participants]
    BY <1>1, TakenBack
  <2>3. /\ wire' \in [Kernels -> [Conns -> Seq(Messages)]]
        /\ \A l \in Kernels, d \in Conns : wire'[l][d] \in Seq(Messages)
    BY <1>3 DEF Wires
  <2> QED
    BY <1>1, <2>1, <2>2, <2>3 DEF Types, TypeOK, kernelVars, localVars, trackVars, netVars
<1> QED
  BY <1>3, <1>4, <1>5, <1>6, <1>7 DEF EInv, SoundInv

(* A read that fails or is cancelled disconnects its handler, *)
LEMMA IoEndKeeps ==
    ASSUME EInv, NEW k \in Kernels, NEW c \in Conns, IoError(k, c) \/ IoAborted(k, c)
    PROVE  EInv'
<1>1. Disconnect(k, c) /\ Sock(k, c) \in Held /\ late[k] = <<>>
  BY DEF IoError, IoAborted, CancelledRead, IoIsFree, Open, Sock, Held
<1> QED
  BY <1>1, DisconnectKeeps

(* and so does a connect that fails. *)
LEMMA ConnectFailsKeeps ==
    ASSUME EInv, NEW c \in Conns, ConnectFails(c)
    PROVE  EInv'
<1>1. /\ Disconnect(Initiator, c) /\ Sock(Initiator, c) = "connecting" /\ late[Initiator] = <<>>
      /\ Initiator \in Kernels
  BY TwoKernels DEF ConnectFails, IoIsFree, Sock
<1> QED
  BY <1>1, DisconnectKeeps

(* What is announced is read by a handler that knows the process. *)
LEMMA NewsAreKnown ==
    ASSUME NEW k \in Kernels, NEW c \in Conns, wire \in Wires, InOrder(k, c), Sock(k, c) = "open",
           wire[k][c] # <<>>, Head(wire[k][c]) \in Announcements
    PROVE  ProcId(k, c)
<1>1. PICK n \in Nat, w \in Seq(Messages) : n = HasRead(k, c) /\ w = wire[k][c]
  BY ReadSoFar DEF Wires
<1>2. IsNth(n + 1, Head(w))
  BY <1>1, TailContinues DEF InOrder
<1>3. Head(w) # <<"hello">> /\ Head(w) # <<"ready">>
  BY <1>1, MessageKinds
<1>4. n + 1 # 1 /\ n + 1 # 2
  BY <1>2, <1>3 DEF IsNth
<1>5. n \in 0..2
  BY <1>1, ReadSoFar
<1>6. n = 2
  BY <1>4, <1>5
<1> QED
  BY <1>1, <1>6, ReadSoFar

(* A set of numbers that is not empty has a least one. *)
LEMMA LeastOf ==
    ASSUME NEW S, S \subseteq Nat, S # {}
    PROVE  \E n \in S : \A m \in S : n <= m
<1> DEFINE R == {ss \in Nat \X Nat : ss[1] < ss[2]}
<1>1. IsWellFoundedOn(R, Nat)
  BY NatLessThanWellFounded, Zenon DEF OpToRel
<1> HIDE DEF R
<1>2. PICK n \in S : \A m \in S : ~(<<m, n>> \in R)
  BY <1>1, WFMin
<1>3. ASSUME NEW m \in S PROVE n <= m
  <2> SUFFICES ASSUME ~(n <= m) PROVE FALSE
    OBVIOUS
  <2>1. m \in Nat /\ n \in Nat /\ m < n
    OBVIOUS
  <2>2. <<m, n>> \in R
    BY <2>1 DEF R
  <2> QED
    BY <1>2, <2>2
<1> QED
  BY <1>3

(* The discovery thread shuts a handler; its message may be being handled. *)
LEMMA ShutKeeps ==
    ASSUME EInv, NEW k \in Kernels, NEW e \in Conns, RemoveTrack(k), Shut(k, e),
           UNCHANGED late \/ TakenLate(k, e), Sock(k, e) \in {"connecting", "open", "stuck"}
    PROVE  EInv'
<1>1. /\ SoundInv /\ Types /\ handler \in Handlers /\ opened' = opened /\ wire \in Wires
      /\ UNCHANGED kernelVars /\ UNCHANGED localVars /\ UNCHANGED netVars
      /\ known' = known /\ overlapped' = overlapped
      /\ expiring' = [expiring EXCEPT ![k] = FALSE] /\ track' = [track EXCEPT ![k] = 0]
  BY TypesParts DEF RemoveTrack, EInv, SoundInv
<1>2. /\ detaching' = [detaching EXCEPT ![k] = e]
      /\ \/ UNCHANGED late
         \/ CanRead(k, e) /\ late' = [late EXCEPT ![k] = <<e, Head(wire[k][e])>>]
      /\ handler' = [handler EXCEPT ![k][e].sock = "aborting"]
      /\ wire' = [wire EXCEPT ![k][e] = <<>>]
      /\ readyProcesses_' = Erased(k, e)
  BY DEF Shut, TakenLate
<1>3. /\ handler' \in Handlers /\ SameElsewhere(k, e) /\ Sock(k, e)' = "aborting"
      /\ ProcId(k, e)' <=> ProcId(k, e)
  <2>1. "aborting" \in Sockets
    BY DEF Sockets, Held
  <2> QED
    BY <1>1, <1>2, <2>1, SockSet
<1>4. wire' \in Wires /\ \A d \in Conns : ConnInv(d)'
  BY <1>1, <1>2, <1>3, ShutEnds
<1>5. \A l \in Kernels : KnownInv(l)'
  BY <1>1, <1>2, <1>3, ShutKnown DEF kernelVars
<1>6. AgreeInv'
  BY <1>1, <1>2, <1>3, ShutAgrees DEF localVars, Held
<1>7. /\ late \in [Kernels -> {<<>>} \cup (Conns \X Messages)]
      /\ \A l \in Kernels : LateInv(l)
  BY <1>1, TypesParts DEF SoundInv
<1>8. CanRead(k, e) =>
        /\ Head(wire[k][e]) \in Messages
        /\ Head(wire[k][e]) \in Announcements => ProcId(k, e)
  <2>1. SUFFICES ASSUME CanRead(k, e)
                 PROVE  /\ Head(wire[k][e]) \in Messages
                        /\ Head(wire[k][e]) \in Announcements => ProcId(k, e)
    OBVIOUS
  <2>2. Sock(k, e) = "open" /\ wire[k][e] # <<>>
    BY <2>1 DEF CanRead, Open, Sock
  <2>3. InOrder(k, e) /\ wire[k][e] \in Seq(Messages)
    BY <1>1 DEF SoundInv, ConnInv, Wires
  <2> QED
    BY <1>1, <2>2, <2>3, NewsAreKnown
<1>9. ASSUME NEW l \in Kernels PROVE LateInv(l)'
  <2>1. \A d \in Conns : ~(l = k /\ d = e)
          => Sock(l, d)' = Sock(l, d) /\ (ProcId(l, d)' <=> ProcId(l, d))
    BY <1>3 DEF SameElsewhere
  <2>2. CASE late'[l] = late[l]
    <3>1. \A d \in Conns : Sock(l, d) = "aborting"
            => Sock(l, d)' = "aborting" /\ (ProcId(l, d) => ProcId(l, d)')
      BY <1>3, <2>1
    <3> QED
      BY <1>7, <2>2, <3>1, LateFrame
  <2>3. CASE /\ l = k /\ CanRead(k, e) /\ late' = [late EXCEPT ![k] = <<e, Head(wire[k][e])>>]
    <3>1. PICK m : m = Head(wire[k][e])
      OBVIOUS
    <3>2. late'[l] = <<e, m>>
      BY <1>7, <2>3, <3>1
    <3>3. late'[l][1] = e /\ late'[l][2] = m
      BY <3>2
    <3> QED
      BY <1>3, <1>8, <2>3, <3>1, <3>3 DEF LateInv
  <2> QED
    BY <1>2, <1>7, <2>2, <2>3
<1>10. late' \in [Kernels -> {<<>>} \cup (Conns \X Messages)]
  BY <1>2, <1>7, <1>8
<1>11. Types'
  <2>1. handler' \in [Kernels -> [Conns -> [sock : Sockets, info : BOOLEAN, procId : BOOLEAN]]]
    BY <1>3 DEF Handlers, HandlerStates
  <2>2. readyProcesses_' \in [Kernels -> Conns \cup {0}]
    BY <1>1, <1>2, TakenBack
  <2>3. /\ wire' \in [Kernels -> [Conns -> Seq(Messages)]]
        /\ \A l \in Kernels, d \in Conns : wire'[l][d] \in Seq(Messages)
    BY <1>4 DEF Wires
  <2>4. \A l \in Kernels : late'[l] \in {<<>>} \cup (Conns \X Messages)
    BY <1>10
  <2>5. detaching' \in [Kernels -> Conns \cup {0}]
    BY <1>1, <1>2, TypesParts
  <2> QED
    BY <1>1, <1>2, <1>10, <2>1, <2>2, <2>3, <2>4, <2>5
    DEF Types, TypeOK, kernelVars, localVars, netVars
<1> QED
  BY <1>4, <1>5, <1>6, <1>9, <1>11 DEF EInv, SoundInv

(* The expiry of a track shuts the handler of the process, *)
LEMMA ExpiryKeeps ==
    ASSUME EInv, NEW k \in Kernels, ExpiryRuns(k)
    PROVE  EInv'
<1> DEFINE c == CHOOSE d \in LostHandlers(k) : \A e \in LostHandlers(k) : d <= e
<1>1. CASE UNCHANGED <<detaching, late, handler, wire, readyProcesses_>>
  <2>1. /\ SoundInv /\ Types /\ opened' = opened
        /\ UNCHANGED kernelVars /\ UNCHANGED localVars /\ UNCHANGED netVars
        /\ known' = known /\ overlapped' = overlapped
        /\ expiring' = [expiring EXCEPT ![k] = FALSE] /\ track' = [track EXCEPT ![k] = 0]
    BY DEF ExpiryRuns, RemoveTrack, EInv, SoundInv
  <2>2. expiring' \in [Kernels -> BOOLEAN] /\ track' \in [Kernels -> Nat]
    BY <2>1 DEF Types, TypeOK
  <2>3. Types'
    BY <1>1, <2>1, <2>2 DEF Types, TypeOK, kernelVars, localVars, netVars
  <2> QED
    BY <1>1, <2>1, <2>3, NothingMoves DEF kernelVars, localVars, connVars, stateVars
<1>2. CASE /\ LostHandlers(k) # {} /\ RemoveTrack(k) /\ Shut(k, c)
           /\ UNCHANGED late \/ TakenLate(k, c)
  <2>1. c \in LostHandlers(k)
    <3>1. PICK d \in LostHandlers(k) : \A e \in LostHandlers(k) : d <= e
      <4>1. LostHandlers(k) \subseteq Nat
        BY DEF LostHandlers, Conns
      <4> QED
        BY <1>2, <4>1, LeastOf
    <3> QED
      BY <3>1
  <2>2. PICK e \in Conns : e = c
    BY <2>1 DEF LostHandlers
  <2> HIDE DEF c
  <2>3. Sock(k, e) \in {"connecting", "open", "stuck"}
    BY <2>1, <2>2 DEF LostHandlers, Sock
  <2>4. RemoveTrack(k) /\ Shut(k, e) /\ (UNCHANGED late \/ TakenLate(k, e))
    BY <1>2, <2>2
  <2> QED
    BY <2>3, <2>4, ShutKeeps
<1> QED
  BY <1>1, <1>2 DEF ExpiryRuns

(* or one whose Hello is being handled. *)
LEMMA ExpiryInHelloKeeps ==
    ASSUME EInv, NEW k \in Kernels, NEW c \in Conns, ExpiryMeetsHello(k, c)
    PROVE  EInv'
<1>1. RemoveTrack(k) /\ Shut(k, c) /\ TakenLate(k, c)
  BY DEF ExpiryMeetsHello
<1>2. Sock(k, c) = "open"
  BY <1>1 DEF TakenLate, CanRead, Open, Sock
<1> QED
  BY <1>1, <1>2, ShutKeeps

(* The disconnection that a lost beam asked for is completed by the i/o thread. *)
LEMMA LostBeamKeeps ==
    ASSUME EInv, NEW k \in Kernels, LostBeamDone(k)
    PROVE  EInv'
<1>1. /\ SoundInv /\ Types /\ late' = late /\ readyProcesses_' = readyProcesses_
      /\ UNCHANGED kernelVars /\ UNCHANGED localVars /\ UNCHANGED netVars /\ UNCHANGED connVars
      /\ overlapped' = overlapped /\ track' = track /\ expiring' = expiring
      /\ detaching \in [Kernels -> Conns \cup {0}]
      /\ opened \in Nat /\ opened' \in Nat /\ opened <= opened'
  BY TypesParts DEF LostBeamDone, EInv, SoundInv, connVars
<1>2. PICK e \in Conns : /\ e = detaching[k] /\ detaching' = [detaching EXCEPT ![k] = 0]
                         /\ known' = Forgotten(k, e)
  BY <1>1 DEF LostBeamDone
<1>3. \A l \in Kernels, d \in Conns : SameEnd(l, d)
  BY <1>1 DEF SameEnd, Sock, Info, ProcId, connVars
<1>4. \A d \in Conns : ConnInv(d)'
  BY <1>1, <1>3, ConnFrame DEF SoundInv
<1>5. \A l \in Kernels : l # k => known'[l] = known[l] /\ detaching'[l] = detaching[l]
  BY <1>1, <1>2, TakenBack
<1>6. /\ known'[k] = known[k] \/ (known'[k] = {} /\ ProcId(k, e))
      /\ detaching'[k] = 0
  BY <1>1, <1>2, TakenBack
<1>7. ASSUME NEW l \in Kernels PROVE LateInv(l)' /\ KnownInv(l)'
  <2>1. LateInv(l) /\ KnownInv(l)
    BY <1>1 DEF SoundInv
  <2>2. LateInv(l)'
    BY <1>1, <1>3, <2>1, TypesParts, LateFrame DEF SameEnd
  <2>3. PICK r, d : /\ r = readyProcesses_[l] /\ d = detaching[l]
                    /\ r \in Conns \cup {0} /\ d \in Conns \cup {0}
    BY <1>1, TypesParts
  <2>4. \A x \in Conns : Counts(l, x)' <=> Counts(l, x)
    BY <1>3 DEF Counts, Held, SameEnd
  <2>5. KnownInv(l)'
    <3>1. known'[l] # {} => known[l] # {}
      BY <1>5, <1>6
    <3>2. readyProcesses_'[l] = r /\ up'[l] = up[l] /\ (detaching'[l] = d \/ detaching'[l] = 0)
      BY <1>1, <1>5, <1>6, <2>3 DEF kernelVars
    <3>3. d # 0 => Sock(l, d)' = Sock(l, d)
      BY <1>3, <2>3 DEF SameEnd
    <3>4. \A x \in Conns : Sock(l, x)' = Sock(l, x)
      BY <1>3 DEF SameEnd
    <3> QED
      BY <2>1, <2>3, <2>4, <3>1, <3>2, <3>3, <3>4, KnownFrame
  <2> QED
    BY <2>2, <2>5
<1>8. ASSUME ~overlapped, NEW l \in Kernels
      PROVE  OneLive(l)' /\ \A c \in Conns : WillAgree(l, c)'
  <2>1. OneLive(l) /\ OneLive(k) /\ \A c \in Conns : WillAgree(l, c)
    BY <1>8 DEF EInv, AgreeInv
  <2>2. ASSUME NEW c \in Conns PROVE Live(l, c)' => Live(l, c)
    <3>1. detaching'[l] = c => detaching[l] = c
      BY <1>5, <1>6 DEF Conns
    <3> QED
      BY <1>3, <3>1 DEF Live, Held, SameEnd
  <2>3. OneLive(l)'
    BY <1>1, <1>3, <2>1, <2>2, OneLiveFrame DEF SameEnd
  <2>4. ASSUME NEW c \in Conns PROVE WillAgree(l, c)'
    <3>1. Other(l) \in Kernels
      BY TwoKernels
    <3>2. Sock(l, c) = "open" /\ ProcId(l, c) => known'[l] = known[l]
      <4>1. SUFFICES ASSUME l = k, ProcId(k, e) PROVE ~(Sock(k, c) = "open" /\ ProcId(k, c))
        BY <1>5, <1>6
      <4>2. Sock(k, e) \in {"aborting", "gone"}
        BY <1>1, <1>2 DEF SoundInv, KnownInv, Conns
      <4>3. Live(k, e)
        BY <1>2, <4>1 DEF Live, Held
      <4>4. Sock(k, c) = "open" /\ ProcId(k, c) => Live(k, c)
        BY DEF Live, Held
      <4> QED
        BY <2>1, <4>2, <4>3, <4>4 DEF OneLive
    <3> QED
      BY <1>1, <1>3, <2>1, <3>1, <3>2, WillAgreeFrame DEF SameEnd, localVars
  <2> QED
    BY <2>3, <2>4
<1>9. Types'
  <2>1. detaching' \in [Kernels -> Conns \cup {0}] /\ known' \in [Kernels -> SUBSET Participants]
    BY <1>1, <1>2, TakenBack
  <2> QED
    BY <1>1, <2>1 DEF Types, TypeOK, kernelVars, localVars, netVars, connVars
<1> QED
  BY <1>1, <1>4, <1>7, <1>8, <1>9 DEF EInv, SoundInv, AgreeInv

----------------------------------------------------------------------------
(* The handshake *)

(* An end that is open, but does not know the process yet, moves: nothing is known by it. *)
LEMMA EarlyMoves ==
    ASSUME EInv, NEW k \in Kernels, NEW c \in Conns, SameElsewhere(k, c),
           Sock(k, c) \in {"none", "connecting", "open"}, Sock(k, c)' = "open", up[k] = "up",
           ~ProcId(k, c), ~ProcId(k, c)', Sock(Other(k), c) = "open" => ~ProcId(Other(k), c),
           UNCHANGED <<late, detaching, participants, up>>, UNCHANGED stateVars,
           wire' \in Wires, \A l \in Kernels, d \in Conns : d # c => wire'[l][d] = wire[l][d],
           \A d \in Conns : ConnInv(d)'
    PROVE  /\ \A l \in Kernels : LateInv(l)' /\ KnownInv(l)'
           /\ AgreeInv'
<1>1. Types /\ SoundInv /\ Other(k) \in Kernels /\ Other(k) # k /\ Other(Other(k)) = k
  BY TwoKernels DEF EInv, SoundInv
<1>2. /\ late' = late /\ detaching' = detaching /\ participants' = participants /\ up' = up
      /\ readyProcesses_' = readyProcesses_ /\ known' = known /\ overlapped' = overlapped
  BY DEF stateVars
<1>3. \A l \in Kernels, d \in Conns : ~(l = k /\ d = c) =>
        Sock(l, d)' = Sock(l, d) /\ (ProcId(l, d)' <=> ProcId(l, d))
  BY DEF SameElsewhere
<1>4. \A l \in Kernels, d \in Conns : ProcId(l, d)' <=> ProcId(l, d)
  BY <1>3
<1>5. \A l \in Kernels, d \in Conns : ProcId(l, d) => Sock(l, d)' = Sock(l, d)
  BY <1>3
<1>6. ASSUME NEW l \in Kernels PROVE LateInv(l)' /\ KnownInv(l)'
  <2>1. LateInv(l) /\ KnownInv(l)
    BY <1>1 DEF SoundInv
  <2>2. LateInv(l)'
    <3>1. \A d \in Conns : Sock(l, d) = "aborting"
            => Sock(l, d)' = "aborting" /\ (ProcId(l, d) => ProcId(l, d)')
      BY <1>3
    <3> QED
      BY <1>1, <1>2, <2>1, <3>1, TypesParts, LateFrame
  <2>3. PICK r, d : /\ r = readyProcesses_[l] /\ d = detaching[l]
                    /\ r \in Conns \cup {0} /\ d \in Conns \cup {0}
    BY <1>1, TypesParts
  <2>4. \A x \in Conns : Counts(l, x)' <=> Counts(l, x)
    BY <1>4, <1>5 DEF Counts, Held
  <2>5. readyProcesses_'[l] # 0 => Counts(l, readyProcesses_[l])'
    <3>1. r # 0 => Counts(l, r)
      BY <2>1, <2>3 DEF KnownInv
    <3>2. r # 0 => Counts(l, r)'
      BY <2>3, <2>4, <3>1
    <3> QED
      BY <1>2, <2>3, <3>2
  <2>6. known'[l] # {} => \E x \in Conns : Counts(l, x)'
    BY <1>2, <2>1, <2>4 DEF KnownInv
  <2>7. \A x \in Conns : Sock(l, x)' = "open" => up'[l] = "up"
    BY <1>2, <1>3, <2>1 DEF KnownInv
  <2>8. detaching'[l] # 0 => Sock(l, detaching[l])' \in {"aborting", "gone"}
    <3>1. d # 0 => Sock(l, d) \in {"aborting", "gone"}
      BY <2>1, <2>3 DEF KnownInv
    <3>2. d # 0 => Sock(l, d)' \in {"aborting", "gone"}
      BY <1>3, <2>3, <3>1
    <3> QED
      BY <1>2, <2>3, <3>2
  <2>9. KnownInv(l)'
    BY <2>5, <2>6, <2>7, <2>8 DEF KnownInv
  <2> QED
    BY <2>2, <2>9
<1>7. ASSUME ~overlapped, NEW l \in Kernels
      PROVE  OneLive(l)' /\ \A d \in Conns : WillAgree(l, d)'
  <2>1. OneLive(l) /\ \A d \in Conns : WillAgree(l, d)
    BY <1>7 DEF EInv, AgreeInv
  <2>2. OneLive(l)'
    <3>1. \A d \in Conns : Live(l, d)' => Live(l, d)
      BY <1>2, <1>4, <1>5 DEF Live, Held
    <3> QED
      BY <1>2, <1>4, <1>5, <2>1, <3>1, OneLiveFrame
  <2>3. ASSUME NEW d \in Conns PROVE WillAgree(l, d)'
    <3>1. CASE d # c
      <4>1. Other(l) \in Kernels
        BY TwoKernels
      <4> QED
        BY <1>2, <1>3, <2>1, <3>1, <4>1, WillAgreeFrame
    <3>2. CASE d = c
      <4>1. InOrder(l, c)'
        BY DEF ConnInv
      <4>2. l = k \/ l = Other(k)
        BY TwoKernels
      <4>3. CASE Sock(Other(k), c) = "open"
        <5>1. ~ProcId(l, c)' /\ ~ProcId(Other(l), c)'
          BY <1>1, <1>4, <4>2, <4>3
        <5> QED
          BY <3>2, <4>1, <5>1, EarlyEnds
      <4>4. CASE Sock(Other(k), c) # "open"
        <5>1. Sock(Other(k), c)' # "open"
          BY <1>1, <1>3, <4>4
        <5> QED
          BY <1>1, <3>2, <4>2, <5>1 DEF WillAgree
      <4> QED
        BY <4>3, <4>4
    <3> QED
      BY <3>1, <3>2
  <2> QED
    BY <2>2, <2>3
<1> QED
  BY <1>2, <1>6, <1>7 DEF AgreeInv

(* The initiator's socket is connected. *)
LEMMA ConnectedKeeps ==
    ASSUME EInv, NEW c \in Conns, Connected(c)
    PROVE  EInv'
<1> DEFINE hello == <<<<"hello">>>>
<1>1. /\ SoundInv /\ Types /\ handler \in Handlers /\ wire \in Wires /\ opened \in Nat
      /\ opened' = opened /\ Sock(Initiator, c) = "connecting" /\ up[Initiator] = "up"
      /\ UNCHANGED kernelVars /\ UNCHANGED localVars /\ UNCHANGED trackVars /\ late' = late
      /\ UNCHANGED netVars /\ UNCHANGED stateVars
      /\ handler' = [handler EXCEPT ![Initiator][c].sock = "open"]
      /\ wire' = Sent(wire, Initiator, c, hello)
  BY TypesParts DEF Connected, IoIsFree, EInv, SoundInv, Sock
<1>2. Initiator \in Kernels /\ Acceptor \in Kernels /\ Acceptor # Initiator
      /\ Other(Initiator) = Acceptor /\ \A l \in Kernels : l = Initiator \/ l = Acceptor
  BY TwoKernels DEF Acceptor
<1>3. /\ handler' \in Handlers /\ SameElsewhere(Initiator, c) /\ Sock(Initiator, c)' = "open"
      /\ Info(Initiator, c)' <=> Info(Initiator, c)
      /\ ProcId(Initiator, c)' <=> ProcId(Initiator, c)
  <2>1. "open" \in Sockets
    BY DEF Sockets, Held
  <2> QED
    BY <1>1, <1>2, <2>1, SockSet
<1>4. hello \in Seq(Messages)
  BY MessageKinds, OneMessage
<1> HIDE DEF hello
<1>5. /\ wire' \in Wires /\ wire'[Acceptor][c] = wire[Acceptor][c] \o hello
      /\ \A l \in Kernels, d \in Conns : ~(l = Acceptor /\ d = c) => wire'[l][d] = wire[l][d]
  <2>1. /\ Sent(wire, Initiator, c, hello) \in Wires
        /\ \A l \in Kernels, d \in Conns :
             ~(l = Other(Initiator) /\ d = c)
                => Sent(wire, Initiator, c, hello)[l][d] = wire[l][d]
        /\ Sent(wire, Initiator, c, hello)[Other(Initiator)][c] =
             IF Sock(Initiator, c) \in {"connecting", "open"}
             THEN wire[Other(Initiator)][c] \o hello ELSE wire[Other(Initiator)][c]
    BY <1>1, <1>2, <1>4, SentWhere
  <2>2. Sock(Initiator, c) \in {"connecting", "open"}
    BY <1>1
  <2> QED
    BY <1>1, <1>2, <2>1, <2>2
<1>6. /\ ConnInv(c) /\ ~ProcId(Initiator, c) /\ ~ProcId(Acceptor, c)
  BY <1>1, <1>2 DEF SoundInv, ConnInv, Beginnings
<1>7. ASSUME NEW d \in Conns PROVE ConnInv(d)'
  <2>1. CASE d = c
    <3>1. Sock(Acceptor, c)' = Sock(Acceptor, c)
          /\ \A l \in Kernels : (Info(l, c)' <=> Info(l, c)) /\ (ProcId(l, c)' <=> ProcId(l, c))
      BY <1>2, <1>3 DEF SameElsewhere
    <3>2. wire'[Initiator][c] = wire[Initiator][c]
      BY <1>2, <1>5
    <3>3. wire'[Acceptor][c] = wire[Acceptor][c] \o <<<<"hello">>>>
      BY <1>5 DEF hello
    <3> QED
      BY <1>1, <1>3, <1>6, <2>1, <3>1, <3>2, <3>3, Connects
  <2>2. CASE d # c
    <3>1. \A l \in Kernels : SameEnd(l, d)
      BY <1>3, <1>5, <2>2 DEF SameEnd, SameElsewhere
    <3>2. ConnInv(d) /\ opened' \in Nat /\ opened <= opened'
      BY <1>1 DEF SoundInv
    <3> QED
      BY <1>1, <3>1, <3>2, ConnFrame
  <2> QED
    BY <2>1, <2>2
<1>8. /\ \A l \in Kernels : LateInv(l)' /\ KnownInv(l)'
      /\ AgreeInv'
  BY <1>1, <1>2, <1>3, <1>5, <1>6, <1>7, EarlyMoves DEF kernelVars, localVars, trackVars
<1>9. Types'
  <2>1. handler' \in [Kernels -> [Conns -> [sock : Sockets, info : BOOLEAN, procId : BOOLEAN]]]
    BY <1>3 DEF Handlers, HandlerStates
  <2>2. /\ wire' \in [Kernels -> [Conns -> Seq(Messages)]]
        /\ \A l \in Kernels, d \in Conns : wire'[l][d] \in Seq(Messages)
    BY <1>5 DEF Wires
  <2> QED
    BY <1>1, <2>1, <2>2 DEF Types, TypeOK, kernelVars, localVars, trackVars, netVars, stateVars
<1> QED
  BY <1>7, <1>8, <1>9 DEF EInv, SoundInv

(* The acceptor takes the connection. *)
LEMMA AcceptedKeeps ==
    ASSUME EInv, NEW c \in Conns, Accepted(c)
    PROVE  EInv'
<1>1. /\ SoundInv /\ Types /\ handler \in Handlers /\ wire \in Wires /\ opened \in Nat
      /\ opened' = opened /\ Sock(Acceptor, c) = "none" /\ up[Acceptor] = "up"
      /\ Sock(Initiator, c) \notin {"none", "connecting"} /\ wire[Acceptor][c] # <<>>
      /\ UNCHANGED kernelVars /\ UNCHANGED localVars /\ UNCHANGED trackVars /\ late' = late
      /\ UNCHANGED netVars /\ UNCHANGED stateVars
      /\ handler' = [handler EXCEPT ![Acceptor][c].sock = "open"]
      /\ wire' = IF Sock(Initiator, c) = "open"
                 THEN [wire EXCEPT ![Initiator][c] = Append(@, <<"hello">>)]
                 ELSE wire
  BY TypesParts DEF Accepted, IoIsFree, EInv, SoundInv, Sock, Open
<1>2. Initiator \in Kernels /\ Acceptor \in Kernels /\ Acceptor # Initiator
      /\ Other(Acceptor) = Initiator /\ \A l \in Kernels : l = Initiator \/ l = Acceptor
  BY TwoKernels DEF Acceptor
<1>3. /\ handler' \in Handlers /\ SameElsewhere(Acceptor, c) /\ Sock(Acceptor, c)' = "open"
      /\ Info(Acceptor, c)' <=> Info(Acceptor, c)
      /\ ProcId(Acceptor, c)' <=> ProcId(Acceptor, c)
  <2>1. "open" \in Sockets
    BY DEF Sockets, Held
  <2> QED
    BY <1>1, <1>2, <2>1, SockSet
<1>4. /\ wire' \in Wires
      /\ Sock(Initiator, c) = "open"
           => wire'[Initiator][c] = Append(wire[Initiator][c], <<"hello">>)
      /\ \A l \in Kernels, d \in Conns : ~(l = Initiator /\ d = c) => wire'[l][d] = wire[l][d]
  <2>1. CASE Sock(Initiator, c) = "open"
    <3>1. PICK m \in Messages : m = <<"hello">>
      BY MessageKinds
    <3>2. PICK x : x = Append(wire[Initiator][c], m)
      OBVIOUS
    <3>3. x \in Seq(Messages)
      BY <1>1, <1>2, <3>2 DEF Wires
    <3>4. wire' = [wire EXCEPT ![Initiator][c] = x]
      BY <1>1, <2>1, <3>1, <3>2
    <3>5. /\ wire' \in Wires /\ wire'[Initiator][c] = x
          /\ \A l \in Kernels, d \in Conns : ~(l = Initiator /\ d = c) => wire'[l][d] = wire[l][d]
      <4>1. wire \in Wires
        BY <1>1
      <4> QED
        BY <1>2, <3>3, <3>4, <4>1 DEF Wires
    <3> QED
      BY <3>1, <3>2, <3>5
  <2>2. CASE Sock(Initiator, c) # "open"
    BY <1>1, <2>2
  <2> QED
    BY <2>1, <2>2
<1>5. ConnInv(c) /\ ~ProcId(Acceptor, c) /\ (Sock(Initiator, c) = "open" => ~ProcId(Initiator, c))
  BY <1>1, <1>2 DEF SoundInv, ConnInv, Beginnings
<1>6. ASSUME NEW d \in Conns PROVE ConnInv(d)'
  <2>1. CASE d = c
    <3>1. Sock(Initiator, c)' = Sock(Initiator, c)
          /\ \A l \in Kernels : (Info(l, c)' <=> Info(l, c)) /\ (ProcId(l, c)' <=> ProcId(l, c))
      BY <1>2, <1>3 DEF SameElsewhere
    <3>2. wire'[Acceptor][c] = wire[Acceptor][c]
      BY <1>2, <1>4
    <3> QED
      BY <1>1, <1>3, <1>4, <1>5, <2>1, <3>1, <3>2, Accepts
  <2>2. CASE d # c
    <3>1. \A l \in Kernels : SameEnd(l, d)
      BY <1>3, <1>4, <2>2 DEF SameEnd, SameElsewhere
    <3>2. ConnInv(d) /\ opened' \in Nat /\ opened <= opened'
      BY <1>1 DEF SoundInv
    <3> QED
      BY <1>1, <3>1, <3>2, ConnFrame
  <2> QED
    BY <2>1, <2>2
<1>7. /\ \A l \in Kernels : LateInv(l)' /\ KnownInv(l)'
      /\ AgreeInv'
  BY <1>1, <1>2, <1>3, <1>4, <1>5, <1>6, EarlyMoves, ZenonT(60)
     DEF kernelVars, localVars, trackVars
<1>8. Types'
  <2>1. handler' \in [Kernels -> [Conns -> [sock : Sockets, info : BOOLEAN, procId : BOOLEAN]]]
    BY <1>3 DEF Handlers, HandlerStates
  <2>2. /\ wire' \in [Kernels -> [Conns -> Seq(Messages)]]
        /\ \A l \in Kernels, d \in Conns : wire'[l][d] \in Seq(Messages)
    BY <1>4 DEF Wires
  <2> QED
    BY <1>1, <2>1, <2>2 DEF Types, TypeOK, kernelVars, localVars, trackVars, netVars, stateVars
<1> QED
  BY <1>6, <1>7, <1>8 DEF EInv, SoundInv

----------------------------------------------------------------------------
(* A message is read, or handled late *)

(* What the i/o thread leaves alone when it handles a message. *)
VisitLeaves ==
    /\ UNCHANGED kernelVars /\ UNCHANGED localVars /\ UNCHANGED trackVars /\ opened' = opened
    /\ UNCHANGED netVars

(* A message that is handled late is done, the others stay. *)
LateGoes ==
    /\ late' \in [Kernels -> {<<>>} \cup (Conns \X Messages)]
    /\ \A l \in Kernels : late'[l] = late[l] \/ late'[l] = <<>>

(* The wires, when a message is taken from one of them. *)
Rest(k, c) == [wire EXCEPT ![k][c] = Tail(@)]

(* Taking the first message off a wire leaves the others as they are. *)
LEMMA TakenFrom ==
    ASSUME NEW k \in Kernels, NEW c \in Conns, wire \in Wires, wire[k][c] # <<>>
    PROVE  /\ Rest(k, c) \in Wires /\ Rest(k, c)[k][c] = Tail(wire[k][c])
           /\ Head(wire[k][c]) \in Messages
           /\ \A l \in Kernels, d \in Conns : ~(l = k /\ d = c) => Rest(k, c)[l][d] = wire[l][d]
<1>1. PICK w \in Seq(Messages) : w = wire[k][c] /\ w # <<>>
  BY DEF Wires
<1>2. PICK t : t = Tail(w)
  OBVIOUS
<1>3. t \in Seq(Messages) /\ Head(w) \in Messages
  BY <1>1, <1>2
<1>4. Rest(k, c) = [wire EXCEPT ![k][c] = t]
  BY <1>1, <1>2 DEF Rest, Wires
<1>5. /\ Rest(k, c) \in Wires /\ Rest(k, c)[k][c] = t
      /\ \A l \in Kernels, d \in Conns : ~(l = k /\ d = c) => Rest(k, c)[l][d] = wire[l][d]
  <2>1. wire \in Wires
    OBVIOUS
  <2> QED
    BY <1>3, <1>4, <2>1 DEF Wires
<1> QED
  BY <1>1, <1>2, <1>3, <1>5

(* A Hello of another protocol version ends the connection. *)
LEMMA RefusalKeeps ==
    ASSUME EInv, NEW k \in Kernels, NEW c \in Conns, VisitLeaves, LateGoes,
           Sock(k, c) \in Held,
           handler' = [handler EXCEPT ![k][c].sock = "aborting"],
           wire' = [wire EXCEPT ![k][c] = <<>>],
           readyProcesses_' = Erased(k, c), known' = Forgotten(k, c), overlapped' = overlapped
    PROVE  EInv'
<1>1. /\ SoundInv /\ Types /\ handler \in Handlers
  BY TypesParts DEF EInv, SoundInv
<1>2. /\ handler' \in Handlers /\ SameElsewhere(k, c) /\ Sock(k, c)' = "aborting"
      /\ ProcId(k, c)' <=> ProcId(k, c)
  <2>1. "aborting" \in Sockets
    BY DEF Sockets, Held
  <2> QED
    BY <1>1, <2>1, SockSet
<1>3. wire' \in Wires /\ \A d \in Conns : ConnInv(d)'
  BY <1>1, <1>2, ShutEnds DEF VisitLeaves, Held
<1>4. \A l \in Kernels : KnownInv(l)'
  BY <1>1, <1>2, ShutKnown DEF VisitLeaves, kernelVars, trackVars
<1>5. AgreeInv'
  BY <1>1, <1>2, ShutAgrees DEF VisitLeaves, localVars, trackVars
<1>6. ASSUME NEW l \in Kernels PROVE LateInv(l)'
  <2>1. LateInv(l) /\ (late'[l] = late[l] \/ late'[l] = <<>>)
    BY <1>1 DEF SoundInv, LateGoes
  <2>2. \A d \in Conns : Sock(l, d) = "aborting"
          => Sock(l, d)' = "aborting" /\ (ProcId(l, d) => ProcId(l, d)')
    BY <1>2 DEF SameElsewhere
  <2> QED
    BY <1>1, <2>1, <2>2, LateGoesWell
<1>7. Types'
  <2>1. handler' \in [Kernels -> [Conns -> [sock : Sockets, info : BOOLEAN, procId : BOOLEAN]]]
    BY <1>2 DEF Handlers, HandlerStates
  <2>2. readyProcesses_' \in [Kernels -> Conns \cup {0}] /\ known' \in [Kernels -> SUBSET Participants]
    BY <1>1, TakenBack
  <2>3. /\ wire' \in [Kernels -> [Conns -> Seq(Messages)]]
        /\ \A l \in Kernels, d \in Conns : wire'[l][d] \in Seq(Messages)
    BY <1>3 DEF Wires
  <2>4. \A l \in Kernels : late'[l] \in {<<>>} \cup (Conns \X Messages)
    BY DEF LateGoes
  <2> QED
    BY <1>1, <2>1, <2>2, <2>3, <2>4
    DEF Types, TypeOK, VisitLeaves, LateGoes, kernelVars, localVars, trackVars, netVars
<1> QED
  BY <1>3, <1>4, <1>5, <1>6, <1>7 DEF EInv, SoundInv

(* A Hello is read. *)
LEMMA ReadHelloKeeps ==
    ASSUME EInv, NEW k \in Kernels, NEW c \in Conns, CanRead(k, c),
           Head(wire[k][c]) = <<"hello">>, Hello(k, c, Rest(k, c)), VisitLeaves, late' = late
    PROVE  EInv'
<1> DEFINE ready == <<<<"ready">>>>
<1>1. /\ SoundInv /\ Types /\ handler \in Handlers /\ wire \in Wires /\ opened \in Nat
      /\ Sock(k, c) = "open" /\ up[k] = "up" /\ wire[k][c] # <<>>
  BY TypesParts DEF CanRead, Open, IoIsFree, EInv, SoundInv, Sock
<1>2. /\ Rest(k, c) \in Wires /\ Rest(k, c)[k][c] = Tail(wire[k][c])
      /\ \A l \in Kernels, d \in Conns : ~(l = k /\ d = c) => Rest(k, c)[l][d] = wire[l][d]
  BY <1>1, TakenFrom
<1>3. CASE ~compatible
  <2>1. /\ handler' = [handler EXCEPT ![k][c].sock = "aborting"]
        /\ wire' = [Rest(k, c) EXCEPT ![k][c] = <<>>]
        /\ readyProcesses_' = Erased(k, c) /\ known' = Forgotten(k, c) /\ overlapped' = overlapped
    BY <1>3 DEF Hello
  <2>2. wire' = [wire EXCEPT ![k][c] = <<>>]
    <3>1. PICK w : w = [wire EXCEPT ![k][c] = <<>>]
      OBVIOUS
    <3>2. /\ w \in Wires /\ w[k][c] = <<>>
          /\ \A l \in Kernels, d \in Conns : ~(l = k /\ d = c) => w[l][d] = wire[l][d]
      BY <1>1, <3>1 DEF Wires
    <3>3. /\ wire' \in Wires /\ wire'[k][c] = <<>>
          /\ \A l \in Kernels, d \in Conns : ~(l = k /\ d = c) => wire'[l][d] = wire[l][d]
      BY <1>2, <2>1 DEF Wires
    <3>4. \A l \in Kernels, d \in Conns : w[l][d] = wire'[l][d]
      BY <3>2, <3>3
    <3>5. w = wire'
      BY <3>2, <3>3, <3>4 DEF Wires
    <3> QED
      BY <3>1, <3>5
  <2>3. LateGoes
    BY <1>1, TypesParts DEF LateGoes
  <2> QED
    BY <1>1, <2>1, <2>2, <2>3, RefusalKeeps DEF Held
<1>4. CASE compatible
  <2>1. /\ handler' = [handler EXCEPT ![k][c].info = TRUE]
        /\ wire' = Sent(Rest(k, c), k, c, ready) /\ UNCHANGED stateVars
    BY <1>4 DEF Hello
  <2>2. /\ handler' \in Handlers /\ SameElsewhere(k, c) /\ Sock(k, c)' = "open"
        /\ Info(k, c)' /\ (ProcId(k, c)' <=> ProcId(k, c))
    BY <1>1, <2>1, InfoSet
  <2>3. ready \in Seq(Messages)
    BY MessageKinds, OneMessage
  <2> HIDE DEF ready
  <2>4. PICK o \in Kernels : o = Other(k) /\ o # k /\ Other(o) = k
    BY TwoKernels
  <2>5. /\ wire' \in Wires /\ wire'[o][c] = wire[o][c] \o ready /\ wire'[k][c] = Tail(wire[k][c])
        /\ \A l \in Kernels, d \in Conns : d # c => wire'[l][d] = wire[l][d]
    <3>1. /\ Sent(Rest(k, c), k, c, ready) \in Wires
          /\ \A l \in Kernels, d \in Conns :
               ~(l = Other(k) /\ d = c) => Sent(Rest(k, c), k, c, ready)[l][d] = Rest(k, c)[l][d]
          /\ Sent(Rest(k, c), k, c, ready)[Other(k)][c] =
               IF Sock(k, c) \in {"connecting", "open"}
               THEN Rest(k, c)[Other(k)][c] \o ready ELSE Rest(k, c)[Other(k)][c]
      BY <1>2, <2>3, SentWhere
    <3>2. Sock(k, c) \in {"connecting", "open"}
      BY <1>1
    <3>3. Rest(k, c)[o][c] = wire[o][c]
      BY <1>2, <2>4
    <3>4. wire'[o][c] = wire[o][c] \o ready
      BY <2>1, <2>4, <3>1, <3>2, <3>3
    <3>5. \A l \in Kernels, d \in Conns : ~(l = o /\ d = c) => wire'[l][d] = Rest(k, c)[l][d]
      BY <2>1, <2>4, <3>1
    <3>6. Rest(k, c)[k][c] = Tail(wire[k][c])
      BY <1>2
    <3>7. \A l \in Kernels, d \in Conns : d # c => Rest(k, c)[l][d] = wire[l][d]
      BY <1>2
    <3>8. wire'[k][c] = Tail(wire[k][c])
      BY <2>4, <3>5, <3>6
    <3>9. \A l \in Kernels, d \in Conns : d # c => wire'[l][d] = wire[l][d]
      BY <3>5, <3>7
    <3> QED
      BY <2>1, <3>1, <3>4, <3>8, <3>9
  <2>6. ConnInv(c)
    BY <1>1 DEF SoundInv
  <2>7. /\ ConnInv(c)' /\ ~ProcId(k, c)
        /\ Sock(o, c) = "open" => ~ProcId(o, c)
    <3>1. /\ Sock(o, c)' = Sock(o, c) /\ (Info(o, c)' <=> Info(o, c))
          /\ ProcId(o, c)' <=> ProcId(o, c)
      BY <2>2, <2>4 DEF SameElsewhere
    <3>2. wire'[o][c] = wire[o][c] \o <<<<"ready">>>> /\ opened' = opened
      BY <2>5 DEF ready, VisitLeaves
    <3> QED
      BY <1>1, <2>2, <2>4, <2>5, <2>6, <3>1, <3>2, ReadsHello
  <2>8. ASSUME NEW d \in Conns PROVE ConnInv(d)'
    <3>1. CASE d = c
      BY <2>7, <3>1
    <3>2. CASE d # c
      <4>1. \A l \in Kernels : SameEnd(l, d)
        BY <2>2, <2>5, <3>2 DEF SameEnd, SameElsewhere
      <4>2. ConnInv(d) /\ opened' \in Nat /\ opened <= opened'
        BY <1>1 DEF SoundInv, VisitLeaves
      <4> QED
        BY <1>1, <4>1, <4>2, ConnFrame
    <3> QED
      BY <3>1, <3>2
  <2>9. /\ \A l \in Kernels : LateInv(l)' /\ KnownInv(l)'
        /\ AgreeInv'
    <3>1. UNCHANGED <<late, detaching, participants, up>>
      BY DEF VisitLeaves, kernelVars, localVars, trackVars
    <3> QED
      BY <1>1, <2>1, <2>2, <2>4, <2>5, <2>7, <2>8, <3>1, EarlyMoves
  <2>10. Types'
    <3>1. handler' \in [Kernels -> [Conns -> [sock : Sockets, info : BOOLEAN, procId : BOOLEAN]]]
      BY <2>2 DEF Handlers, HandlerStates
    <3>2. /\ wire' \in [Kernels -> [Conns -> Seq(Messages)]]
          /\ \A l \in Kernels, d \in Conns : wire'[l][d] \in Seq(Messages)
      BY <2>5 DEF Wires
    <3> QED
      BY <1>1, <2>1, <3>1, <3>2
      DEF Types, TypeOK, VisitLeaves, kernelVars, localVars, trackVars, netVars, stateVars
  <2> QED
    BY <2>8, <2>9, <2>10 DEF EInv, SoundInv
<1>5. compatible \/ ~compatible
  OBVIOUS
<1> QED
  BY <1>3, <1>4, <1>5

----------------------------------------------------------------------------
(* What the messages on a wire will say of a participant *)

(* when the first of them is taken, *)
LEMMA TailNews ==
    ASSUME NEW w \in Seq(Messages), w # <<>>, NEW t, t = Tail(w), NEW p
    PROVE  /\ Mute(w, p) <=> /\ Mute(t, p)
                             /\ Head(w) \notin {About("joined", p), About("left", p)}
           /\ JoinsLast(w, p) <=> \/ JoinsLast(t, p)
                                  \/ Head(w) = About("joined", p) /\ Mute(t, p)
<1>1. /\ t \in Seq(Messages) /\ Len(t) = Len(w) - 1 /\ Len(w) > 0
      /\ \A j \in 1..(Len(w) - 1) : t[j] = w[j + 1]
      /\ Head(w) = w[1]
  OBVIOUS
<1>2. PICK l \in Nat : Len(t) = l /\ Len(w) = l + 1
  <2>1. Len(t) \in Nat /\ Len(w) \in Nat
    BY <1>1
  <2>2. Len(w) = Len(t) + 1
    BY <1>1, <2>1
  <2> QED
    BY <2>1, <2>2
<1>3. \A j \in 1..l : t[j] = w[j + 1]
  BY <1>1, <1>2
<1>4. ASSUME NEW i \in 0..l PROVE Final(t, i, p) <=> Final(w, i + 1, p)
  <2>1. ASSUME Final(w, i + 1, p), NEW j \in (i + 1)..l
        PROVE  t[j] \notin {About("joined", p), About("left", p)}
    <3>1. j + 1 \in ((i + 1) + 1)..(l + 1) /\ j \in 1..l
      OBVIOUS
    <3>2. w[j + 1] \notin {About("joined", p), About("left", p)}
      BY <1>2, <2>1, <3>1 DEF Final
    <3> QED
      BY <1>3, <3>1, <3>2
  <2>2. ASSUME Final(t, i, p), NEW j \in ((i + 1) + 1)..(l + 1)
        PROVE  w[j] \notin {About("joined", p), About("left", p)}
    <3>1. j - 1 \in (i + 1)..l /\ j - 1 \in 1..l /\ (j - 1) + 1 = j
      OBVIOUS
    <3>2. t[j - 1] \notin {About("joined", p), About("left", p)}
      BY <1>2, <2>2, <3>1 DEF Final
    <3>3. t[j - 1] = w[(j - 1) + 1]
      BY <1>3, <3>1
    <3> QED
      BY <3>1, <3>2, <3>3
  <2> QED
    BY <1>2, <2>1, <2>2 DEF Final
<1>5. Mute(w, p) <=> /\ Mute(t, p)
                     /\ Head(w) \notin {About("joined", p), About("left", p)}
  <2>1. Final(t, 0, p) <=> Final(w, 1, p)
    BY <1>4
  <2>2. \A j \in 1..(l + 1) : j = 1 \/ j \in 2..(l + 1)
    OBVIOUS
  <2>3. 1 \in 1..(l + 1) /\ \A j \in 2..(l + 1) : j \in 1..(l + 1)
    OBVIOUS
  <2>4. Final(w, 0, p) <=> /\ Final(w, 1, p)
                           /\ w[1] \notin {About("joined", p), About("left", p)}
    BY <1>2, <2>2, <2>3 DEF Final
  <2> QED
    BY <1>1, <2>1, <2>4 DEF Mute
<1>6. ASSUME JoinsLast(t, p) PROVE JoinsLast(w, p)
  <2>1. PICK i \in 1..l : t[i] = About("joined", p) /\ Final(t, i, p)
    BY <1>2, <1>6 DEF JoinsLast
  <2>2. i + 1 \in 1..(l + 1) /\ i \in 0..l
    OBVIOUS
  <2>3. w[i + 1] = t[i] /\ (Final(w, i + 1, p) <=> Final(t, i, p))
    BY <1>3, <1>4, <2>2
  <2>4. w[i + 1] = About("joined", p) /\ Final(w, i + 1, p)
    BY <2>1, <2>3, Zenon
  <2> QED
    BY <1>2, <2>2, <2>4 DEF JoinsLast
<1>7. ASSUME Head(w) = About("joined", p), Mute(t, p) PROVE JoinsLast(w, p)
  <2>1. Final(w, 1, p)
    BY <1>4, <1>7 DEF Mute
  <2>2. 1 \in 1..(l + 1)
    OBVIOUS
  <2> QED
    BY <1>1, <1>2, <1>7, <2>1, <2>2 DEF JoinsLast
<1>8. ASSUME JoinsLast(w, p)
      PROVE  JoinsLast(t, p) \/ (Head(w) = About("joined", p) /\ Mute(t, p))
  <2>1. PICK i \in 1..(l + 1) : w[i] = About("joined", p) /\ Final(w, i, p)
    BY <1>2, <1>8 DEF JoinsLast
  <2>2. CASE i = 1
    BY <1>1, <1>4, <2>1, <2>2 DEF Mute
  <2>3. CASE i # 1
    <3>1. i - 1 \in 1..l /\ (i - 1) + 1 = i
      BY <2>3
    <3>2. PICK x \in 1..l : x = i - 1 /\ x + 1 = i /\ x \in 0..l
      BY <3>1
    <3>3. t[x] = w[i] /\ (Final(t, x, p) <=> Final(w, i, p))
      BY <1>3, <1>4, <3>2
    <3>4. t[x] = About("joined", p) /\ Final(t, x, p)
      BY <2>1, <3>3, Zenon
    <3> QED
      BY <1>2, <3>4 DEF JoinsLast
  <2> QED
    BY <2>2, <2>3
<1> QED
  BY <1>5, <1>6, <1>7, <1>8

(* and when others are put behind them. *)
LEMMA ConcatNews ==
    ASSUME NEW w \in Seq(Messages), NEW m \in Seq(Messages), NEW e, e = w \o m, NEW p
    PROVE  /\ Mute(e, p) <=> Mute(w, p) /\ Mute(m, p)
           /\ JoinsLast(e, p) <=> \/ JoinsLast(m, p)
                                  \/ JoinsLast(w, p) /\ Mute(m, p)
<1>1. /\ e \in Seq(Messages) /\ Len(e) = Len(w) + Len(m)
      /\ \A j \in 1..Len(w) : e[j] = w[j]
      /\ \A j \in 1..Len(m) : e[Len(w) + j] = m[j]
  OBVIOUS
<1>2. PICK lw \in Nat, lm \in Nat : lw = Len(w) /\ lm = Len(m) /\ Len(e) = lw + lm
  BY <1>1
<1>3. \A j \in 1..lm : e[lw + j] = m[j]
  BY <1>1, <1>2
<1>4. ASSUME NEW i \in 0..lm PROVE Final(e, lw + i, p) <=> Final(m, i, p)
  <2>1. ASSUME Final(e, lw + i, p), NEW j \in (i + 1)..lm
        PROVE  m[j] \notin {About("joined", p), About("left", p)}
    <3>1. lw + j \in ((lw + i) + 1)..(lw + lm) /\ j \in 1..lm
      OBVIOUS
    <3>2. e[lw + j] \notin {About("joined", p), About("left", p)}
      BY <1>2, <2>1, <3>1 DEF Final
    <3> QED
      BY <1>3, <3>1, <3>2
  <2>2. ASSUME Final(m, i, p), NEW j \in ((lw + i) + 1)..(lw + lm)
        PROVE  e[j] \notin {About("joined", p), About("left", p)}
    <3>1. j - lw \in (i + 1)..lm /\ j - lw \in 1..lm /\ lw + (j - lw) = j
      OBVIOUS
    <3>2. m[j - lw] \notin {About("joined", p), About("left", p)}
      BY <1>2, <2>2, <3>1 DEF Final
    <3>3. e[lw + (j - lw)] = m[j - lw]
      BY <1>3, <3>1
    <3> QED
      BY <3>1, <3>2, <3>3
  <2> QED
    BY <1>2, <2>1, <2>2 DEF Final
<1>5. ASSUME NEW i \in 0..lw PROVE Final(e, i, p) <=> Final(w, i, p) /\ Mute(m, p)
  <2>1. Final(e, lw, p) <=> Mute(m, p)
    <3>1. Final(e, lw + 0, p) <=> Final(m, 0, p)
      BY <1>4
    <3>2. lw + 0 = lw
      OBVIOUS
    <3> QED
      BY <3>1, <3>2 DEF Mute
  <2>2. \A j \in (i + 1)..(lw + lm) : j \in (i + 1)..lw \/ j \in (lw + 1)..(lw + lm)
    OBVIOUS
  <2>3. /\ \A j \in (i + 1)..lw : j \in (i + 1)..(lw + lm) /\ j \in 1..lw
        /\ \A j \in (lw + 1)..(lw + lm) : j \in (i + 1)..(lw + lm)
    OBVIOUS
  <2>4. \A j \in (i + 1)..lw : e[j] = w[j]
    BY <1>1, <1>2, <2>3
  <2>5. Final(e, i, p) <=> /\ \A j \in (i + 1)..lw : e[j] \notin {About("joined", p), About("left", p)}
                           /\ Final(e, lw, p)
    BY <1>2, <2>2, <2>3 DEF Final
  <2>6. Final(w, i, p) <=> \A j \in (i + 1)..lw : e[j] \notin {About("joined", p), About("left", p)}
    BY <1>2, <2>4 DEF Final
  <2> QED
    BY <2>1, <2>5, <2>6
<1>6. Mute(e, p) <=> Mute(w, p) /\ Mute(m, p)
  BY <1>5 DEF Mute
<1>7. ASSUME JoinsLast(m, p) PROVE JoinsLast(e, p)
  <2>1. PICK i \in 1..lm : m[i] = About("joined", p) /\ Final(m, i, p)
    BY <1>2, <1>7 DEF JoinsLast
  <2>2. lw + i \in 1..(lw + lm) /\ i \in 0..lm
    OBVIOUS
  <2>3. e[lw + i] = m[i] /\ (Final(e, lw + i, p) <=> Final(m, i, p))
    BY <1>3, <1>4, <2>2
  <2>4. e[lw + i] = About("joined", p) /\ Final(e, lw + i, p)
    BY <2>1, <2>3, Zenon
  <2> QED
    BY <1>2, <2>2, <2>4 DEF JoinsLast
<1>8. ASSUME JoinsLast(w, p), Mute(m, p) PROVE JoinsLast(e, p)
  <2>1. PICK i \in 1..lw : w[i] = About("joined", p) /\ Final(w, i, p)
    BY <1>2, <1>8 DEF JoinsLast
  <2>2. i \in 1..(lw + lm) /\ i \in 0..lw
    OBVIOUS
  <2>3. e[i] = About("joined", p) /\ Final(e, i, p)
    BY <1>1, <1>2, <1>5, <1>8, <2>1, <2>2
  <2> QED
    BY <1>2, <2>2, <2>3 DEF JoinsLast
<1>9. ASSUME JoinsLast(e, p) PROVE JoinsLast(m, p) \/ (JoinsLast(w, p) /\ Mute(m, p))
  <2>1. PICK i \in 1..(lw + lm) : e[i] = About("joined", p) /\ Final(e, i, p)
    BY <1>2, <1>9 DEF JoinsLast
  <2>2. CASE i <= lw
    <3>1. i \in 1..lw /\ i \in 0..lw
      BY <2>2
    <3>2. w[i] = About("joined", p) /\ Final(w, i, p) /\ Mute(m, p)
      BY <1>1, <1>2, <1>5, <2>1, <3>1
    <3> QED
      BY <1>2, <3>1, <3>2 DEF JoinsLast
  <2>3. CASE i > lw
    <3>1. i - lw \in 1..lm /\ i - lw \in 0..lm /\ lw + (i - lw) = i
      BY <2>3
    <3>2. e[lw + (i - lw)] = m[i - lw] /\ (Final(e, lw + (i - lw), p) <=> Final(m, i - lw, p))
      BY <1>3, <1>4, <3>1
    <3>3. m[i - lw] = About("joined", p) /\ Final(m, i - lw, p)
      BY <2>1, <3>1, <3>2
    <3> QED
      BY <1>2, <3>1, <3>3 DEF JoinsLast
  <2>4. i <= lw \/ i > lw
    OBVIOUS
  <2> QED
    BY <2>2, <2>3, <2>4
<1> QED
  BY <1>6, <1>7, <1>8, <1>9

(* One announcement. *)
LEMMA OneNews ==
    ASSUME NEW m, NEW p
    PROVE  /\ Mute(<<m>>, p) <=> m \notin {About("joined", p), About("left", p)}
           /\ JoinsLast(<<m>>, p) <=> m = About("joined", p)
<1>1. Len(<<m>>) = 1 /\ <<m>>[1] = m
  OBVIOUS
<1>2. PICK w : w = <<m>>
  OBVIOUS
<1>3. Len(w) = 1 /\ w[1] = m
  BY <1>1, <1>2
<1>4. 1..1 = {1} /\ (0 + 1)..1 = {1} /\ (1 + 1)..1 = {}
  OBVIOUS
<1>5. Mute(w, p) <=> m \notin {About("joined", p), About("left", p)}
  BY <1>3, <1>4 DEF Mute, Final
<1>6. Final(w, 1, p)
  BY <1>3, <1>4 DEF Final
<1>7. JoinsLast(w, p) <=> m = About("joined", p)
  BY <1>3, <1>4, <1>6 DEF JoinsLast
<1> QED
  BY <1>2, <1>5, <1>7

(* The participants of a kernel are announced, each of them once. *)
LEMMA AnnouncedOnce ==
    ASSUME NEW ps, IsFiniteSet(ps), ps \subseteq Participants, NEW m \in Announcing("joined", ps)
    PROVE  /\ m \in Seq(Announcements)
           /\ \A p \in Participants : /\ JoinsLast(m, p) <=> p \in ps
                                      /\ Mute(m, p) <=> p \notin ps
<1> DEFINE n == Cardinality(ps)
           T == {About("joined", p) : p \in ps}
           f == [p \in ps |-> About("joined", p)]
<1>1. n \in Nat /\ Cardinality(1..n) = n /\ IsFiniteSet(1..n)
  BY FS_CardinalityType, FS_Interval
<1>2. m \in [1..n -> T] /\ \A i, j \in 1..n : i # j => m[i] # m[j]
  BY DEF Announcing
<1>3. f \in Surjection(ps, T)
  BY DEF Surjection
<1>4. f \in Injection(ps, T)
  BY DEF Injection, IsInjective, About
<1> HIDE DEF f
<1>5. IsFiniteSet(T) /\ Cardinality(T) = n
  BY <1>3, <1>4, FS_Surjection
<1>6. m \in Injection(1..n, T)
  BY <1>2 DEF Injection, IsInjective
<1>7. m \in Surjection(1..n, T)
  BY <1>1, <1>5, <1>6, FS_Injection
<1>8. \A x \in T : \E i \in 1..n : m[i] = x
  BY <1>7 DEF Surjection
<1>9. T \subseteq Announcements
  BY MessageKinds
<1>10. /\ \A p : About("joined", p) \in T <=> p \in ps
       /\ \A p : About("left", p) \notin T
  BY DEF About
<1> HIDE DEF T, n
<1>11. Len(m) = n /\ m \in Seq(Announcements)
  BY <1>1, <1>2, <1>9
<1>12. ASSUME NEW p \in Participants, p \in ps PROVE JoinsLast(m, p) /\ ~Mute(m, p)
  <2>1. PICK i \in 1..n : m[i] = About("joined", p)
    BY <1>8, <1>10, <1>12
  <2>2. ASSUME NEW j \in (i + 1)..n PROVE m[j] \notin {About("joined", p), About("left", p)}
    <3>1. j \in 1..n /\ j # i
      BY <1>1
    <3>2. m[j] # m[i] /\ m[j] \in T
      BY <1>2, <3>1
    <3> QED
      BY <1>10, <2>1, <3>2
  <2>3. Final(m, i, p)
    BY <1>11, <2>2 DEF Final
  <2>4. i \in (0 + 1)..n
    BY <1>1
  <2> QED
    BY <1>11, <2>1, <2>3, <2>4 DEF JoinsLast, Mute, Final
<1>13. ASSUME NEW p \in Participants, p \notin ps PROVE ~JoinsLast(m, p) /\ Mute(m, p)
  <2>1. \A j \in 1..n : m[j] \notin {About("joined", p), About("left", p)}
    BY <1>2, <1>10, <1>13
  <2>2. (0 + 1)..n = 1..n
    OBVIOUS
  <2> QED
    BY <1>11, <2>1, <2>2 DEF JoinsLast, Mute, Final
<1> QED
  BY <1>11, <1>12, <1>13

(* What is not an announcement says nothing. *)
LEMMA NoNewsIsMute ==
    ASSUME NEW w \in Seq(Messages), \A j \in 1..Len(w) : w[j] \notin Announcements,
           NEW p \in Participants
    PROVE  Mute(w, p) /\ ~JoinsLast(w, p)
<1>1. About("joined", p) \in Announcements /\ About("left", p) \in Announcements
  BY MessageKinds
<1>2. (0 + 1)..Len(w) = 1..Len(w)
  OBVIOUS
<1> QED
  BY <1>1, <1>2 DEF Mute, Final, JoinsLast

----------------------------------------------------------------------------
(* Ready: the process is known, and its participants may be announced *)

(* What is known then, and that it is by one connection if no other lingers. *)
LEMMA ReadyKnown ==
    ASSUME EInv, NEW k \in Kernels, NEW c \in Conns, SameElsewhere(k, c),
           Sock(k, c) \in Held, Sock(k, c)' = Sock(k, c), ProcId(k, c)',
           readyProcesses_' = [readyProcesses_ EXCEPT ![k] = IF @ = 0 THEN c ELSE @],
           UNCHANGED <<known, up, detaching>>
    PROVE  /\ \A l \in Kernels : KnownInv(l)'
           /\ ~overlapped /\ ~Lingering(k, c) => \A l \in Kernels : OneLive(l)'
           /\ ~Lingering(k, c) => \A d \in Conns : d # c => ~Live(k, d)
<1>1. /\ Types /\ \A l \in Kernels : KnownInv(l)
      /\ readyProcesses_ \in [Kernels -> Conns \cup {0}]
      /\ known' = known /\ up' = up /\ detaching' = detaching
  BY TypesParts DEF EInv, SoundInv
<1>2. \A l \in Kernels, d \in Conns : ~(l = k /\ d = c) =>
        Sock(l, d)' = Sock(l, d) /\ (ProcId(l, d)' <=> ProcId(l, d))
  BY DEF SameElsewhere
<1>3. \A l \in Kernels, d \in Conns : Sock(l, d)' = Sock(l, d) /\ (ProcId(l, d) => ProcId(l, d)')
  BY <1>2
<1>4. \A l \in Kernels, d \in Conns : Counts(l, d) => Counts(l, d)'
  BY <1>3 DEF Counts, Held
<1>5. Counts(k, c)'
  BY DEF Counts, Held
<1>6. \A l \in Kernels : l # k => readyProcesses_'[l] = readyProcesses_[l]
  BY <1>1
<1>7. PICK r \in Conns \cup {0} : /\ r = readyProcesses_[k]
                                  /\ readyProcesses_'[k] = IF r = 0 THEN c ELSE r
  BY <1>1
<1>8. ASSUME NEW l \in Kernels PROVE KnownInv(l)'
  <2>1. KnownInv(l)
    BY <1>1
  <2>2. readyProcesses_'[l] # 0 => Counts(l, readyProcesses_[l])'
    <3>1. PICK q, x : q = readyProcesses_[l] /\ x = readyProcesses_'[l] /\ q \in Conns \cup {0}
      BY <1>1
    <3>2. q # 0 => Counts(l, q)'
      BY <1>4, <2>1, <3>1 DEF KnownInv
    <3>3. x # 0 => Counts(l, x)'
      BY <1>5, <1>6, <1>7, <3>1, <3>2
    <3> QED
      BY <3>1, <3>3
  <2>3. known'[l] # {} => \E d \in Conns : Counts(l, d)'
    BY <1>1, <1>4, <2>1 DEF KnownInv
  <2>4. \A d \in Conns : Sock(l, d)' = "open" => up'[l] = "up"
    BY <1>1, <1>3, <2>1 DEF KnownInv
  <2>5. detaching'[l] # 0 => Sock(l, detaching[l])' \in {"aborting", "gone"}
    <3>1. PICK d \in Conns \cup {0} : d = detaching[l]
      BY <1>1, TypesParts
    <3>2. d # 0 => Sock(l, d)' \in {"aborting", "gone"}
      BY <1>3, <2>1, <3>1 DEF KnownInv
    <3> QED
      BY <1>1, <3>1, <3>2
  <2> QED
    BY <2>2, <2>3, <2>4, <2>5 DEF KnownInv
<1>9. ASSUME ~Lingering(k, c), NEW d \in Conns, d # c PROVE ~Live(k, d)
  BY <1>9 DEF Lingering, Held, Live, ProcId, Sock
<1>10. ASSUME ~overlapped, ~Lingering(k, c), NEW l \in Kernels PROVE OneLive(l)'
  <2>1. OneLive(l)
    BY <1>10 DEF EInv, AgreeInv
  <2>2. CASE l # k
    <3>1. \A d \in Conns : Live(l, d)' => Live(l, d)
      BY <1>1, <1>2, <2>2 DEF Live, Held
    <3> QED
      BY <1>2, <1>6, <2>1, <2>2, <3>1, OneLiveFrame
  <2>3. CASE l = k
    <3>1. \A d \in Conns : d # c => ~Live(k, d)'
      BY <1>1, <1>2, <1>9, <1>10 DEF Live, Held
    <3>2. \A d \in Conns : Sock(k, d)' = "open" /\ ProcId(k, d)' => d = c
      BY <3>1 DEF Live, Held
    <3>3. readyProcesses_'[k] = c
      <4>1. SUFFICES ASSUME r # 0 PROVE r = c
        BY <1>7
      <4>2. Counts(k, r) /\ r \in Conns
        BY <1>1, <1>7, <4>1 DEF KnownInv
      <4>3. Live(k, r)
        BY <4>2 DEF Counts, Held, Live
      <4> QED
        BY <1>9, <1>10, <4>2, <4>3
    <3> QED
      BY <2>3, <3>1, <3>2, <3>3 DEF OneLive
  <2> QED
    BY <2>2, <2>3
<1> QED
  BY <1>8, <1>9, <1>10

(* A Ready is read. *)
LEMMA ReadReadyKeeps ==
    ASSUME EInv, NEW k \in Kernels, NEW c \in Conns, CanRead(k, c),
           Head(wire[k][c]) = <<"ready">>, Ready(k, c, Rest(k, c)), VisitLeaves, late' = late
    PROVE  EInv'
<1>1. /\ SoundInv /\ Types /\ handler \in Handlers /\ wire \in Wires /\ opened \in Nat
      /\ Sock(k, c) = "open" /\ up[k] = "up" /\ wire[k][c] # <<>>
      /\ readyProcesses_ \in [Kernels -> Conns \cup {0}]
  BY TypesParts DEF CanRead, Open, IoIsFree, EInv, SoundInv, Sock
<1>2. /\ Rest(k, c) \in Wires /\ Rest(k, c)[k][c] = Tail(wire[k][c])
      /\ \A l \in Kernels, d \in Conns : ~(l = k /\ d = c) => Rest(k, c)[l][d] = wire[l][d]
  BY <1>1, TakenFrom
<1>3. PICK ps : ps = participants[k] /\ IsFiniteSet(ps) /\ ps \subseteq Participants
  BY <1>1, TypesParts DEF Types
<1>4. PICK msgs \in Announcing("joined", ps) : wire' = Sent(Rest(k, c), k, c, msgs)
  BY <1>3 DEF Ready, ExistingOnes
<1>5. /\ msgs \in Seq(Announcements)
      /\ \A p \in Participants : /\ JoinsLast(msgs, p) <=> p \in ps
                                 /\ Mute(msgs, p) <=> p \notin ps
  BY <1>3, AnnouncedOnce
<1>6. msgs \in Seq(Messages)
  BY <1>5, MessageKinds
<1>7. /\ handler' = [handler EXCEPT ![k][c].procId = TRUE]
      /\ readyProcesses_' = [readyProcesses_ EXCEPT ![k] = IF @ = 0 THEN c ELSE @]
      /\ overlapped' = (overlapped \/ Lingering(k, c)) /\ known' = known
      /\ UNCHANGED <<up, detaching, participants>> /\ opened' = opened
  BY DEF Ready, VisitLeaves, kernelVars, trackVars, localVars
<1>8. /\ handler' \in Handlers /\ SameElsewhere(k, c) /\ Sock(k, c)' = Sock(k, c)
      /\ (Info(k, c)' <=> Info(k, c)) /\ ProcId(k, c)'
  BY <1>1, <1>7, ProcIdSet
<1>9. PICK o \in Kernels : o = Other(k) /\ o # k /\ Other(o) = k /\ \A l \in Kernels : l = k \/ l = o
  BY TwoKernels
<1>10. /\ wire' \in Wires /\ wire'[o][c] = wire[o][c] \o msgs /\ wire'[k][c] = Tail(wire[k][c])
       /\ \A l \in Kernels, d \in Conns : d # c => wire'[l][d] = wire[l][d]
  <2>1. /\ Sent(Rest(k, c), k, c, msgs) \in Wires
        /\ \A l \in Kernels, d \in Conns :
             ~(l = Other(k) /\ d = c) => Sent(Rest(k, c), k, c, msgs)[l][d] = Rest(k, c)[l][d]
        /\ Sent(Rest(k, c), k, c, msgs)[Other(k)][c] =
             IF Sock(k, c) \in {"connecting", "open"}
             THEN Rest(k, c)[Other(k)][c] \o msgs ELSE Rest(k, c)[Other(k)][c]
    BY <1>2, <1>6, SentWhere
  <2>2. Sock(k, c) \in {"connecting", "open"}
    BY <1>1
  <2>3. Rest(k, c)[o][c] = wire[o][c]
    BY <1>2, <1>9
  <2>4. wire'[o][c] = wire[o][c] \o msgs
    BY <1>4, <1>9, <2>1, <2>2, <2>3
  <2>5. \A l \in Kernels, d \in Conns : ~(l = o /\ d = c) => wire'[l][d] = Rest(k, c)[l][d]
    BY <1>4, <1>9, <2>1
  <2>6. Rest(k, c)[k][c] = Tail(wire[k][c])
    BY <1>2
  <2>7. \A l \in Kernels, d \in Conns : d # c => Rest(k, c)[l][d] = wire[l][d]
    BY <1>2
  <2>8. wire'[k][c] = Tail(wire[k][c])
    BY <1>9, <2>5, <2>6
  <2>9. \A l \in Kernels, d \in Conns : d # c => wire'[l][d] = wire[l][d]
    BY <2>5, <2>7
  <2> QED
    BY <1>4, <2>1, <2>4, <2>8, <2>9
<1>11. \A l \in Kernels, d \in Conns : ~(l = k /\ d = c) =>
         Sock(l, d)' = Sock(l, d) /\ (ProcId(l, d)' <=> ProcId(l, d))
  BY <1>8 DEF SameElsewhere
<1>12. ConnInv(c)
  BY <1>1 DEF SoundInv
<1>13. ConnInv(c)' /\ ~ProcId(k, c)
  <2>1. /\ Sock(o, c)' = Sock(o, c) /\ (Info(o, c)' <=> Info(o, c))
        /\ ProcId(o, c)' <=> ProcId(o, c)
    BY <1>8, <1>9 DEF SameElsewhere
  <2> QED
    BY <1>1, <1>5, <1>7, <1>8, <1>9, <1>10, <1>12, <2>1, ReadsReady
<1>14. ASSUME NEW d \in Conns PROVE ConnInv(d)'
  <2>1. CASE d = c
    BY <1>13, <2>1
  <2>2. CASE d # c
    <3>1. \A l \in Kernels : SameEnd(l, d)
      BY <1>8, <1>10, <2>2 DEF SameEnd, SameElsewhere
    <3>2. ConnInv(d) /\ opened' \in Nat /\ opened <= opened'
      BY <1>1, <1>7 DEF SoundInv
    <3> QED
      BY <1>1, <3>1, <3>2, ConnFrame
  <2> QED
    BY <2>1, <2>2
<1>15. /\ \A l \in Kernels : KnownInv(l)'
       /\ ~overlapped /\ ~Lingering(k, c) => \A l \in Kernels : OneLive(l)'
       /\ ~Lingering(k, c) => \A d \in Conns : d # c => ~Live(k, d)
  BY <1>1, <1>7, <1>8, ReadyKnown DEF Held
<1>16. ASSUME NEW l \in Kernels PROVE LateInv(l)'
  <2>1. LateInv(l) /\ late'[l] = late[l]
    BY <1>1 DEF SoundInv
  <2>2. \A d \in Conns : Sock(l, d) = "aborting"
          => Sock(l, d)' = "aborting" /\ (ProcId(l, d) => ProcId(l, d)')
    BY <1>8, <1>11
  <2> QED
    BY <1>1, <2>1, <2>2, LateGoesWell
<1>17. ASSUME ~overlapped, ~Lingering(k, c), NEW l \in Kernels, NEW d \in Conns
       PROVE  WillAgree(l, d)'
  <2>1. WillAgree(l, d) /\ WillAgree(k, c) /\ WillAgree(o, c)
    BY <1>17 DEF EInv, AgreeInv
  <2>2. CASE d # c
    <3>1. Other(l) \in Kernels
      BY TwoKernels
    <3> QED
      BY <1>7, <1>10, <1>11, <2>1, <2>2, <3>1, WillAgreeFrame
  <2>3. CASE d = c /\ l = k
    <3>1. SUFFICES ASSUME Sock(o, c) = "open", NEW p \in Participants
                   PROVE  WillKnow(k, c, p)' <=> (ProcId(o, c) /\ p \in participants[o])
      BY <1>7, <1>9, <1>11, <2>3 DEF WillAgree
    <3>2. WillKnow(k, c, p) <=> ProcId(o, c) /\ p \in participants[o]
      BY <1>1, <1>9, <2>1, <3>1 DEF WillAgree
    <3>3. known'[k] = {}
      <4>1. SUFFICES ASSUME known[k] # {} PROVE FALSE
        BY <1>7
      <4>2. PICK e \in Conns : Counts(k, e)
        BY <1>1, <4>1 DEF SoundInv, KnownInv
      <4>3. e # c /\ Live(k, e)
        BY <1>13, <4>2 DEF Counts, Held, Live
      <4> QED
        BY <1>15, <1>17, <4>3
    <3>w. PICK w \in Seq(Messages) : w = wire[k][c] /\ w # <<>>
      BY <1>1 DEF Wires
    <3>4. PICK t : w = wire[k][c] /\ t = Tail(w) /\ w # <<>>
      BY <3>w
    <3>5. JoinsLast(w, p) <=> JoinsLast(t, p)
      <4>1. Head(w) # About("joined", p)
        BY <3>4, MessageKinds
      <4> QED
        BY <3>4, <4>1, TailNews
    <3>6. wire'[k][c] = t
      BY <1>10, <3>4
    <3>7. WillKnow(k, c, p)' <=> JoinsLast(t, p)
      BY <3>3, <3>6 DEF WillKnow
    <3>8. WillKnow(k, c, p) <=> JoinsLast(w, p)
      BY <1>13, <3>4 DEF WillKnow
    <3> QED
      BY <3>2, <3>5, <3>7, <3>8
  <2>4. CASE d = c /\ l = o
    <3>1. SUFFICES ASSUME Sock(o, c) = "open", NEW p \in Participants
                   PROVE  WillKnow(o, c, p)' <=> p \in ps
      BY <1>3, <1>7, <1>8, <1>9, <1>11, <2>4 DEF WillAgree
    <3>2. ~WillKnow(o, c, p)
      BY <1>1, <1>9, <1>13, <2>1, <3>1 DEF WillAgree
    <3>w. PICK w \in Seq(Messages) : w = wire[o][c]
      BY <1>1 DEF Wires
    <3>3. PICK e : w = wire[o][c] /\ e = w \o msgs
      BY <3>w
    <3>4. Mute(w, p) /\ ~JoinsLast(w, p)
      <4>1. InOrder(o, c)
        BY <1>12 DEF ConnInv
      <4>2. \A j \in 1..Len(w) : w[j] \notin Announcements
        BY <1>1, <1>9, <1>13, <3>1, <3>3, <4>1, NothingAnnounced
      <4> QED
        BY <4>2, NoNewsIsMute
    <3>5. ~(ProcId(o, c) /\ p \in known[o])
      BY <3>2, <3>3, <3>4 DEF WillKnow
    <3>6. /\ JoinsLast(e, p) <=> p \in ps
      BY <1>5, <1>6, <3>3, <3>4, ConcatNews
    <3>7. wire'[o][c] = e /\ (ProcId(o, c)' <=> ProcId(o, c)) /\ known'[o] = known[o]
      BY <1>7, <1>9, <1>10, <1>11, <3>3
    <3> QED
      BY <3>5, <3>6, <3>7 DEF WillKnow
  <2> QED
    BY <1>9, <2>2, <2>3, <2>4
<1>18. AgreeInv'
  BY <1>7, <1>15, <1>17 DEF AgreeInv
<1>19. Types'
  <2>1. handler' \in [Kernels -> [Conns -> [sock : Sockets, info : BOOLEAN, procId : BOOLEAN]]]
    BY <1>8 DEF Handlers, HandlerStates
  <2>2. /\ wire' \in [Kernels -> [Conns -> Seq(Messages)]]
        /\ \A l \in Kernels, d \in Conns : wire'[l][d] \in Seq(Messages)
    BY <1>10 DEF Wires
  <2>3. readyProcesses_' \in [Kernels -> Conns \cup {0}]
    BY <1>1, <1>7
  <2>4. overlapped' \in BOOLEAN
    BY <1>7
  <2> QED
    BY <1>1, <1>7, <2>1, <2>2, <2>3, <2>4
    DEF Types, TypeOK, VisitLeaves, kernelVars, localVars, trackVars, netVars
<1> QED
  BY <1>14, <1>15, <1>16, <1>18, <1>19 DEF EInv, SoundInv

----------------------------------------------------------------------------
(* A participant of the other kernel joins or leaves *)

(* What a BusJoined or a BusLeft makes known. *)
Noted(k, m) ==
    \/ m[1] = "joined" /\ BusJoined(k, m[2])
    \/ m[1] = "left" /\ BusLeft(k, m[2])

(* An announcement that is read changes what is known of its participant only. *)
LEMMA NotedWhat ==
    ASSUME Types, NEW k \in Kernels, NEW m \in Messages, Noted(k, m)
    PROVE  /\ m \in Announcements /\ known' \in [Kernels -> SUBSET Participants]
           /\ \A l \in Kernels : l # k => known'[l] = known[l]
           /\ \A p \in Participants :
                /\ m = About("joined", p) => p \in known'[k]
                /\ m = About("left", p) => p \notin known'[k]
                /\ m \notin {About("joined", p), About("left", p)}
                     => (p \in known'[k] <=> p \in known[k])
<1>1. known \in [Kernels -> SUBSET Participants]
  BY TypesParts
<1>2. PICK q : q = m[2]
  OBVIOUS
<1>3. CASE m[1] = "joined" /\ known' = [known EXCEPT ![k] = @ \cup {q}]
  <2>1. m \in Announcements /\ q \in Participants /\ m = About("joined", q)
        /\ m # About("left", q)
    BY <1>2, <1>3, MessageKinds
  <2>2. \A p : m = About("joined", p) => p = q
    BY <1>2, MessageKinds
  <2>3. \A p : m # About("left", p)
    BY <1>3, MessageKinds
  <2>4. known' \in [Kernels -> SUBSET Participants] /\ known'[k] = known[k] \cup {q}
        /\ \A l \in Kernels : l # k => known'[l] = known[l]
    BY <1>1, <1>3, <2>1
  <2> QED
    BY <2>1, <2>2, <2>3, <2>4
<1>4. CASE m[1] = "left" /\ known' = [known EXCEPT ![k] = @ \ {q}]
  <2>1. m \in Announcements /\ q \in Participants /\ m = About("left", q)
    BY <1>2, <1>4, MessageKinds
  <2>2. \A p : m = About("left", p) => p = q
    BY <1>2, MessageKinds
  <2>3. \A p : m # About("joined", p)
    BY <1>4, MessageKinds
  <2>4. known' \in [Kernels -> SUBSET Participants] /\ known'[k] = known[k] \ {q}
        /\ \A l \in Kernels : l # k => known'[l] = known[l]
    BY <1>1, <1>4, <2>1
  <2> QED
    BY <2>1, <2>2, <2>3, <2>4
<1> QED
  BY <1>2, <1>3, <1>4 DEF Noted, BusJoined, BusLeft

(* Somebody is known by a connection that counts. *)
LEMMA NotedKnown ==
    ASSUME EInv, NEW k \in Kernels, NEW c \in Conns, Counts(k, c),
           \A l \in Kernels : l # k => known'[l] = known[l],
           UNCHANGED <<handler, readyProcesses_, up, detaching>>
    PROVE  \A l \in Kernels : KnownInv(l)'
<1>1. \A l \in Kernels, d \in Conns \cup {0} : /\ Sock(l, d)' = Sock(l, d)
                                               /\ ProcId(l, d)' <=> ProcId(l, d)
  BY DEF Sock, ProcId
<1>2. \A l \in Kernels, d \in Conns \cup {0} : Counts(l, d)' <=> Counts(l, d)
  BY <1>1 DEF Counts, Held
<1>3. Types
  BY DEF EInv, SoundInv
<1>4. ASSUME NEW l \in Kernels PROVE KnownInv(l)'
  <2>1. KnownInv(l)
    BY DEF EInv, SoundInv
  <2>2. PICK r, d : /\ r = readyProcesses_[l] /\ d = detaching[l]
                    /\ r \in Conns \cup {0} /\ d \in Conns \cup {0}
    BY <1>3, TypesParts
  <2>3. readyProcesses_'[l] = r /\ detaching'[l] = d /\ up' = up
    BY <2>2
  <2>4. (r # 0 => Counts(l, r)') /\ (d # 0 => Sock(l, d)' \in {"aborting", "gone"})
    BY <1>1, <1>2, <2>1, <2>2 DEF KnownInv
  <2>5. readyProcesses_'[l] # 0 => Counts(l, readyProcesses_[l])'
    BY <2>3, <2>4
  <2>6. detaching'[l] # 0 => Sock(l, detaching[l])' \in {"aborting", "gone"}
    BY <2>3, <2>4
  <2>7. known'[l] # {} => \E e \in Conns : Counts(l, e)'
    BY <1>2, <2>1 DEF KnownInv
  <2>8. \A e \in Conns : Sock(l, e)' = "open" => up'[l] = "up"
    BY <1>1, <2>1, <2>3 DEF KnownInv
  <2> QED
    BY <2>5, <2>6, <2>7, <2>8 DEF KnownInv
<1> QED
  BY <1>4

(* The connections stay one and the agreement of the others stays. *)
LEMMA NotedAgrees ==
    ASSUME EInv, ~overlapped, NEW k \in Kernels, NEW c \in Conns, Counts(k, c),
           \A l \in Kernels : l # k => known'[l] = known[l],
           UNCHANGED <<handler, readyProcesses_, detaching, participants>>,
           \A l \in Kernels, d \in Conns : ~(l = k /\ d = c) => wire'[l][d] = wire[l][d]
    PROVE  /\ \A l \in Kernels : OneLive(l)'
           /\ \A l \in Kernels, d \in Conns : ~(l = k /\ d = c) => WillAgree(l, d)'
           /\ Sock(k, c) # "open" => WillAgree(k, c)'
<1>1. \A l \in Kernels, d \in Conns : /\ Sock(l, d)' = Sock(l, d)
                                      /\ ProcId(l, d)' <=> ProcId(l, d)
  BY DEF Sock, ProcId
<1>2. \A l \in Kernels : OneLive(l) /\ \A d \in Conns : WillAgree(l, d)
  BY DEF EInv, AgreeInv
<1>3. \A l \in Kernels : OneLive(l)'
  <2>1. \A l \in Kernels, d \in Conns : Live(l, d)' <=> Live(l, d)
    BY <1>1 DEF Live, Held
  <2> QED
    BY <1>1, <1>2, <2>1, OneLiveFrame
<1>4. ASSUME NEW l \in Kernels, NEW d \in Conns, ~(l = k /\ d = c) PROVE WillAgree(l, d)'
  <2>1. Sock(l, d) = "open" /\ ProcId(l, d) => known'[l] = known[l]
    <3>1. SUFFICES ASSUME l = k PROVE ~(Sock(k, d) = "open" /\ ProcId(k, d))
      OBVIOUS
    <3>2. Live(k, c) /\ (Sock(k, d) = "open" /\ ProcId(k, d) => Live(k, d))
      BY DEF Counts, Held, Live
    <3> QED
      BY <1>2, <1>4, <3>1, <3>2 DEF OneLive
  <2>2. Other(l) \in Kernels
    BY TwoKernels
  <2> QED
    BY <1>1, <1>2, <1>4, <2>1, <2>2, WillAgreeFrame
<1>5. Sock(k, c) # "open" => WillAgree(k, c)'
  BY <1>1 DEF WillAgree
<1> QED
  BY <1>3, <1>4, <1>5

(* The announcement is read. *)
LEMMA ReadNewsKeeps ==
    ASSUME EInv, NEW k \in Kernels, NEW c \in Conns, CanRead(k, c),
           Noted(k, Head(wire[k][c])), wire' = Rest(k, c), VisitLeaves, late' = late,
           UNCHANGED <<handler, readyProcesses_, overlapped>>
    PROVE  EInv'
<1>1. /\ SoundInv /\ Types /\ handler \in Handlers /\ wire \in Wires /\ opened \in Nat
      /\ Sock(k, c) = "open" /\ wire[k][c] # <<>> /\ UNCHANGED <<up, detaching, participants>>
      /\ opened' = opened
  BY TypesParts DEF CanRead, Open, IoIsFree, EInv, SoundInv, Sock, VisitLeaves, kernelVars,
                    trackVars, localVars
<1>2. PICK m \in Messages : m = Head(wire[k][c])
  BY <1>1, TakenFrom
<1>3. /\ wire' \in Wires /\ wire'[k][c] = Tail(wire[k][c])
      /\ \A l \in Kernels, d \in Conns : ~(l = k /\ d = c) => wire'[l][d] = wire[l][d]
  BY <1>1, TakenFrom
<1>4. /\ m \in Announcements /\ known' \in [Kernels -> SUBSET Participants]
      /\ \A l \in Kernels : l # k => known'[l] = known[l]
      /\ \A p \in Participants :
           /\ m = About("joined", p) => p \in known'[k]
           /\ m = About("left", p) => p \notin known'[k]
           /\ m \notin {About("joined", p), About("left", p)}
                => (p \in known'[k] <=> p \in known[k])
  BY <1>1, <1>2, NotedWhat
<1>5. \A l \in Kernels, d \in Conns : SameHandler(l, d)
  BY DEF SameHandler, Sock, Info, ProcId
<1>6. ConnInv(c)
  BY <1>1 DEF SoundInv
<1>7. ConnInv(c)' /\ ProcId(k, c)
  <2>1. SameEnd(Other(k), c)
    BY <1>3, <1>5, TwoKernels DEF SameEnd, SameHandler
  <2>2. /\ Sock(k, c)' = "open" /\ (Info(k, c)' <=> Info(k, c)) /\ (ProcId(k, c)' <=> ProcId(k, c))
    BY <1>1, <1>5 DEF SameHandler
  <2>3. Head(wire[k][c]) \in Announcements
    BY <1>2, <1>4
  <2> QED
    BY <1>1, <1>3, <1>6, <2>1, <2>2, <2>3, ReadsNews
<1>8. ASSUME NEW d \in Conns PROVE ConnInv(d)'
  <2>1. CASE d = c
    BY <1>7, <2>1
  <2>2. CASE d # c
    <3>1. \A l \in Kernels : SameEnd(l, d)
      BY <1>3, <1>5, <2>2 DEF SameEnd, SameHandler
    <3>2. ConnInv(d) /\ opened' \in Nat /\ opened <= opened'
      BY <1>1 DEF SoundInv
    <3> QED
      BY <1>1, <3>1, <3>2, ConnFrame
  <2> QED
    BY <2>1, <2>2
<1>9. Counts(k, c)
  BY <1>1, <1>7 DEF Counts, Held
<1>10. \A l \in Kernels : KnownInv(l)'
  BY <1>1, <1>4, <1>9, NotedKnown
<1>11. ASSUME NEW l \in Kernels PROVE LateInv(l)'
  <2>1. LateInv(l) /\ late'[l] = late[l]
    BY <1>1 DEF SoundInv
  <2> QED
    BY <1>1, <1>5, <2>1, LateGoesWell DEF SameHandler
<1>12. ASSUME ~overlapped PROVE \A l \in Kernels : OneLive(l)' /\ \A d \in Conns : WillAgree(l, d)'
  <2>1. /\ \A l \in Kernels : OneLive(l)'
        /\ \A l \in Kernels, d \in Conns : ~(l = k /\ d = c) => WillAgree(l, d)'
    BY <1>1, <1>3, <1>4, <1>9, <1>12, NotedAgrees
  <2>2. WillAgree(k, c)
    BY <1>12 DEF EInv, AgreeInv
  <2>3. WillAgree(k, c)'
    <3>1. Other(k) \in Kernels
      BY TwoKernels
    <3>2. SUFFICES ASSUME Sock(Other(k), c) = "open", NEW p \in Participants
                   PROVE  WillKnow(k, c, p)' <=> WillKnow(k, c, p)
      BY <1>1, <1>5, <2>2, <3>1 DEF WillAgree, SameHandler
    <3>w. PICK w \in Seq(Messages) : w = wire[k][c] /\ w # <<>> /\ m = Head(w)
      BY <1>1, <1>2 DEF Wires
    <3>3. PICK t : w = wire[k][c] /\ t = Tail(w) /\ w # <<>> /\ m = Head(w)
      BY <3>w
    <3>4. /\ Mute(w, p) <=> /\ Mute(t, p)
                            /\ m \notin {About("joined", p), About("left", p)}
          /\ JoinsLast(w, p) <=> \/ JoinsLast(t, p)
                                 \/ m = About("joined", p) /\ Mute(t, p)
      BY <3>3, TailNews
    <3>5. WillKnow(k, c, p) <=> JoinsLast(w, p) \/ (Mute(w, p) /\ p \in known[k])
      BY <1>7, <3>3 DEF WillKnow
    <3>6. WillKnow(k, c, p)' <=> JoinsLast(t, p) \/ (Mute(t, p) /\ p \in known'[k])
      BY <1>3, <1>5, <1>7, <3>3 DEF WillKnow, SameHandler
    <3>7. About("joined", p) # About("left", p)
      BY MessageKinds
    <3> QED
      BY <1>4, <3>4, <3>5, <3>6, <3>7
  <2> QED
    BY <2>1, <2>3
<1>13. AgreeInv'
  BY <1>12 DEF AgreeInv
<1>14. Types'
  <2>1. /\ wire' \in [Kernels -> [Conns -> Seq(Messages)]]
        /\ \A l \in Kernels, d \in Conns : wire'[l][d] \in Seq(Messages)
    BY <1>3 DEF Wires
  <2> QED
    BY <1>1, <1>4, <2>1
    DEF Types, TypeOK, VisitLeaves, kernelVars, localVars, trackVars, netVars
<1> QED
  BY <1>8, <1>10, <1>11, <1>13, <1>14 DEF EInv, SoundInv

(* The message that is read is one of these. *)
LEMMA ReadKeeps ==
    ASSUME EInv, NEW k \in Kernels, NEW c \in Conns, Read(k, c)
    PROVE  EInv'
<1>1. /\ CanRead(k, c) /\ VisitLeaves /\ late' = late
      /\ Visit(k, c, Head(wire[k][c]), Rest(k, c))
  BY DEF Read, VisitLeaves, Rest
<1>2. wire \in Wires /\ wire[k][c] # <<>>
  BY <1>1, TypesParts DEF CanRead, EInv, SoundInv
<1>3. PICK m \in Messages : m = Head(wire[k][c])
  BY <1>2, TakenFrom
<1>4. CASE m[1] = "hello" /\ Hello(k, c, Rest(k, c))
  <2>1. m = <<"hello">>
    BY <1>4, MessageKinds
  <2> QED
    BY <1>1, <1>3, <1>4, <2>1, ReadHelloKeeps
<1>5. CASE m[1] = "ready" /\ Ready(k, c, Rest(k, c))
  <2>1. m = <<"ready">>
    BY <1>5, MessageKinds
  <2> QED
    BY <1>1, <1>3, <1>5, <2>1, ReadReadyKeeps
<1>6. CASE /\ Noted(k, m) /\ wire' = Rest(k, c)
           /\ UNCHANGED <<handler, readyProcesses_, overlapped>>
  BY <1>1, <1>3, <1>6, ReadNewsKeeps
<1>7. Visit(k, c, m, Rest(k, c))
  BY <1>1, <1>3
<1> QED
  BY <1>4, <1>5, <1>6, <1>7 DEF Visit, Noted

(* What a kernel announces, to the connection it finds ready. *)
LEMMA TellKeeps ==
    ASSUME EInv, NEW k \in Kernels, NEW p \in Participants, NEW kind \in {"joined", "left"},
           Tell(k, kind, p), UNCHANGED <<up, detaching, late, handler, opened>>,
           UNCHANGED stateVars, participants' \in [Kernels -> SUBSET Participants],
           \A l \in Kernels : l # k => participants'[l] = participants[l],
           participants'[k] = IF kind = "joined" THEN participants[k] \cup {p}
                                                 ELSE participants[k] \ {p}
    PROVE  /\ wire' \in Wires /\ \A d \in Conns : ConnInv(d)'
           /\ \A l \in Kernels : LateInv(l)' /\ KnownInv(l)'
           /\ AgreeInv'
<1>1. /\ SoundInv /\ Types /\ wire \in Wires /\ opened \in Nat /\ opened' \in Nat
      /\ opened <= opened' /\ readyProcesses_' = readyProcesses_ /\ known' = known
      /\ overlapped' = overlapped
  BY TypesParts DEF EInv, SoundInv, stateVars
<1>2. PICK o \in Kernels : o = Other(k) /\ o # k /\ Other(o) = k /\ \A l \in Kernels : l = k \/ l = o
  BY TwoKernels
<1>3. PICK m \in Announcements : m = About(kind, p)
  BY MessageKinds
<1>4. PICK msgs \in Seq(Announcements) : msgs = <<m>>
  <2>1. <<m>> \in Seq(Announcements)
    OBVIOUS
  <2> QED
    BY <2>1
<1>5. msgs \in Seq(Messages)
  BY <1>4, MessageKinds
<1>6. \A l \in Kernels, d \in Conns : SameHandler(l, d)
  BY DEF SameHandler, Sock, Info, ProcId
<1>7. PICK r \in Conns \cup {0} : r = readyProcesses_[k]
  BY <1>1, TypesParts
<1>8. /\ wire' \in Wires /\ \A d \in Conns : wire'[k][d] = wire[k][d]
      /\ \A d \in Conns : d # r => wire'[o][d] = wire[o][d]
      /\ r # 0 => wire'[o][r] = IF Sock(k, r) \in {"connecting", "open"} THEN wire[o][r] \o msgs
                                                                       ELSE wire[o][r]
  <2>1. CASE r = 0
    BY <1>1, <1>7, <2>1 DEF Tell
  <2>2. CASE r # 0
    <3>1. wire' = Sent(wire, k, r, msgs) /\ r \in Conns
      BY <1>3, <1>4, <1>7, <2>2 DEF Tell
    <3>2. /\ Sent(wire, k, r, msgs) \in Wires
          /\ \A l \in Kernels, d \in Conns :
               ~(l = Other(k) /\ d = r) => Sent(wire, k, r, msgs)[l][d] = wire[l][d]
          /\ Sent(wire, k, r, msgs)[Other(k)][r] =
               IF Sock(k, r) \in {"connecting", "open"} THEN wire[Other(k)][r] \o msgs
                                                       ELSE wire[Other(k)][r]
      BY <1>1, <1>5, <3>1, SentWhere
    <3> QED
      BY <1>2, <3>1, <3>2
  <2> QED
    BY <2>1, <2>2
<1>9. r # 0 => r \in Conns /\ Counts(k, r)
  BY <1>1, <1>7 DEF SoundInv, KnownInv
<1>10. Sock(k, r) # "connecting" \/ r = 0
  BY <1>9 DEF Counts, Held
<1>11. ASSUME NEW d \in Conns PROVE ConnInv(d)'
  <2>1. ConnInv(d)
    BY <1>1 DEF SoundInv
  <2>2. CASE d = r /\ Sock(k, r) = "open"
    <3>1. ProcId(k, d) /\ wire'[Other(k)][d] = wire[Other(k)][d] \o msgs
      BY <1>2, <1>8, <1>9, <2>2 DEF Counts, Held, Conns
    <3>2. wire'[k][d] = wire[k][d] /\ opened' = opened
      BY <1>8
    <3> QED
      BY <1>1, <1>6, <2>1, <2>2, <3>1, <3>2, Announces DEF SameHandler
  <2>3. CASE ~(d = r /\ Sock(k, r) = "open")
    <3>1. wire'[o][d] = wire[o][d]
      BY <1>8, <1>10, <2>3 DEF Conns
    <3>2. \A l \in Kernels : SameEnd(l, d)
      BY <1>2, <1>6, <1>8, <3>1 DEF SameEnd, SameHandler
    <3> QED
      BY <1>1, <2>1, <3>2, ConnFrame
  <2> QED
    BY <2>2, <2>3
<1>12. ASSUME NEW l \in Kernels PROVE LateInv(l)' /\ KnownInv(l)'
  <2>1. SameKernel(l)
    BY <1>1, <1>6 DEF SameKernel
  <2> QED
    BY <1>1, <2>1, KernelFrame DEF SoundInv
<1>13. ASSUME ~overlapped, NEW l \in Kernels
       PROVE  OneLive(l)' /\ \A d \in Conns : WillAgree(l, d)'
  <2>1. OneLive(l) /\ OneLive(k) /\ \A d \in Conns : WillAgree(l, d)
    BY <1>13 DEF EInv, AgreeInv
  <2>2. OneLive(l)'
    <3>1. \A d \in Conns : Live(l, d)' <=> Live(l, d)
      BY <1>6 DEF Live, Held, SameHandler
    <3> QED
      BY <1>1, <1>6, <2>1, <3>1, OneLiveFrame DEF SameHandler
  <2>3. ASSUME NEW d \in Conns PROVE WillAgree(l, d)'
    <3>1. CASE l = k \/ ~(d = r /\ Sock(k, r) = "open")
      <4>1. wire'[l][d] = wire[l][d]
        BY <1>2, <1>8, <1>10, <3>1 DEF Conns
      <4>2. Sock(Other(l), d) = "open" /\ ProcId(Other(l), d)
              => participants'[Other(l)] = participants[Other(l)]
        <5>1. CASE l = k
          BY <1>2, <5>1
        <5>2. CASE l = o
          <6>1. Sock(k, d) = "open" /\ ProcId(k, d) => d = r
            BY <1>7, <2>1 DEF OneLive
          <6> QED
            BY <1>2, <3>1, <5>2, <6>1
        <5> QED
          BY <1>2, <5>1, <5>2
      <4>3. Other(l) \in Kernels
        BY TwoKernels
      <4> QED
        BY <1>1, <1>6, <2>1, <4>1, <4>2, <4>3, WillAgreeFrame DEF SameHandler
    <3>2. CASE l = o /\ d = r /\ Sock(k, r) = "open"
      <4>1. ProcId(k, d) /\ d # 0 /\ Sock(k, d) = "open"
        BY <1>9, <3>2 DEF Counts, Held, Conns
      <4>2. SUFFICES ASSUME Sock(o, d) = "open", NEW q \in Participants
                     PROVE  WillKnow(o, d, q)' <=> q \in participants'[k]
        BY <1>2, <1>6, <3>2, <4>1 DEF WillAgree, SameHandler
      <4>3. WillKnow(o, d, q) <=> q \in participants[k]
        BY <1>2, <2>1, <3>2, <4>1, <4>2 DEF WillAgree
      <4>w. PICK w \in Seq(Messages) : w = wire[o][d]
        BY <1>1 DEF Wires
      <4>v. wire'[o][d] = wire[o][d] \o msgs
        BY <1>8, <3>2, <4>1
      <4>4. PICK e : w = wire[o][d] /\ e = w \o msgs /\ wire'[o][d] = e
        BY <4>w, <4>v
      <4>5. /\ Mute(e, q) <=> Mute(w, q) /\ Mute(msgs, q)
            /\ JoinsLast(e, q) <=> \/ JoinsLast(msgs, q)
                                   \/ JoinsLast(w, q) /\ Mute(msgs, q)
        BY <1>5, <4>4, ConcatNews
      <4>6. /\ Mute(msgs, q) <=> m \notin {About("joined", q), About("left", q)}
            /\ JoinsLast(msgs, q) <=> m = About("joined", q)
        BY <1>4, OneNews
      <4>7. WillKnow(o, d, q) <=> JoinsLast(w, q) \/ (Mute(w, q) /\ ProcId(o, d) /\ q \in known[o])
        BY <4>4 DEF WillKnow
      <4>8. WillKnow(o, d, q)' <=> JoinsLast(e, q) \/ (Mute(e, q) /\ ProcId(o, d) /\ q \in known[o])
        BY <1>1, <1>6, <4>4 DEF WillKnow, SameHandler
      <4>9. /\ m = About("joined", q) <=> kind = "joined" /\ q = p
            /\ m = About("left", q) <=> kind = "left" /\ q = p
        BY <1>3 DEF About
      <4>10. CASE q # p
        BY <4>3, <4>5, <4>6, <4>7, <4>8, <4>9, <4>10
      <4>11. CASE q = p /\ kind = "joined"
        BY <4>5, <4>6, <4>8, <4>9, <4>11
      <4>12. CASE q = p /\ kind = "left"
        <5>1. ~Mute(msgs, q) /\ ~JoinsLast(msgs, q)
          BY <4>6, <4>9, <4>12
        <5>2. ~WillKnow(o, d, q)'
          BY <4>5, <4>8, <5>1
        <5>3. q \notin participants'[k]
          BY <4>12
        <5> QED
          BY <5>2, <5>3
      <4> QED
        BY <4>10, <4>11, <4>12
    <3> QED
      BY <1>2, <3>1, <3>2
  <2> QED
    BY <2>2, <2>3
<1>14. AgreeInv'
  BY <1>1, <1>13 DEF AgreeInv
<1> QED
  BY <1>8, <1>11, <1>12, <1>14

(* A participant that joins or leaves is announced to the process that is ready. *)
LEMMA ParticipantKeeps ==
    ASSUME EInv, NEW k \in Kernels, NEW p \in Participants,
           LocalParticipantJoinedBus(k, p) \/ LocalParticipantLeftBus(k, p)
    PROVE  EInv'
<1>1. /\ SoundInv /\ Types /\ participants \in [Kernels -> SUBSET Participants]
      /\ joins \in 0..MaxJoins /\ MaxJoins \in Nat /\ IsFiniteSet(participants[k])
  BY TypesParts, EtherAssumption DEF EInv, SoundInv, Types, TypeOK, EtherAssumption
<1>2. PICK kind \in {"joined", "left"} :
        /\ Tell(k, kind, p) /\ joins' \in 0..MaxJoins
        /\ participants' = [participants EXCEPT ![k] = IF kind = "joined" THEN @ \cup {p}
                                                                        ELSE @ \ {p}]
  <2>1. CASE LocalParticipantJoinedBus(k, p)
    <3>1. Tell(k, "joined", p) /\ participants' = [participants EXCEPT ![k] = @ \cup {p}]
          /\ joins < MaxJoins /\ joins' = joins + 1
      BY <2>1 DEF LocalParticipantJoinedBus
    <3>2. joins' \in 0..MaxJoins
      BY <1>1, <3>1
    <3> QED
      BY <3>1, <3>2
  <2>2. CASE LocalParticipantLeftBus(k, p)
    <3>1. Tell(k, "left", p) /\ participants' = [participants EXCEPT ![k] = @ \ {p}]
          /\ joins' = joins
      BY <2>2 DEF LocalParticipantLeftBus
    <3> QED
      BY <1>1, <3>1
  <2> QED
    BY <2>1, <2>2
<1>3. /\ UNCHANGED kernelVars /\ UNCHANGED trackVars /\ UNCHANGED <<opened, handler, late>>
      /\ UNCHANGED netVars /\ UNCHANGED stateVars
  BY DEF LocalParticipantJoinedBus, LocalParticipantLeftBus
<1>4. /\ participants' \in [Kernels -> SUBSET Participants]
      /\ \A l \in Kernels : l # k => participants'[l] = participants[l]
      /\ participants'[k] = IF kind = "joined" THEN participants[k] \cup {p}
                                               ELSE participants[k] \ {p}
  BY <1>1, <1>2
<1>5. /\ wire' \in Wires /\ \A d \in Conns : ConnInv(d)'
      /\ \A l \in Kernels : LateInv(l)' /\ KnownInv(l)'
      /\ AgreeInv'
  BY <1>2, <1>3, <1>4, TellKeeps DEF kernelVars, trackVars
<1>6. \A l \in Kernels : IsFiniteSet(participants'[l])
  <2>1. IsFiniteSet(participants[k] \cup {p}) /\ IsFiniteSet(participants[k] \ {p})
    BY <1>1, FS_AddElement, FS_RemoveElement
  <2> QED
    BY <1>1, <1>4, <2>1 DEF Types
<1>7. Types'
  <2>1. /\ wire' \in [Kernels -> [Conns -> Seq(Messages)]]
        /\ \A l \in Kernels, d \in Conns : wire'[l][d] \in Seq(Messages)
    BY <1>5 DEF Wires
  <2> QED
    BY <1>1, <1>2, <1>3, <1>4, <1>6, <2>1
    DEF Types, TypeOK, kernelVars, trackVars, netVars, stateVars
<1> QED
  BY <1>5, <1>7 DEF EInv, SoundInv

----------------------------------------------------------------------------
(* A message that is handled although the socket was shut *)

(* changes nothing of the order. *)
LEMMA LateEnds ==
    ASSUME SoundInv, NEW k \in Kernels, NEW c \in Conns, Sock(k, c) = "aborting",
           Sock(k, c)' = "aborting", SameElsewhere(k, c), wire' = wire, opened' = opened
    PROVE  \A d \in Conns : ConnInv(d)'
<1>1. /\ opened \in Nat /\ opened' \in Nat /\ opened <= opened' /\ \A d \in Conns : ConnInv(d)
  BY TypesParts DEF SoundInv
<1>2. \A l \in Kernels, d \in Conns : ~(l = k /\ d = c) => SameEnd(l, d)
  BY DEF SameEnd, SameElsewhere
<1>3. ASSUME NEW d \in Conns PROVE ConnInv(d)'
  <2>1. CASE d = c
    <3>1. SameEnd(Other(k), d)
      BY <1>2, TwoKernels
    <3>2. /\ k = Initiator => Sock(k, d) # "none"
          /\ k = Acceptor => Sock(Initiator, d) \notin {"none", "connecting"}
      <4>1. Beginnings(c)
        BY <1>1 DEF ConnInv
      <4> QED
        BY <2>1, <4>1 DEF Beginnings
    <3>3. Sock(k, d)' \in {"aborting", "gone"}
      BY <2>1
    <3> QED
      BY <1>1, <3>1, <3>2, <3>3, Closes
  <2>2. CASE d # c
    <3>1. \A l \in Kernels : SameEnd(l, d)
      BY <1>2, <2>2
    <3> QED
      BY <1>1, <3>1, ConnFrame
  <2> QED
    BY <2>1, <2>2
<1> QED
  BY <1>3

(* A message that was read before its handler was shut is still handled. *)
LEMMA LateKeeps ==
    ASSUME EInv, NEW k \in Kernels, VisitLate(k)
    PROVE  EInv'
<1>1. /\ SoundInv /\ Types /\ handler \in Handlers /\ wire \in Wires /\ opened' = opened
      /\ late[k] # <<>> /\ VisitLeaves
      /\ late \in [Kernels -> {<<>>} \cup (Conns \X Messages)]
      /\ late' = [late EXCEPT ![k] = <<>>] /\ LateInv(k)
      /\ UNCHANGED <<up, detaching, participants>>
      /\ readyProcesses_ \in [Kernels -> Conns \cup {0}]
  BY TypesParts DEF VisitLate, VisitLeaves, EInv, SoundInv, kernelVars, localVars, trackVars
<1>2. PICK c \in Conns, m \in Messages : late[k] = <<c, m>>
  BY <1>1
<1>3. /\ late[k][1] = c /\ late[k][2] = m
  BY <1>2
<1>4. /\ Sock(k, c) = "aborting" /\ (m \in Announcements => ProcId(k, c))
      /\ Visit(k, c, m, wire)
  BY <1>1, <1>3 DEF LateInv, VisitLate
<1>5. LateGoes
  BY <1>1 DEF LateGoes
<1>6. \A l \in Kernels : late'[l] = late[l] \/ late'[l] = <<>>
  BY <1>1
<1>7. \A msgs : Sent(wire, k, c, msgs) = wire
  BY <1>4 DEF Sent, Sock
<1>8. late' \in [Kernels -> {<<>>} \cup (Conns \X Messages)]
  BY <1>1
<1>9. ASSUME handler' \in Handlers, wire' = wire, SameElsewhere(k, c), Sock(k, c)' = "aborting",
             ProcId(k, c) => ProcId(k, c)', \A l \in Kernels : KnownInv(l)', AgreeInv',
             known' \in [Kernels -> SUBSET Participants],
             readyProcesses_' \in [Kernels -> Conns \cup {0}], overlapped' \in BOOLEAN
      PROVE  EInv'
  <2>1. \A d \in Conns : ConnInv(d)'
    BY <1>1, <1>4, <1>9, LateEnds
  <2>2. ASSUME NEW l \in Kernels PROVE LateInv(l)'
    <3>1. LateInv(l) /\ (late'[l] = late[l] \/ late'[l] = <<>>)
      BY <1>1, <1>6 DEF SoundInv
    <3>2. \A d \in Conns : Sock(l, d) = "aborting"
            => Sock(l, d)' = "aborting" /\ (ProcId(l, d) => ProcId(l, d)')
      BY <1>9 DEF SameElsewhere
    <3> QED
      BY <1>1, <3>1, <3>2, LateGoesWell
  <2>3. Types'
    <3>1. handler' \in [Kernels -> [Conns -> [sock : Sockets, info : BOOLEAN, procId : BOOLEAN]]]
      BY <1>9 DEF Handlers, HandlerStates
    <3>2. \A l \in Kernels : late'[l] \in {<<>>} \cup (Conns \X Messages)
      BY <1>8
    <3> QED
      BY <1>1, <1>8, <1>9, <3>1, <3>2
      DEF Types, TypeOK, VisitLeaves, kernelVars, localVars, trackVars, netVars
  <2> QED
    BY <1>9, <2>1, <2>2, <2>3 DEF EInv, SoundInv
<1>10. CASE m[1] = "hello" /\ Hello(k, c, wire)
  <2>1. CASE ~compatible
    BY <1>1, <1>4, <1>5, <1>10, <2>1, RefusalKeeps DEF Hello, Held
  <2>2. CASE compatible
    <3>1. /\ handler' = [handler EXCEPT ![k][c].info = TRUE] /\ wire' = wire
          /\ UNCHANGED stateVars
      BY <1>7, <1>10, <2>2 DEF Hello
    <3>2. /\ handler' \in Handlers /\ SameElsewhere(k, c) /\ Sock(k, c)' = Sock(k, c)
          /\ ProcId(k, c)' <=> ProcId(k, c)
      BY <1>1, <3>1, InfoSet
    <3>3. \A l \in Kernels, d \in Conns : Sock(l, d)' = Sock(l, d) /\ (ProcId(l, d)' <=> ProcId(l, d))
      BY <3>2 DEF SameElsewhere
    <3>4. /\ \A l \in Kernels : LateInv(l)' /\ KnownInv(l)'
          /\ AgreeInv'
      BY <1>1, <1>6, <3>1, <3>3, Unmoved
    <3>5. /\ known' \in [Kernels -> SUBSET Participants] /\ overlapped' \in BOOLEAN
          /\ readyProcesses_' \in [Kernels -> Conns \cup {0}]
      BY <1>1, <3>1 DEF Types, TypeOK, stateVars
    <3> QED
      BY <1>4, <1>9, <3>1, <3>2, <3>4, <3>5
  <2>3. compatible \/ ~compatible
    OBVIOUS
  <2> QED
    BY <2>1, <2>2, <2>3
<1>11. CASE m[1] = "ready" /\ Ready(k, c, wire)
  <2>1. /\ handler' = [handler EXCEPT ![k][c].procId = TRUE] /\ wire' = wire
        /\ readyProcesses_' = [readyProcesses_ EXCEPT ![k] = IF @ = 0 THEN c ELSE @]
        /\ overlapped' = (overlapped \/ Lingering(k, c)) /\ known' = known
    BY <1>7, <1>11 DEF Ready
  <2>2. /\ handler' \in Handlers /\ SameElsewhere(k, c) /\ Sock(k, c)' = Sock(k, c)
        /\ ProcId(k, c)'
    BY <1>1, <2>1, ProcIdSet
  <2>3. /\ \A l \in Kernels : KnownInv(l)'
        /\ ~overlapped /\ ~Lingering(k, c) => \A l \in Kernels : OneLive(l)'
    BY <1>1, <1>4, <2>1, <2>2, ReadyKnown DEF Held
  <2>4. ASSUME ~overlapped, NEW l \in Kernels, NEW d \in Conns PROVE WillAgree(l, d)'
    <3>1. WillAgree(l, d) /\ Other(l) \in Kernels
      BY <2>4, TwoKernels DEF EInv, AgreeInv
    <3>2. \A x \in Kernels, e \in Conns : Sock(x, e)' = "open" =>
            Sock(x, e) = "open" /\ (ProcId(x, e)' <=> ProcId(x, e))
      BY <1>4, <2>2 DEF SameElsewhere
    <3> QED
      BY <1>1, <2>1, <3>1, <3>2, WillAgreeFrame
  <2>5. AgreeInv'
    BY <2>1, <2>3, <2>4 DEF AgreeInv
  <2>6. /\ known' \in [Kernels -> SUBSET Participants] /\ overlapped' \in BOOLEAN
        /\ readyProcesses_' \in [Kernels -> Conns \cup {0}]
    BY <1>1, <2>1 DEF Types, TypeOK
  <2> QED
    BY <1>4, <1>9, <2>1, <2>2, <2>3, <2>5, <2>6
<1>12. CASE /\ Noted(k, m) /\ wire' = wire /\ UNCHANGED <<handler, readyProcesses_, overlapped>>
  <2>1. /\ m \in Announcements /\ known' \in [Kernels -> SUBSET Participants]
        /\ \A l \in Kernels : l # k => known'[l] = known[l]
    BY <1>1, <1>12, NotedWhat
  <2>2. Counts(k, c)
    BY <1>4, <2>1 DEF Counts, Held
  <2>3. \A l \in Kernels : KnownInv(l)'
    BY <1>1, <1>12, <2>1, <2>2, NotedKnown
  <2>4. ASSUME ~overlapped PROVE \A l \in Kernels : OneLive(l)' /\ \A d \in Conns : WillAgree(l, d)'
    BY <1>1, <1>4, <1>12, <2>1, <2>2, <2>4, NotedAgrees
  <2>5. AgreeInv'
    BY <1>12, <2>4 DEF AgreeInv
  <2>6. /\ SameElsewhere(k, c) /\ Sock(k, c)' = Sock(k, c) /\ (ProcId(k, c)' <=> ProcId(k, c))
    BY <1>12 DEF SameElsewhere, Sock, Info, ProcId
  <2>7. overlapped' \in BOOLEAN /\ readyProcesses_' \in [Kernels -> Conns \cup {0}]
        /\ handler' \in Handlers
    BY <1>1, <1>12 DEF Types, TypeOK
  <2> QED
    BY <1>4, <1>9, <1>12, <2>1, <2>3, <2>5, <2>6, <2>7
<1> QED
  BY <1>4, <1>10, <1>11, <1>12 DEF Visit, Noted

----------------------------------------------------------------------------
(* A transport that ends, orderly or not *)

(* Its ends of the connections, *)
LEMMA GoneEnds ==
    ASSUME SoundInv, NEW k \in Kernels, Gone(k)
    PROVE  /\ handler' \in Handlers /\ wire' \in Wires
           /\ \A d \in Conns : ConnInv(d)'
           /\ \A d \in Conns : Sock(k, d)' \in {"none", "gone"} /\ ~ProcId(k, d)'
           /\ \A l \in Kernels, d \in Conns : l # k => SameEnd(l, d)
<1>1. /\ handler \in Handlers /\ wire \in Wires /\ opened \in Nat /\ opened' \in Nat
      /\ opened <= opened' /\ \A d \in Conns : ConnInv(d)
  BY TypesParts DEF SoundInv, Gone
<1>2. PICK o \in Kernels : o = Other(k) /\ o # k /\ Other(o) = k /\ \A l \in Kernels : l = k \/ l = o
  BY TwoKernels
<1>3. PICK g : g = [NoHandler EXCEPT !.sock = "gone"]
  OBVIOUS
<1>4. /\ g \in HandlerStates /\ g.sock = "gone" /\ ~g.info /\ ~g.procId
      /\ NoHandler \in HandlerStates /\ NoHandler.sock = "none" /\ ~NoHandler.info
      /\ ~NoHandler.procId
  BY <1>3 DEF NoHandler, HandlerStates, Sockets, Held
<1>5. PICK h : h = [c \in Conns |->
                      IF Sock(k, c) = "none" /\ Sock(o, c) \in {"none", "connecting"}
                      THEN NoHandler ELSE g]
  OBVIOUS
<1>6. handler' = [handler EXCEPT ![k] = h] /\ wire' = [wire EXCEPT ![k] = [c \in Conns |-> <<>>]]
  BY <1>2, <1>3, <1>5 DEF Gone, Sock
<1>7. h \in [Conns -> HandlerStates]
  BY <1>4, <1>5
<1>8. /\ handler' \in Handlers /\ handler'[k] = h
      /\ \A l \in Kernels : l # k => handler'[l] = handler[l]
  <2>1. handler \in Handlers
    BY <1>1
  <2> QED
    BY <1>6, <1>7, <2>1 DEF Handlers
<1>9. /\ wire' \in Wires /\ \A d \in Conns : wire'[k][d] = <<>>
      /\ \A l \in Kernels, d \in Conns : l # k => wire'[l][d] = wire[l][d]
  BY <1>1, <1>6 DEF Wires
<1>10. \A l \in Kernels, d \in Conns : l # k => SameEnd(l, d)
  BY <1>8, <1>9 DEF SameEnd, Sock, Info, ProcId
<1>11. ASSUME NEW d \in Conns
       PROVE  /\ ~Info(k, d)' /\ ~ProcId(k, d)'
              /\ Sock(k, d)' = IF Sock(k, d) = "none" /\ Sock(o, d) \in {"none", "connecting"}
                               THEN "none" ELSE "gone"
  <2>1. handler'[k][d] = IF Sock(k, d) = "none" /\ Sock(o, d) \in {"none", "connecting"}
                         THEN NoHandler ELSE g
    BY <1>5, <1>8
  <2> QED
    BY <1>4, <2>1 DEF Sock, Info, ProcId
<1>12. ASSUME NEW d \in Conns PROVE ConnInv(d)'
  <2>1. ConnInv(d) /\ Beginnings(d)
    BY <1>1 DEF ConnInv
  <2>2. /\ Initiator \in Kernels /\ Acceptor \in Kernels /\ Acceptor # Initiator
        /\ (k = Initiator /\ o = Acceptor) \/ (k = Acceptor /\ o = Initiator)
    BY <1>2, TwoKernels DEF Acceptor
  <2>3. CASE Sock(k, d) = "none" /\ Sock(o, d) \in {"none", "connecting"}
    <3>1. ~Info(k, d) /\ ~ProcId(k, d) /\ wire[k][d] = <<>>
      BY <2>1, <2>2, <2>3 DEF Beginnings
    <3>2. SameEnd(k, d)
      BY <1>9, <1>11, <2>3, <3>1 DEF SameEnd
    <3> QED
      BY <1>1, <1>2, <1>10, <2>1, <3>2, ConnFrame
  <2>4. CASE ~(Sock(k, d) = "none" /\ Sock(o, d) \in {"none", "connecting"})
    <3>1. /\ k = Initiator => Sock(k, d) # "none"
          /\ k = Acceptor => Sock(Initiator, d) \notin {"none", "connecting"}
      BY <2>1, <2>2, <2>4 DEF Beginnings
    <3>2. Sock(k, d)' \in {"aborting", "gone"}
      BY <1>11, <2>4
    <3>3. SameEnd(Other(k), d)
      BY <1>2, <1>10
    <3> QED
      BY <1>1, <2>1, <3>1, <3>2, <3>3, Closes
  <2> QED
    BY <2>3, <2>4
<1>13. \A d \in Conns : Sock(k, d)' \in {"none", "gone"} /\ ~ProcId(k, d)'
  BY <1>11
<1> QED
  BY <1>8, <1>9, <1>10, <1>12, <1>13

(* and all that was known by them. *)
LEMMA GoneKeeps ==
    ASSUME EInv, NEW k \in Kernels, Gone(k), detaching'[k] = 0,
           \A l \in Kernels : l # k => /\ detaching'[l] = detaching[l] /\ up'[l] = up[l]
                                       /\ participants'[l] = participants[l]
    PROVE  /\ \A l \in Kernels : LateInv(l)' /\ KnownInv(l)'
           /\ AgreeInv'
<1>1. /\ SoundInv /\ Types /\ overlapped' = overlapped
      /\ late \in [Kernels -> {<<>>} \cup (Conns \X Messages)]
      /\ readyProcesses_ \in [Kernels -> Conns \cup {0}]
      /\ known \in [Kernels -> SUBSET Participants]
      /\ late' = [late EXCEPT ![k] = <<>>]
      /\ readyProcesses_' = [readyProcesses_ EXCEPT ![k] = 0]
      /\ known' = [known EXCEPT ![k] = {}]
  BY TypesParts DEF EInv, SoundInv, Gone
<1>2. /\ late'[k] = <<>> /\ readyProcesses_'[k] = 0 /\ known'[k] = {}
      /\ \A l \in Kernels : l # k => /\ late'[l] = late[l] /\ known'[l] = known[l]
                                     /\ readyProcesses_'[l] = readyProcesses_[l]
  BY <1>1
<1>3. /\ \A d \in Conns : Sock(k, d)' \in {"none", "gone"} /\ ~ProcId(k, d)'
      /\ \A l \in Kernels, d \in Conns : l # k => SameEnd(l, d)
  BY <1>1, GoneEnds
<1>4. ASSUME NEW l \in Kernels PROVE LateInv(l)' /\ KnownInv(l)'
  <2>1. CASE l = k
    BY <1>2, <1>3, <2>1 DEF LateInv, KnownInv
  <2>2. CASE l # k
    <3>1. SameKernel(l)
      BY <1>2, <1>3, <2>2 DEF SameKernel, SameHandler, SameEnd
    <3> QED
      BY <1>1, <3>1, KernelFrame DEF SoundInv
  <2> QED
    BY <2>1, <2>2
<1>5. ASSUME ~overlapped, NEW l \in Kernels
      PROVE  OneLive(l)' /\ \A d \in Conns : WillAgree(l, d)'
  <2>1. OneLive(l)'
    <3>1. CASE l = k
      BY <1>3, <3>1 DEF OneLive, Live, Held
    <3>2. CASE l # k
      <4>1. OneLive(l)
        BY <1>5 DEF EInv, AgreeInv
      <4>2. \A d \in Conns : Live(l, d)' => Live(l, d)
        BY <1>3, <3>2 DEF Live, Held, SameEnd
      <4> QED
        BY <1>2, <1>3, <3>2, <4>1, <4>2, OneLiveFrame DEF SameEnd
    <3> QED
      BY <3>1, <3>2
  <2>2. ASSUME NEW d \in Conns PROVE WillAgree(l, d)'
    <3>1. l = k \/ Other(l) = k
      BY TwoKernels
    <3>2. Sock(k, d)' # "open"
      BY <1>3
    <3> QED
      BY <3>1, <3>2 DEF WillAgree
  <2> QED
    BY <2>1, <2>2
<1> QED
  BY <1>1, <1>4, <1>5 DEF AgreeInv

(* A kernel that stops or crashes takes its handlers with it. *)
LEMMA StopOrCrashKeeps ==
    ASSUME EInv, NEW k \in Kernels, Stop(k) \/ Crash(k)
    PROVE  EInv'
<1>1. /\ SoundInv /\ Types /\ Gone(k)
      /\ up \in [Kernels -> {"down", "up", "crashed"}]
      /\ detaching \in [Kernels -> Conns \cup {0}]
      /\ participants \in [Kernels -> SUBSET Participants]
  BY TypesParts DEF EInv, SoundInv, Stop, Crash
<1>2. /\ up' = [up EXCEPT ![k] = "down"] \/ up' = [up EXCEPT ![k] = "crashed"]
      /\ participants' = participants \/ participants' = [participants EXCEPT ![k] = {}]
      /\ detaching' = [detaching EXCEPT ![k] = 0]
      /\ UNCHANGED <<track, expiring, broken>>
  <2>1. CASE Stop(k)
    BY <1>1, <2>1 DEF Stop, trackVars, netVars
  <2>2. CASE Crash(k)
    BY <2>2 DEF Crash
  <2> QED
    BY <1>1, <2>1, <2>2
<1>3. /\ detaching'[k] = 0 /\ detaching' \in [Kernels -> Conns \cup {0}]
      /\ up' \in [Kernels -> {"down", "up", "crashed"}]
      /\ participants' \in [Kernels -> SUBSET Participants]
      /\ \A l \in Kernels : l # k => /\ detaching'[l] = detaching[l] /\ up'[l] = up[l]
                                     /\ participants'[l] = participants[l]
  BY <1>1, <1>2
<1>4. /\ \A l \in Kernels : LateInv(l)' /\ KnownInv(l)'
      /\ AgreeInv'
  BY <1>1, <1>3, GoneKeeps
<1>5. handler' \in Handlers /\ wire' \in Wires /\ \A d \in Conns : ConnInv(d)'
  BY <1>1, GoneEnds
<1>6. \A l \in Kernels : IsFiniteSet(participants'[l])
  BY <1>1, <1>2, FS_EmptySet DEF Types
<1>7. faults' \in 0..MaxFaults /\ silent' \subseteq Conns
  <2>1. faults \in 0..MaxFaults /\ MaxFaults \in Nat /\ silent \subseteq Conns
    BY <1>1, EtherAssumption DEF Types, TypeOK, EtherAssumption
  <2>2. CASE Stop(k)
    BY <2>1, <2>2 DEF Stop, netVars
  <2>3. CASE Crash(k)
    BY <2>1, <2>3 DEF Crash
  <2> QED
    BY <2>2, <2>3
<1>8. Types'
  <2>1. handler' \in [Kernels -> [Conns -> [sock : Sockets, info : BOOLEAN, procId : BOOLEAN]]]
    BY <1>5 DEF Handlers, HandlerStates
  <2>2. /\ wire' \in [Kernels -> [Conns -> Seq(Messages)]]
        /\ \A l \in Kernels, d \in Conns : wire'[l][d] \in Seq(Messages)
    BY <1>5 DEF Wires
  <2>3. /\ late' \in [Kernels -> {<<>>} \cup (Conns \X Messages)]
        /\ readyProcesses_' \in [Kernels -> Conns \cup {0}]
        /\ known' \in [Kernels -> SUBSET Participants]
    BY <1>1, TypesParts DEF Gone
  <2>4. \A l \in Kernels : late'[l] \in {<<>>} \cup (Conns \X Messages)
    BY <2>3
  <2> QED
    BY <1>1, <1>2, <1>3, <1>6, <1>7, <2>1, <2>2, <2>3, <2>4 DEF Types, TypeOK, Gone
<1> QED
  BY <1>4, <1>5, <1>8 DEF EInv, SoundInv

(* What was written of a stream is a part of it, from the start. *)
LEMMA WrittenPart ==
    ASSUME NEW w \in Seq(Messages), NEW v \in Beginning(w)
    PROVE  /\ v \in Seq(Messages)
           /\ \A n \in Nat : Continues(n, w) => Continues(n, v)
           /\ w = <<>> => v = <<>>
           /\ w = <<<<"hello">>>> => v \in {<<>>, <<<<"hello">>>>}
<1>1. PICK n \in 0..Len(w) : v = SubSeq(w, 1, n)
  BY DEF Beginning
<1>2. PICK l \in Nat : l = Len(w)
  OBVIOUS
<1>3. v \in Seq(Messages) /\ Len(v) = n /\ \A j \in 1..n : v[j] = w[j]
  BY <1>1
<1>4. ASSUME NEW m \in Nat, Continues(m, w) PROVE Continues(m, v)
  <2>1. ASSUME NEW j \in 1..n PROVE IsNth(m + j, v[j])
    <3>1. j \in 1..Len(w)
      BY <1>1, <1>2
    <3> QED
      BY <1>3, <1>4, <3>1 DEF Continues
  <2> QED
    BY <1>3, <2>1 DEF Continues
<1>5. w = <<>> => v = <<>>
  BY <1>1, <1>3
<1>6. w = <<<<"hello">>>> => v \in {<<>>, <<<<"hello">>>>}
  <2>1. SUFFICES ASSUME w = <<<<"hello">>>> PROVE v = <<>> \/ v = <<<<"hello">>>>
    OBVIOUS
  <2>2. n = 0 \/ n = 1
    BY <1>1, <2>1
  <2>3. w[1] = <<"hello">>
    BY <2>1
  <2>4. CASE n = 0
    <3>1. v = SubSeq(w, 1, 0)
      BY <1>1, <2>4
    <3> QED
      BY <2>1, <3>1
  <2>5. CASE n = 1
    <3>1. v \in Seq(Messages) /\ Len(v) = 1 /\ v[1] = <<"hello">>
      BY <1>3, <2>3, <2>5
    <3>2. v = <<v[1]>>
      BY <3>1
    <3> QED
      BY <3>1, <3>2
  <2> QED
    BY <2>2, <2>4, <2>5
<1> QED
  BY <1>3, <1>4, <1>5, <1>6

(* What a kernel has when its i/o thread ended, *)
LEMMA ThrowLeaves ==
    ASSUME Types, NEW k \in Kernels, NEW c \in Conns, IoThreadEnds(k, c)
    PROVE  /\ handler' \in Handlers /\ wire' \in Wires
           /\ \A d \in Conns :
                /\ Sock(k, d)' = IF Sock(k, d) = "open" THEN "stuck" ELSE Sock(k, d)
                /\ Info(k, d)' <=> Info(k, d) \/ d = c
                /\ ProcId(k, d)' <=> ProcId(k, d)
                /\ SameHandler(Other(k), d)
                /\ wire'[k][d] = wire[k][d]
                /\ wire'[Other(k)][d] \in Beginning(wire[Other(k)][d])
<1>1. PICK o \in Kernels : o = Other(k) /\ o # k /\ \A l \in Kernels : l = k \/ l = o
  BY TwoKernels
<1>2. handler \in Handlers /\ wire \in Wires
  BY TypesParts
<1> DEFINE h(d) == [sock |-> IF Open(k, d) THEN "stuck" ELSE handler[k][d].sock,
                    info |-> handler[k][d].info \/ d = c,
                    procId |-> handler[k][d].procId]
           g == [d \in Conns |-> h(d)]
<1>3. handler' = [handler EXCEPT ![k] = g]
  BY DEF IoThreadEnds
<1>4. \A d \in Conns : h(d) \in HandlerStates
  <2> SUFFICES ASSUME NEW d \in Conns PROVE h(d) \in HandlerStates
    OBVIOUS
  <2>1. handler[k][d] \in HandlerStates
    BY <1>2 DEF Handlers
  <2> QED
    BY <2>1 DEF HandlerStates, Sockets
<1>5. \A d \in Conns : /\ h(d).sock = IF Sock(k, d) = "open" THEN "stuck" ELSE Sock(k, d)
                       /\ h(d).info <=> Info(k, d) \/ d = c
                       /\ h(d).procId <=> ProcId(k, d)
  BY DEF Open, Sock, Info, ProcId
<1> HIDE DEF h
<1>6. g \in [Conns -> HandlerStates] /\ \A d \in Conns : g[d] = h(d)
  BY <1>4
<1> HIDE DEF g
<1>7. /\ handler' \in Handlers /\ handler'[k] = g
      /\ handler'[o] = handler[o]
  BY <1>1, <1>2, <1>3, <1>6 DEF Handlers
<1>8. ASSUME NEW d \in Conns
      PROVE  /\ Sock(k, d)' = IF Sock(k, d) = "open" THEN "stuck" ELSE Sock(k, d)
             /\ Info(k, d)' <=> Info(k, d) \/ d = c
             /\ ProcId(k, d)' <=> ProcId(k, d)
             /\ SameHandler(o, d)
  <2>1. handler'[k][d] = h(d) /\ handler'[o][d] = handler[o][d]
    BY <1>6, <1>7
  <2>2. /\ Sock(k, d)' = h(d).sock /\ Info(k, d)' = h(d).info /\ ProcId(k, d)' = h(d).procId
    BY <2>1 DEF Sock, Info, ProcId
  <2>3. SameHandler(o, d)
    BY <2>1 DEF SameHandler, Sock, Info, ProcId
  <2> QED
    BY <1>5, <2>2, <2>3
<1>9. PICK written \in Cut(wire[o]) : wire' = [wire EXCEPT ![o] = written]
  BY <1>1 DEF IoThreadEnds
<1>10. \A d \in Conns : wire[o][d] \in Seq(Messages)
  BY <1>2 DEF Wires
<1>11. ASSUME NEW d \in Conns
       PROVE  written[d] \in Beginning(wire[o][d]) /\ written[d] \in Seq(Messages)
  <2>1. written[d] \in Beginning(wire[o][d])
    BY <1>9 DEF Cut
  <2>2. PICK w \in Seq(Messages) : w = wire[o][d]
    BY <1>10
  <2> QED
    BY <2>1, <2>2, WrittenPart
<1>12. DOMAIN written = Conns /\ written = [d \in Conns |-> written[d]]
  BY <1>9 DEF Cut
<1>13. written \in [Conns -> Seq(Messages)]
  BY <1>11, <1>12
<1>14. wire' \in Wires /\ wire'[k] = wire[k] /\ wire'[o] = written
  BY <1>1, <1>2, <1>9, <1>13 DEF Wires
<1> QED
  BY <1>1, <1>7, <1>8, <1>11, <1>14

(* and what is said of its connections. *)
LEMMA ThrowEnds ==
    ASSUME Types, NEW k \in Kernels, NEW c \in Conns, IoThreadEnds(k, c),
           Sock(k, c) \in {"open", "aborting"}, NEW d \in Conns, ConnInv(d)
    PROVE  ConnInv(d)'
<1>1. PICK o \in Kernels : o = Other(k) /\ o # k /\ Other(o) = k /\ \A l \in Kernels : l = k \/ l = o
  BY TwoKernels
<1>2. /\ wire \in Wires /\ wire' \in Wires
      /\ Sock(k, d)' = IF Sock(k, d) = "open" THEN "stuck" ELSE Sock(k, d)
      /\ Info(k, d)' <=> Info(k, d) \/ d = c
      /\ ProcId(k, d)' <=> ProcId(k, d)
      /\ SameHandler(o, d)
      /\ wire'[k][d] = wire[k][d]
      /\ wire'[o][d] \in Beginning(wire[o][d])
  BY <1>1, ThrowLeaves, TypesParts
<1>3. opened' = opened
  BY DEF IoThreadEnds
<1>4. PICK w \in Seq(Messages) : w = wire[o][d]
  BY <1>2 DEF Wires
<1>5. PICK v \in Beginning(w) : v = wire'[o][d]
  BY <1>2, <1>4
<1>6. /\ \A n \in Nat : Continues(n, w) => Continues(n, v)
      /\ w = <<>> => v = <<>>
      /\ w = <<<<"hello">>>> => v \in {<<>>, <<<<"hello">>>>}
  BY <1>4, <1>5, WrittenPart
<1>7. Sock(k, d)' # "open" /\ InOrder(k, d)'
  BY <1>2 DEF InOrder
<1>8. InOrder(o, d)'
  <2>1. HasRead(o, d)' = HasRead(o, d) /\ HasRead(o, d) \in Nat
    BY <1>2, SameRead, ReadSoFar DEF SameHandler
  <2>2. InOrder(o, d)
    BY DEF ConnInv
  <2>3. Sock(o, d)' = "open" =>
          /\ ProcId(o, d)' => Info(o, d)'
          /\ Continues(HasRead(o, d), v)
    BY <1>2, <1>4, <1>6, <2>1, <2>2 DEF InOrder, SameHandler
  <2> QED
    BY <1>1, <1>5, <1>7, <2>1, <2>3 DEF InOrder
<1>9. Beginnings(d)'
  <2>1. Beginnings(d)
    BY DEF ConnInv
  <2>2. (k = Initiator /\ o = Acceptor) \/ (k = Acceptor /\ o = Initiator)
    BY <1>1, TwoKernels DEF Acceptor
  <2>3. /\ Sock(k, d)' \in {"none", "connecting"} => Sock(k, d)' = Sock(k, d) /\ d # c
        /\ Sock(k, d) \in {"none", "connecting"} => Sock(k, d)' = Sock(k, d) /\ d # c
        /\ Sock(o, d)' = Sock(o, d) /\ (Info(o, d)' <=> Info(o, d))
        /\ (ProcId(o, d)' <=> ProcId(o, d))
    BY <1>2 DEF SameHandler
  <2>4. /\ Sock(Acceptor, d)' # "connecting"
        /\ d > opened' => Sock(Initiator, d)' = "none"
        /\ \A l \in Kernels : Sock(l, d)' \in {"none", "connecting"} => ~Info(l, d)' /\ ~ProcId(l, d)'
    BY <1>1, <1>2, <1>3, <2>1, <2>2, <2>3 DEF Beginnings
  <2>5. CASE k = Initiator /\ o = Acceptor
    BY <1>2, <1>4, <1>5, <1>6, <1>7, <2>1, <2>3, <2>4, <2>5 DEF Beginnings
  <2>6. CASE k = Acceptor /\ o = Initiator
    BY <1>2, <1>4, <1>5, <1>6, <1>7, <2>1, <2>3, <2>4, <2>6 DEF Beginnings
  <2> QED
    BY <2>2, <2>5, <2>6
<1> QED
  BY <1>1, <1>7, <1>8, <1>9 DEF ConnInv

(* A Hello that throws leaves the handlers as they are, without a thread. *)
LEMMA ThrowKeeps ==
    ASSUME EInv, NEW k \in Kernels, NEW c \in Conns, HelloThrows(k, c)
    PROVE  EInv'
<1>1. /\ SoundInv /\ Types /\ IoThreadEnds(k, c)
      /\ late \in [Kernels -> {<<>>} \cup (Conns \X Messages)]
      /\ \A l \in Kernels : LateInv(l) /\ KnownInv(l)
  BY TypesParts DEF EInv, SoundInv, HelloThrows
<1>2. Sock(k, c) \in {"open", "aborting"}
  <2>1. CASE CanRead(k, c)
    BY <2>1 DEF CanRead, Open, Sock
  <2>2. CASE late[k] = <<c, <<"hello">>>>
    <3>1. late[k] # <<>> /\ late[k][1] = c
      BY <2>2
    <3> QED
      BY <1>1, <3>1 DEF LateInv
  <2> QED
    BY <2>1, <2>2 DEF HelloThrows
<1>3. PICK o \in Kernels : o = Other(k) /\ o # k /\ Other(o) = k /\ \A l \in Kernels : l = k \/ l = o
  BY TwoKernels
<1>4. /\ handler' \in Handlers /\ wire' \in Wires
      /\ \A d \in Conns :
           /\ Sock(k, d)' = IF Sock(k, d) = "open" THEN "stuck" ELSE Sock(k, d)
           /\ ProcId(k, d)' <=> ProcId(k, d)
           /\ SameHandler(o, d)
  BY <1>1, <1>3, ThrowLeaves
<1>5. \A d \in Conns : ConnInv(d)'
  BY <1>1, <1>2, ThrowEnds DEF SoundInv
<1>6. /\ late' = [late EXCEPT ![k] = <<>>] /\ up' = up /\ detaching' = detaching
      /\ readyProcesses_' = readyProcesses_ /\ known' = known /\ overlapped' = overlapped
      /\ participants' = participants /\ ioEnded' = ioEnded \cup {k}
  BY <1>1 DEF IoThreadEnds, localVars, trackVars, stateVars
<1>7. late'[k] = <<>> /\ late'[o] = late[o]
  BY <1>1, <1>3, <1>6
<1>8. LateInv(o)' /\ KnownInv(o)'
  <2>1. SameKernel(o)
    BY <1>3, <1>4, <1>6, <1>7 DEF SameKernel
  <2> QED
    BY <1>1, <2>1, KernelFrame
<1>9. LateInv(k)' /\ KnownInv(k)'
  <2>1. LateInv(k)'
    BY <1>7 DEF LateInv
  <2>2. PICK r, d : /\ r = readyProcesses_[k] /\ d = detaching[k]
                    /\ r \in Conns \cup {0} /\ d \in Conns \cup {0}
    BY <1>1, TypesParts
  <2>3. \A e \in Conns : Counts(k, e) => Counts(k, e)'
    BY <1>4 DEF Counts, Held
  <2>4. readyProcesses_'[k] = r /\ detaching'[k] = d /\ known'[k] = known[k]
    BY <1>6, <2>2
  <2>5. readyProcesses_'[k] # 0 => (Counts(k, r) => Counts(k, r)')
    BY <2>2, <2>3, <2>4
  <2>6. Sock(k, d) \in {"aborting", "gone"} /\ d # 0 => Sock(k, d)' \in {"aborting", "gone"}
    BY <1>4, <2>2
  <2>7. \A e \in Conns : Sock(k, e)' # "open"
    BY <1>4
  <2>8. KnownInv(k)'
    BY <1>1, <2>2, <2>3, <2>4, <2>5, <2>6, <2>7, KnownFrame
  <2> QED
    BY <2>1, <2>8
<1>10. AgreeInv'
  <2> SUFFICES ASSUME ~overlapped, NEW l \in Kernels
               PROVE  OneLive(l)' /\ \A d \in Conns : WillAgree(l, d)'
    BY <1>6 DEF AgreeInv
  <2>1. OneLive(l)
    BY DEF EInv, AgreeInv
  <2>2. \A d \in Conns : Live(l, d)' => Live(l, d)
    BY <1>3, <1>4, <1>6 DEF Live, Held, SameHandler
  <2>3. \A d \in Conns : Sock(l, d)' = "open" /\ ProcId(l, d)'
          => Sock(l, d) = "open" /\ ProcId(l, d) /\ readyProcesses_'[l] = readyProcesses_[l]
    BY <1>3, <1>4, <1>6 DEF SameHandler
  <2>4. OneLive(l)'
    BY <2>1, <2>2, <2>3, OneLiveFrame
  <2>5. ASSUME NEW d \in Conns PROVE WillAgree(l, d)'
    <3>1. (l = k \/ Other(l) = k) /\ Sock(k, d)' # "open"
      BY <1>3, <1>4
    <3> QED
      BY <3>1 DEF WillAgree
  <2> QED
    BY <2>4, <2>5
<1>11. Types'
  <2>1. handler' \in [Kernels -> [Conns -> [sock : Sockets, info : BOOLEAN, procId : BOOLEAN]]]
    BY <1>4 DEF Handlers, HandlerStates
  <2>2. /\ wire' \in [Kernels -> [Conns -> Seq(Messages)]]
        /\ \A l \in Kernels, d \in Conns : wire'[l][d] \in Seq(Messages)
    BY <1>4 DEF Wires
  <2>3. /\ late' \in [Kernels -> {<<>>} \cup (Conns \X Messages)]
        /\ \A l \in Kernels : late'[l] \in {<<>>} \cup (Conns \X Messages)
    BY <1>1, <1>6
  <2>4. ioEnded' \subseteq Kernels
    BY <1>1, <1>6 DEF Types, TypeOK
  <2> QED
    BY <1>1, <2>1, <2>2, <2>3, <2>4
    DEF Types, TypeOK, IoThreadEnds, localVars, trackVars, netVars, stateVars
<1> QED
  BY <1>3, <1>5, <1>8, <1>9, <1>10, <1>11 DEF EInv, SoundInv

----------------------------------------------------------------------------

(* The invariant is inductive. *)
LEMMA EtherInduction == EInv /\ [Next]_vars => EInv'
<1> SUFFICES ASSUME EInv, [Next]_vars PROVE EInv'
  OBVIOUS
<1>1. ASSUME NEW k \in Kernels, Discovery(k) PROVE EInv'
  BY <1>1, BeamKeeps, TimerKeeps, ExpiryKeeps, ExpiryInHelloKeeps, LostBeamKeeps DEF Discovery
<1>2. ASSUME NEW k \in Kernels, Io(k) PROVE EInv'
  BY <1>2, ReadKeeps, IoEndKeeps, LateKeeps, ThrowKeeps DEF Io
<1>3. ASSUME NEW k \in Kernels, Session(k) PROVE EInv'
  BY <1>3, StartKeeps, StopOrCrashKeeps, ParticipantKeeps DEF Session
<1>4. ASSUME NEW k \in Kernels, Crash(k) PROVE EInv'
  BY <1>4, StopOrCrashKeeps
<1>5. ASSUME NEW c \in Conns, Connection(c) \/ Break(c) PROVE EInv'
  BY <1>5, ConnectedKeeps, ConnectFailsKeeps, AcceptedKeeps, BreakKeeps DEF Connection
<1>6. CASE UNCHANGED vars
  BY <1>6, StutterKeeps
<1> QED
  BY <1>1, <1>2, <1>3, <1>4, <1>5, <1>6 DEF Next

(* The invariant holds of every behaviour. *)
LEMMA EtherInvariant == Spec => []EInv
BY InitHolds, EtherInduction, PTL DEF Spec

(* What a kernel knows of the other at any moment: a participant is announced only after the     *)
(* Ready that says whose it is, and when no ready connection is left nobody is known and nobody  *)
(* is announced to, whatever the discovery thread, the i/o thread and the network did meanwhile  *)
(* (process_handler.cpp:200-212, 312-350, 454-461, 639-650).                                     *)
THEOREM ConnectionsStaySound == Spec => []ConnectionsAreSound
<1>1. ASSUME SoundInv, NEW k \in Kernels, NEW c \in Conns, Open(k, c), wire[k][c] # <<>>,
             Head(wire[k][c])[1] \in {"joined", "left"}
      PROVE  handler[k][c].procId
  <2>1. Sock(k, c) = "open" /\ wire \in Wires /\ InOrder(k, c)
    BY <1>1, TypesParts DEF SoundInv, ConnInv, Open, Sock
  <2>2. PICK m \in Messages : m = Head(wire[k][c])
    BY <1>1, <2>1, TakenFrom
  <2>3. m \in Announcements
    BY <1>1, <2>2, MessageKinds
  <2>4. ProcId(k, c)
    BY <1>1, <2>1, <2>2, <2>3, NewsAreKnown
  <2> QED
    BY <2>4 DEF ProcId
<1>2. ASSUME SoundInv, NEW k \in Kernels,
             \A c \in Conns : handler[k][c].procId
                                => handler[k][c].sock \notin Held
      PROVE  known[k] = {} /\ readyProcesses_[k] = 0
  <2>1. \A c \in Conns : ~Counts(k, c)
    BY <1>2 DEF Counts, Held, ProcId, Sock
  <2>2. KnownInv(k) /\ readyProcesses_[k] \in Conns \cup {0}
    BY <1>2, TypesParts DEF SoundInv
  <2> QED
    BY <2>1, <2>2 DEF KnownInv
<1>3. EInv => ConnectionsAreSound
  BY <1>1, <1>2 DEF EInv, SoundInv, Types, ConnectionsAreSound, AnnouncedByKnown, NoGhosts, Held
<1> QED
  BY <1>3, EtherInvariant, PTL

(* Two kernels that are connected and have read what was announced know exactly each other's     *)
(* participants, unless a connection became ready before the one it replaces was all gone        *)
(* (ether_transport.cpp:468-573, process_handler.cpp:322-350).                                   *)
THEOREM ParticipantsStayAgreed == Spec => []ParticipantsAgree
<1>1. ASSUME EInv, ~overlapped, Settled, NEW c \in Conns, Joined(c), NEW k \in Kernels
      PROVE  known[k] = participants[Other(k)]
  <2>1. Other(k) \in Kernels
    BY TwoKernels
  <2>2. /\ Sock(k, c) = "open" /\ ProcId(k, c)
        /\ Sock(Other(k), c) = "open" /\ ProcId(Other(k), c)
    BY <1>1, <2>1 DEF Joined, Open, Sock, ProcId
  <2>3. wire[k][c] = <<>>
    BY <1>1, <2>2 DEF Settled, Open, Sock
  <2>4. WillAgree(k, c)
    BY <1>1 DEF EInv, AgreeInv
  <2>5. ASSUME NEW p \in Participants PROVE p \in known[k] <=> p \in participants[Other(k)]
    <3>1. Mute(<<>>, p) /\ ~JoinsLast(<<>>, p)
      BY DEF Mute, Final, JoinsLast
    <3>2. WillKnow(k, c, p) <=> p \in known[k]
      BY <2>2, <2>3, <3>1 DEF WillKnow
    <3> QED
      BY <2>2, <2>4, <3>2 DEF WillAgree
  <2>6. known[k] \subseteq Participants /\ participants[Other(k)] \subseteq Participants
    BY <1>1, <2>1, TypesParts DEF EInv, SoundInv
  <2> QED
    BY <2>5, <2>6
<1>2. EInv => ParticipantsAgree
  BY <1>1 DEF ParticipantsAgree
<1> QED
  BY <1>2, EtherInvariant, PTL

=============================================================================
