------------------------- MODULE SessionBusesProofs -------------------------
(***************************************************************************)
(* Proofs about SessionBuses for any remote and local participants, buses, *)
(* workers and sizes of a bulk: what the locals hold and listen to, what   *)
(* the providers are told, the order of the messages, and that a remote is *)
(* known exactly if the transport last said so.                            *)
(***************************************************************************)
EXTENDS SessionBuses, TLAPS, FiniteSetTheorems, SequenceTheorems

(* The work that waits in the queue, what a worker has taken, and both. *)
ElemsOf(s) == {s[i] : i \in 1..Len(s)}
Queued == ElemsOf(queue)
Taken(w) == ElemsOf(bulk[w])
Outstanding == Queued \cup UNION {Taken(w) : w \in Workers}

Ascending(s) == \A i, j \in 1..Len(s) : i < j => s[i].n < s[j].n

(* The work is numbered in the order it was reported; what was taken came before what waits. *)
QueueInv ==
    /\ Ascending(queue) /\ \A w \in Workers : Ascending(bulk[w])
    /\ \A x \in Outstanding : x.n <= events
    /\ \A w \in Workers : \A x \in Taken(w) : \A y \in Queued : x.n < y.n
    /\ \A v, w \in Workers : v # w => \A x \in Taken(v) : \A y \in Taken(w) : x # y

(* Only one worker has work of a remote that was never split. *)
Alone ==
    \A r \in Remotes \ split : \A v, w \in Workers : \A x \in Taken(v) : \A y \in Taken(w) :
        x.of = r /\ y.of = r => v = w

(* What was handed to a remote that was never split came before all that is still to be run. *)
GotInv ==
    \A r \in Remotes \ split :
        /\ Ascending(got[r])
        /\ \A i \in 1..Len(got[r]) :
               got[r][i].n <= events /\ \A x \in Outstanding : x.of = r => got[r][i].n < x.n

(* Every participant that was made, or that waits to be, had a join of its own. *)
JoinsOf(r) == {x \in Outstanding : x.kind = "joined" /\ x.of = r}
Waits(r) == IF r \in detectedPendingRemotes_[BusOf[r]] THEN 1 ELSE 0
CountInv ==
    \A r \in Remotes :
        IsFiniteSet(JoinsOf(r)) /\ made[r] + Waits(r) + Cardinality(JoinsOf(r)) <= events

(* Who waits, waits for a bus that is not open; who is on a bus, is on an open one. *)
Placed ==
    /\ \A b \in Buses \ buses_ : remotes_[b] = {}
    /\ \A b \in buses_ : detectedPendingRemotes_[b] = {}
    /\ \A b \in Buses : \A i \in remotes_[b] : BusOf[i[1]] = b
    /\ \A b \in Buses : \A r \in detectedPendingRemotes_[b] : BusOf[r] = b
    /\ \A l \in attached : BusOf[l] \in buses_

(* An address has one participant on a bus, and a new one is told from those that are gone. *)
Single ==
    /\ \A b \in Buses : \A i, j \in remotes_[b] : i[1] = j[1] => i = j
    /\ \A b \in Buses : \A i \in remotes_[b] : i[2] <= made[i[1]]
    /\ \A i \in Leaving \cup destroying :
           i[2] <= made[i[1]] /\ \A b \in Buses : i \notin remotes_[b]
    /\ \A i \in Joining : i \in remotes_[BusOf[i[1]]]

(* A local participant holds the remotes of its bus but the ones that are joining. *)
HoldsInv ==
    \A l \in attached :
        /\ remotes_[BusOf[l]] \ Joining \subseteq participants_[l]
        /\ participants_[l] \subseteq remotes_[BusOf[l]] \cup Leaving \cup destroying

(* A manager listens to who is joining before it is held, unless it was stored meanwhile. *)
ListenInv ==
    /\ \A l \in Locals \ attached : subscribed[l] = "no"
    /\ \A l \in attached : subscribed[l] # "no" =>
           \A i \in Joining : BusOf[i[1]] = BusOf[l] => i \in listening[l] \cup between

(* The last join or leave that is to be run says what the transport said. *)
SaysOf(r) == {x \in Outstanding : x.kind \in {"joined", "left"} /\ x.of = r}
Verdict ==
    \A r \in Remotes \ (split \cup overtaken) :
        /\ SaysOf(r) = {} => (r \in Known <=> r \in there)
        /\ \A x \in SaysOf(r) :
               (\A y \in SaysOf(r) : y.n <= x.n) => (x.kind = "joined" <=> r \in there)

(* What a work can do once it is run: a remote waits for its bus or does so no more, a participant *)
(* is made or begins to go, or nothing changes but what was handed on.                            *)
BeginsToWait(r) ==
    /\ BusOf[r] \notin buses_
    /\ detectedPendingRemotes_' = [detectedPendingRemotes_ EXCEPT ![BusOf[r]] = @ \cup {r}]
    /\ NotifySourceAdded(BusOf[r])
    /\ UNCHANGED <<doing, remotes_, made, listening, got>>
IsMade(w, r) ==
    /\ BusOf[r] \in buses_ /\ Present(r) = {}
    /\ made' = [made EXCEPT ![r] = @ + 1]
    /\ remotes_' = [remotes_ EXCEPT ![BusOf[r]] = @ \cup {<<r, made[r] + 1>>}]
    /\ doing' = [doing EXCEPT ![w] = <<"joining", <<r, made[r] + 1>>>>]
    /\ listening' = [l \in Locals |-> IF l \in On(BusOf[r]) /\ subscribed[l] # "no"
                                      THEN listening[l] \cup {<<r, made[r] + 1>>}
                                      ELSE listening[l]]
    /\ UNCHANGED <<detectedPendingRemotes_, providerVars, got>>
WaitsNoMore(r) ==
    /\ BusOf[r] \notin buses_
    /\ LET waiting == detectedPendingRemotes_[BusOf[r]] \ {r}
       IN /\ detectedPendingRemotes_' = [detectedPendingRemotes_ EXCEPT ![BusOf[r]] = waiting]
          /\ IF waiting = {} /\ detectedPendingRemotes_[BusOf[r]] # {}
             THEN NotifySourceRemoved(BusOf[r]) ELSE UNCHANGED providerVars
    /\ UNCHANGED <<doing, remotes_, made, listening, got>>
BeginsToGo(w, r, i) ==
    /\ BusOf[r] \in buses_ /\ Present(r) = {i}
    /\ remotes_' = [remotes_ EXCEPT ![BusOf[r]] = @ \ {i}]
    /\ doing' = [doing EXCEPT ![w] = <<"leaving", i>>]
    /\ UNCHANGED <<detectedPendingRemotes_, providerVars, made, listening, got>>
ChangesNothing(work) ==
    /\ work.kind = "joined" => Present(work.of) # {}
    /\ work.kind = "left" => BusOf[work.of] \in buses_ /\ Present(work.of) = {}
    /\ got' \in {got, [got EXCEPT ![work.of] = Append(@, work)]}
    /\ UNCHANGED <<doing, remotes_, detectedPendingRemotes_, providerVars, made, listening>>

(* What the invariants need of each other. *)
BusInv == Placed /\ Single /\ HoldsInv /\ ListenInv /\ SubscribersListen
WorkInv == QueueInv /\ Alone /\ GotInv /\ CountInv /\ Verdict
Inv == TypeOK /\ BusInv /\ WorkInv /\ ProvidersAreTold

-----------------------------------------------------------------------------
(* The parts of a work. *)
LEMMA WorkParts ==
    ASSUME NEW x \in Works
    PROVE  x.kind \in Kinds /\ x.of \in Remotes /\ x.n \in 1..MaxEvents /\ x.n \in Nat
BY BusesAssumption DEF Works

(* Work that is queued comes last. *)
LEMMA AppendElems ==
    ASSUME NEW s \in Seq(Works), NEW x \in Works
    PROVE  /\ Append(s, x) \in Seq(Works)
           /\ ElemsOf(Append(s, x)) = ElemsOf(s) \cup {x}
           /\ Ascending(s) /\ (\A y \in ElemsOf(s) : y.n < x.n) => Ascending(Append(s, x))
<1>1. /\ Append(s, x) \in Seq(Works) /\ Len(Append(s, x)) = Len(s) + 1 /\ Len(s) \in Nat
      /\ \A i \in 1..Len(s) : Append(s, x)[i] = s[i]
      /\ Append(s, x)[Len(s) + 1] = x
  OBVIOUS
<1>2. ElemsOf(Append(s, x)) = ElemsOf(s) \cup {x}
  <2>1. ASSUME NEW y \in ElemsOf(Append(s, x)) PROVE y \in ElemsOf(s) \cup {x}
    BY <1>1 DEF ElemsOf
  <2>2. ASSUME NEW y \in ElemsOf(s) PROVE y \in ElemsOf(Append(s, x))
    <3>1. PICK i \in 1..Len(s) : y = s[i]
      BY DEF ElemsOf
    <3>2. i \in 1..Len(Append(s, x)) /\ Append(s, x)[i] = y
      BY <1>1, <3>1
    <3> QED
      BY <3>2 DEF ElemsOf
  <2>3. x \in ElemsOf(Append(s, x))
    <3>1. Len(s) + 1 \in 1..Len(Append(s, x))
      BY <1>1
    <3> QED
      BY <1>1, <3>1 DEF ElemsOf
  <2> QED
    BY <2>1, <2>2, <2>3
<1>3. ASSUME Ascending(s), \A y \in ElemsOf(s) : y.n < x.n PROVE Ascending(Append(s, x))
  BY <1>1, <1>3 DEF Ascending, ElemsOf
<1> QED
  BY <1>1, <1>2, <1>3

(* Taking the first of a sequence leaves the others. *)
LEMMA TailElems ==
    ASSUME NEW s \in Seq(Works), s # <<>>, Ascending(s)
    PROVE  /\ Head(s) \in Works /\ Head(s) \in ElemsOf(s)
           /\ Tail(s) \in Seq(Works) /\ Len(Tail(s)) = Len(s) - 1
           /\ ElemsOf(Tail(s)) = ElemsOf(s) \ {Head(s)}
           /\ Ascending(Tail(s))
           /\ \A y \in ElemsOf(Tail(s)) : Head(s).n < y.n
<1>1. /\ Len(s) \in Nat /\ Len(s) > 0 /\ Head(s) = s[1] /\ Tail(s) \in Seq(Works)
      /\ Len(Tail(s)) = Len(s) - 1
      /\ \A i \in 1..(Len(s) - 1) : Tail(s)[i] = s[i + 1]
  OBVIOUS
<1>2. \A i \in 1..Len(s) : s[i] \in Works /\ s[i].n \in 1..MaxEvents /\ s[i].n \in Nat
  BY WorkParts
<1>3. \A y \in ElemsOf(Tail(s)) : \E i \in 2..Len(s) : y = s[i]
  BY <1>1 DEF ElemsOf
<1>4. \A y \in ElemsOf(Tail(s)) : Head(s).n < y.n
  BY <1>1, <1>2, <1>3 DEF Ascending
<1>5. ElemsOf(Tail(s)) = ElemsOf(s) \ {Head(s)}
  <2>1. ASSUME NEW y \in ElemsOf(Tail(s)) PROVE y \in ElemsOf(s) /\ y # Head(s)
    <3>1. y \in ElemsOf(s)
      BY <1>1, <1>3 DEF ElemsOf
    <3>2. Head(s).n < y.n /\ Head(s).n \in 1..MaxEvents
      BY <1>1, <1>2, <1>4
    <3> QED
      BY <3>1, <3>2, BusesAssumption
  <2>2. ASSUME NEW y \in ElemsOf(s), y # Head(s) PROVE y \in ElemsOf(Tail(s))
    <3>1. PICK i \in 1..Len(s) : y = s[i]
      BY DEF ElemsOf
    <3>2. i # 1
      BY <2>2, <3>1, <1>1
    <3>3. (i - 1) \in 1..Len(Tail(s)) /\ Tail(s)[i - 1] = y
      BY <1>1, <3>1, <3>2
    <3> QED
      BY <3>3 DEF ElemsOf
  <2> QED
    BY <2>1, <2>2
<1>6. Ascending(Tail(s))
  BY <1>1, <1>2 DEF Ascending
<1>7. Head(s) \in Works /\ Head(s) \in ElemsOf(s)
  BY <1>1, <1>2 DEF ElemsOf
<1> QED
  BY <1>1, <1>4, <1>5, <1>6, <1>7

(* A bulk is the beginning of the queue, and what is left comes after it. *)
LEMMA CutElems ==
    ASSUME NEW s \in Seq(Works), Ascending(s), NEW n \in 0..Len(s)
    PROVE  LET a == SubSeq(s, 1, n)
               b == SubSeq(s, n + 1, Len(s))
           IN /\ a \in Seq(Works) /\ b \in Seq(Works) /\ Len(a) = n
              /\ ElemsOf(a) \cup ElemsOf(b) = ElemsOf(s)
              /\ Ascending(a) /\ Ascending(b)
              /\ \A x \in ElemsOf(a) : \A y \in ElemsOf(b) : x.n < y.n
<1> DEFINE a == SubSeq(s, 1, n)
           b == SubSeq(s, n + 1, Len(s))
<1>1. /\ Len(s) \in Nat /\ n \in Nat /\ n <= Len(s)
      /\ \A i \in 1..Len(s) : s[i] \in Works /\ s[i].n \in 1..MaxEvents /\ s[i].n \in Nat
  BY WorkParts
<1>2. /\ a \in Seq(Works) /\ Len(a) = n /\ \A i \in 1..n : a[i] = s[i]
  BY <1>1
<1>3. /\ b \in Seq(Works) /\ Len(b) = Len(s) - n
      /\ \A i \in 1..(Len(s) - n) : b[i] = s[n + i]
  BY <1>1
<1> HIDE DEF a, b
<1>4. ElemsOf(a) \cup ElemsOf(b) = ElemsOf(s)
  <2>1. ASSUME NEW y \in ElemsOf(a) PROVE y \in ElemsOf(s)
    BY <1>1, <1>2 DEF ElemsOf
  <2>2. ASSUME NEW y \in ElemsOf(b) PROVE y \in ElemsOf(s)
    <3>1. PICK i \in 1..Len(b) : y = b[i]
      BY DEF ElemsOf
    <3>2. n + i \in 1..Len(s) /\ y = s[n + i]
      BY <1>1, <1>3, <3>1
    <3> QED
      BY <3>2 DEF ElemsOf
  <2>3. ASSUME NEW y \in ElemsOf(s) PROVE y \in ElemsOf(a) \cup ElemsOf(b)
    <3>1. PICK i \in 1..Len(s) : y = s[i]
      BY DEF ElemsOf
    <3>2. CASE i <= n
      <4>1. i \in 1..Len(a) /\ a[i] = y
        BY <1>1, <1>2, <3>1, <3>2
      <4> QED
        BY <4>1 DEF ElemsOf
    <3>3. CASE ~(i <= n)
      <4>1. i - n \in 1..Len(b) /\ b[i - n] = y
        BY <1>1, <1>3, <3>1, <3>3
      <4> QED
        BY <4>1 DEF ElemsOf
    <3> QED
      BY <3>2, <3>3
  <2> QED
    BY <2>1, <2>2, <2>3
<1>5. Ascending(a) /\ Ascending(b)
  <2>1. Ascending(a)
    BY <1>1, <1>2 DEF Ascending
  <2>2. ASSUME NEW i \in 1..Len(b), NEW j \in 1..Len(b), i < j PROVE b[i].n < b[j].n
    <3>1. /\ n + i \in 1..Len(s) /\ n + j \in 1..Len(s) /\ n + i < n + j
          /\ b[i] = s[n + i] /\ b[j] = s[n + j]
      BY <1>1, <1>3, <2>2
    <3> QED
      BY <3>1 DEF Ascending
  <2> QED
    BY <2>1, <2>2 DEF Ascending
<1>6. ASSUME NEW x \in ElemsOf(a), NEW y \in ElemsOf(b) PROVE x.n < y.n
  <2>1. PICK i \in 1..n : x = s[i]
    BY <1>2 DEF ElemsOf
  <2>2. PICK j \in 1..(Len(s) - n) : y = s[n + j]
    BY <1>3 DEF ElemsOf
  <2> QED
    BY <1>1, <2>1, <2>2 DEF Ascending
<1>7. /\ a \in Seq(Works) /\ b \in Seq(Works) /\ Len(a) = n
      /\ ElemsOf(a) \cup ElemsOf(b) = ElemsOf(s)
      /\ Ascending(a) /\ Ascending(b)
      /\ \A x \in ElemsOf(a) : \A y \in ElemsOf(b) : x.n < y.n
  BY <1>2, <1>3, <1>4, <1>5, <1>6
<1> QED
  BY <1>7 DEF a, b

(* A bulk is never longer than the worker's storage or the queue. *)
LEMMA BulkFits ==
    ASSUME queue \in Seq(Works)
    PROVE  InOneGo \in 0..Len(queue) /\ InOneGo <= BulkSize
<1>1. BulkSize \in Nat /\ Len(queue) \in Nat
  BY BusesAssumption
<1>2. \E m \in {BulkSize, Len(queue)} : \A k \in {BulkSize, Len(queue)} : m <= k
  BY <1>1
<1>3. /\ InOneGo \in {BulkSize, Len(queue)}
      /\ \A k \in {BulkSize, Len(queue)} : InOneGo <= k
  BY <1>2 DEF InOneGo, Min
<1> QED
  BY <1>1, <1>3

-----------------------------------------------------------------------------
(* What a worker is in the middle of. *)
LEMMA DoingParts ==
    ASSUME TypeOK, NEW w \in Workers
    PROVE  /\ doing[w] = Idle \/ (doing[w][1] \in {"joining", "leaving"} /\ doing[w][2] \in Instances)
           /\ doing[w] = Idle => doing[w][1] = "idle"
           /\ doing[w][1] = "joining" => doing[w] # Idle /\ doing[w][2] \in Joining
           /\ doing[w][1] = "leaving" => doing[w] # Idle /\ doing[w][2] \in Leaving
<1>1. doing[w] \in {Idle} \cup ({"joining", "leaving"} \X Instances)
  BY DEF TypeOK
<1>2. Idle[1] = "idle"
  BY DEF Idle
<1> QED
  BY <1>1, <1>2 DEF Joining, Leaving

(* Who joins and who leaves is an instance. *)
LEMMA GoingParts ==
    ASSUME TypeOK
    PROVE  Joining \subseteq Instances /\ Leaving \subseteq Instances
<1>1. \A w \in Workers : doing[w][1] \in {"joining", "leaving"} => doing[w][2] \in Instances
  BY DoingParts
<1> QED
  BY <1>1 DEF Joining, Leaving

(* An instance has an address and a number. *)
LEMMA InstanceParts ==
    ASSUME NEW i \in Instances
    PROVE  i[1] \in Remotes /\ i[2] \in 1..MaxEvents /\ i[2] \in Nat /\ i = <<i[1], i[2]>>
BY BusesAssumption DEF Instances

(* A worker that begins something adds to what is going on. *)
LEMMA BeginsDoing ==
    ASSUME TypeOK, NEW w \in Workers, doing[w] = Idle, NEW what \in {"joining", "leaving"},
           NEW i, doing' = [doing EXCEPT ![w] = <<what, i>>]
    PROVE  /\ Joining' = IF what = "joining" THEN Joining \cup {i} ELSE Joining
           /\ Leaving' = IF what = "leaving" THEN Leaving \cup {i} ELSE Leaving
<1>1. doing[w][1] = "idle"
  BY DoingParts
<1>2. /\ doing'[w] = <<what, i>> /\ doing'[w][1] = what /\ doing'[w][2] = i
      /\ \A v \in Workers : v # w => doing'[v] = doing[v]
  BY DEF TypeOK
<1>3. \A k : k \in Joining' <=> (\E v \in Workers : doing'[v][1] = "joining" /\ doing'[v][2] = k)
  BY DEF Joining
<1>4. \A k : k \in Leaving' <=> (\E v \in Workers : doing'[v][1] = "leaving" /\ doing'[v][2] = k)
  BY DEF Leaving
<1>5. \A k : k \in Joining <=> (\E v \in Workers : doing[v][1] = "joining" /\ doing[v][2] = k)
  BY DEF Joining
<1>6. \A k : k \in Leaving <=> (\E v \in Workers : doing[v][1] = "leaving" /\ doing[v][2] = k)
  BY DEF Leaving
<1>7. \A k : k \in Joining' <=> k \in Joining \/ (what = "joining" /\ k = i)
  BY <1>1, <1>2, <1>3, <1>5
<1>8. \A k : k \in Leaving' <=> k \in Leaving \/ (what = "leaving" /\ k = i)
  BY <1>1, <1>2, <1>4, <1>6
<1> QED
  BY <1>7, <1>8

(* One that ends something takes at most that from what is going on. *)
LEMMA EndsDoing ==
    ASSUME TypeOK, NEW w \in Workers, doing' = [doing EXCEPT ![w] = Idle]
    PROVE  /\ Joining' \subseteq Joining /\ Leaving' \subseteq Leaving
           /\ doing[w][1] = "joining" => Joining \subseteq Joining' \cup {doing[w][2]} /\ Leaving' = Leaving
           /\ doing[w][1] = "leaving" => Leaving \subseteq Leaving' \cup {doing[w][2]} /\ Joining' = Joining
<1>2. /\ doing'[w][1] = "idle"
      /\ \A v \in Workers : v # w => doing'[v] = doing[v]
  BY DEF TypeOK, Idle
<1>3. \A k : k \in Joining' <=> (\E v \in Workers : doing'[v][1] = "joining" /\ doing'[v][2] = k)
  BY DEF Joining
<1>4. \A k : k \in Leaving' <=> (\E v \in Workers : doing'[v][1] = "leaving" /\ doing'[v][2] = k)
  BY DEF Leaving
<1>5. \A k : k \in Joining <=> (\E v \in Workers : doing[v][1] = "joining" /\ doing[v][2] = k)
  BY DEF Joining
<1>6. \A k : k \in Leaving <=> (\E v \in Workers : doing[v][1] = "leaving" /\ doing[v][2] = k)
  BY DEF Leaving
<1>7. \A k : k \in Joining' => k \in Joining
  BY <1>2, <1>3, <1>5
<1>8. \A k : k \in Leaving' => k \in Leaving
  BY <1>2, <1>4, <1>6
<1>9. \A k \in Joining : k \in Joining' \/ (doing[w][1] = "joining" /\ k = doing[w][2])
  BY <1>2, <1>3, <1>5
<1>10. \A k \in Leaving : k \in Leaving' \/ (doing[w][1] = "leaving" /\ k = doing[w][2])
  BY <1>2, <1>4, <1>6
<1> QED
  BY <1>7, <1>8, <1>9, <1>10

(* What a worker does with the first work of its bulk. *)
LEMMA RunWorkIs ==
    ASSUME TypeOK, QueueInv, Single, Placed, NEW w \in Workers, RunWork(w)
    PROVE  LET work == Head(bulk[w])
           IN /\ work \in Works /\ work \in Taken(w)
              /\ doing[w] = Idle /\ Joining = {} /\ bulk[w] # <<>>
              /\ bulk' = [bulk EXCEPT ![w] = Tail(@)]
              /\ UNCHANGED <<queue, buses_, participants_, subscribed, attached, transportVars,
                             split, overtaken, orphaned, between>>
              /\ \/ work.kind = "joined" /\ BeginsToWait(work.of)
                 \/ work.kind = "joined" /\ IsMade(w, work.of)
                 \/ work.kind = "left" /\ WaitsNoMore(work.of)
                 \/ work.kind = "left" /\ \E i \in Instances : BeginsToGo(w, work.of, i)
                 \/ ChangesNothing(work)
<1> DEFINE work == Head(bulk[w])
<1>1. bulk[w] \in Seq(Works) /\ Ascending(bulk[w]) /\ bulk[w] # <<>>
  BY DEF TypeOK, QueueInv, RunWork
<1>2. work \in Works /\ work \in Taken(w)
  BY <1>1, TailElems DEF Taken
<1> HIDE DEF work
<1>3. work.kind \in Kinds /\ work.of \in Remotes /\ BusOf[work.of] \in Buses
  BY <1>2, WorkParts, BusesAssumption
<1>4. /\ doing[w] = Idle /\ Joining = {} /\ bulk[w] # <<>>
      /\ bulk' = [bulk EXCEPT ![w] = Tail(@)]
      /\ UNCHANGED <<queue, buses_, participants_, subscribed, attached, transportVars,
                     split, overtaken, orphaned, between>>
      /\ \/ work.kind = "joined" /\ Joined(w, work.of)
         \/ work.kind = "left" /\ Left(w, work.of)
         \/ /\ work.kind \in {"confirmed", "update"} /\ ShouldBeProcessed(work)
            /\ Message(work)
         \/ /\ ~ShouldBeProcessed(work)
            /\ UNCHANGED <<doing, detectedPendingRemotes_, providerVars, remotes_, made, listening,
                           got>>
  BY DEF RunWork, BusesUnlocked, work
<1>5. ASSUME work.kind = "joined", Joined(w, work.of)
      PROVE  BeginsToWait(work.of) \/ IsMade(w, work.of) \/ ChangesNothing(work)
  BY <1>5 DEF Joined, BeginsToWait, IsMade, ChangesNothing, Already, HasManager
<1>6. ASSUME work.kind = "left", Left(w, work.of)
      PROVE  \/ WaitsNoMore(work.of) \/ ChangesNothing(work)
             \/ \E i \in Instances : BeginsToGo(w, work.of, i)
  <2>1. CASE BusOf[work.of] \notin buses_
    BY <1>6, <2>1 DEF Left, WaitsNoMore
  <2>2. CASE BusOf[work.of] \in buses_ /\ Present(work.of) = {}
    <3>1. remotes_' = remotes_
      BY <1>6, <2>2, <1>3 DEF Left, TypeOK
    <3> QED
      BY <1>6, <2>2, <3>1 DEF Left, ChangesNothing
  <2>3. CASE BusOf[work.of] \in buses_ /\ Present(work.of) # {}
    <3>1. PICK i \in Present(work.of) : i = CHOOSE j \in Present(work.of) : TRUE
      BY <2>3
    <3>2. Present(work.of) = {i} /\ i \in Instances
      BY <1>3, <3>1 DEF Present, Single, TypeOK
    <3>3. BeginsToGo(w, work.of, i)
      BY <1>6, <2>3, <3>1, <3>2 DEF Left, BeginsToGo
    <3> QED
      BY <3>2, <3>3
  <2> QED
    BY <2>1, <2>2, <2>3
<1>7. ASSUME work.kind \in {"confirmed", "update"}, Message(work) PROVE ChangesNothing(work)
  BY <1>7 DEF Message, ChangesNothing
<1>8. ASSUME ~ShouldBeProcessed(work),
             UNCHANGED <<doing, detectedPendingRemotes_, providerVars, remotes_, made, listening,
                         got>>
      PROVE  ChangesNothing(work)
  <2>1. work.kind = "update"
    BY <1>8 DEF ShouldBeProcessed
  <2> QED
    BY <1>8, <2>1 DEF ChangesNothing
<1> QED
  BY <1>2, <1>4, <1>5, <1>6, <1>7, <1>8 DEF work

-----------------------------------------------------------------------------
(* A step that leaves the buses and the locals alone keeps what relates them. *)
LEMMA BusesStay ==
    ASSUME Inv, UNCHANGED <<doing, buses_, remotes_, detectedPendingRemotes_, providerVars, made,
                            localVars, destroying, orphaned, between>>
    PROVE  BusInv' /\ ProvidersAreTold'
<1>1. UNCHANGED <<Joining, Leaving>>
  BY DEF Joining, Leaving
<1>2. Placed' /\ Single'
  BY <1>1 DEF Inv, BusInv, Placed, Single, localVars
<1>3. HoldsInv' /\ ListenInv' /\ SubscribersListen' /\ ProvidersAreTold'
  BY <1>1 DEF Inv, BusInv, HoldsInv, ListenInv, SubscribersListen, ProvidersAreTold, localVars,
              providerVars
<1> QED
  BY <1>2, <1>3 DEF BusInv

(* What the providers are told keeps its type, however they are told. *)
LEMMA ToldTypes ==
    ASSUME TypeOK, NEW b \in Buses,
           NotifySourceAdded(b) \/ NotifySourceRemoved(b) \/ UNCHANGED providerVars
    PROVE  /\ infoProviders_' \subseteq Providers
           /\ told' \in [Providers -> SUBSET Buses] /\ late' \in [Providers -> SUBSET Buses]
<1>1. /\ infoProviders_ \subseteq Providers
      /\ told \in [Providers -> SUBSET Buses] /\ late \in [Providers -> SUBSET Buses]
  BY DEF TypeOK
<1>2. CASE NotifySourceAdded(b)
  BY <1>1, <1>2 DEF NotifySourceAdded
<1>3. CASE NotifySourceRemoved(b)
  BY <1>1, <1>3 DEF NotifySourceRemoved
<1>4. CASE UNCHANGED providerVars
  BY <1>1, <1>4 DEF providerVars
<1> QED
  BY <1>2, <1>3, <1>4

(* Every provider there is hears of a bus; of the others it keeps what it knew. *)
LEMMA SourceAdded ==
    ASSUME TypeOK, NEW b \in Buses, NotifySourceAdded(b)
    PROVE  /\ infoProviders_' = infoProviders_
           /\ \A i \in infoProviders_ : /\ told'[i] = told[i] \cup {b}
                                         /\ late'[i] = late[i] \ {b}
BY DEF TypeOK, NotifySourceAdded

(* Or every one hears that the bus is gone. *)
LEMMA SourceRemoved ==
    ASSUME TypeOK, NEW b \in Buses, NotifySourceRemoved(b)
    PROVE  /\ infoProviders_' = infoProviders_
           /\ \A i \in infoProviders_ : told'[i] = told[i] \ {b} /\ late'[i] = late[i]
BY DEF TypeOK, NotifySourceRemoved

(* So does a remote that begins to wait for its bus or waits no more: the bus is not open. *)
LEMMA WaitingBuses ==
    ASSUME Inv, NEW r \in Remotes, BeginsToWait(r) \/ WaitsNoMore(r),
           UNCHANGED <<buses_, participants_, subscribed, attached, destroying, orphaned, between>>
    PROVE  BusInv' /\ ProvidersAreTold'
<1>0. BusOf[r] \in Buses
  BY BusesAssumption
<1>1. UNCHANGED <<Joining, Leaving>>
  BY DEF Joining, Leaving, BeginsToWait, WaitsNoMore
<1>2. UNCHANGED <<doing, remotes_, made, listening>>
  BY DEF BeginsToWait, WaitsNoMore
<1>3. Single' /\ HoldsInv' /\ ListenInv' /\ SubscribersListen'
  BY <1>1, <1>2 DEF Inv, BusInv, Single, HoldsInv, ListenInv, SubscribersListen
<1>4. Placed'
  <2>1. /\ BusOf[r] \notin buses_
        /\ \A b \in Buses : b # BusOf[r] => detectedPendingRemotes_'[b] = detectedPendingRemotes_[b]
        /\ detectedPendingRemotes_'[BusOf[r]] \subseteq detectedPendingRemotes_[BusOf[r]] \cup {r}
    <3>1. CASE BeginsToWait(r)
      BY <1>0, <3>1 DEF BeginsToWait, Inv, TypeOK
    <3>2. CASE WaitsNoMore(r)
      BY <1>0, <3>2 DEF WaitsNoMore, Inv, TypeOK
    <3> QED
      BY <3>1, <3>2
  <2>2. buses_ \subseteq Buses
    BY DEF Inv, TypeOK
  <2> QED
    BY <1>0, <1>2, <2>1, <2>2 DEF Inv, BusInv, Placed
<1>5. ProvidersAreTold'
  <2> DEFINE b == BusOf[r]
             pending == detectedPendingRemotes_
  <2>0. b \in Buses /\ TypeOK /\ b \notin buses_
    BY <1>0 DEF Inv, BeginsToWait, WaitsNoMore
  <2> HIDE DEF b
  <2>1. CASE BeginsToWait(r)
    <3>1. /\ NotifySourceAdded(b) /\ r \in pending'[b]
          /\ \A c \in Buses : c # b => pending'[c] = pending[c]
      BY <2>0, <2>1 DEF BeginsToWait, TypeOK, b
    <3>2. /\ infoProviders_' = infoProviders_
          /\ \A i \in infoProviders_ : /\ told'[i] = told[i] \cup {b}
                                        /\ late'[i] = late[i] \ {b}
      BY <2>0, <3>1, SourceAdded
    <3> HIDE DEF pending
    <3> QED
      BY <2>0, <3>1, <3>2 DEF Inv, ProvidersAreTold, pending
  <2>2. CASE WaitsNoMore(r)
    <3>1. /\ pending'[b] = pending[b] \ {r}
          /\ \A c \in Buses : c # b => pending'[c] = pending[c]
      BY <2>0, <2>2 DEF WaitsNoMore, TypeOK, b
    <3>2. CASE pending[b] \ {r} = {} /\ pending[b] # {}
      <4>1. NotifySourceRemoved(b)
        BY <2>2, <3>2 DEF WaitsNoMore, b
      <4>2. /\ infoProviders_' = infoProviders_
            /\ \A i \in infoProviders_ : told'[i] = told[i] \ {b} /\ late'[i] = late[i]
        BY <2>0, <4>1, SourceRemoved
      <4> QED
        BY <2>0, <3>1, <3>2, <4>2 DEF Inv, ProvidersAreTold
    <3>3. CASE ~(pending[b] \ {r} = {} /\ pending[b] # {})
      <4>1. UNCHANGED <<infoProviders_, told, late>>
        BY <2>2, <3>3 DEF WaitsNoMore, providerVars, b
      <4> QED
        BY <2>0, <3>1, <3>3, <4>1 DEF Inv, ProvidersAreTold
    <3> QED
      BY <3>2, <3>3
  <2> QED
    BY <2>1, <2>2
<1> QED
  BY <1>3, <1>4, <1>5 DEF BusInv

(* A participant that is made is new, and those who have a manager listen to it. *)
LEMMA MadeBuses ==
    ASSUME Inv, NEW w \in Workers, NEW r \in Remotes, doing[w] = Idle, Joining = {}, IsMade(w, r),
           UNCHANGED <<buses_, participants_, subscribed, attached, destroying, orphaned, between>>
    PROVE  BusInv' /\ ProvidersAreTold'
<1> DEFINE new == <<r, made[r] + 1>>
<1>0. BusOf[r] \in Buses /\ new[1] = r /\ new[2] = made[r] + 1 /\ made[r] \in Nat
  BY BusesAssumption DEF Inv, TypeOK
<1>1. Joining' = {new} /\ Leaving' = Leaving
  BY BeginsDoing DEF IsMade, Inv
<1> HIDE DEF new
<1>2. /\ remotes_' = [remotes_ EXCEPT ![BusOf[r]] = @ \cup {new}]
      /\ made' = [made EXCEPT ![r] = @ + 1]
      /\ listening' = [l \in Locals |-> IF l \in On(BusOf[r]) /\ subscribed[l] # "no"
                                        THEN listening[l] \cup {new} ELSE listening[l]]
      /\ BusOf[r] \in buses_ /\ Present(r) = {}
      /\ UNCHANGED <<detectedPendingRemotes_, providerVars>>
  BY DEF IsMade, new
<1>3. ProvidersAreTold'
  BY <1>2 DEF Inv, ProvidersAreTold, providerVars
<1>4. Placed'
  BY <1>0, <1>2 DEF Inv, BusInv, Placed, TypeOK
<1>5. /\ \A b \in Buses : remotes_[b] \subseteq Instances
      /\ \A b \in Buses : b # BusOf[r] => remotes_'[b] = remotes_[b]
      /\ remotes_'[BusOf[r]] = remotes_[BusOf[r]] \cup {new}
      /\ \A q \in Remotes : made[q] \in Nat /\ made'[q] \in Nat /\ made[q] <= made'[q]
      /\ made'[r] = made[r] + 1
  BY <1>0, <1>2 DEF Inv, TypeOK
<1>6. Single'
  <2>1. \A b \in Buses : \A i \in remotes_[b] : i # new /\ i[2] <= made[i[1]]
    BY <1>0, <1>5, InstanceParts DEF Inv, BusInv, Single
  <2>2. \A i \in remotes_[BusOf[r]] : i[1] # r
    BY <1>2 DEF Present
  <2>3. \A b \in Buses : \A i, j \in remotes_'[b] : i[1] = j[1] => i = j
    BY <1>0, <1>5, <2>2 DEF Inv, BusInv, Single
  <2>4. \A b \in Buses : \A i \in remotes_'[b] : i[2] <= made'[i[1]]
    <3>1. ASSUME NEW b \in Buses, NEW i \in remotes_[b] PROVE i[2] <= made'[i[1]]
      <4>1. i \in Instances /\ i[2] <= made[i[1]]
        BY <1>5, <2>1
      <4> QED
        BY <4>1, <1>5, InstanceParts
    <3> QED
      BY <1>0, <1>5, <3>1
  <2>5. ASSUME NEW i \in Leaving \cup destroying
        PROVE  i[2] <= made'[i[1]] /\ \A b \in Buses : i \notin remotes_'[b]
    <3>1. i \in Instances /\ i[2] <= made[i[1]] /\ \A b \in Buses : i \notin remotes_[b]
      BY GoingParts DEF Inv, BusInv, Single, TypeOK
    <3>2. i # new
      BY <1>0, <3>1, InstanceParts
    <3> QED
      BY <1>5, <3>1, <3>2, InstanceParts
  <2> QED
    BY <1>0, <1>1, <1>5, <2>3, <2>4, <2>5 DEF Single
<1>7. HoldsInv'
  BY <1>0, <1>1, <1>5, BusesAssumption DEF Inv, BusInv, HoldsInv, TypeOK
<1>8. ListenInv'
  <2>1. \A l \in attached : l \in Locals /\ (subscribed[l] # "no" /\ BusOf[r] = BusOf[l] => new \in listening'[l])
    BY <1>2 DEF On, Inv, TypeOK
  <2> QED
    BY <1>0, <1>1, <2>1 DEF Inv, BusInv, ListenInv
<1>9. SubscribersListen'
  <2>1. \A l \in Locals : listening[l] \subseteq listening'[l]
    BY <1>2
  <2> QED
    BY <2>1 DEF Inv, BusInv, SubscribersListen, TypeOK
<1> QED
  BY <1>3, <1>4, <1>6, <1>7, <1>8, <1>9 DEF BusInv

(* One that begins to go is on no bus any more. *)
LEMMA GoingBuses ==
    ASSUME Inv, NEW w \in Workers, NEW r \in Remotes, NEW i \in Instances, doing[w] = Idle,
           Joining = {}, BeginsToGo(w, r, i),
           UNCHANGED <<buses_, participants_, subscribed, attached, destroying, orphaned, between>>
    PROVE  BusInv' /\ ProvidersAreTold'
<1>0. BusOf[r] \in Buses /\ i \in remotes_[BusOf[r]] /\ i[1] = r
  BY BusesAssumption DEF BeginsToGo, Present
<1>1. Joining' = {} /\ Leaving' = Leaving \cup {i}
  BY BeginsDoing DEF BeginsToGo, Inv
<1>2. /\ remotes_' = [remotes_ EXCEPT ![BusOf[r]] = @ \ {i}]
      /\ UNCHANGED <<detectedPendingRemotes_, providerVars, made, listening>>
  BY DEF BeginsToGo
<1>3. /\ \A b \in Buses : b # BusOf[r] => remotes_'[b] = remotes_[b]
      /\ remotes_'[BusOf[r]] = remotes_[BusOf[r]] \ {i}
      /\ \A b \in Buses : i \notin remotes_'[b] /\ remotes_'[b] \subseteq remotes_[b]
  BY <1>0, <1>2 DEF Inv, BusInv, Placed, TypeOK
<1>4. ProvidersAreTold' /\ ListenInv' /\ SubscribersListen'
  BY <1>1, <1>2 DEF Inv, BusInv, ProvidersAreTold, ListenInv, SubscribersListen, providerVars
<1>5. Placed'
  BY <1>2, <1>3 DEF Inv, BusInv, Placed
<1>6. Single'
  BY <1>0, <1>1, <1>2, <1>3 DEF Inv, BusInv, Single
<1>7. HoldsInv'
  <2>1. ASSUME NEW l \in attached
        PROVE  /\ remotes_'[BusOf[l]] \ Joining' \subseteq participants_[l]
               /\ participants_[l] \subseteq remotes_'[BusOf[l]] \cup Leaving' \cup destroying
    <3>1. /\ remotes_[BusOf[l]] \ Joining \subseteq participants_[l]
          /\ participants_[l] \subseteq remotes_[BusOf[l]] \cup Leaving \cup destroying
      BY DEF Inv, BusInv, HoldsInv
    <3>2. BusOf[l] \in Buses
      BY BusesAssumption DEF Inv, TypeOK
    <3>3. /\ remotes_'[BusOf[l]] \subseteq remotes_[BusOf[l]]
          /\ remotes_[BusOf[l]] \subseteq remotes_'[BusOf[l]] \cup {i}
      BY <1>3, <3>2
    <3> QED
      BY <1>1, <3>1, <3>3
  <2> QED
    BY <2>1 DEF HoldsInv
<1> QED
  BY <1>4, <1>5, <1>6, <1>7 DEF BusInv

(* Running a work keeps it all. *)
LEMMA RunWorkBuses ==
    ASSUME Inv, NEW w \in Workers, RunWork(w)
    PROVE  BusInv' /\ ProvidersAreTold'
<1> DEFINE work == Head(bulk[w])
<1>1. /\ work \in Works /\ doing[w] = Idle /\ Joining = {}
      /\ UNCHANGED <<buses_, participants_, subscribed, attached, destroying, orphaned, between>>
      /\ \/ BeginsToWait(work.of) \/ IsMade(w, work.of) \/ WaitsNoMore(work.of)
         \/ \E i \in Instances : BeginsToGo(w, work.of, i)
         \/ ChangesNothing(work)
  BY RunWorkIs DEF Inv, BusInv, WorkInv, transportVars
<1> HIDE DEF work
<1>2. work.of \in Remotes
  BY <1>1, WorkParts
<1>3. CASE ChangesNothing(work)
  BY <1>1, <1>3, BusesStay DEF ChangesNothing, localVars
<1> QED
  BY <1>1, <1>2, <1>3, WaitingBuses, MadeBuses, GoingBuses

-----------------------------------------------------------------------------
(* A process is lost: its participants go all at once, and nobody waits for it any more. *)
LEMMA LostBuses ==
    ASSUME Inv, NEW p, RemoteProcessLost(p)
    PROVE  BusInv' /\ ProvidersAreTold'
<1> DEFINE lost == {r \in Remotes : ProcessOf[r] = p}
           gone == {i \in UNION {remotes_[b] : b \in Buses} : i[1] \in lost}
<1>1. /\ Joining = {} /\ destroying = {} /\ destroying' = gone
      /\ remotes_' = [b \in Buses |-> remotes_[b] \ gone]
      /\ detectedPendingRemotes_' = WithoutLost(p)
      /\ orphaned' = orphaned \cup {b \in Buses : detectedPendingRemotes_[b] \cap lost # {}}
      /\ UNCHANGED <<doing, buses_, providerVars, made, localVars, between>>
  BY DEF RemoteProcessLost, BusesUnlocked, dispatchVars
<1>2. Joining' = {} /\ Leaving' = Leaving
  BY <1>1 DEF Joining, Leaving
<1>3. /\ \A b \in Buses : remotes_'[b] = remotes_[b] \ gone
      /\ \A b \in Buses : detectedPendingRemotes_'[b] = detectedPendingRemotes_[b] \ lost
      /\ \A i \in gone : \E b \in Buses : i \in remotes_[b]
  <2>1. \A b \in Buses : detectedPendingRemotes_[b] \subseteq Remotes
    BY DEF Inv, TypeOK
  <2> QED
    BY <1>1, <2>1 DEF WithoutLost
<1> HIDE DEF gone, lost
<1>4. UNCHANGED <<participants_, listening, subscribed, attached>>
  BY <1>1 DEF localVars
<1>5. ListenInv' /\ SubscribersListen'
  BY <1>1, <1>2, <1>4 DEF Inv, BusInv, ListenInv, SubscribersListen
<1>6. Placed'
  <2>1. buses_ \subseteq Buses
    BY DEF Inv, TypeOK
  <2> QED
    BY <1>1, <1>3, <1>4, <2>1 DEF Inv, BusInv, Placed
<1>7. Single'
  BY <1>1, <1>2, <1>3 DEF Inv, BusInv, Single
<1>8. HoldsInv'
  <2>1. \A l \in attached : BusOf[l] \in Buses
    BY BusesAssumption DEF Inv, TypeOK
  <2> QED
    BY <1>1, <1>2, <1>3, <1>4, <2>1 DEF Inv, BusInv, HoldsInv
<1>9. ProvidersAreTold'
  BY <1>1, <1>3 DEF Inv, ProvidersAreTold, providerVars
<1> QED
  BY <1>5, <1>6, <1>7, <1>8, <1>9 DEF BusInv

(* The participants of a lost process, or one that leaves, are destroyed: they are on no bus. *)
LEMMA ReleasedBuses ==
    ASSUME Inv, Joining = {}, NEW gone, gone \subseteq Leaving \cup destroying, Released(gone),
           Joining' = {}, Leaving \cup destroying \subseteq Leaving' \cup destroying' \cup gone,
           Leaving' \cup destroying' \subseteq Leaving \cup destroying,
           UNCHANGED <<buses_, remotes_, detectedPendingRemotes_, providerVars, made, subscribed,
                       attached, orphaned, between>>
    PROVE  BusInv' /\ ProvidersAreTold'
<1>0. attached \subseteq Locals
  BY DEF Inv, TypeOK
<1>1. \A l \in Locals : /\ participants_'[l] = participants_[l] \ gone
                        /\ listening'[l] = listening[l] \ gone
  BY DEF Released
<1>2. Placed' /\ ProvidersAreTold'
  BY DEF Inv, BusInv, Placed, ProvidersAreTold, providerVars
<1>3. Single'
  BY DEF Inv, BusInv, Single
<1>4. HoldsInv'
  <2>1. \A l \in attached : BusOf[l] \in Buses
    BY BusesAssumption DEF Inv, TypeOK
  <2>2. \A b \in Buses : \A i \in gone : i \notin remotes_[b]
    BY DEF Inv, BusInv, Single
  <2> QED
    BY <1>0, <1>1, <2>1, <2>2 DEF Inv, BusInv, HoldsInv
<1>5. ListenInv' /\ SubscribersListen'
  BY <1>0, <1>1 DEF Inv, BusInv, ListenInv, SubscribersListen
<1> QED
  BY <1>2, <1>3, <1>4, <1>5 DEF BusInv

(* The i/o thread destroys those of a lost process. *)
LEMMA DestroyLostBuses ==
    ASSUME Inv, DestroyLost PROVE BusInv' /\ ProvidersAreTold'
<1>1. /\ Joining = {} /\ Released(destroying) /\ destroying' = {}
      /\ UNCHANGED <<doing, buses_, remotes_, detectedPendingRemotes_, providerVars, made,
                     subscribed, attached, orphaned, between>>
  BY DEF DestroyLost, BusesUnlocked, dispatchVars, busVars, history
<1>2. Joining' = {} /\ Leaving' = Leaving
  BY <1>1 DEF Joining, Leaving
<1> QED
  BY <1>1, <1>2, ReleasedBuses

(* A worker destroys the one that left. *)
LEMMA DestroyBuses ==
    ASSUME Inv, NEW w \in Workers, Destroy(w) PROVE BusInv' /\ ProvidersAreTold'
<1>1. /\ Joining = {} /\ Released({doing[w][2]}) /\ doing' = [doing EXCEPT ![w] = Idle]
      /\ doing[w][1] = "leaving"
      /\ UNCHANGED <<destroying, buses_, remotes_, detectedPendingRemotes_, providerVars, made,
                     subscribed, attached, orphaned, between>>
  BY DEF Destroy, BusesUnlocked, busVars, history, transportVars
<1>2. /\ Joining' = {} /\ Leaving' \subseteq Leaving /\ Leaving \subseteq Leaving' \cup {doing[w][2]}
      /\ doing[w][2] \in Leaving
  BY <1>1, EndsDoing, DoingParts DEF Inv
<1> QED
  BY <1>1, <1>2, ReleasedBuses

(* A join ends with the locals of the bus holding the participant. *)
LEMMA StoredBuses ==
    ASSUME Inv, NEW w \in Workers, Stored(w) PROVE BusInv' /\ ProvidersAreTold'
<1> DEFINE new == doing[w][2]
<1>1. /\ participants_' = [l \in Locals |-> IF l \in On(BusOf[new[1]])
                                            THEN participants_[l] \cup {new}
                                            ELSE participants_[l]]
      /\ doing' = [doing EXCEPT ![w] = Idle] /\ doing[w][1] = "joining"
      /\ UNCHANGED <<destroying, buses_, remotes_, detectedPendingRemotes_, providerVars, made,
                     listening, subscribed, attached, orphaned, between>>
  BY DEF Stored, busVars, history, transportVars
<1>2. /\ new \in Joining /\ Joining' \subseteq Joining /\ Joining \subseteq Joining' \cup {new}
      /\ Leaving' = Leaving
  BY <1>1, EndsDoing, DoingParts DEF Inv
<1>3. new \in Instances /\ new[1] \in Remotes /\ BusOf[new[1]] \in Buses
  BY <1>2, GoingParts, InstanceParts, BusesAssumption DEF Inv
<1> HIDE DEF new
<1>4. attached \subseteq Locals
  BY DEF Inv, TypeOK
<1>5. \A l \in attached : participants_'[l] = IF BusOf[l] = BusOf[new[1]]
                                              THEN participants_[l] \cup {new}
                                              ELSE participants_[l]
  BY <1>1, <1>4 DEF On
<1>6. Placed' /\ ProvidersAreTold'
  BY <1>1 DEF Inv, BusInv, Placed, ProvidersAreTold, providerVars
<1>7. Single' /\ ListenInv'
  BY <1>1, <1>2 DEF Inv, BusInv, Single, ListenInv
<1>8. HoldsInv'
  <2>1. new \in remotes_[BusOf[new[1]]]
    BY <1>2 DEF Inv, BusInv, Single
  <2>2. ASSUME NEW l \in attached, BusOf[l] # BusOf[new[1]] PROVE new \notin remotes_[BusOf[l]]
    BY <2>2, <1>4, BusesAssumption DEF Inv, BusInv, Placed
  <2>3. ASSUME NEW l \in attached
        PROVE  /\ remotes_[BusOf[l]] \ Joining' \subseteq participants_'[l]
               /\ participants_'[l] \subseteq remotes_[BusOf[l]] \cup Leaving \cup destroying
    <3>1. /\ remotes_[BusOf[l]] \ Joining \subseteq participants_[l]
          /\ participants_[l] \subseteq remotes_[BusOf[l]] \cup Leaving \cup destroying
      BY DEF Inv, BusInv, HoldsInv
    <3>2. CASE BusOf[l] = BusOf[new[1]]
      <4>1. participants_'[l] = participants_[l] \cup {new} /\ new \in remotes_[BusOf[l]]
        BY <1>5, <2>1, <3>2
      <4> HIDE <3>2
      <4> QED
        BY <1>2, <3>1, <4>1
    <3>3. CASE BusOf[l] # BusOf[new[1]]
      <4>1. participants_'[l] = participants_[l] /\ new \notin remotes_[BusOf[l]]
        BY <1>5, <2>2, <3>3
      <4> QED
        BY <1>2, <3>1, <4>1
    <3> QED
      BY <3>2, <3>3
  <2> QED
    BY <1>1, <1>2, <2>3 DEF HoldsInv
<1>9. SubscribersListen'
  <2>1. ASSUME NEW l \in attached, subscribed[l] = "yes"
        PROVE  participants_'[l] \subseteq listening[l] \cup between
    <3>1. participants_[l] \subseteq listening[l] \cup between
      BY <2>1 DEF Inv, BusInv, SubscribersListen
    <3>2. BusOf[l] = BusOf[new[1]] => new \in listening[l] \cup between
      BY <1>2, <2>1 DEF Inv, BusInv, ListenInv
    <3> QED
      BY <1>5, <3>1, <3>2
  <2> QED
    BY <1>1, <2>1 DEF SubscribersListen
<1> QED
  BY <1>6, <1>7, <1>8, <1>9 DEF BusInv

(* A bus that opens takes over who waited for it; no local is on it yet. *)
LEMMA OpenBuses ==
    ASSUME Inv, NEW b \in Buses, GetOrOpenBus(b) PROVE BusInv' /\ ProvidersAreTold'
<1> DEFINE waiting == detectedPendingRemotes_[b]
<1>1. /\ Joining = {} /\ b \notin buses_ /\ buses_' = buses_ \cup {b} /\ NotifySourceAdded(b)
      /\ remotes_' = [remotes_ EXCEPT ![b] = {<<r, made[r] + 1>> : r \in waiting}]
      /\ made' = [r \in Remotes |-> IF r \in waiting THEN made[r] + 1 ELSE made[r]]
      /\ detectedPendingRemotes_' = [detectedPendingRemotes_ EXCEPT ![b] = {}]
      /\ UNCHANGED <<doing, localVars, destroying, orphaned, between>>
  BY DEF GetOrOpenBus, BusesUnlocked, HandedOver, dispatchVars, transportVars, history
<1>2. Joining' = {} /\ Leaving' = Leaving
  BY <1>1 DEF Joining, Leaving
<1>3. waiting \subseteq Remotes /\ buses_ \subseteq Buses /\ attached \subseteq Locals
  BY DEF Inv, TypeOK
<1> HIDE DEF waiting
<1>4. /\ \A c \in Buses : c # b => /\ remotes_'[c] = remotes_[c]
                                   /\ detectedPendingRemotes_'[c] = detectedPendingRemotes_[c]
      /\ remotes_'[b] = {<<r, made[r] + 1>> : r \in waiting} /\ detectedPendingRemotes_'[b] = {}
  BY <1>1 DEF Inv, TypeOK
<1>5. \A r \in Remotes : /\ made[r] \in Nat /\ made'[r] \in Nat /\ made[r] <= made'[r]
                         /\ r \in waiting => made'[r] = made[r] + 1
  BY <1>1 DEF Inv, TypeOK
<1>6. /\ \A i \in remotes_'[b] : i[1] \in waiting /\ i[2] = made[i[1]] + 1
      /\ \A i, j \in remotes_'[b] : i[1] = j[1] => i = j
  BY <1>4
<1>7. \A r \in waiting : BusOf[r] = b
  BY DEF Inv, BusInv, Placed, waiting
<1>8. UNCHANGED <<participants_, listening, subscribed, attached>>
  BY <1>1 DEF localVars
<1>9. Placed'
  BY <1>1, <1>3, <1>4, <1>6, <1>7, <1>8 DEF Inv, BusInv, Placed
<1>10. \A l \in attached : BusOf[l] \in Buses /\ remotes_'[BusOf[l]] = remotes_[BusOf[l]]
  BY <1>1, <1>3, <1>4 DEF Inv, BusInv, Placed
<1>11. HoldsInv'
  BY <1>1, <1>2, <1>8, <1>10 DEF Inv, BusInv, HoldsInv
<1>12. ListenInv' /\ SubscribersListen'
  BY <1>1, <1>2, <1>8 DEF Inv, BusInv, ListenInv, SubscribersListen
<1>13. ProvidersAreTold'
  <2>1. /\ infoProviders_' = infoProviders_
        /\ \A i \in infoProviders_ : told'[i] = told[i] \cup {b} /\ late'[i] = late[i] \ {b}
    BY <1>1, SourceAdded DEF Inv
  <2> QED
    BY <1>1, <1>4, <2>1 DEF Inv, ProvidersAreTold
<1>14. Single'
  <2>1. \A c \in Buses : \A i, j \in remotes_'[c] : i[1] = j[1] => i = j
    BY <1>4, <1>6 DEF Inv, BusInv, Single
  <2>2. ASSUME NEW c \in Buses, NEW i \in remotes_'[c] PROVE i[2] <= made'[i[1]]
    <3>1. CASE c = b
      BY <1>3, <1>5, <1>6, <3>1
    <3>2. CASE c # b
      <4>1. i \in Instances /\ i[2] <= made[i[1]]
        BY <1>4, <3>2 DEF Inv, BusInv, Single, TypeOK
      <4> QED
        BY <4>1, <1>5, InstanceParts
    <3> QED
      BY <3>1, <3>2
  <2>3. ASSUME NEW i \in Leaving \cup destroying
        PROVE  i[2] <= made'[i[1]] /\ \A c \in Buses : i \notin remotes_'[c]
    <3>1. i \in Instances /\ i[2] <= made[i[1]] /\ \A c \in Buses : i \notin remotes_[c]
      BY GoingParts DEF Inv, BusInv, Single, TypeOK
    <3>2. i \notin remotes_'[b]
      BY <1>3, <1>5, <1>6, <3>1, InstanceParts
    <3> QED
      BY <1>4, <1>5, <3>1, <3>2, InstanceParts
  <2> QED
    BY <1>1, <1>2, <2>1, <2>2, <2>3 DEF Single
<1> QED
  BY <1>9, <1>11, <1>12, <1>13, <1>14 DEF BusInv

(* A local that connects is told of the remotes there are. *)
LEMMA ConnectBuses ==
    ASSUME Inv, NEW l \in Locals, Connect(l) PROVE BusInv' /\ ProvidersAreTold'
<1>1. /\ Joining = {} /\ BusOf[l] \in buses_ /\ l \notin attached /\ attached' = attached \cup {l}
      /\ participants_' = [participants_ EXCEPT ![l] = remotes_[BusOf[l]]]
      /\ UNCHANGED <<doing, buses_, remotes_, detectedPendingRemotes_, providerVars, made,
                     listening, subscribed, destroying, orphaned, between>>
  BY DEF Connect, BusesUnlocked, dispatchVars, busVars, transportVars, history
<1>2. Joining' = {} /\ Leaving' = Leaving
  BY <1>1 DEF Joining, Leaving
<1>3. /\ participants_'[l] = remotes_[BusOf[l]] /\ attached \subseteq Locals
      /\ \A k \in attached : participants_'[k] = participants_[k]
  BY <1>1 DEF Inv, TypeOK
<1>4. Placed' /\ ProvidersAreTold'
  BY <1>1 DEF Inv, BusInv, Placed, ProvidersAreTold, providerVars
<1>5. Single'
  BY <1>1, <1>2 DEF Inv, BusInv, Single
<1>6. HoldsInv'
  BY <1>1, <1>2, <1>3 DEF Inv, BusInv, HoldsInv
<1>7. subscribed[l] = "no"
  BY <1>1 DEF Inv, BusInv, ListenInv
<1>8. ListenInv' /\ SubscribersListen'
  BY <1>1, <1>2, <1>3, <1>7 DEF Inv, BusInv, ListenInv, SubscribersListen
<1> QED
  BY <1>4, <1>5, <1>6, <1>8 DEF BusInv

(* One that disconnects forgets everything. *)
LEMMA DisconnectBuses ==
    ASSUME Inv, NEW l \in Locals, Disconnect(l) PROVE BusInv' /\ ProvidersAreTold'
<1>1. /\ Joining = {} /\ l \in attached /\ attached' = attached \ {l}
      /\ participants_' = [participants_ EXCEPT ![l] = {}]
      /\ listening' = [listening EXCEPT ![l] = {}]
      /\ subscribed' = [subscribed EXCEPT ![l] = "no"]
      /\ UNCHANGED <<doing, buses_, remotes_, detectedPendingRemotes_, providerVars, made,
                     destroying, orphaned, between>>
  BY DEF Disconnect, BusesUnlocked, dispatchVars, busVars, transportVars, history
<1>2. Joining' = {} /\ Leaving' = Leaving
  BY <1>1 DEF Joining, Leaving
<1>3. /\ \A k \in Locals : k # l => /\ participants_'[k] = participants_[k]
                                    /\ listening'[k] = listening[k]
                                    /\ subscribed'[k] = subscribed[k]
      /\ subscribed'[l] = "no" /\ attached \subseteq Locals
  BY <1>1 DEF Inv, TypeOK
<1>4. Placed' /\ ProvidersAreTold'
  BY <1>1 DEF Inv, BusInv, Placed, ProvidersAreTold, providerVars
<1>5. Single'
  BY <1>1, <1>2 DEF Inv, BusInv, Single
<1>6. HoldsInv'
  BY <1>1, <1>2, <1>3 DEF Inv, BusInv, HoldsInv
<1>8. ListenInv' /\ SubscribersListen'
  BY <1>1, <1>2, <1>3 DEF Inv, BusInv, ListenInv, SubscribersListen
<1> QED
  BY <1>4, <1>5, <1>6, <1>8 DEF BusInv

(* A subscription is made: what joins meanwhile is noted, and then everybody is listened to. *)
LEMMA SubscriberBuses ==
    ASSUME Inv, NEW l \in Locals, SubscriberStored(l) \/ SubscriberListens(l)
    PROVE  BusInv' /\ ProvidersAreTold'
<1>1. UNCHANGED <<doing, buses_, remotes_, detectedPendingRemotes_, providerVars, made,
                  participants_, attached, destroying, orphaned>>
  BY DEF SubscriberStored, SubscriberListens, dispatchVars, busVars, transportVars, history
<1>2. Joining' = Joining /\ Leaving' = Leaving
  BY <1>1 DEF Joining, Leaving
<1>3. Placed' /\ ProvidersAreTold' /\ Single' /\ HoldsInv'
  <2>1. Placed' /\ ProvidersAreTold'
    BY <1>1 DEF Inv, BusInv, Placed, ProvidersAreTold, providerVars
  <2>2. Single' /\ HoldsInv'
    BY <1>1, <1>2 DEF Inv, BusInv, Single, HoldsInv
  <2> QED
    BY <2>1, <2>2
<1>4. CASE SubscriberStored(l)
  <2>1. /\ l \in attached /\ subscribed[l] = "no" /\ subscribed' = [subscribed EXCEPT ![l] = "stored"]
        /\ between' = between \cup Joining /\ UNCHANGED listening
    BY <1>4 DEF SubscriberStored
  <2>2. /\ \A k \in Locals : k # l => subscribed'[k] = subscribed[k]
        /\ subscribed'[l] = "stored" /\ attached \subseteq Locals
    BY <2>1 DEF Inv, TypeOK
  <2>3. ListenInv' /\ SubscribersListen'
    BY <1>1, <1>2, <2>1, <2>2 DEF Inv, BusInv, ListenInv, SubscribersListen
  <2> QED
    BY <1>3, <2>3 DEF BusInv
<1>5. CASE SubscriberListens(l)
  <2>1. /\ subscribed[l] = "stored" /\ subscribed' = [subscribed EXCEPT ![l] = "yes"]
        /\ listening' = [listening EXCEPT ![l] = @ \cup participants_[l]] /\ UNCHANGED between
    BY <1>5 DEF SubscriberListens, history
  <2>2. /\ \A k \in Locals : k # l => subscribed'[k] = subscribed[k] /\ listening'[k] = listening[k]
        /\ listening'[l] = listening[l] \cup participants_[l]
        /\ subscribed'[l] = "yes" /\ attached \subseteq Locals
    BY <2>1 DEF Inv, TypeOK
  <2>3. ListenInv' /\ SubscribersListen'
    BY <1>1, <1>2, <2>1, <2>2 DEF Inv, BusInv, ListenInv, SubscribersListen
  <2> QED
    BY <1>3, <2>3 DEF BusInv
<1> QED
  BY <1>4, <1>5

(* A provider that is made knows the open buses; who waits is nothing it hears of. *)
LEMMA ProviderBuses ==
    ASSUME Inv, NEW i \in Providers, MakeInfoProvider(i) \/ InfoProviderDeleted(i)
    PROVE  BusInv' /\ ProvidersAreTold'
<1>1. /\ UNCHANGED <<doing, buses_, remotes_, detectedPendingRemotes_, made, participants_,
                     listening, subscribed, attached, destroying, orphaned, between>>
      /\ told \in [Providers -> SUBSET Buses] /\ late \in [Providers -> SUBSET Buses]
      /\ infoProviders_ \subseteq Providers
  BY DEF MakeInfoProvider, InfoProviderDeleted, dispatchVars, localVars, transportVars, history,
         Inv, TypeOK
<1>2. UNCHANGED <<Joining, Leaving>>
  BY <1>1 DEF Joining, Leaving
<1>3. BusInv'
  BY <1>1, <1>2 DEF Inv, BusInv, Placed, Single, HoldsInv, ListenInv, SubscribersListen
<1>4. ASSUME NEW j \in infoProviders_', j # i
      PROVE  j \in infoProviders_ /\ told'[j] = told[j] /\ late'[j] = late[j]
  BY <1>1, <1>4 DEF MakeInfoProvider, InfoProviderDeleted
<1>5. ASSUME i \in infoProviders_'
      PROVE  /\ told'[i] = buses_ /\ late'[i] = {b \in Buses : detectedPendingRemotes_[b] # {}}
  BY <1>1, <1>5 DEF MakeInfoProvider, InfoProviderDeleted
<1>6. ProvidersAreTold'
  BY <1>1, <1>4, <1>5 DEF Inv, ProvidersAreTold
<1> QED
  BY <1>3, <1>6

(* Every step keeps what relates the buses, the locals and the providers. *)
LEMMA NextBuses ==
    ASSUME Inv, Next PROVE BusInv' /\ ProvidersAreTold'
<1>1. ASSUME NEW r \in Remotes, RemoteParticipantJoinedBus(r) \/ RemoteParticipantLeftBus(r)
             \/ \E kind \in Kinds : RemoteMessageReceived(r, kind)
      PROVE  BusInv' /\ ProvidersAreTold'
  <2>1. UNCHANGED <<doing, busVars, localVars, destroying, history>>
    BY <1>1 DEF RemoteParticipantJoinedBus, RemoteParticipantLeftBus, RemoteMessageReceived, Enqueue
  <2> QED
    BY <2>1, BusesStay DEF busVars, history
<1>2. ASSUME NEW w \in Workers, TakeBulk(w) PROVE BusInv' /\ ProvidersAreTold'
  <2>1. UNCHANGED <<doing, busVars, localVars, destroying, orphaned, between>>
    BY <1>2 DEF TakeBulk, transportVars
  <2> QED
    BY <2>1, BusesStay DEF busVars
<1> QED
  BY <1>1, <1>2, LostBuses, DestroyLostBuses, RunWorkBuses, StoredBuses, DestroyBuses, OpenBuses,
     ConnectBuses, DisconnectBuses, SubscriberBuses, ProviderBuses DEF Next, Transport, Components, Worker

-----------------------------------------------------------------------------
(* What is outstanding is work. *)
LEMMA OutstandingParts ==
    ASSUME TypeOK
    PROVE  /\ Queued \subseteq Works /\ \A w \in Workers : Taken(w) \subseteq Works
           /\ Outstanding \subseteq Works
           /\ \A x \in Outstanding : x.kind \in Kinds /\ x.of \in Remotes /\ x.n \in Nat
           /\ events \in Nat
<1>1. queue \in Seq(Works) /\ \A w \in Workers : bulk[w] \in Seq(Works)
  BY DEF TypeOK
<1>2. Queued \subseteq Works /\ \A w \in Workers : Taken(w) \subseteq Works
  BY <1>1 DEF Queued, Taken, ElemsOf
<1>3. Outstanding \subseteq Works
  BY <1>2 DEF Outstanding
<1> QED
  BY <1>2, <1>3, WorkParts, BusesAssumption DEF TypeOK

(* A new work is the last of the queue. *)
LEMMA EnqueueWork ==
    ASSUME Inv, NEW kind \in Kinds, NEW r \in Remotes, Enqueue(kind, r)
    PROVE  LET x == [kind |-> kind, of |-> r, n |-> events + 1]
           IN /\ x \in Works /\ x.kind = kind /\ x.of = r /\ x.n = events + 1
              /\ queue' \in Seq(Works) /\ events' \in 0..MaxEvents /\ events' = events + 1
              /\ Outstanding' = Outstanding \cup {x} /\ \A y \in Outstanding : y.n < x.n
              /\ QueueInv'
<1> DEFINE x == [kind |-> kind, of |-> r, n |-> events + 1]
<1>1. /\ events < MaxEvents /\ events' = events + 1 /\ queue' = Append(queue, x)
      /\ UNCHANGED <<bulk, split>> /\ events \in Nat
  BY OutstandingParts DEF Enqueue, history, Inv
<1>2. x \in Works /\ x.kind = kind /\ x.of = r /\ x.n = events + 1
  BY <1>1, BusesAssumption DEF Works
<1> HIDE DEF x
<1>3. queue \in Seq(Works) /\ Ascending(queue)
  BY DEF Inv, TypeOK, WorkInv, QueueInv
<1>4. \A y \in Outstanding : y.n < x.n
  BY <1>1, <1>2, OutstandingParts DEF Inv, WorkInv, QueueInv
<1>5. /\ queue' \in Seq(Works) /\ Queued' = Queued \cup {x} /\ Ascending(queue')
  <2>1. \A y \in ElemsOf(queue) : y.n < x.n
    BY <1>4 DEF Outstanding, Queued
  <2> QED
    BY <1>1, <1>2, <1>3, <2>1, AppendElems DEF Queued
<1>6. \A w \in Workers : Taken(w)' = Taken(w)
  BY <1>1 DEF Taken
<1>7. Outstanding' = Outstanding \cup {x}
  BY <1>5, <1>6 DEF Outstanding
<1>8. QueueInv'
  <2>1. \A y \in Outstanding' : y.n <= events'
    BY <1>1, <1>2, <1>4, <1>7, OutstandingParts DEF Inv
  <2>2. \A w \in Workers : \A z \in Taken(w)' : \A y \in Queued' : z.n < y.n
    BY <1>4, <1>5, <1>6 DEF Inv, WorkInv, QueueInv, Outstanding
  <2>3. \A v, w \in Workers : v # w => \A z \in Taken(v)' : \A y \in Taken(w)' : z # y
    BY <1>6 DEF Inv, WorkInv, QueueInv
  <2>4. \A w \in Workers : Ascending(bulk'[w])
    BY <1>1 DEF Inv, WorkInv, QueueInv
  <2> QED
    BY <1>5, <2>1, <2>2, <2>3, <2>4 DEF QueueInv
<1>9. events' \in 0..MaxEvents
  BY <1>1, BusesAssumption
<1> QED
  BY <1>1, <1>2, <1>4, <1>5, <1>7, <1>8, <1>9 DEF x

(* A worker takes the beginning of the queue. *)
LEMMA TakeWork ==
    ASSUME Inv, NEW w \in Workers, TakeBulk(w)
    PROVE  /\ queue' \in Seq(Works) /\ bulk' \in [Workers -> Seq(Works)]
           /\ \A v \in Workers : Len(bulk'[v]) <= BulkSize
           /\ split' \subseteq Remotes /\ split \subseteq split'
           /\ Outstanding' = Outstanding /\ QueueInv' /\ Alone'
<1> DEFINE n == InOneGo
           taken == SubSeq(queue, 1, n)
           rest == SubSeq(queue, n + 1, Len(queue))
<1>1. /\ bulk[w] = <<>> /\ bulk' = [bulk EXCEPT ![w] = taken] /\ queue' = rest
      /\ split' = split \cup
               {r \in WorkOf(taken) : \E v \in Workers \ {w} :
                  r \in WorkOf(bulk[v]) \/ (doing[v] # Idle /\ doing[v][2][1] = r)}
      /\ UNCHANGED events
  BY DEF TakeBulk, transportVars
<1>2. queue \in Seq(Works) /\ Ascending(queue)
  BY DEF Inv, TypeOK, WorkInv, QueueInv
<1>3. n \in 0..Len(queue) /\ n <= BulkSize
  BY <1>2, BulkFits
<1> HIDE DEF n
<1>4. /\ taken \in Seq(Works) /\ rest \in Seq(Works) /\ Len(taken) = n
      /\ ElemsOf(taken) \cup ElemsOf(rest) = ElemsOf(queue)
      /\ Ascending(taken) /\ Ascending(rest)
      /\ \A x \in ElemsOf(taken) : \A y \in ElemsOf(rest) : x.n < y.n
  BY <1>2, <1>3, CutElems
<1> HIDE DEF taken, rest
<1>5. /\ bulk'[w] = taken /\ \A v \in Workers : v # w => bulk'[v] = bulk[v]
      /\ bulk' \in [Workers -> Seq(Works)]
      /\ \A v \in Workers : Len(bulk'[v]) <= BulkSize
  BY <1>1, <1>3, <1>4 DEF Inv, TypeOK
<1>6. /\ Taken(w)' = ElemsOf(taken) /\ Taken(w) = {}
      /\ \A v \in Workers : v # w => Taken(v)' = Taken(v)
      /\ Queued' = ElemsOf(rest) /\ Queued = ElemsOf(queue)
  BY <1>1, <1>5 DEF Taken, Queued, ElemsOf
<1>7. Outstanding' = Outstanding
  BY <1>4, <1>6 DEF Outstanding
<1>8. QueueInv'
  <2>0. Queued' \subseteq Queued /\ Taken(w)' \subseteq Queued
    BY <1>4, <1>6
  <2>1. \A y \in Outstanding' : y.n <= events'
    BY <1>1, <1>7 DEF Inv, WorkInv, QueueInv
  <2>2. \A v \in Workers : \A z \in Taken(v)' : \A y \in Queued' : z.n < y.n
    BY <1>4, <1>6, <2>0 DEF Inv, WorkInv, QueueInv
  <2>3. ASSUME NEW v \in Workers, v # w, NEW x \in Taken(v), NEW y \in Taken(w)' PROVE x # y
    <3>1. x.n < y.n /\ x.n \in Nat
      BY <2>0, <2>3, OutstandingParts DEF Inv, WorkInv, QueueInv, Outstanding
    <3> QED
      BY <3>1
  <2>4. \A u, v \in Workers : u # v => \A z \in Taken(u)' : \A y \in Taken(v)' : z # y
    BY <1>6, <2>3 DEF Inv, WorkInv, QueueInv
  <2>5. Ascending(queue') /\ \A v \in Workers : Ascending(bulk'[v])
    BY <1>1, <1>4, <1>5 DEF Inv, WorkInv, QueueInv
  <2> QED
    BY <2>1, <2>2, <2>4, <2>5 DEF QueueInv
<1>9. /\ \A r : r \in WorkOf(taken) <=> \E x \in ElemsOf(taken) : x.of = r
      /\ \A v \in Workers : \A r : r \in WorkOf(bulk[v]) <=> \E x \in Taken(v) : x.of = r
  BY DEF WorkOf, ElemsOf, Taken
<1>10. split' \subseteq Remotes /\ split \subseteq split'
  <2>1. \A r \in WorkOf(taken) : r \in Remotes
    BY <1>4, <1>6, <1>9, OutstandingParts, WorkParts DEF Inv
  <2> QED
    BY <1>1, <2>1 DEF Inv, TypeOK
<1>11. Alone'
  <2>1. ASSUME NEW r \in Remotes \ split', NEW v \in Workers, v # w, NEW x \in Taken(v),
               NEW y \in ElemsOf(taken), x.of = r, y.of = r
        PROVE  FALSE
    BY <1>1, <1>9, <2>1
  <2> QED
    BY <1>6, <1>10, <2>1 DEF Alone, Inv, WorkInv
<1> QED
  BY <1>1, <1>4, <1>5, <1>7, <1>8, <1>10, <1>11

(* A worker runs the first of its bulk, which is nowhere else. *)
LEMMA PopWork ==
    ASSUME Inv, NEW w \in Workers, bulk[w] # <<>>, bulk' = [bulk EXCEPT ![w] = Tail(@)],
           UNCHANGED <<queue, events, split>>
    PROVE  /\ bulk' \in [Workers -> Seq(Works)]
           /\ \A v \in Workers : Len(bulk'[v]) <= BulkSize
           /\ Outstanding' = Outstanding \ {Head(bulk[w])} /\ Head(bulk[w]) \in Outstanding
           /\ QueueInv' /\ Alone'
           /\ Head(bulk[w]).of \notin split =>
                 \A y \in Outstanding' : y.of = Head(bulk[w]).of => Head(bulk[w]).n < y.n
<1> DEFINE work == Head(bulk[w])
<1>1. bulk[w] \in Seq(Works) /\ Ascending(bulk[w])
  BY DEF Inv, TypeOK, WorkInv, QueueInv
<1>2. /\ work \in Works /\ work \in Taken(w)
      /\ Tail(bulk[w]) \in Seq(Works) /\ Len(Tail(bulk[w])) = Len(bulk[w]) - 1
      /\ ElemsOf(Tail(bulk[w])) = Taken(w) \ {work}
      /\ Ascending(Tail(bulk[w]))
      /\ \A y \in ElemsOf(Tail(bulk[w])) : work.n < y.n
  BY <1>1, TailElems DEF Taken
<1>3. work \in Outstanding
  BY <1>2 DEF Outstanding
<1> HIDE DEF work
<1>4. /\ bulk'[w] = Tail(bulk[w]) /\ \A v \in Workers : v # w => bulk'[v] = bulk[v]
      /\ bulk' \in [Workers -> Seq(Works)]
      /\ \A v \in Workers : Len(bulk'[v]) <= BulkSize
  <2>1. /\ bulk'[w] = Tail(bulk[w]) /\ \A v \in Workers : v # w => bulk'[v] = bulk[v]
        /\ bulk' \in [Workers -> Seq(Works)]
    BY <1>2 DEF Inv, TypeOK
  <2>2. Len(bulk[w]) \in Nat /\ BulkSize \in Nat /\ \A v \in Workers : Len(bulk[v]) <= BulkSize
    BY <1>1, BusesAssumption DEF Inv, TypeOK
  <2> QED
    BY <1>2, <2>1, <2>2
<1>5. /\ Taken(w)' = Taken(w) \ {work} /\ Queued' = Queued
      /\ \A v \in Workers : v # w => Taken(v)' = Taken(v)
  BY <1>2, <1>4 DEF Taken, Queued
<1>6. work \notin Queued /\ \A v \in Workers : v # w => work \notin Taken(v)
  <2>1. ASSUME work \in Queued PROVE FALSE
    <3>1. work.n < work.n /\ work.n \in Nat
      BY <1>2, <2>1, WorkParts DEF Inv, WorkInv, QueueInv
    <3> QED
      BY <3>1
  <2> QED
    BY <1>2, <2>1 DEF Inv, WorkInv, QueueInv
<1>7. Outstanding' = Outstanding \ {work}
  BY <1>5, <1>6 DEF Outstanding
<1>8. QueueInv'
  <2>1. \A y \in Outstanding' : y.n <= events'
    BY <1>7 DEF Inv, WorkInv, QueueInv
  <2>2. \A v \in Workers : \A z \in Taken(v)' : \A y \in Queued' : z.n < y.n
    BY <1>5 DEF Inv, WorkInv, QueueInv
  <2>4. \A u, v \in Workers : u # v => \A z \in Taken(u)' : \A y \in Taken(v)' : z # y
    BY <1>5 DEF Inv, WorkInv, QueueInv
  <2>5. Ascending(queue') /\ \A v \in Workers : Ascending(bulk'[v])
    BY <1>2, <1>4 DEF Inv, WorkInv, QueueInv
  <2> QED
    BY <2>1, <2>2, <2>4, <2>5 DEF QueueInv
<1>9. Alone'
  BY <1>5 DEF Alone, Inv, WorkInv
<1>10. ASSUME work.of \notin split, NEW y \in Outstanding', y.of = work.of PROVE work.n < y.n
  <2>1. CASE y \in Queued
    BY <1>2, <2>1 DEF Inv, WorkInv, QueueInv
  <2>2. CASE \E v \in Workers : y \in Taken(v)'
    <3>1. PICK v \in Workers : y \in Taken(v)'
      BY <2>2
    <3>2. y \in Taken(v)
      BY <1>5, <3>1
    <3>3. v = w
      BY <1>2, <1>10, <3>2, WorkParts DEF Alone, Inv, WorkInv
    <3> QED
      BY <1>2, <1>5, <3>1, <3>3
  <2> QED
    BY <1>5, <2>1, <2>2 DEF Outstanding
<1> QED
  BY <1>3, <1>4, <1>7, <1>8, <1>9, <1>10 DEF work

-----------------------------------------------------------------------------
(* Running a join makes its remote known, running a leave unknown, and nothing else does. *)
LEMMA RunKnown ==
    ASSUME Inv, NEW w \in Workers, RunWork(w), NEW q \in Remotes
    PROVE  q \in Known' <=>
             IF q = Head(bulk[w]).of /\ Head(bulk[w]).kind = "joined" THEN TRUE
             ELSE IF q = Head(bulk[w]).of /\ Head(bulk[w]).kind = "left" THEN FALSE
             ELSE q \in Known
<1> DEFINE work == Head(bulk[w])
           r == work.of
<1>1. /\ work \in Works
      /\ \/ work.kind = "joined" /\ BeginsToWait(r)
         \/ work.kind = "joined" /\ IsMade(w, r)
         \/ work.kind = "left" /\ WaitsNoMore(r)
         \/ work.kind = "left" /\ \E i \in Instances : BeginsToGo(w, r, i)
         \/ ChangesNothing(work)
  BY RunWorkIs DEF Inv, BusInv, WorkInv
<1> HIDE DEF work
<1>2. r \in Remotes /\ BusOf[r] \in Buses /\ BusOf[q] \in Buses
  BY <1>1, WorkParts, BusesAssumption
<1> HIDE DEF r
<1>3. /\ q \in Known <=> \/ \E i \in remotes_[BusOf[q]] : i[1] = q
                         \/ q \in detectedPendingRemotes_[BusOf[q]]
      /\ q \in Known' <=> \/ \E i \in remotes_'[BusOf[q]] : i[1] = q
                          \/ q \in detectedPendingRemotes_'[BusOf[q]]
  BY DEF Known, Present
<1>4. CASE work.kind = "joined" /\ BeginsToWait(r)
  <2>1. /\ remotes_' = remotes_
        /\ detectedPendingRemotes_'[BusOf[r]] = detectedPendingRemotes_[BusOf[r]] \cup {r}
        /\ \A b \in Buses : b # BusOf[r] => detectedPendingRemotes_'[b] = detectedPendingRemotes_[b]
    BY <1>2, <1>4 DEF BeginsToWait, Inv, TypeOK
  <2> QED
    BY <1>2, <1>3, <1>4, <2>1 DEF work, r
<1>5. CASE work.kind = "joined" /\ IsMade(w, r)
  <2>1. /\ detectedPendingRemotes_' = detectedPendingRemotes_
        /\ remotes_'[BusOf[r]] = remotes_[BusOf[r]] \cup {<<r, made[r] + 1>>}
        /\ \A b \in Buses : b # BusOf[r] => remotes_'[b] = remotes_[b]
    BY <1>2, <1>5 DEF IsMade, Inv, TypeOK
  <2>2. <<r, made[r] + 1>>[1] = r
    OBVIOUS
  <2>3. q = r => q \in Known'
    BY <1>3, <2>1, <2>2
  <2>4. q # r => (q \in Known' <=> q \in Known)
    BY <1>2, <1>3, <2>1, <2>2
  <2> QED
    BY <1>5, <2>3, <2>4 DEF work, r
<1>6. CASE work.kind = "left" /\ WaitsNoMore(r)
  <2>1. /\ remotes_' = remotes_ /\ remotes_[BusOf[r]] = {}
        /\ detectedPendingRemotes_'[BusOf[r]] = detectedPendingRemotes_[BusOf[r]] \ {r}
        /\ \A b \in Buses : b # BusOf[r] => detectedPendingRemotes_'[b] = detectedPendingRemotes_[b]
    BY <1>2, <1>6 DEF WaitsNoMore, Inv, TypeOK, BusInv, Placed
  <2> QED
    BY <1>2, <1>3, <1>6, <2>1 DEF work, r
<1>7. CASE work.kind = "left" /\ \E i \in Instances : BeginsToGo(w, r, i)
  <2>1. PICK i \in Instances : BeginsToGo(w, r, i)
    BY <1>7
  <2>2. /\ detectedPendingRemotes_' = detectedPendingRemotes_
        /\ detectedPendingRemotes_[BusOf[r]] = {}
        /\ remotes_'[BusOf[r]] = remotes_[BusOf[r]] \ {i}
        /\ \A b \in Buses : b # BusOf[r] => remotes_'[b] = remotes_[b]
        /\ \A j \in remotes_[BusOf[r]] : j[1] = r <=> j = i
    BY <1>2, <2>1 DEF BeginsToGo, Inv, TypeOK, BusInv, Placed, Present
  <2> QED
    BY <1>2, <1>3, <1>7, <2>2 DEF work, r
<1>8. CASE ChangesNothing(work)
  <2>1. /\ UNCHANGED <<remotes_, detectedPendingRemotes_>>
        /\ work.kind = "joined" => \E i \in remotes_[BusOf[r]] : i[1] = r
        /\ work.kind = "left" => /\ BusOf[r] \in buses_
                                 /\ \A i \in remotes_[BusOf[r]] : i[1] # r
    BY <1>8 DEF ChangesNothing, Present, r
  <2>2. work.kind = "left" => detectedPendingRemotes_[BusOf[r]] = {}
    BY <2>1 DEF Inv, BusInv, Placed
  <2> QED
    BY <1>2, <1>3, <2>1, <2>2 DEF work, r
<1> QED
  BY <1>1, <1>4, <1>5, <1>6, <1>7, <1>8

(* What was heard of a remote is right when the work was run: the last word counts. *)
LEMMA RunVerdict ==
    ASSUME Inv, NEW w \in Workers, RunWork(w)
    PROVE  Verdict'
<1> DEFINE work == Head(bulk[w])
<1>1. /\ work \in Works /\ work \in Outstanding /\ Outstanding' = Outstanding \ {work}
      /\ UNCHANGED <<there, split, overtaken>>
      /\ work.of \notin split => \A y \in Outstanding' : y.of = work.of => work.n < y.n
  BY RunWorkIs, PopWork DEF Inv, BusInv, WorkInv, transportVars
<1>2. \A q \in Remotes : q \in Known' <=>
             IF q = work.of /\ work.kind = "joined" THEN TRUE
             ELSE IF q = work.of /\ work.kind = "left" THEN FALSE
             ELSE q \in Known
  BY RunKnown
<1> HIDE DEF work
<1>3. work.n \in Nat /\ \A x \in Outstanding : x.n \in Nat
  BY <1>1, WorkParts, OutstandingParts DEF Inv
<1>4. SUFFICES ASSUME NEW q \in Remotes \ (split \cup overtaken)
               PROVE  /\ SaysOf(q)' = {} => (q \in Known' <=> q \in there)
                      /\ \A x \in SaysOf(q)' :
                            (\A y \in SaysOf(q)' : y.n <= x.n) => (x.kind = "joined" <=> q \in there)
  BY <1>1 DEF Verdict
<1>5. /\ SaysOf(q) = {} => (q \in Known <=> q \in there)
      /\ \A x \in SaysOf(q) :
            (\A y \in SaysOf(q) : y.n <= x.n) => (x.kind = "joined" <=> q \in there)
  BY <1>4 DEF Inv, WorkInv, Verdict
<1>6. CASE work.of = q /\ work.kind \in {"joined", "left"}
  <2>1. SaysOf(q)' = SaysOf(q) \ {work} /\ work \in SaysOf(q) /\ SaysOf(q) \subseteq Outstanding
    BY <1>1, <1>6 DEF SaysOf
  <2>2. \A y \in SaysOf(q)' : work.n < y.n
    BY <1>1, <1>4, <1>6, <2>1 DEF SaysOf
  <2>3. ASSUME SaysOf(q)' = {} PROVE q \in Known' <=> q \in there
    <3>1. SaysOf(q) = {work}
      BY <2>1, <2>3
    <3>2. work.kind = "joined" <=> q \in there
      BY <1>3, <1>5, <3>1
    <3> QED
      BY <1>2, <1>6, <3>2
  <2>4. ASSUME NEW x \in SaysOf(q)', \A y \in SaysOf(q)' : y.n <= x.n
        PROVE  x.kind = "joined" <=> q \in there
    <3>1. x \in SaysOf(q) /\ work.n <= x.n
      BY <1>3, <2>1, <2>2, <2>4
    <3>2. \A y \in SaysOf(q) : y.n <= x.n
      BY <2>1, <2>4, <3>1
    <3> QED
      BY <1>5, <3>1, <3>2
  <2> QED
    BY <2>3, <2>4
<1>7. CASE ~(work.of = q /\ work.kind \in {"joined", "left"})
  <2>1. SaysOf(q)' = SaysOf(q)
    BY <1>1, <1>7 DEF SaysOf
  <2>2. q \in Known' <=> q \in Known
    BY <1>2, <1>7
  <2> QED
    BY <1>5, <2>1, <2>2
<1> QED
  BY <1>6, <1>7

(* The messages handed on are in order: a work is run before all that come after it. *)
LEMMA RunGot ==
    ASSUME Inv, NEW w \in Workers, RunWork(w)
    PROVE  GotInv' /\ got' \in [Remotes -> Seq(Works)]
<1> DEFINE work == Head(bulk[w])
<1>1. /\ work \in Works /\ work \in Outstanding /\ Outstanding' = Outstanding \ {work}
      /\ UNCHANGED <<split, events>> /\ work.n <= events
      /\ work.of \notin split => \A y \in Outstanding' : y.of = work.of => work.n < y.n
      /\ \/ \E r \in Remotes : BeginsToWait(r) \/ WaitsNoMore(r) \/ IsMade(w, r)
         \/ \E r \in Remotes, i \in Instances : BeginsToGo(w, r, i)
         \/ ChangesNothing(work)
  BY RunWorkIs, PopWork, WorkParts DEF Inv, BusInv, WorkInv, QueueInv, transportVars
<1> HIDE DEF work
<1>2. got' = got \/ got' = [got EXCEPT ![work.of] = Append(@, work)]
  BY <1>1 DEF BeginsToWait, WaitsNoMore, IsMade, BeginsToGo, ChangesNothing
<1>3. work.of \in Remotes /\ got \in [Remotes -> Seq(Works)]
  BY <1>1, WorkParts DEF Inv, TypeOK
<1>4. CASE got' = got
  BY <1>1, <1>3, <1>4 DEF Inv, WorkInv, GotInv
<1>5. CASE got' = [got EXCEPT ![work.of] = Append(@, work)]
  <2>1. /\ \A q \in Remotes : q # work.of => got'[q] = got[q]
        /\ got'[work.of] = Append(got[work.of], work)
        /\ got' \in [Remotes -> Seq(Works)]
    BY <1>1, <1>3, <1>5
  <2>2. ASSUME NEW q \in Remotes \ split
        PROVE  /\ Ascending(got'[q])
               /\ \A i \in 1..Len(got'[q]) :
                     /\ got'[q][i].n <= events
                     /\ \A x \in Outstanding' : x.of = q => got'[q][i].n < x.n
    <3>1. /\ Ascending(got[q]) /\ got[q] \in Seq(Works)
          /\ \A i \in 1..Len(got[q]) :
                /\ got[q][i].n <= events
                /\ \A x \in Outstanding : x.of = q => got[q][i].n < x.n
      BY <1>3 DEF Inv, WorkInv, GotInv
    <3>2. CASE q # work.of
      BY <1>1, <2>1, <3>1, <3>2
    <3>3. CASE q = work.of
      <4>1. \A y \in ElemsOf(got[q]) : y.n < work.n
        BY <1>1, <3>1, <3>3 DEF ElemsOf
      <4>2. Ascending(got'[q])
        BY <1>1, <2>1, <3>1, <3>3, <4>1, AppendElems
      <4>3. ASSUME NEW i \in 1..Len(got'[q])
            PROVE  /\ got'[q][i].n <= events
                   /\ \A x \in Outstanding' : x.of = q => got'[q][i].n < x.n
        <5>1. \A x \in Outstanding' : x.of = q => work.n < x.n
          BY <1>1, <2>2, <3>3
        <5>2. \/ i \in 1..Len(got[q]) /\ got'[q][i] = got[q][i]
              \/ got'[q][i] = work
          BY <1>1, <2>1, <3>1, <3>3
        <5> QED
          BY <1>1, <3>1, <5>1, <5>2
      <4> QED
        BY <4>2, <4>3
    <3> QED
      BY <3>2, <3>3
  <2> QED
    BY <1>1, <2>1, <2>2 DEF GotInv
<1> QED
  BY <1>2, <1>4, <1>5

(* A work that is run pays for the participant that is made, or waits to be, because of it. *)
LEMMA RunCount ==
    ASSUME Inv, NEW w \in Workers, RunWork(w)
    PROVE  CountInv'
<1>0. Head(bulk[w]) \in Works
  BY RunWorkIs DEF Inv, BusInv, WorkInv
<1>w. PICK work \in Works : work = Head(bulk[w])
  BY <1>0
<1>r. PICK r \in Remotes : r = work.of
  BY WorkParts
<1>1. /\ work \in Works /\ work \in Outstanding /\ Outstanding' = Outstanding \ {work}
      /\ UNCHANGED events
      /\ \/ work.kind = "joined" /\ BeginsToWait(r)
         \/ work.kind = "joined" /\ IsMade(w, r)
         \/ WaitsNoMore(r)
         \/ \E i \in Instances : BeginsToGo(w, r, i)
         \/ ChangesNothing(work)
  BY <1>w, <1>r, RunWorkIs, PopWork DEF Inv, BusInv, WorkInv, transportVars
<1>2. r \in Remotes /\ BusOf[r] \in Buses /\ \A q \in Remotes : BusOf[q] \in Buses /\ made[q] \in Nat
  BY BusesAssumption DEF Inv, TypeOK
<1>3. \A q \in Remotes : /\ IsFiniteSet(JoinsOf(q)) /\ Cardinality(JoinsOf(q)) \in Nat
                         /\ made[q] + Waits(q) + Cardinality(JoinsOf(q)) <= events
  BY FS_CardinalityType DEF Inv, WorkInv, CountInv
<1>4. events \in Nat
  BY OutstandingParts DEF Inv
<1>5. \A q \in Remotes : q # r => made'[q] = made[q] /\ Waits(q)' <= Waits(q)
  <2>1. made' = made \/ made' = [made EXCEPT ![r] = @ + 1]
    BY <1>1 DEF BeginsToWait, WaitsNoMore, IsMade, BeginsToGo, ChangesNothing
  <2>2. \A q \in Remotes : q # r => made'[q] = made[q]
    BY <1>2, <2>1 DEF Inv, TypeOK
  <2>3. \/ UNCHANGED detectedPendingRemotes_
        \/ detectedPendingRemotes_' = [detectedPendingRemotes_ EXCEPT ![BusOf[r]] = @ \cup {r}]
        \/ detectedPendingRemotes_' = [detectedPendingRemotes_ EXCEPT ![BusOf[r]] = @ \ {r}]
    BY <1>1 DEF BeginsToWait, WaitsNoMore, IsMade, BeginsToGo, ChangesNothing
  <2>4. \A q \in Remotes : q # r => (q \in detectedPendingRemotes_'[BusOf[q]]
                                     => q \in detectedPendingRemotes_[BusOf[q]])
    <3>1. /\ \A b \in Buses : b # BusOf[r] => detectedPendingRemotes_'[b] = detectedPendingRemotes_[b]
          /\ detectedPendingRemotes_'[BusOf[r]] \subseteq detectedPendingRemotes_[BusOf[r]] \cup {r}
      BY <1>2, <2>3 DEF Inv, TypeOK
    <3> QED
      BY <1>2, <3>1
  <2> QED
    BY <2>2, <2>4 DEF Waits
<1>6. ASSUME work.kind # "joined" PROVE made'[r] = made[r] /\ Waits(r)' <= Waits(r)
  <2>1. made' = made
    BY <1>1, <1>6 DEF WaitsNoMore, BeginsToGo, ChangesNothing
  <2>2. \/ UNCHANGED detectedPendingRemotes_
        \/ detectedPendingRemotes_' = [detectedPendingRemotes_ EXCEPT ![BusOf[r]] = @ \ {r}]
    BY <1>1, <1>6 DEF WaitsNoMore, BeginsToGo, ChangesNothing
  <2>3. r \in detectedPendingRemotes_'[BusOf[r]] => r \in detectedPendingRemotes_[BusOf[r]]
    BY <1>2, <2>2 DEF Inv, TypeOK
  <2> QED
    BY <2>1, <2>3 DEF Waits
<1>7. made'[r] \in Nat /\ made'[r] + Waits(r)' <= made[r] + Waits(r) + 1
  <2>1. CASE BeginsToWait(r) \/ WaitsNoMore(r) \/ ChangesNothing(work)
             \/ \E i \in Instances : BeginsToGo(w, r, i)
    <3>1. made' = made
      BY <2>1 DEF BeginsToWait, WaitsNoMore, BeginsToGo, ChangesNothing
    <3> QED
      BY <1>2, <3>1 DEF Waits
  <2>2. CASE IsMade(w, r)
    <3>1. made'[r] = made[r] + 1 /\ detectedPendingRemotes_' = detectedPendingRemotes_
      BY <1>2, <2>2 DEF IsMade, Inv, TypeOK
    <3> QED
      BY <1>2, <3>1 DEF Waits
  <2> QED
    BY <1>1, <2>1, <2>2
<1>8. ASSUME NEW q \in Remotes
      PROVE  /\ IsFiniteSet(JoinsOf(q)')
             /\ made'[q] + Waits(q)' + Cardinality(JoinsOf(q)') <= events
  <2>1. Waits(q) \in {0, 1} /\ Waits(q)' \in {0, 1}
    BY DEF Waits
  <2>2. CASE q = r /\ work.kind = "joined"
    <3>1. JoinsOf(q)' = JoinsOf(q) \ {work} /\ work \in JoinsOf(q)
      BY <1>1, <1>r, <2>2 DEF JoinsOf
    <3>2. IsFiniteSet(JoinsOf(q)') /\ Cardinality(JoinsOf(q)') = Cardinality(JoinsOf(q)) - 1
      BY <1>3, <3>1, FS_RemoveElement
    <3> QED
      BY <1>2, <1>3, <1>4, <1>7, <2>1, <2>2, <3>2
  <2>3. CASE ~(q = r /\ work.kind = "joined")
    <3>1. JoinsOf(q)' = JoinsOf(q)
      BY <1>1, <1>r, <2>3 DEF JoinsOf
    <3>2. made'[q] = made[q] /\ Waits(q)' <= Waits(q)
      BY <1>5, <1>6, <2>3
    <3> QED
      BY <1>2, <1>3, <1>4, <2>1, <3>1, <3>2
  <2> QED
    BY <2>2, <2>3
<1> QED
  BY <1>1, <1>8 DEF CountInv

(* Running a work keeps the types: there is always a number left for a participant that is made. *)
LEMMA RunTypes ==
    ASSUME Inv, NEW w \in Workers, RunWork(w)
    PROVE  TypeOK'
<1> DEFINE work == Head(bulk[w])
           r == work.of
<1>1. /\ work \in Works /\ bulk' \in [Workers -> Seq(Works)] /\ doing[w] = Idle
      /\ \A v \in Workers : Len(bulk'[v]) <= BulkSize
      /\ UNCHANGED <<queue, buses_, participants_, subscribed, attached, destroying, there, events,
                     split, overtaken, orphaned, between>>
      /\ \/ BeginsToWait(r)
         \/ IsMade(w, r)
         \/ WaitsNoMore(r)
         \/ \E i \in Instances : BeginsToGo(w, r, i)
         \/ ChangesNothing(work)
  BY RunWorkIs, PopWork DEF Inv, BusInv, WorkInv, transportVars
<1>2. got' \in [Remotes -> Seq(Works)] /\ CountInv'
  BY RunGot, RunCount
<1> HIDE DEF work
<1>3. r \in Remotes /\ BusOf[r] \in Buses
  BY <1>1, WorkParts, BusesAssumption
<1> HIDE DEF r
<1>4. \A q \in Remotes : made'[q] \in Nat => made'[q] <= MaxEvents
  <2>1. ASSUME NEW q \in Remotes, made'[q] \in Nat PROVE made'[q] <= MaxEvents
    <3>1. /\ made'[q] + Waits(q)' + Cardinality(JoinsOf(q)') <= events'
          /\ Cardinality(JoinsOf(q)') \in Nat
      BY <1>2, FS_CardinalityType DEF CountInv
    <3>2. Waits(q)' \in {0, 1}
      BY DEF Waits
    <3>3. events' \in Nat /\ events' <= MaxEvents /\ MaxEvents \in Nat
      BY <1>1, BusesAssumption DEF Inv, TypeOK
    <3> QED
      BY <2>1, <3>1, <3>2, <3>3
  <2> QED
    BY <2>1
<1>5. /\ doing' \in [Workers -> {Idle} \cup ({"joining", "leaving"} \X Instances)]
      /\ remotes_' \in [Buses -> SUBSET Instances]
      /\ detectedPendingRemotes_' \in [Buses -> SUBSET Remotes]
      /\ listening' \in [Locals -> SUBSET Instances]
      /\ made' \in [Remotes -> 0..MaxEvents]
  <2>0. /\ doing \in [Workers -> {Idle} \cup ({"joining", "leaving"} \X Instances)]
        /\ remotes_ \in [Buses -> SUBSET Instances]
        /\ detectedPendingRemotes_ \in [Buses -> SUBSET Remotes]
        /\ listening \in [Locals -> SUBSET Instances]
        /\ made \in [Remotes -> 0..MaxEvents]
    BY DEF Inv, TypeOK
  <2>1. CASE BeginsToWait(r)
    BY <1>3, <2>0, <2>1 DEF BeginsToWait
  <2>2. CASE IsMade(w, r)
    <3>1. made' = [made EXCEPT ![r] = @ + 1] /\ made[r] \in Nat
      BY <1>3, <2>0, <2>2 DEF IsMade
    <3>2. made'[r] = made[r] + 1
      BY <1>3, <2>0, <3>1
    <3>3. made[r] + 1 \in 1..MaxEvents
      BY <1>3, <1>4, <3>1, <3>2, BusesAssumption
    <3>4. <<r, made[r] + 1>> \in Instances
      BY <1>3, <3>3 DEF Instances
    <3>5. made' \in [Remotes -> 0..MaxEvents]
      BY <1>3, <2>0, <3>1, <3>3, BusesAssumption
    <3> DEFINE new == <<r, made[r] + 1>>
    <3>6. /\ remotes_' = [remotes_ EXCEPT ![BusOf[r]] = @ \cup {new}]
          /\ doing' = [doing EXCEPT ![w] = <<"joining", new>>]
          /\ listening' = [l \in Locals |-> IF l \in On(BusOf[r]) /\ subscribed[l] # "no"
                                            THEN listening[l] \cup {new} ELSE listening[l]]
          /\ UNCHANGED <<detectedPendingRemotes_, providerVars>> /\ new \in Instances
      BY <2>2, <3>4 DEF IsMade
    <3> HIDE DEF new
    <3> QED
      BY <1>3, <2>0, <3>5, <3>6
  <2>3. CASE WaitsNoMore(r)
    BY <1>3, <2>0, <2>3 DEF WaitsNoMore
  <2>4. CASE \E i \in Instances : BeginsToGo(w, r, i)
    BY <1>3, <2>0, <2>4 DEF BeginsToGo
  <2>5. CASE ChangesNothing(work)
    BY <2>0, <2>5 DEF ChangesNothing
  <2> QED
    BY <1>1, <2>1, <2>2, <2>3, <2>4, <2>5
<1>6. /\ infoProviders_' \subseteq Providers
      /\ told' \in [Providers -> SUBSET Buses] /\ late' \in [Providers -> SUBSET Buses]
  <2>1. \/ NotifySourceAdded(BusOf[r]) \/ NotifySourceRemoved(BusOf[r])
        \/ UNCHANGED providerVars
    BY <1>1 DEF BeginsToWait, IsMade, WaitsNoMore, BeginsToGo, ChangesNothing
  <2>2. TypeOK /\ BusOf[r] \in Buses
    BY <1>3 DEF Inv
  <2> QED
    BY <2>1, <2>2, ToldTypes
<1> QED
  BY <1>1, <1>2, <1>5, <1>6 DEF Inv, TypeOK

(* Running a work keeps everything. *)
LEMMA RunWorkInv ==
    ASSUME Inv, NEW w \in Workers, RunWork(w)
    PROVE  Inv'
<1>1. QueueInv' /\ Alone'
  BY RunWorkIs, PopWork DEF Inv, BusInv, WorkInv, transportVars
<1> QED
  BY <1>1, RunTypes, RunCount, RunGot, RunVerdict, RunWorkBuses DEF Inv, WorkInv

-----------------------------------------------------------------------------
(* The transport reports something of a remote: the new work is the last word about it. *)
LEMMA EnqueueInv ==
    ASSUME Inv, NEW kind \in Kinds, NEW r \in Remotes, Enqueue(kind, r), there' \subseteq Remotes,
           \A q \in Remotes : q # r => (q \in there' <=> q \in there),
           kind = "joined" => r \in there', kind = "left" => r \notin there',
           kind \notin {"joined", "left"} => there' = there
    PROVE  Inv'
<1>0. PICK x : x = [kind |-> kind, of |-> r, n |-> events + 1]
  OBVIOUS
<1>1. /\ x \in Works /\ x.kind = kind /\ x.of = r /\ x.n = events + 1
      /\ queue' \in Seq(Works) /\ events' \in 0..MaxEvents /\ events' = events + 1
      /\ Outstanding' = Outstanding \cup {x} /\ \A y \in Outstanding : y.n < x.n
      /\ QueueInv'
  BY <1>0, EnqueueWork
<1>2. UNCHANGED <<bulk, doing, busVars, localVars, destroying, history>>
  BY DEF Enqueue
<1>3. TypeOK'
  BY <1>1, <1>2 DEF Inv, TypeOK, busVars, providerVars, localVars, history
<1>4. BusInv' /\ ProvidersAreTold'
  BY <1>2, BusesStay DEF busVars, history
<1>5. Alone'
  BY <1>2 DEF Inv, WorkInv, Alone, Taken, history
<1>6. GotInv'
  <2>1. ASSUME NEW q \in Remotes \ split
        PROVE  /\ Ascending(got[q])
               /\ \A i \in 1..Len(got[q]) :
                     /\ got[q][i].n <= events + 1
                     /\ \A y \in Outstanding' : y.of = q => got[q][i].n < y.n
    <3>1. /\ Ascending(got[q]) /\ got[q] \in Seq(Works)
          /\ \A i \in 1..Len(got[q]) :
                /\ got[q][i].n <= events
                /\ \A y \in Outstanding : y.of = q => got[q][i].n < y.n
      BY DEF Inv, WorkInv, GotInv, TypeOK
    <3>3. \A i \in 1..Len(got[q]) : got[q][i].n < x.n /\ got[q][i].n <= events + 1
      <4>1. ASSUME NEW i \in 1..Len(got[q])
            PROVE  got[q][i].n < x.n /\ got[q][i].n <= events + 1
        <5>1. got[q][i].n <= events /\ got[q][i] \in Works /\ events \in Nat
          BY <3>1, OutstandingParts DEF Inv
        <5> QED
          BY <1>1, <5>1, WorkParts
      <4> QED
        BY <4>1
    <3> QED
      BY <1>1, <3>1, <3>3
  <2> QED
    BY <1>1, <1>2, <2>1 DEF GotInv, history
<1>8. CountInv'
  <2>1. ASSUME NEW q \in Remotes
        PROVE  IsFiniteSet(JoinsOf(q)') /\ made[q] + Waits(q) + Cardinality(JoinsOf(q)') <= events + 1
    <3>1. /\ IsFiniteSet(JoinsOf(q)) /\ Cardinality(JoinsOf(q)) \in Nat
          /\ made[q] + Waits(q) + Cardinality(JoinsOf(q)) <= events
          /\ made[q] \in Nat /\ Waits(q) \in Nat /\ events \in Nat
      BY FS_CardinalityType, OutstandingParts DEF Inv, WorkInv, CountInv, TypeOK, Waits
    <3>2. JoinsOf(q)' = JoinsOf(q) \/ JoinsOf(q)' = JoinsOf(q) \cup {x}
      BY <1>1 DEF JoinsOf
    <3>3. /\ IsFiniteSet(JoinsOf(q)')
          /\ Cardinality(JoinsOf(q)') = Cardinality(JoinsOf(q))
             \/ Cardinality(JoinsOf(q)') = Cardinality(JoinsOf(q)) + 1
      BY <3>1, <3>2, FS_AddElement
    <3> QED
      BY <3>1, <3>3
  <2>2. made' = made /\ \A q \in Remotes : Waits(q)' = Waits(q)
    BY <1>2 DEF busVars, Waits
  <2> QED
    BY <1>1, <2>1, <2>2 DEF CountInv
<1>9. Verdict'
  <2>1. Known' = Known /\ split' = split /\ overtaken' = overtaken
    BY <1>2 DEF Known, Present, busVars, history
  <2>2. \A y \in Outstanding : y.n \in Nat
    BY OutstandingParts DEF Inv
  <2>3. ASSUME NEW q \in Remotes \ (split \cup overtaken)
        PROVE  /\ SaysOf(q)' = {} => (q \in Known <=> q \in there')
               /\ \A z \in SaysOf(q)' :
                     (\A y \in SaysOf(q)' : y.n <= z.n) => (z.kind = "joined" <=> q \in there')
    <3>1. /\ SaysOf(q) = {} => (q \in Known <=> q \in there)
          /\ \A z \in SaysOf(q) :
                (\A y \in SaysOf(q) : y.n <= z.n) => (z.kind = "joined" <=> q \in there)
      BY DEF Inv, WorkInv, Verdict
    <3>2. CASE q = r /\ kind \in {"joined", "left"}
      <4>1. x \in SaysOf(q)' /\ \A y \in SaysOf(q)' : y = x \/ y.n < x.n
        BY <1>1, <3>2 DEF SaysOf
      <4>2. \A y \in SaysOf(q)' : y.n \in Nat
        BY <1>1, <2>2, WorkParts DEF SaysOf
      <4>3. ASSUME NEW z \in SaysOf(q)', \A y \in SaysOf(q)' : y.n <= z.n PROVE z = x
        BY <4>1, <4>2, <4>3
      <4> QED
        BY <1>1, <3>2, <4>1, <4>3
    <3>3. CASE ~(q = r /\ kind \in {"joined", "left"})
      <4>1. SaysOf(q)' = SaysOf(q)
        BY <1>1, <3>3 DEF SaysOf
      <4>2. q \in there' <=> q \in there
        BY <3>3
      <4> QED
        BY <3>1, <4>1, <4>2
    <3> QED
      BY <3>2, <3>3
  <2> QED
    BY <2>1, <2>3 DEF Verdict
<1> QED
  BY <1>1, <1>3, <1>4, <1>5, <1>6, <1>8, <1>9 DEF Inv, WorkInv

(* The transport's reports. *)
LEMMA ReportInv ==
    ASSUME Inv, NEW r \in Remotes,
           RemoteParticipantJoinedBus(r) \/ RemoteParticipantLeftBus(r)
           \/ \E kind \in Kinds : RemoteMessageReceived(r, kind)
    PROVE  Inv'
<1>0. there \subseteq Remotes
  BY DEF Inv, TypeOK
<1>1. CASE RemoteParticipantJoinedBus(r)
  <2>1. Enqueue("joined", r) /\ there' = there \cup {r} /\ "joined" \in Kinds
    BY <1>1 DEF RemoteParticipantJoinedBus, Kinds
  <2> QED
    BY <1>0, <2>1, EnqueueInv
<1>2. CASE RemoteParticipantLeftBus(r)
  <2>1. Enqueue("left", r) /\ there' = there \ {r} /\ "left" \in Kinds
    BY <1>2 DEF RemoteParticipantLeftBus, Kinds
  <2> QED
    BY <1>0, <2>1, EnqueueInv
<1>3. CASE \E kind \in Kinds : RemoteMessageReceived(r, kind)
  <2>1. PICK kind \in Kinds : RemoteMessageReceived(r, kind)
    BY <1>3
  <2>2. Enqueue(kind, r) /\ there' = there /\ kind \notin {"joined", "left"}
    BY <2>1 DEF RemoteMessageReceived
  <2> QED
    BY <1>0, <2>2, EnqueueInv
<1> QED
  BY <1>1, <1>2, <1>3

(* A worker takes a bulk: the work stays outstanding. *)
LEMMA TakeBulkInv ==
    ASSUME Inv, NEW w \in Workers, TakeBulk(w)
    PROVE  Inv'
<1>1. /\ queue' \in Seq(Works) /\ bulk' \in [Workers -> Seq(Works)]
      /\ \A v \in Workers : Len(bulk'[v]) <= BulkSize
      /\ split' \subseteq Remotes /\ split \subseteq split'
      /\ Outstanding' = Outstanding /\ QueueInv' /\ Alone'
  BY TakeWork
<1>2. UNCHANGED <<doing, buses_, remotes_, detectedPendingRemotes_, providerVars, made,
                  participants_, listening, subscribed, attached, destroying, there, events, got,
                  overtaken, orphaned, between>>
  BY DEF TakeBulk, busVars, localVars, transportVars
<1>3. TypeOK'
  BY <1>1, <1>2 DEF Inv, TypeOK, providerVars
<1>4. BusInv' /\ ProvidersAreTold'
  BY <1>2, BusesStay DEF localVars
<1>5. GotInv'
  BY <1>1, <1>2 DEF Inv, WorkInv, GotInv
<1>6. CountInv'
  <2>1. \A q \in Remotes : JoinsOf(q)' = JoinsOf(q) /\ Waits(q)' = Waits(q)
    BY <1>1, <1>2 DEF JoinsOf, Waits
  <2> QED
    BY <1>2, <2>1 DEF Inv, WorkInv, CountInv
<1>7. Verdict'
  <2>1. Known' = Known /\ \A q \in Remotes : SaysOf(q)' = SaysOf(q)
    BY <1>1, <1>2 DEF Known, Present, SaysOf
  <2> QED
    BY <1>1, <1>2, <2>1 DEF Inv, WorkInv, Verdict
<1> QED
  BY <1>1, <1>3, <1>4, <1>5, <1>6, <1>7 DEF Inv, WorkInv

(* A step that reports nothing and runs no work keeps what is known of the work. *)
LEMMA WorkStays ==
    ASSUME Inv, UNCHANGED <<queue, bulk, events, split, got>>
    PROVE  /\ QueueInv' /\ Alone' /\ GotInv' /\ Outstanding' = Outstanding
           /\ \A r \in Remotes : JoinsOf(r)' = JoinsOf(r) /\ SaysOf(r)' = SaysOf(r)
<1>1. Queued' = Queued /\ \A w \in Workers : Taken(w)' = Taken(w)
  BY DEF Queued, Taken
<1>2. Outstanding' = Outstanding
  BY <1>1 DEF Outstanding
<1> QED
  BY <1>1, <1>2 DEF Inv, WorkInv, QueueInv, Alone, GotInv, JoinsOf, SaysOf

(* Nor do the locals and the destruction of a participant change anything of it. *)
LEMMA LocalInv ==
    ASSUME Inv, Next, TypeOK',
           UNCHANGED <<queue, bulk, busVars, there, events, got, split, overtaken>>
    PROVE  Inv'
<1>1. /\ QueueInv' /\ Alone' /\ GotInv'
      /\ \A r \in Remotes : JoinsOf(r)' = JoinsOf(r) /\ SaysOf(r)' = SaysOf(r)
  BY WorkStays
<1>2. CountInv'
  <2>1. made' = made /\ \A q \in Remotes : Waits(q)' = Waits(q)
    BY DEF Waits, busVars
  <2> QED
    BY <1>1, <2>1 DEF Inv, WorkInv, CountInv
<1>3. Verdict'
  <2>1. Known' = Known
    BY DEF Known, Present, busVars
  <2> QED
    BY <1>1, <2>1 DEF Inv, WorkInv, Verdict
<1> QED
  BY <1>1, <1>2, <1>3, NextBuses DEF Inv, WorkInv

(* The steps of the locals, the end of a join and of a leave, the destruction of what was lost. *)
LEMMA LocalSteps ==
    ASSUME Inv, Next,
           \/ DestroyLost
           \/ \E w \in Workers : Stored(w) \/ Destroy(w)
           \/ \E l \in Locals : Connect(l) \/ Disconnect(l) \/ SubscriberStored(l)
                                \/ SubscriberListens(l)
    PROVE  Inv'
<1> DEFINE LocalTypes ==
             /\ attached \subseteq Locals /\ destroying \subseteq Instances
             /\ between \subseteq Instances
             /\ participants_ \in [Locals -> SUBSET Instances]
             /\ listening \in [Locals -> SUBSET Instances]
             /\ subscribed \in [Locals -> {"no", "stored", "yes"}]
             /\ doing \in [Workers -> {Idle} \cup ({"joining", "leaving"} \X Instances)]
<1>0. LocalTypes /\ remotes_ \in [Buses -> SUBSET Instances]
  BY DEF Inv, TypeOK
<1>1. UNCHANGED <<queue, bulk, busVars, there, events, got, split, overtaken, orphaned>>
  BY DEF DestroyLost, Stored, Destroy, Connect, Disconnect, SubscriberStored, SubscriberListens,
         dispatchVars, transportVars, history
<1>2. LocalTypes'
  <2>1. CASE DestroyLost
    BY <1>0, <2>1 DEF DestroyLost, Released, dispatchVars, history
  <2>2. ASSUME NEW w \in Workers, Stored(w) PROVE LocalTypes'
    <3>1. doing[w][2] \in Instances
      BY <2>2, DoingParts, GoingParts DEF Stored, Inv
    <3> QED
      BY <1>0, <2>2, <3>1 DEF Stored, transportVars, history
  <2>3. ASSUME NEW w \in Workers, Destroy(w) PROVE LocalTypes'
    BY <1>0, <2>3 DEF Destroy, Released, transportVars, history
  <2>4. ASSUME NEW l \in Locals, Connect(l) PROVE LocalTypes'
    <3>1. remotes_[BusOf[l]] \subseteq Instances
      BY <1>0, BusesAssumption
    <3> QED
      BY <1>0, <2>4, <3>1 DEF Connect, transportVars, history, dispatchVars
  <2>5. ASSUME NEW l \in Locals, Disconnect(l) PROVE LocalTypes'
    BY <1>0, <2>5 DEF Disconnect, transportVars, history, dispatchVars
  <2>6. ASSUME NEW l \in Locals, SubscriberStored(l) PROVE LocalTypes'
    BY <1>0, <2>6, GoingParts DEF SubscriberStored, transportVars, history, dispatchVars, Inv
  <2>7. ASSUME NEW l \in Locals, SubscriberListens(l) PROVE LocalTypes'
    BY <1>0, <2>7 DEF SubscriberListens, transportVars, history, dispatchVars
  <2> QED
    BY <2>1, <2>2, <2>3, <2>4, <2>5, <2>6, <2>7
<1>3. TypeOK'
  BY <1>1, <1>2 DEF Inv, TypeOK, busVars, providerVars
<1> QED
  BY <1>1, <1>3, LocalInv

(* A process is lost: it is forgotten unless work of it is still to be run. *)
LEMMA LostInv ==
    ASSUME Inv, Next, NEW p, RemoteProcessLost(p)
    PROVE  Inv'
<1> DEFINE lost == {r \in Remotes : ProcessOf[r] = p}
           gone == {i \in UNION {remotes_[b] : b \in Buses} : i[1] \in lost}
<1>1. /\ events < MaxEvents /\ events' = events + 1 /\ there' = there \ lost
      /\ destroying' = gone /\ overtaken' = overtaken \cup {r \in lost : ~Done(r)}
      /\ remotes_' = [b \in Buses |-> remotes_[b] \ gone]
      /\ detectedPendingRemotes_' = WithoutLost(p)
      /\ orphaned' = orphaned \cup {b \in Buses : detectedPendingRemotes_[b] \cap lost # {}}
      /\ UNCHANGED <<queue, bulk, doing, buses_, providerVars, made, participants_, listening,
                     subscribed, attached, got, split, between>>
  BY DEF RemoteProcessLost, dispatchVars, localVars
<1>2. /\ \A b \in Buses : remotes_[b] \subseteq Instances /\ detectedPendingRemotes_[b] \subseteq Remotes
      /\ there \subseteq Remotes /\ overtaken \subseteq Remotes /\ orphaned \subseteq Buses
      /\ events \in 0..MaxEvents /\ MaxEvents \in Nat
  BY BusesAssumption DEF Inv, TypeOK
<1>3. TypeOK'
  <2>1. events' \in 0..MaxEvents
    BY <1>1, <1>2
  <2>2. /\ remotes_' \in [Buses -> SUBSET Instances] /\ destroying' \subseteq Instances
        /\ detectedPendingRemotes_' \in [Buses -> SUBSET Remotes]
        /\ there' \subseteq Remotes /\ overtaken' \subseteq Remotes /\ orphaned' \subseteq Buses
    BY <1>1, <1>2 DEF WithoutLost
  <2> QED
    BY <1>1, <2>1, <2>2 DEF Inv, TypeOK, providerVars
<1>4. /\ Outstanding' = Outstanding
      /\ \A r \in Remotes : JoinsOf(r)' = JoinsOf(r) /\ SaysOf(r)' = SaysOf(r)
  <2>1. Queued' = Queued /\ \A w \in Workers : Taken(w)' = Taken(w)
    BY <1>1 DEF Queued, Taken
  <2>2. Outstanding' = Outstanding
    BY <2>1 DEF Outstanding
  <2> QED
    BY <2>2 DEF JoinsOf, SaysOf
<1>5. QueueInv' /\ Alone'
  <2>1. \A x \in Outstanding : x.n \in Nat /\ x.n <= events
    BY OutstandingParts DEF Inv, WorkInv, QueueInv
  <2>2. \A x \in Outstanding' : x.n <= events'
    BY <1>1, <1>2, <1>4, <2>1
  <2>3. Queued' = Queued /\ \A w \in Workers : Taken(w)' = Taken(w)
    BY <1>1 DEF Queued, Taken
  <2> QED
    BY <1>1, <2>2, <2>3 DEF Inv, WorkInv, QueueInv, Alone
<1>6. GotInv'
  <2>1. ASSUME NEW r \in Remotes \ split, NEW i \in 1..Len(got[r]) PROVE got[r][i].n <= events + 1
    <3>1. got[r] \in Seq(Works) /\ got[r][i].n <= events
      BY DEF Inv, WorkInv, GotInv, TypeOK
    <3>2. got[r][i].n \in Nat
      BY <3>1, WorkParts
    <3> QED
      BY <1>2, <3>1, <3>2
  <2> QED
    BY <1>1, <1>4, <2>1 DEF Inv, WorkInv, GotInv
<1>7. /\ \A b \in Buses : remotes_'[b] = remotes_[b] \ gone
      /\ \A b \in Buses : detectedPendingRemotes_'[b] = detectedPendingRemotes_[b] \ lost
      /\ \A b \in Buses : \A i \in remotes_[b] : i \in gone <=> i[1] \in lost
      /\ \A r \in Remotes : BusOf[r] \in Buses
  BY <1>1, <1>2, BusesAssumption DEF WithoutLost
<1> HIDE DEF gone, lost
<1>8. CountInv'
  <2>1. ASSUME NEW r \in Remotes
        PROVE  IsFiniteSet(JoinsOf(r)) /\ made[r] + Waits(r)' + Cardinality(JoinsOf(r)) <= events + 1
    <3>1. /\ IsFiniteSet(JoinsOf(r)) /\ Cardinality(JoinsOf(r)) \in Nat /\ made[r] \in Nat
          /\ made[r] + Waits(r) + Cardinality(JoinsOf(r)) <= events
      BY FS_CardinalityType DEF Inv, WorkInv, CountInv, TypeOK
    <3>2. Waits(r) \in {0, 1} /\ Waits(r)' \in {0, 1} /\ Waits(r)' <= Waits(r)
      BY <1>7 DEF Waits
    <3> QED
      BY <1>2, <3>1, <3>2
  <2> QED
    BY <1>1, <1>4, <2>1 DEF CountInv
<1>9. Verdict'
  <2>1. ASSUME NEW r \in Remotes \ (split \cup overtaken')
        PROVE  /\ SaysOf(r) = {} => (r \in Known' <=> r \in there')
               /\ \A x \in SaysOf(r) :
                     (\A y \in SaysOf(r) : y.n <= x.n) => (x.kind = "joined" <=> r \in there')
    <3>1. /\ SaysOf(r) = {} => (r \in Known <=> r \in there)
          /\ \A x \in SaysOf(r) :
                (\A y \in SaysOf(r) : y.n <= x.n) => (x.kind = "joined" <=> r \in there)
      BY <1>1, <2>1 DEF Inv, WorkInv, Verdict
    <3>2. /\ r \in Known <=> \/ \E i \in remotes_[BusOf[r]] : i[1] = r
                             \/ r \in detectedPendingRemotes_[BusOf[r]]
          /\ r \in Known' <=> \/ \E i \in remotes_'[BusOf[r]] : i[1] = r
                              \/ r \in detectedPendingRemotes_'[BusOf[r]]
      BY DEF Known, Present
    <3>3. CASE r \in lost
      <4>1. Done(r)
        BY <1>1, <2>1, <3>3
      <4>2. r \notin WorkOf(queue) /\ \A w \in Workers : r \notin WorkOf(bulk[w])
        BY <4>1 DEF Done
      <4>3. SaysOf(r) = {}
        BY <4>2 DEF SaysOf, Outstanding, Queued, Taken, ElemsOf, WorkOf
      <4>4. r \notin Known'
        BY <1>7, <3>2, <3>3
      <4> QED
        BY <1>1, <3>3, <4>3, <4>4
    <3>4. CASE r \notin lost
      <4>1. r \in Known' <=> r \in Known
        BY <1>7, <3>2, <3>4
      <4>2. r \in there' <=> r \in there
        BY <1>1, <3>4
      <4> QED
        BY <3>1, <4>1, <4>2
    <3> QED
      BY <3>3, <3>4
  <2> QED
    BY <1>1, <1>4, <2>1 DEF Verdict
<1>10. BusInv' /\ ProvidersAreTold'
  BY NextBuses
<1> QED
  BY <1>3, <1>5, <1>6, <1>8, <1>9, <1>10 DEF Inv, WorkInv

(* A bus opens: who waited is made, with the number its join had left for it. *)
LEMMA OpenInv ==
    ASSUME Inv, Next, NEW b \in Buses, GetOrOpenBus(b)
    PROVE  Inv'
<1> DEFINE waiting == detectedPendingRemotes_[b]
<1>1. /\ b \notin buses_ /\ buses_' = buses_ \cup {b} /\ NotifySourceAdded(b)
      /\ remotes_' = [remotes_ EXCEPT ![b] = {<<r, made[r] + 1>> : r \in waiting}]
      /\ made' = [r \in Remotes |-> IF r \in waiting THEN made[r] + 1 ELSE made[r]]
      /\ detectedPendingRemotes_' = [detectedPendingRemotes_ EXCEPT ![b] = {}]
      /\ UNCHANGED <<queue, bulk, doing, participants_, listening, subscribed, attached, destroying,
                     there, events, got, split, overtaken, orphaned, between>>
  BY DEF GetOrOpenBus, HandedOver, dispatchVars, transportVars, history, localVars
<1>2. /\ waiting \subseteq Remotes /\ remotes_ \in [Buses -> SUBSET Instances]
      /\ detectedPendingRemotes_ \in [Buses -> SUBSET Remotes]
      /\ made \in [Remotes -> 0..MaxEvents] /\ events \in 0..MaxEvents /\ MaxEvents \in Nat
  BY BusesAssumption DEF Inv, TypeOK
<1>3. /\ \A r \in waiting : BusOf[r] = b /\ r \in detectedPendingRemotes_[BusOf[r]]
      /\ remotes_[b] = {} /\ \A r \in Remotes : BusOf[r] \in Buses
  BY <1>1, BusesAssumption DEF Inv, BusInv, Placed
<1> HIDE DEF waiting
<1>4. /\ QueueInv' /\ Alone' /\ GotInv'
      /\ \A r \in Remotes : JoinsOf(r)' = JoinsOf(r) /\ SaysOf(r)' = SaysOf(r)
  BY <1>1, WorkStays
<1>5. ASSUME NEW r \in Remotes
      PROVE  /\ made[r] \in Nat /\ made'[r] \in Nat
             /\ made'[r] + Waits(r)' <= made[r] + Waits(r)
             /\ made[r] + Waits(r) <= events
  <2>1. /\ IsFiniteSet(JoinsOf(r)) /\ Cardinality(JoinsOf(r)) \in Nat /\ made[r] \in Nat
        /\ made[r] + Waits(r) + Cardinality(JoinsOf(r)) <= events
    BY FS_CardinalityType DEF Inv, WorkInv, CountInv, TypeOK
  <2>2. Waits(r) \in {0, 1} /\ Waits(r)' \in {0, 1}
    BY DEF Waits
  <2>3. CASE r \in waiting
    <3>1. Waits(r) = 1 /\ made'[r] = made[r] + 1
      BY <1>1, <1>3, <2>3 DEF Waits
    <3>2. Waits(r)' = 0
      BY <1>1, <1>2, <1>3, <2>3 DEF Waits
    <3> QED
      BY <1>2, <2>1, <3>1, <3>2
  <2>4. CASE r \notin waiting
    <3>1. made'[r] = made[r]
      BY <1>1, <2>4
    <3>2. Waits(r)' <= Waits(r)
      BY <1>1, <1>2, <1>3 DEF Waits
    <3> QED
      BY <1>2, <2>1, <2>2, <3>1, <3>2
  <2> QED
    BY <2>3, <2>4
<1>6. CountInv'
  <2>1. ASSUME NEW r \in Remotes
        PROVE  IsFiniteSet(JoinsOf(r)) /\ made'[r] + Waits(r)' + Cardinality(JoinsOf(r)) <= events
    <3>1. /\ IsFiniteSet(JoinsOf(r)) /\ Cardinality(JoinsOf(r)) \in Nat
          /\ made[r] + Waits(r) + Cardinality(JoinsOf(r)) <= events
      BY FS_CardinalityType DEF Inv, WorkInv, CountInv
    <3>2. Waits(r) \in Nat /\ Waits(r)' \in Nat
      BY DEF Waits
    <3> QED
      BY <1>2, <1>5, <3>1, <3>2
  <2> QED
    BY <1>1, <1>4, <2>1 DEF CountInv
<1>7. \A r \in Remotes : made'[r] \in 0..MaxEvents
  <2>1. ASSUME NEW r \in Remotes PROVE made'[r] \in 0..MaxEvents
    <3>1. Waits(r) \in Nat /\ Waits(r)' \in Nat
      BY DEF Waits
    <3> QED
      BY <1>2, <1>5, <3>1
  <2> QED
    BY <2>1
<1>8. TypeOK'
  <2>1. made' \in [Remotes -> 0..MaxEvents]
    BY <1>1, <1>7
  <2>2. {<<r, made[r] + 1>> : r \in waiting} \subseteq Instances
    <3>1. ASSUME NEW r \in waiting PROVE <<r, made[r] + 1>> \in Instances
      <4>1. r \in Remotes /\ made'[r] = made[r] + 1 /\ made[r] \in Nat
        BY <1>1, <1>2
      <4>2. made[r] + 1 \in 1..MaxEvents
        BY <1>2, <1>7, <4>1
      <4> QED
        BY <4>1, <4>2 DEF Instances
    <3> QED
      BY <3>1
  <2>3. remotes_' \in [Buses -> SUBSET Instances]
    BY <1>1, <1>2, <2>2
  <2>4. /\ detectedPendingRemotes_' \in [Buses -> SUBSET Remotes]
        /\ buses_' \subseteq Buses /\ infoProviders_' \subseteq Providers
        /\ told' \in [Providers -> SUBSET Buses] /\ late' \in [Providers -> SUBSET Buses]
    BY <1>1, <1>2, ToldTypes DEF Inv, TypeOK
  <2> QED
    BY <1>1, <2>1, <2>3, <2>4 DEF Inv, TypeOK
<1>9. ASSUME NEW q \in Remotes PROVE q \in Known' <=> q \in Known
  <2>1. /\ q \in Known <=> \/ \E i \in remotes_[BusOf[q]] : i[1] = q
                           \/ q \in detectedPendingRemotes_[BusOf[q]]
        /\ q \in Known' <=> \/ \E i \in remotes_'[BusOf[q]] : i[1] = q
                            \/ q \in detectedPendingRemotes_'[BusOf[q]]
    BY DEF Known, Present
  <2>2. CASE BusOf[q] = b
    <3>1. /\ remotes_'[b] = {<<r, made[r] + 1>> : r \in waiting} /\ detectedPendingRemotes_'[b] = {}
      BY <1>1, <1>2
    <3>2. (\E i \in remotes_'[b] : i[1] = q) <=> q \in waiting
      <4>1. \A r \in waiting : <<r, made[r] + 1>>[1] = r
        OBVIOUS
      <4>2. ASSUME NEW i \in remotes_'[b], i[1] = q PROVE q \in waiting
        <5>1. PICK r \in waiting : i = <<r, made[r] + 1>>
          BY <3>1
        <5> QED
          BY <4>1, <4>2, <5>1
      <4>3. ASSUME q \in waiting PROVE \E i \in remotes_'[b] : i[1] = q
        <5>1. <<q, made[q] + 1>> \in remotes_'[b]
          BY <3>1, <4>3
        <5> QED
          BY <4>1, <4>3, <5>1
      <4> QED
        BY <4>2, <4>3
    <3> QED
      BY <1>3, <2>1, <2>2, <3>1, <3>2 DEF waiting
  <2>3. CASE BusOf[q] # b
    <3>1. /\ remotes_'[BusOf[q]] = remotes_[BusOf[q]]
          /\ detectedPendingRemotes_'[BusOf[q]] = detectedPendingRemotes_[BusOf[q]]
      BY <1>1, <1>2, <1>3, <2>3
    <3> QED
      BY <2>1, <3>1
  <2> QED
    BY <2>2, <2>3
<1>10. Verdict'
  BY <1>1, <1>4, <1>9 DEF Inv, WorkInv, Verdict
<1> QED
  BY <1>4, <1>6, <1>8, <1>10, NextBuses DEF Inv, WorkInv

-----------------------------------------------------------------------------
(* Making a provider or deleting one concerns nobody else. *)
LEMMA ProviderInv ==
    ASSUME Inv, Next, NEW i \in Providers, MakeInfoProvider(i) \/ InfoProviderDeleted(i)
    PROVE  Inv'
<1>1. UNCHANGED <<queue, bulk, doing, buses_, remotes_, detectedPendingRemotes_, made,
                  participants_, listening, subscribed, attached, destroying, there, events, got,
                  split, overtaken, orphaned, between>>
  BY DEF MakeInfoProvider, InfoProviderDeleted, dispatchVars, localVars, transportVars, history
<1>2. TypeOK'
  <2>1. /\ infoProviders_' \subseteq Providers
        /\ told' \in [Providers -> SUBSET Buses] /\ late' \in [Providers -> SUBSET Buses]
    <3>1. /\ infoProviders_ \subseteq Providers /\ buses_ \subseteq Buses
          /\ told \in [Providers -> SUBSET Buses] /\ late \in [Providers -> SUBSET Buses]
      BY DEF Inv, TypeOK
    <3>2. CASE MakeInfoProvider(i)
      BY <3>1, <3>2 DEF MakeInfoProvider
    <3>3. CASE InfoProviderDeleted(i)
      BY <3>1, <3>3 DEF InfoProviderDeleted
    <3> QED
      BY <3>2, <3>3
  <2> QED
    BY <1>1, <2>1 DEF Inv, TypeOK
<1>3. /\ QueueInv' /\ Alone' /\ GotInv'
      /\ \A r \in Remotes : JoinsOf(r)' = JoinsOf(r) /\ SaysOf(r)' = SaysOf(r)
  BY <1>1, WorkStays
<1>4. CountInv'
  <2>1. \A q \in Remotes : Waits(q)' = Waits(q)
    BY <1>1 DEF Waits
  <2> QED
    BY <1>1, <1>3, <2>1 DEF Inv, WorkInv, CountInv
<1>5. Verdict'
  <2>1. Known' = Known
    BY <1>1 DEF Known, Present
  <2> QED
    BY <1>1, <1>3, <2>1 DEF Inv, WorkInv, Verdict
<1> QED
  BY <1>2, <1>3, <1>4, <1>5, NextBuses DEF Inv, WorkInv

(* Every step of the system keeps the invariant. *)
LEMMA InvStep ==
    ASSUME Inv, [Next]_vars
    PROVE  Inv'
<1>1. ASSUME UNCHANGED vars PROVE Inv'
  <2>1. /\ UNCHANGED <<queue, bulk, doing, buses_, remotes_, detectedPendingRemotes_, providerVars,
                       made, participants_, listening, subscribed, attached, destroying, there,
                       events, got, split, overtaken, orphaned, between>>
    BY <1>1 DEF vars, dispatchVars, busVars, localVars, transportVars, history
  <2>2. TypeOK'
    BY <2>1 DEF Inv, TypeOK, providerVars
  <2>3. BusInv' /\ ProvidersAreTold'
    BY <2>1, BusesStay DEF localVars
  <2>4. /\ QueueInv' /\ Alone' /\ GotInv'
        /\ \A r \in Remotes : JoinsOf(r)' = JoinsOf(r) /\ SaysOf(r)' = SaysOf(r)
    BY <2>1, WorkStays
  <2>5. CountInv'
    <3>1. \A q \in Remotes : Waits(q)' = Waits(q)
      BY <2>1 DEF Waits
    <3> QED
      BY <2>1, <2>4, <3>1 DEF Inv, WorkInv, CountInv
  <2>6. Verdict'
    <3>1. Known' = Known
      BY <2>1 DEF Known, Present
    <3> QED
      BY <2>1, <2>4, <3>1 DEF Inv, WorkInv, Verdict
  <2> QED
    BY <2>2, <2>3, <2>4, <2>5, <2>6 DEF Inv, WorkInv
<1>2. ASSUME Next PROVE Inv'
  <2>1. CASE Transport
    <3>1. ASSUME NEW r \in Remotes, RemoteProcessLost(ProcessOf[r]) PROVE Inv'
      BY <1>2, <3>1, LostInv
    <3> QED
      BY <1>2, <2>1, <3>1, ReportInv, LocalSteps DEF Transport
  <2>2. CASE Components
    BY <1>2, <2>2, OpenInv, ProviderInv, LocalSteps DEF Components
  <2>3. CASE \E w \in Workers : Worker(w)
    BY <1>2, <2>3, TakeBulkInv, RunWorkInv, LocalSteps DEF Worker
  <2> QED
    BY <1>2, <2>1, <2>2, <2>3 DEF Next
<1> QED
  BY <1>1, <1>2

(* Nothing is known and nothing is to be run when the session is made. *)
LEMMA InitInv == ASSUME Init PROVE Inv
<1>1. TypeOK
  BY BusesAssumption DEF Init, TypeOK
<1>2. \A w \in Workers : doing[w][1] = "idle"
  BY DEF Init, Idle
<1>3. Joining = {} /\ Leaving = {}
  BY <1>2 DEF Joining, Leaving
<1>4. BusInv /\ ProvidersAreTold
  BY <1>3 DEF Init, BusInv, Placed, Single, HoldsInv, ListenInv, SubscribersListen, ProvidersAreTold
<1>5. Queued = {} /\ (\A w \in Workers : Taken(w) = {}) /\ Outstanding = {}
  BY DEF Init, Queued, Taken, Outstanding, ElemsOf
<1>6. QueueInv /\ Alone
  BY <1>5 DEF Init, QueueInv, Alone, Ascending
<1>7. GotInv
  BY <1>5 DEF Init, GotInv, Ascending
<1>8. CountInv
  <2>1. \A r \in Remotes : JoinsOf(r) = {} /\ Waits(r) = 0
    BY <1>5, BusesAssumption DEF JoinsOf, Waits, Init
  <2>2. IsFiniteSet({}) /\ Cardinality({}) = 0
    BY FS_EmptySet
  <2>3. events = 0 /\ \A r \in Remotes : made[r] = 0
    BY DEF Init
  <2> QED
    BY <2>1, <2>2, <2>3 DEF CountInv
<1>9. Verdict
  BY <1>5, BusesAssumption DEF Init, Verdict, SaysOf, Known, Present
<1> QED
  BY <1>1, <1>4, <1>6, <1>7, <1>8, <1>9 DEF Inv, WorkInv

(* The invariant holds always. *)
LEMMA Invariance == Spec => []Inv
BY InitInv, InvStep, PTL DEF Spec

(* For any remotes, buses, locals and workers: once all work about a remote is done the session    *)
(* counts it as there exactly if the transport last said so, unless its work was split between two *)
(* workers or its process was lost meanwhile (session.cpp:100-134, 196-312).                       *)
THEOREM KnownStayRight == Spec => []KnownAreThere
<1>1. ASSUME Inv PROVE KnownAreThere
  <2>1. ASSUME NEW r \in Remotes \ (split \cup overtaken), Done(r)
        PROVE  r \in Known <=> r \in there
    <3>1. r \notin WorkOf(queue) /\ \A w \in Workers : r \notin WorkOf(bulk[w])
      BY <2>1 DEF Done
    <3>2. SaysOf(r) = {}
      BY <3>1 DEF SaysOf, Outstanding, Queued, Taken, ElemsOf, WorkOf
    <3> QED
      BY <1>1, <3>2 DEF Inv, WorkInv, Verdict
  <2> QED
    BY <2>1 DEF KnownAreThere
<1> QED
  BY <1>1, Invariance, PTL

(* For any remotes, buses, locals, workers and size of a bulk: a local participant holds exactly   *)
(* the remotes of its bus, each once and until it is destroyed, and the messages of a remote are   *)
(* handed on in order unless two workers had some at once (bus.cpp:70-187,                         *)
(* message_dispatcher.h:113-133); a participant is never made more often than it joined.           *)
THEOREM BusesStaySound == Spec => []BusesAreSound
<1>1. ASSUME Inv PROVE BusesAreSound
  <2>1. TypeOK
    BY <1>1 DEF Inv
  <2>2. LocalsKnowLive
    <3>1. ASSUME NEW l \in attached PROVE BusOf[l] \in Buses
      BY <1>1, BusesAssumption DEF Inv, TypeOK
    <3> QED
      BY <1>1, <3>1 DEF Inv, BusInv, HoldsInv, Single, LocalsKnowLive, BusesUnlocked
  <2>3. MessagesInOrder
    BY <1>1 DEF Inv, WorkInv, GotInv, MessagesInOrder, Ascending
  <2> QED
    BY <2>1, <2>2, <2>3 DEF BusesAreSound
<1> QED
  BY <1>1, Invariance, PTL

(* For any remotes, buses and locals: a local with a subscription listens to every remote it holds, *)
(* except one that was joining when the subscription was stored (local_participant.cpp:505-553,     *)
(* 724-738).                                                                                        *)
THEOREM SubscribersKeepListening == Spec => []SubscribersListen
<1>1. ASSUME Inv PROVE SubscribersListen
  BY <1>1 DEF Inv, BusInv
<1> QED
  BY <1>1, Invariance, PTL

(* For any remotes, buses and providers: a provider knows of every open bus, of every bus somebody *)
(* waits for unless it was made while they waited and nobody joined the bus since, and of no other *)
(* but one whose last waiting remote was lost with its process (session.cpp:76-92, 119, 233-312).  *)
THEOREM ProvidersStayTold == Spec => []ProvidersAreTold
<1>1. ASSUME Inv PROVE ProvidersAreTold
  BY <1>1 DEF Inv
<1> QED
  BY <1>1, Invariance, PTL

=============================================================================
