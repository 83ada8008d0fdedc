------------------------ MODULE RunnerObjectsProofs ------------------------
(***************************************************************************)
(* Proofs about RunnerObjects for any objects and participants and any     *)
(* depth of nested calls: that the lists, the map and the cursors agree,   *)
(* that no walk leaves an object out, and that when all calls have         *)
(* returned the runner drives what its participants publish.               *)
(***************************************************************************)
EXTENDS RunnerObjects, SequenceTheorems, WellFoundedInduction, FiniteSetTheorems, TLAPS

Frames == AddFrames \union RemoveFrames \union WalkFrames
Depth == 1..Len(stack)
OnStack == {stack[i] : i \in Depth}

(* A call that made another one is in a hook. *)
HooksBelow == \A i \in Depth : i < Len(stack) => stack[i].at \in Hooks

(* Numbers are given once, in ascending order. *)
Numbered ==
    /\ \A l \in Lists : \A n \in nodes[l] : n.number <= registrationSerial_
    /\ \A l \in Lists : \A n, m \in nodes[l] : n.number = m.number => n = m
    /\ \A o \in Objects : objectsMap_[o] <= registrationSerial_

(* ListsAgree, node by node. *)
Listed ==
    /\ \A n \in nodes["objects"] : objectsMap_[n.obj] = n.number
    /\ \A o \in Objects : Registered(o) => [number |-> objectsMap_[o], obj |-> o] \in nodes["objects"]
    /\ IsFiniteSet(nodes["objects"]) /\ objectCount_ = Cardinality(nodes["objects"])

(* A registration that is being made has no pre-drain entry yet. *)
Registering(f) == f.kind = "add" /\ f.at \in {"registered", "query"}
MakingOK(f) ==
    Registering(f) =>
        /\ f.obj \in Objects /\ f.serial \in 1..registrationSerial_
        /\ objectsMap_[f.obj] = f.serial => \A n \in nodes["preDrain"] : n.obj # f.obj

(* A walk stands on a node that is there; in a hook it has driven the object it stands on, unless *)
(* it was moved on meanwhile; what it has not driven is to come.                                  *)
WalkOK(f) ==
    f.kind = "walk" =>
        /\ f.cursor \in Numbers(f.list) \union {End}
        /\ f.at = "driven" /\ ~f.stepped => f.cursor # End /\ f.cursor \in f.driven
        /\ \A d \in f.due : d <= registrationSerial_
        /\ \A n \in Numbers(f.list) \ f.driven :
             \/ f.cursor # End /\ f.cursor <= n
             \/ f.cursor = End /\ f.stepped /\ n \notin f.due

FrameOK(f) == MakingOK(f) /\ WalkOK(f)

(* One call makes a registration. *)
OneMaker ==
    \A i, j \in Depth : i # j /\ Registering(stack[i]) /\ Registering(stack[j]) =>
        stack[i].serial # stack[j].serial

(* What the lists and the map have in common, and what the calls in progress have with them. *)
ListInv == Numbered /\ Listed /\ PreDrainIsRegistered /\ RegisteredHasTime
StackInv == HooksBelow /\ OneMaker /\ \A f \in OnStack : FrameOK(f)

(* Names and batches are of objects the participant may have. *)
NamedFrame(f) ==
    f.kind = "add" => f.todo \subseteq f.members /\ \A o \in f.members : f.owner \in AddedBy[o]
Named ==
    /\ \A p \in Owners : \A o \in localObjectNames_[p] : p \in AddedBy[o]
    /\ \A f \in OnStack : NamedFrame(f)

(* The calls that are about to register an object, and those of a participant that are about to *)
(* remove it.                                                                                    *)
Adding(f, o) == f.kind = "add" /\ o \in f.todo /\ o \notin f.cancelled
Removing(f, p, o) == f.kind = "remove" /\ o \in f.todo /\ f.owner = p
AddsOf(o) == {i \in Depth : Adding(stack[i], o)}
RemovesOf(p, o) == {i \in Depth : Removing(stack[i], p, o)}

(* An object of one participant between its name and its registration: who is named without being *)
(* registered is about to be, once; who is registered without being named is about to be removed. *)
Underway(p, o) ==
    /\ o \in localObjectNames_[p] /\ ~Registered(o) => AddsOf(o) # {}
    /\ Registered(o) /\ o \notin localObjectNames_[p] => RemovesOf(p, o) # {}
    /\ RemovesOf(p, o) # {} => o \notin localObjectNames_[p]
    /\ \A i \in AddsOf(o) :
         /\ ~Registered(o)
         /\ o \in localObjectNames_[p] \/ \E j \in RemovesOf(p, o) : j > i
         /\ \A j \in AddsOf(o) : j = i

Straight(o) == \A reason \in {"readded", "other", "thrown", "renamed"} : <<o, reason>> \notin strayed
PublishInv ==
    ~tornDown_ => \A p \in Owners : \A o \in Objects :
                      AddedBy[o] = {p} /\ Straight(o) => Underway(p, o)

Core == TypeOK /\ ListInv /\ StackInv
Inv == Core /\ Named /\ PublishInv

-----------------------------------------------------------------------------
(* The parts of a frame, by the kind of its call. *)
LEMMA FrameParts ==
    ASSUME NEW f \in Frames
    PROVE  /\ f.kind \in {"add", "remove", "walk"}
           /\ f.kind = "add" => f \in AddFrames
           /\ f.kind = "remove" => f \in RemoveFrames
           /\ f.kind = "walk" => f \in WalkFrames
<1>1. CASE f \in AddFrames
  BY <1>1 DEF AddFrames
<1>2. CASE f \in RemoveFrames
  BY <1>2 DEF RemoveFrames
<1>3. CASE f \in WalkFrames
  BY <1>3 DEF WalkFrames
<1> QED
  BY <1>1, <1>2, <1>3 DEF Frames

(* A frame of an addition. *)
LEMMA AddParts ==
    ASSUME NEW f \in AddFrames
    PROVE  /\ f.kind = "add" /\ f.owner \in Owners /\ f.members \subseteq Objects
           /\ f.todo \subseteq Objects /\ f.cancelled \subseteq Objects
           /\ f.obj \in Objects \union {None} /\ f.serial \in 0..MaxNumber
           /\ f.at \in {"next", "registered", "query"} /\ f \in Frames
BY DEF AddFrames, Frames

(* A frame of a removal. *)
LEMMA RemoveParts ==
    ASSUME NEW f \in RemoveFrames
    PROVE  /\ f.kind = "remove" /\ f.owner \in Owners /\ f.todo \subseteq Objects
           /\ f.obj \in Objects \union {None} /\ f.at \in {"next", "unregistered"} /\ f \in Frames
BY DEF RemoveFrames, Frames

(* A frame of a walk. *)
LEMMA WalkParts ==
    ASSUME NEW f \in WalkFrames
    PROVE  /\ f.kind = "walk" /\ f.list \in Lists /\ f.cursor \in 0..MaxNumber
           /\ f.stepped \in BOOLEAN /\ f.due \subseteq 1..MaxNumber
           /\ f.driven \subseteq 1..MaxNumber /\ f.at \in {"next", "driven"} /\ f \in Frames
BY DEF WalkFrames, Frames

-----------------------------------------------------------------------------
(* The smallest of a set of natural numbers. *)
LEMMA MinOfNaturals ==
    ASSUME NEW S, S \subseteq Nat, S # {} PROVE Min(S) \in S /\ \A y \in S : Min(S) <= y
<1> DEFINE R == {ss \in Nat \X Nat : ss[1] < ss[2]}
<1>1. IsWellFoundedOn(R, Nat)
  BY NatLessThanWellFounded, Zenon DEF OpToRel
<1> HIDE DEF R
<1>2. PICK x \in S : \A y \in S : ~(<<y, x>> \in R)
  BY <1>1, WFMin
<1>3. ASSUME NEW y \in S PROVE x <= y
  <2>1. ~(y < x)
    BY <1>2, Zenon DEF R
  <2> QED
    BY <2>1
<1> QED
  BY <1>3 DEF Min

(* The next node is the first of the later ones, if there is any. *)
LEMMA AfterParts ==
    ASSUME NEW S \in SUBSET (1..MaxNumber), NEW i \in 0..MaxNumber
    PROVE  /\ AfterIn(S, i) \in 0..MaxNumber
           /\ AfterIn(S, i) = End => \A j \in S : ~(j > i)
           /\ AfterIn(S, i) # End => AfterIn(S, i) \in S /\ AfterIn(S, i) > i
           /\ \A j \in S : j > i => AfterIn(S, i) # End /\ AfterIn(S, i) <= j
<1> DEFINE later == {j \in S : j > i}
<1>a. MaxNumber \in Nat
  BY ObjectsAssumption
<1>b. \A j \in S : j \in 1..MaxNumber /\ j \in Nat /\ j # 0
  BY <1>a
<1>0. later \subseteq Nat /\ \A j : j \in later <=> j \in S /\ j > i
  BY <1>b
<1> HIDE DEF later
<1>1. CASE later = {}
  <2>1. AfterIn(S, i) = End
    BY <1>1 DEF AfterIn, later
  <2>2. \A j \in S : ~(j > i)
    BY <1>0, <1>1
  <2> QED
    BY <1>a, <2>1, <2>2 DEF End
<1>2. CASE later # {}
  <2>1. AfterIn(S, i) = Min(later)
    BY <1>2 DEF AfterIn, later
  <2>2. Min(later) \in later /\ \A j \in later : Min(later) <= j
    BY <1>0, <1>2, MinOfNaturals
  <2>3. AfterIn(S, i) \in S /\ AfterIn(S, i) > i /\ \A j \in S : j > i => AfterIn(S, i) <= j
    BY <1>0, <2>1, <2>2
  <2>4. AfterIn(S, i) \in 0..MaxNumber /\ AfterIn(S, i) # End
    <3>1. PICK j \in S : j = AfterIn(S, i)
      BY <2>3
    <3> HIDE DEF AfterIn
    <3> QED
      BY <1>a, <1>b, <3>1 DEF End
  <2> HIDE DEF AfterIn
  <2> QED
    BY <2>3, <2>4
<1> QED
  BY <1>1, <1>2

(* The numbers of a list. *)
LEMMA NumbersParts ==
    ASSUME TypeOK, NEW l \in Lists
    PROVE  /\ Numbers(l) \subseteq 1..MaxNumber
           /\ \A n \in nodes[l] : n \in Nodes /\ n.number \in 1..MaxNumber /\ n.obj \in Objects
           /\ \A k : k \in Numbers(l) <=> \E n \in nodes[l] : n.number = k
<1>1. nodes[l] \subseteq Nodes
  BY DEF TypeOK
<1>2. \A n \in nodes[l] : n \in Nodes /\ n.number \in 1..MaxNumber /\ n.obj \in Objects
  BY <1>1 DEF Nodes
<1> QED
  BY <1>2 DEF Numbers

(* Where the lists and the map stay, a call is as right as before. *)
LEMMA FrameStays ==
    ASSUME NEW f, FrameOK(f), UNCHANGED <<nodes, objectsMap_, registrationSerial_>>
    PROVE  FrameOK(f)'
<1>1. MakingOK(f)'
  BY DEF FrameOK, MakingOK
<1>2. WalkOK(f)'
  BY DEF FrameOK, WalkOK, Numbers
<1> QED
  BY <1>1, <1>2 DEF FrameOK

(* Where a number was used up besides, too. *)
LEMMA FrameAges ==
    ASSUME NEW f \in Frames, FrameOK(f), UNCHANGED <<nodes, objectsMap_>>,
           registrationSerial_ \in Nat, registrationSerial_' \in Nat,
           registrationSerial_ <= registrationSerial_'
    PROVE  FrameOK(f)'
<1>1. MakingOK(f)'
  BY DEF FrameOK, MakingOK
<1>2. WalkOK(f)'
  <2>1. SUFFICES ASSUME f.kind = "walk" PROVE WalkOK(f)'
    BY DEF WalkOK
  <2>2. \A d \in f.due : d \in Nat
    BY <2>1, FrameParts, WalkParts, ObjectsAssumption
  <2>3. \A d \in f.due : d <= registrationSerial_
    BY <2>1 DEF FrameOK, WalkOK
  <2>4. \A d \in f.due : d <= registrationSerial_'
    BY <2>2, <2>3
  <2>5. Numbers(f.list)' = Numbers(f.list)
    BY DEF Numbers
  <2> QED
    BY <2>4, <2>5 DEF FrameOK, WalkOK
<1> QED
  BY <1>1, <1>2 DEF FrameOK

(* A node that is added to a list has a higher number than all, so that a walk in a hook will get *)
(* to it, unless it had come to the end already.                                                  *)
LEMMA WalkGrows ==
    ASSUME TypeOK, Numbered, NEW f \in Frames, WalkOK(f), f.at \in Hooks, NEW l \in Lists, NEW o \in Objects,
           registrationSerial_ < MaxNumber, registrationSerial_' = registrationSerial_ + 1,
           nodes' = [nodes EXCEPT ![l] = @ \union {[number |-> registrationSerial_ + 1, obj |-> o]}]
    PROVE  WalkOK(f)'
<1> DEFINE k == registrationSerial_ + 1
<1>0. SUFFICES ASSUME f.kind = "walk" PROVE WalkOK(f)'
  BY DEF WalkOK
<1>1. /\ f \in WalkFrames /\ f.list \in Lists /\ f.cursor \in 0..MaxNumber /\ f.stepped \in BOOLEAN
      /\ f.at = "driven" /\ f.due \subseteq 1..MaxNumber
  BY <1>0, FrameParts, WalkParts DEF Hooks
<1>2. registrationSerial_ \in Nat /\ MaxNumber \in Nat
  BY ObjectsAssumption DEF TypeOK
<1>3. /\ nodes'[f.list] = nodes[f.list]
         \/ nodes'[f.list] = nodes[f.list] \union {[number |-> k, obj |-> o]}
  BY <1>1 DEF TypeOK
<1>4. /\ Numbers(f.list) \subseteq 1..MaxNumber
      /\ \A n \in Numbers(f.list) : n <= registrationSerial_
      /\ Numbers(f.list)' = Numbers(f.list) \/ Numbers(f.list)' = Numbers(f.list) \union {k}
  <2>1. [number |-> k, obj |-> o].number = k
    OBVIOUS
  <2>2. Numbers(f.list) \subseteq 1..MaxNumber /\ \A n \in Numbers(f.list) : n <= registrationSerial_
    BY <1>1, NumbersParts DEF Numbered
  <2> HIDE DEF k
  <2>3. Numbers(f.list)' = Numbers(f.list) \/ Numbers(f.list)' = Numbers(f.list) \union {k}
    BY <1>3, <2>1 DEF Numbers
  <2> QED
    BY <2>2, <2>3
<1> HIDE DEF k
<1>5. k \in Nat /\ k > registrationSerial_ /\ registrationSerial_' = k
  BY <1>2 DEF k
<1>6. \A d \in f.due : d <= registrationSerial_' /\ d # k
  BY <1>0, <1>1, <1>2, <1>5 DEF WalkOK
<1>7. f.cursor = End => f.stepped
  BY <1>0, <1>1 DEF WalkOK
<1>8. f.cursor # End => f.cursor <= k
  BY <1>0, <1>1, <1>2, <1>4, <1>5 DEF WalkOK
<1>9. f.cursor \in Numbers(f.list)' \union {End}
  BY <1>0, <1>4 DEF WalkOK
<1>10. ASSUME NEW n \in Numbers(f.list)', n \notin f.driven
       PROVE  \/ f.cursor # End /\ f.cursor <= n
              \/ f.cursor = End /\ f.stepped /\ n \notin f.due
  <2>1. CASE n \in Numbers(f.list)
    BY <1>0, <1>10, <2>1 DEF WalkOK
  <2>2. CASE n = k
    BY <1>6, <1>7, <1>8, <2>2
  <2> QED
    BY <1>4, <2>1, <2>2
<1>11. f.at = "driven" /\ ~f.stepped => f.cursor # End /\ f.cursor \in f.driven
  BY <1>0 DEF WalkOK
<1> QED
  BY <1>6, <1>9, <1>10, <1>11 DEF WalkOK

(* What is left of a list when the nodes of an object go, and whether a walk stands on one. *)
Left(l, o) == {n.number : n \in {m \in nodes[l] : m.obj # o}}
StandsOn(f, o) == \E n \in nodes[f.list] : n.obj = o /\ n.number = f.cursor

(* stepCursorsPast leaves everything but the cursor. *)
LEMMA StepPastParts ==
    ASSUME TypeOK, NEW f \in Frames, NEW o \in Objects, NEW g, g = StepPast(f, o)
    PROVE  f.kind = "walk" =>
             /\ g \in Frames /\ g.kind = f.kind /\ g.at = f.at
             /\ g.list = f.list /\ g.due = f.due /\ g.driven = f.driven
             /\ ~StandsOn(f, o) => g = f
             /\ StandsOn(f, o) => g.cursor = AfterIn(Left(f.list, o), f.cursor) /\ g.stepped
<1>1. CASE f.kind = "walk" /\ StandsOn(f, o)
  <2> DEFINE c == AfterIn(Left(f.list, o), f.cursor)
  <2>1. f \in WalkFrames /\ f.list \in Lists /\ f.cursor \in 0..MaxNumber
    BY <1>1, FrameParts, WalkParts
  <2>2. Left(f.list, o) \in SUBSET (1..MaxNumber)
    BY <2>1, NumbersParts DEF Left
  <2>3. c \in 0..MaxNumber
    BY <2>1, <2>2, AfterParts
  <2>4. g = [f EXCEPT !.cursor = c, !.stepped = TRUE]
    BY <1>1, <2>1 DEF StepPast, WalkFrames, StandsOn, Left
  <2> HIDE DEF c
  <2>5. /\ g \in WalkFrames /\ g.kind = "walk" /\ g.list = f.list /\ g.due = f.due
        /\ g.cursor = c /\ g.stepped = TRUE /\ g.driven = f.driven /\ g.at = f.at
    BY <2>1, <2>3, <2>4 DEF WalkFrames
  <2> QED
    BY <1>1, <2>5, WalkParts DEF c
<1>2. CASE ~(f.kind = "walk" /\ StandsOn(f, o))
  <2>1. g = f
    BY <1>2 DEF StepPast, StandsOn
  <2> QED
    BY <1>2, <2>1
<1> QED
  BY <1>1, <1>2

(* The kind of the call and where it is stay. *)
LEMMA StepPastKeeps ==
    ASSUME TypeOK, NEW f \in Frames, NEW o \in Objects, NEW g, g = StepPast(f, o)
    PROVE  g \in Frames /\ g.kind = f.kind /\ g.at = f.at /\ (f.kind # "walk" => g = f)
<1>1. CASE f.kind = "walk"
  BY <1>1, StepPastParts
<1>2. CASE f.kind # "walk"
  BY <1>2 DEF StepPast
<1> QED
  BY <1>1, <1>2

(* The nodes of an object go: a walk that stood on one of them stands on the next. *)
LEMMA WalkShrinks ==
    ASSUME TypeOK, Numbered, NEW f \in Frames, WalkOK(f), f.at \in Hooks, NEW o \in Objects,
           NEW g, g = StepPast(f, o), UNCHANGED registrationSerial_,
           nodes' = [l \in Lists |-> {n \in nodes[l] : n.obj # o}]
    PROVE  WalkOK(g)'
<1>0. CASE f.kind # "walk"
  <2>1. g = f
    BY <1>0 DEF StepPast
  <2> QED
    BY <1>0, <2>1 DEF WalkOK
<1>1. CASE f.kind = "walk"
  <2> DEFINE left == Left(f.list, o)
  <2>1. /\ f \in WalkFrames /\ f.list \in Lists /\ f.cursor \in 0..MaxNumber /\ f.stepped \in BOOLEAN
        /\ f.at = "driven" /\ f.due \subseteq 1..MaxNumber
    BY <1>1, FrameParts, WalkParts DEF Hooks
  <2>2. Numbers(f.list)' = left /\ left \subseteq Numbers(f.list) /\ left \in SUBSET (1..MaxNumber)
    BY <2>1, NumbersParts DEF Numbers, Left
  <2>3. /\ g.kind = "walk" /\ g.at = "driven" /\ g.list = f.list /\ g.due = f.due
        /\ g.driven = f.driven
        /\ ~StandsOn(f, o) => g = f
        /\ StandsOn(f, o) => g.cursor = AfterIn(left, f.cursor) /\ g.stepped
    BY <1>1, <2>1, StepPastParts
  <2>4. \A k : k \in left <=> \E n \in nodes[f.list] : n.obj # o /\ n.number = k
    BY DEF Left
  <2>5. /\ f.cursor \in Numbers(f.list) \union {End}
        /\ f.at = "driven" /\ ~f.stepped => f.cursor # End /\ f.cursor \in f.driven
        /\ \A d \in f.due : d <= registrationSerial_
        /\ \A n \in Numbers(f.list) \ f.driven :
             \/ f.cursor # End /\ f.cursor <= n
             \/ f.cursor = End /\ f.stepped /\ n \notin f.due
    BY <1>1 DEF WalkOK
  <2> HIDE DEF left
  <2>6. CASE ~StandsOn(f, o)
    <3>1. f.cursor \in left \union {End}
      BY <2>1, <2>4, <2>5, <2>6, NumbersParts DEF StandsOn
    <3> QED
      BY <2>2, <2>3, <2>5, <2>6, <3>1 DEF WalkOK
  <2>7. CASE StandsOn(f, o)
    <3>1. /\ g.cursor = End => \A j \in left : ~(j > f.cursor)
          /\ g.cursor # End => g.cursor \in left
          /\ \A j \in left : j > f.cursor => g.cursor # End /\ g.cursor <= j
      <4>1. /\ AfterIn(left, f.cursor) = End => \A j \in left : ~(j > f.cursor)
            /\ AfterIn(left, f.cursor) # End => AfterIn(left, f.cursor) \in left
            /\ \A j \in left : j > f.cursor =>
                 AfterIn(left, f.cursor) # End /\ AfterIn(left, f.cursor) <= j
        BY <2>1, <2>2, AfterParts
      <4> QED
        BY <2>3, <2>7, <4>1
    <3>2. f.cursor \notin left
      BY <2>1, <2>4, <2>7 DEF Numbered, StandsOn
    <3>3. f.cursor # End
      BY <2>1, <2>7, NumbersParts DEF End, StandsOn
    <3>4. ASSUME NEW n \in left, n \notin f.driven PROVE g.cursor # End /\ g.cursor <= n
      <4>1. f.cursor <= n /\ n # f.cursor /\ n \in Nat
        BY <2>2, <2>5, <3>2, <3>3, <3>4
      <4> QED
        BY <2>1, <3>1, <4>1
    <3> QED
      BY <2>2, <2>3, <2>5, <2>7, <3>1, <3>4 DEF WalkOK
  <2> QED
    BY <2>6, <2>7
<1> QED
  BY <1>0, <1>1

-----------------------------------------------------------------------------
(* The calls in progress. *)
LEMMA StackParts ==
    ASSUME TypeOK
    PROVE  /\ stack \in Seq(Frames) /\ Len(stack) \in Nat
           /\ \A i \in Depth : stack[i] \in Frames /\ stack[i] \in OnStack
           /\ stack # <<>> => Len(stack) \in Depth /\ Top = stack[Len(stack)] /\ Top \in Frames
                              /\ Top \in OnStack
<1>1. stack \in Seq(Frames)
  BY DEF TypeOK, Frames
<1>2. Len(stack) \in Nat /\ \A i \in 1..Len(stack) : stack[i] \in Frames
  BY <1>1
<1>3. stack # <<>> => Len(stack) \in 1..Len(stack)
  BY <1>1
<1> QED
  BY <1>1, <1>2, <1>3 DEF Depth, OnStack, Top

(* A call is made. *)
LEMMA PushShape ==
    ASSUME TypeOK, NEW f \in Frames, stack' = Append(stack, f)
    PROVE  /\ stack' \in Seq(Frames) /\ Len(stack') = Len(stack) + 1
           /\ \A i \in Depth' : \/ i = Len(stack') /\ stack'[i] = f
                                \/ i \in Depth /\ i < Len(stack') /\ stack'[i] = stack[i]
           /\ \A i \in Depth : i \in Depth' /\ stack'[i] = stack[i]
           /\ Len(stack') \in Depth' /\ stack'[Len(stack')] = f
           /\ \A i \in Depth : i < Len(stack') /\ ~(Len(stack') < i)
<1>1. stack \in Seq(Frames) /\ Len(stack) \in Nat
  BY StackParts
<1>2. /\ stack' \in Seq(Frames) /\ Len(stack') = Len(stack) + 1
      /\ \A i \in 1..Len(stack) : stack'[i] = stack[i]
      /\ stack'[Len(stack) + 1] = f
  BY <1>1
<1> QED
  BY <1>1, <1>2 DEF Depth

(* The calls below the innermost one. *)
LEMMA BelowParts ==
    ASSUME TypeOK, stack # <<>>
    PROVE  /\ Below \in Seq(Frames) /\ Len(Below) = Len(stack) - 1
           /\ \A i \in Depth : i # Len(stack) => i \in 1..Len(Below) /\ Below[i] = stack[i]
<1> DEFINE n == Len(stack) - 1
<1>1. stack \in Seq(Frames) /\ Len(stack) \in Nat /\ Len(stack) \in Depth
  BY StackParts
<1>2. n \in Nat /\ \A i \in 1..n : stack[i] \in Frames
  BY <1>1, StackParts DEF Depth
<1> HIDE DEF n
<1>3. /\ SubSeq(stack, 1, n) \in Seq(Frames)
      /\ Len(SubSeq(stack, 1, n)) = IF 1 <= n THEN n - 1 + 1 ELSE 0
      /\ \A i \in 1..n - 1 + 1 : SubSeq(stack, 1, n)[i] = stack[1 + i - 1]
  BY <1>2, SubSeqProperties
<1>4. Below = SubSeq(stack, 1, n)
  BY DEF Below, n
<1>5. Len(Below) = n
  BY <1>2, <1>3, <1>4
<1>6. ASSUME NEW i \in Depth, i # Len(stack) PROVE i \in 1..n /\ Below[i] = stack[i]
  <2>1. i \in 1..n /\ i \in 1..n - 1 + 1 /\ 1 + i - 1 = i
    BY <1>1, <1>6 DEF Depth, n
  <2> QED
    BY <1>3, <1>4, <2>1
<1> QED
  BY <1>3, <1>4, <1>5, <1>6 DEF n

(* The innermost call goes on. *)
LEMMA TopShape ==
    ASSUME TypeOK, stack # <<>>, NEW f \in Frames, SetTop(f)
    PROVE  /\ stack' \in Seq(Frames) /\ Len(stack') = Len(stack) /\ Depth' = Depth
           /\ stack'[Len(stack)] = f
           /\ \A i \in Depth : i # Len(stack) => i < Len(stack) /\ stack'[i] = stack[i]
<1>1. stack \in Seq(Frames) /\ Len(stack) \in Nat /\ Len(stack) \in 1..Len(stack)
  BY StackParts DEF Depth
<1> DEFINE low == Below
<1>2. /\ low \in Seq(Frames) /\ Len(low) = Len(stack) - 1
      /\ \A i \in 1..Len(stack) : i # Len(stack) => i \in 1..Len(low) /\ low[i] = stack[i]
  BY BelowParts DEF Depth
<1>3. stack' = Append(low, f)
  BY DEF SetTop
<1> HIDE DEF low
<1>4. /\ stack' \in Seq(Frames) /\ Len(stack') = Len(low) + 1 /\ stack'[Len(low) + 1] = f
      /\ \A i \in 1..Len(low) : stack'[i] = low[i]
  BY <1>2, <1>3
<1> QED
  BY <1>1, <1>2, <1>4 DEF Depth

(* The innermost call is left. *)
LEMMA PopShape ==
    ASSUME TypeOK, stack # <<>>, stack' = Below
    PROVE  /\ stack' \in Seq(Frames) /\ Len(stack') = Len(stack) - 1
           /\ \A i \in Depth' : i \in Depth /\ i < Len(stack) /\ i # Len(stack) /\ stack'[i] = stack[i]
           /\ \A i \in Depth : i # Len(stack) => i \in Depth' /\ stack'[i] = stack[i]
<1>1. stack \in Seq(Frames) /\ Len(stack) \in Nat /\ Len(stack) \in 1..Len(stack)
  BY StackParts DEF Depth
<1>2. /\ stack' \in Seq(Frames) /\ Len(stack') = Len(stack) - 1
      /\ \A i \in 1..Len(stack) : i # Len(stack) => stack'[i] = stack[i]
  BY BelowParts DEF Depth
<1> QED
  BY <1>1, <1>2 DEF Depth

(* An innermost call is added to a stack that is in a hook. *)
LEMMA PushKeeps ==
    ASSUME TypeOK, StackInv, InUserCode, NEW f \in Frames, stack' = Append(stack, f),
           f.at = "next", FrameOK(f)', UNCHANGED <<nodes, objectsMap_, registrationSerial_>>
    PROVE  StackInv'
<1>1. HooksBelow'
  <2> SUFFICES ASSUME NEW i \in Depth', i < Len(stack') PROVE stack'[i].at \in Hooks
    BY DEF HooksBelow
  <2>1. i \in Depth /\ stack'[i] = stack[i] /\ Len(stack') = Len(stack) + 1
    <3>1. Len(stack') = Len(stack) + 1 /\ Len(stack) \in Nat
      BY PushShape, StackParts
    <3>2. i # Len(stack')
      BY <3>1
    <3> QED
      BY <3>1, <3>2, PushShape
  <2>2. CASE i < Len(stack)
    BY <2>1, <2>2 DEF StackInv, HooksBelow
  <2>3. CASE i = Len(stack)
    <3>1. stack # <<>>
      BY <2>1, <2>3, StackParts DEF Depth
    <3> QED
      BY <2>1, <2>3, <3>1, StackParts DEF InUserCode
  <2> QED
    BY <2>1, <2>2, <2>3, StackParts DEF Depth
<1>2. OneMaker'
  <2>1. ~Registering(f)
    BY DEF Registering
  <2> SUFFICES ASSUME NEW i \in Depth', NEW j \in Depth', i # j, Registering(stack'[i]),
                      Registering(stack'[j])
               PROVE  stack'[i].serial # stack'[j].serial
    BY DEF OneMaker, Registering
  <2>2. i \in Depth /\ j \in Depth /\ stack'[i] = stack[i] /\ stack'[j] = stack[j]
    BY <2>1, PushShape
  <2> QED
    BY <2>2 DEF StackInv, OneMaker
<1>3. ASSUME NEW g \in OnStack' PROVE FrameOK(g)'
  <2>1. g = f \/ g \in OnStack
    BY PushShape DEF OnStack
  <2>2. CASE g = f
    BY <2>2
  <2>3. CASE g \in OnStack
    BY <2>3, FrameStays DEF StackInv
  <2> QED
    BY <2>1, <2>2, <2>3
<1> QED
  BY <1>1, <1>2, <1>3 DEF StackInv

(* The innermost call is left. *)
LEMMA PopKeeps ==
    ASSUME TypeOK, StackInv, stack # <<>>, stack' = Below,
           UNCHANGED <<nodes, objectsMap_, registrationSerial_>>
    PROVE  StackInv'
<1>1. HooksBelow'
  <2> SUFFICES ASSUME NEW i \in Depth', i < Len(stack') PROVE stack'[i].at \in Hooks
    BY DEF HooksBelow
  <2> QED
    BY PopShape DEF StackInv, HooksBelow
<1>2. OneMaker'
  <2> SUFFICES ASSUME NEW i \in Depth', NEW j \in Depth', i # j, Registering(stack'[i]),
                      Registering(stack'[j])
               PROVE  stack'[i].serial # stack'[j].serial
    BY DEF OneMaker, Registering
  <2> QED
    BY PopShape DEF StackInv, OneMaker
<1>3. ASSUME NEW g \in OnStack' PROVE FrameOK(g)'
  <2>1. g \in OnStack
    BY PopShape DEF OnStack
  <2> QED
    BY <2>1, FrameStays DEF StackInv
<1> QED
  BY <1>1, <1>2, <1>3 DEF StackInv

(* The innermost call goes on, and those below are told at most something they remember. *)
LEMMA TopKeeps ==
    ASSUME TypeOK, StackInv, stack # <<>>, Len(stack') = Len(stack), Depth' = Depth,
           NEW g, stack'[Len(stack)] = g, FrameOK(g)',
           \A i \in Depth : i # Len(stack) =>
               /\ stack'[i].kind = stack[i].kind /\ stack'[i].at = stack[i].at
               /\ Registering(stack[i]) => stack'[i].serial = stack[i].serial
               /\ Registering(g) /\ Registering(stack[i]) => g.serial # stack[i].serial,
           \A f : (\E i \in Depth : i # Len(stack) /\ f = stack'[i]) => FrameOK(f)'
    PROVE  StackInv'
<1>0. \A i \in Depth : i < Len(stack) <=> i # Len(stack)
  BY StackParts DEF Depth
<1>1. HooksBelow'
  BY <1>0 DEF StackInv, HooksBelow
<1>2. OneMaker'
  <2> SUFFICES ASSUME NEW i \in Depth, NEW j \in Depth, i # j, Registering(stack'[i]),
                      Registering(stack'[j])
               PROVE  stack'[i].serial # stack'[j].serial
    BY DEF OneMaker, Registering
  <2>1. i # Len(stack) => Registering(stack[i]) /\ stack'[i].serial = stack[i].serial
    BY DEF Registering
  <2>2. j # Len(stack) => Registering(stack[j]) /\ stack'[j].serial = stack[j].serial
    BY DEF Registering
  <2> QED
    BY <2>1, <2>2 DEF StackInv, OneMaker
<1>3. ASSUME NEW f \in OnStack' PROVE FrameOK(f)'
  BY <1>3 DEF OnStack
<1> QED
  BY <1>1, <1>2, <1>3 DEF StackInv

(* The innermost call goes on, and the lists stay. *)
LEMMA TopGoesOn ==
    ASSUME TypeOK, StackInv, stack # <<>>, NEW g \in Frames, SetTop(g), FrameOK(g)',
           UNCHANGED <<nodes, objectsMap_>>, registrationSerial_' \in Nat,
           registrationSerial_ <= registrationSerial_',
           Registering(g) => Registering(Top) /\ g.serial = Top.serial
    PROVE  StackInv'
<1>1. /\ Len(stack') = Len(stack) /\ Depth' = Depth /\ stack'[Len(stack)] = g
      /\ \A i \in Depth : i # Len(stack) => stack'[i] = stack[i]
  BY TopShape
<1>2. Len(stack) \in Depth /\ Top = stack[Len(stack)]
  BY StackParts
<1>3. \A i \in Depth : i # Len(stack) /\ Registering(g) /\ Registering(stack[i]) =>
          g.serial # stack[i].serial
  BY <1>2 DEF StackInv, OneMaker
<1>4. ASSUME NEW f, NEW i \in Depth, i # Len(stack), f = stack'[i] PROVE FrameOK(f)'
  <2>1. f = stack[i] /\ f \in Frames /\ f \in OnStack /\ registrationSerial_ \in Nat
    BY <1>1, <1>4, StackParts, ObjectsAssumption DEF TypeOK
  <2> QED
    BY <2>1, FrameAges DEF StackInv
<1> QED
  BY <1>1, <1>3, <1>4, TopKeeps

(* What the lists and the map have in common stays with them. *)
LEMMA ListStays ==
    ASSUME TypeOK, ListInv, UNCHANGED <<nodes, objectsMap_, objectCount_>>,
           registrationSerial_' \in Nat, registrationSerial_ <= registrationSerial_',
           RegisteredHasTime'
    PROVE  ListInv'
<1>1. Numbered'
  <2>0. registrationSerial_ \in Nat /\ MaxNumber \in Nat
    BY ObjectsAssumption DEF TypeOK
  <2>1. \A l \in Lists : \A n \in nodes[l] : n.number <= registrationSerial_'
    <3> SUFFICES ASSUME NEW l \in Lists, NEW n \in nodes[l] PROVE n.number <= registrationSerial_'
      OBVIOUS
    <3>1. n.number \in Nat /\ n.number <= registrationSerial_
      BY <2>0, NumbersParts DEF ListInv, Numbered
    <3> QED
      BY <2>0, <3>1
  <2>2. \A o \in Objects : objectsMap_[o] <= registrationSerial_'
    <3> SUFFICES ASSUME NEW o \in Objects PROVE objectsMap_[o] <= registrationSerial_'
      OBVIOUS
    <3>1. objectsMap_[o] \in Nat /\ objectsMap_[o] <= registrationSerial_
      BY <2>0 DEF TypeOK, ListInv, Numbered
    <3> QED
      BY <2>0, <3>1
  <2> QED
    BY <2>1, <2>2 DEF ListInv, Numbered
<1>2. Listed'
  BY DEF ListInv, Listed, Registered
<1>3. PreDrainIsRegistered'
  BY DEF ListInv, PreDrainIsRegistered
<1> QED
  BY <1>1, <1>2, <1>3 DEF ListInv

-----------------------------------------------------------------------------
(* An addition is called. *)
LEMMA AddCore ==
    ASSUME Core, NEW p \in Owners, NEW b \in Batches, Add(p, b) PROVE Core'
<1> DEFINE accepted == {o \in b : o \notin localObjectNames_[p]}
           f == [kind |-> "add", owner |-> p, members |-> accepted, todo |-> accepted,
                 cancelled |-> {}, obj |-> None, serial |-> 0, at |-> "next"]
<1>1. b \subseteq Objects /\ accepted \subseteq Objects /\ MaxNumber \in Nat
  BY ObjectsAssumption DEF Batches
<1>2. /\ InUserCode /\ calls < MaxCalls /\ calls' = calls + 1 /\ stack' = Append(stack, f)
      /\ localObjectNames_' = [localObjectNames_ EXCEPT ![p] = @ \union accepted]
      /\ localPrefix' \in [Objects -> Owners \union {None}]
      /\ strayed' = strayed \union ({o \in accepted : BeingRemoved(o)} \X {"readded"})
      /\ UNCHANGED <<nodes, objectsMap_, objectCount_, registrationSerial_, registrationTime,
                     tornDown_>>
  BY DEF Add, Call, Core, TypeOK
<1>3. f \in AddFrames
  BY <1>1 DEF AddFrames
<1>4. f.kind = "add" /\ f.at = "next"
  OBVIOUS
<1> HIDE DEF f
<1>5. f \in Frames
  BY <1>3 DEF Frames
<1>6. stack' \in Seq(Frames)
  BY <1>2, <1>5, PushShape DEF Core
<1> HIDE DEF accepted
<1>7. TypeOK'
  <2>1. localObjectNames_' \in [Owners -> SUBSET Objects]
    BY <1>1, <1>2 DEF Core, TypeOK
  <2>2. strayed' \subseteq Objects \X {"readded", "other", "thrown", "renamed"}
    BY <1>1, <1>2 DEF Core, TypeOK
  <2>3. calls' \in 0..MaxCalls
    BY <1>2, ObjectsAssumption DEF Core, TypeOK
  <2> QED
    BY <1>2, <1>6, <2>1, <2>2, <2>3 DEF Core, TypeOK, Frames
<1>8. \E g \in Frames : g = f /\ stack' = Append(stack, g) /\ g.kind = "add" /\ g.at = "next"
  BY <1>2, <1>4, <1>5
<1>9. StackInv'
  <2>1. PICK g \in Frames : stack' = Append(stack, g) /\ g.kind = "add" /\ g.at = "next"
    BY <1>8
  <2>2. FrameOK(g)'
    BY <2>1 DEF FrameOK, MakingOK, WalkOK, Registering
  <2> QED
    BY <1>2, <2>1, <2>2, PushKeeps DEF Core
<1>10. ListInv'
  <2>1. RegisteredHasTime'
    BY <1>2 DEF Core, ListInv, RegisteredHasTime, Registered
  <2> QED
    BY <1>2, <2>1, ListStays DEF Core, TypeOK
<1> QED
  BY <1>7, <1>9, <1>10 DEF Core

(* A removal is called. *)
LEMMA RemoveCore ==
    ASSUME Core, NEW p \in Owners, NEW b \in Batches, Remove(p, b) PROVE Core'
<1> DEFINE f == [kind |-> "remove", owner |-> p, todo |-> b, obj |-> None, at |-> "next"]
           named == {o \in b : localPrefix[o] = p}
<1>1. b \subseteq Objects /\ MaxNumber \in Nat
  BY ObjectsAssumption DEF Batches
<1>2. /\ InUserCode /\ calls < MaxCalls /\ calls' = calls + 1 /\ stack' = Append(stack, f)
      /\ localObjectNames_' = [localObjectNames_ EXCEPT ![p] = @ \ named]
      /\ strayed' =
           strayed \union (((b \ named) \intersect localObjectNames_[p]) \X {"renamed"})
      /\ UNCHANGED <<localPrefix, nodes, objectsMap_, objectCount_, registrationSerial_,
                     registrationTime, tornDown_>>
  BY DEF Remove, Call
<1>3. f \in RemoveFrames
  BY <1>1 DEF RemoveFrames
<1>4. f.kind = "remove" /\ f.at = "next"
  OBVIOUS
<1> HIDE DEF f
<1>5. f \in Frames
  BY <1>3 DEF Frames
<1>6. stack' \in Seq(Frames)
  BY <1>2, <1>5, PushShape DEF Core
<1> HIDE DEF named
<1>7. TypeOK'
  <2>1. localObjectNames_' \in [Owners -> SUBSET Objects]
    BY <1>1, <1>2 DEF Core, TypeOK
  <2>2. calls' \in 0..MaxCalls
    BY <1>2, ObjectsAssumption DEF Core, TypeOK
  <2>3. strayed' \subseteq Objects \X {"readded", "other", "thrown", "renamed"}
    BY <1>1, <1>2 DEF Core, TypeOK
  <2> QED
    BY <1>2, <1>6, <2>1, <2>2, <2>3 DEF Core, TypeOK, Frames
<1>8. \E g \in Frames : g = f /\ stack' = Append(stack, g) /\ g.kind = "remove" /\ g.at = "next"
  BY <1>2, <1>4, <1>5
<1>9. StackInv'
  <2>1. PICK g \in Frames : stack' = Append(stack, g) /\ g.kind = "remove" /\ g.at = "next"
    BY <1>8
  <2>2. FrameOK(g)'
    BY <2>1 DEF FrameOK, MakingOK, WalkOK, Registering
  <2> QED
    BY <1>2, <2>1, <2>2, PushKeeps DEF Core
<1>10. ListInv'
  <2>1. RegisteredHasTime'
    BY <1>2 DEF Core, ListInv, RegisteredHasTime, Registered
  <2> QED
    BY <1>2, <2>1, ListStays DEF Core, TypeOK
<1> QED
  BY <1>7, <1>9, <1>10 DEF Core

(* A walk begins, at the first node. *)
LEMMA WalkCore ==
    ASSUME Core, NEW l \in Lists, Walk(l) PROVE Core'
<1> DEFINE c == AfterIn(Numbers(l), 0)
           f == [kind |-> "walk", list |-> l, cursor |-> c, stepped |-> FALSE,
                 due |-> Numbers(l), driven |-> {}, at |-> "next"]
<1>0. MaxNumber \in Nat /\ 0 \in 0..MaxNumber /\ registrationSerial_ \in Nat
  BY ObjectsAssumption DEF Core, TypeOK
<1>1. /\ InUserCode /\ calls < MaxCalls /\ calls' = calls + 1 /\ stack' = Append(stack, f)
      /\ UNCHANGED <<localObjectNames_, localPrefix, nodes, objectsMap_, objectCount_, registrationSerial_,
                     registrationTime, tornDown_, strayed>>
  BY DEF Walk, Call
<1>2. /\ Numbers(l) \subseteq 1..MaxNumber
      /\ \A n \in Numbers(l) : n \in Nat /\ n > 0 /\ n <= registrationSerial_
  BY <1>0, NumbersParts DEF Core, ListInv, Numbered
<1>3. /\ c \in 0..MaxNumber /\ c \in Numbers(l) \union {End}
      /\ \A j \in Numbers(l) : c # End /\ c <= j
  <2>1. /\ AfterIn(Numbers(l), 0) \in 0..MaxNumber
        /\ AfterIn(Numbers(l), 0) # End => AfterIn(Numbers(l), 0) \in Numbers(l)
        /\ \A j \in Numbers(l) : j > 0 => AfterIn(Numbers(l), 0) # End /\ AfterIn(Numbers(l), 0) <= j
    BY <1>0, <1>2, AfterParts
  <2> QED
    BY <1>2, <2>1
<1> HIDE DEF c
<1>4. f \in WalkFrames
  BY <1>2, <1>3 DEF WalkFrames
<1>5. /\ f.kind = "walk" /\ f.at = "next" /\ f.list = l /\ f.cursor = c /\ f.due = Numbers(l)
      /\ f.driven = {}
  OBVIOUS
<1> HIDE DEF f
<1>6. f \in Frames
  BY <1>4 DEF Frames
<1>7. stack' \in Seq(Frames)
  BY <1>1, <1>6, PushShape DEF Core
<1>8. TypeOK'
  <2>1. calls' \in 0..MaxCalls
    BY <1>1, ObjectsAssumption DEF Core, TypeOK
  <2> QED
    BY <1>1, <1>7, <2>1 DEF Core, TypeOK, Frames
<1>9. \E g \in Frames : g = f
  BY <1>6
<1>10. StackInv'
  <2>1. PICK g \in Frames : g = f
    BY <1>9
  <2>2. /\ g.kind = "walk" /\ g.at = "next" /\ g.list = l /\ g.cursor = c /\ g.due = Numbers(l)
        /\ g.driven = {}
    BY <1>5, <2>1
  <2>3. FrameOK(g)'
    <3>1. MakingOK(g)'
      BY <2>2 DEF MakingOK, Registering
    <3>2. Numbers(g.list)' = Numbers(l)
      BY <1>1, <2>2 DEF Numbers
    <3>3. WalkOK(g)'
      BY <1>1, <1>2, <1>3, <2>2, <3>2 DEF WalkOK
    <3> QED
      BY <3>1, <3>3 DEF FrameOK
  <2> QED
    BY <1>1, <2>1, <2>2, <2>3, PushKeeps DEF Core
<1>11. ListInv'
  <2>1. RegisteredHasTime'
    BY <1>1 DEF Core, ListInv, RegisteredHasTime, Registered
  <2> QED
    BY <1>0, <1>1, <2>1, ListStays DEF Core
<1> QED
  BY <1>8, <1>10, <1>11 DEF Core

(* A call of the runner goes on without a change to the lists. *)
LEMMA GoesOnCore ==
    ASSUME Core, stack # <<>>, NEW g \in Frames, SetTop(g), FrameOK(g)',
           UNCHANGED <<localObjectNames_, localPrefix, nodes, objectsMap_, objectCount_, calls, tornDown_, strayed>>,
           registrationSerial_' \in 0..MaxNumber, registrationSerial_ <= registrationSerial_',
           registrationTime' \in [Objects -> BOOLEAN], RegisteredHasTime',
           Registering(g) => Registering(Top) /\ g.serial = Top.serial
    PROVE  Core'
<1>0. registrationSerial_' \in Nat
  BY ObjectsAssumption
<1>1. stack' \in Seq(Frames)
  BY TopShape DEF Core
<1>2. TypeOK'
  BY <1>1 DEF Core, TypeOK, Frames
<1>3. StackInv'
  BY <1>0, TopGoesOn DEF Core
<1>4. ListInv'
  BY <1>0, ListStays DEF Core
<1> QED
  BY <1>2, <1>3, <1>4 DEF Core

(* A member of an addition that was removed meanwhile, or that is registered already, is passed *)
(* over.                                                                                        *)
LEMMA PassOverCore ==
    ASSUME Core, NEW o \in Objects, RegisterNext(o),
           o \in Top.cancelled \/ AlreadyRegistered(o)
    PROVE  Core'
<1>1. /\ stack # <<>> /\ Top.kind = "add" /\ Top.at = "next" /\ Top \in AddFrames
      /\ SetTop([Top EXCEPT !.todo = @ \ {o}])
      /\ UNCHANGED <<localObjectNames_, localPrefix, nodes, objectsMap_, objectCount_, registrationTime, calls,
                     tornDown_, strayed>>
      /\ \/ UNCHANGED registrationSerial_
         \/ registrationSerial_ < MaxNumber /\ registrationSerial_' = registrationSerial_ + 1
  BY StackParts, FrameParts DEF RegisterNext, InAdd, Core
<1>2. PICK f \in AddFrames : f = Top
  BY <1>1
<1>3. [Top EXCEPT !.todo = @ \ {o}] = [f EXCEPT !.todo = f.todo \ {o}]
  BY <1>2
<1>4. PICK g : g = [f EXCEPT !.todo = f.todo \ {o}]
  OBVIOUS
<1>5. g \in AddFrames /\ g.kind = "add" /\ g.at = "next"
  BY <1>1, <1>2, <1>4, AddParts DEF AddFrames
<1>6. g \in Frames /\ SetTop(g)
  BY <1>1, <1>3, <1>4, <1>5 DEF Frames, SetTop
<1>7. FrameOK(g)' /\ ~Registering(g)
  BY <1>5 DEF FrameOK, MakingOK, WalkOK, Registering
<1>8. registrationSerial_' \in 0..MaxNumber /\ registrationSerial_ <= registrationSerial_'
  BY <1>1, ObjectsAssumption DEF Core, TypeOK
<1>9. RegisteredHasTime' /\ registrationTime' \in [Objects -> BOOLEAN]
  BY <1>1 DEF Core, ListInv, RegisteredHasTime, Registered, TypeOK
<1> QED
  BY <1>1, <1>6, <1>7, <1>8, <1>9, GoesOnCore

(* registered() returns. *)
LEMMA RegisteredReturnsCore ==
    ASSUME Core, RegisteredReturns PROVE Core'
<1>1. /\ stack # <<>> /\ Top.kind = "add" /\ Top.at = "registered" /\ Top \in AddFrames
      /\ Top \in OnStack
      /\ SetTop(IF StillOurs THEN [Top EXCEPT !.at = "query"] ELSE NextMember)
      /\ UNCHANGED <<localObjectNames_, localPrefix, nodes, objectsMap_, objectCount_, registrationSerial_,
                     registrationTime, calls, tornDown_, strayed>>
  BY StackParts, FrameParts DEF RegisteredReturns, InAdd, Core
<1>2. PICK f \in AddFrames : f = Top
  BY <1>1
<1>3. PICK g : g = IF StillOurs THEN [Top EXCEPT !.at = "query"] ELSE NextMember
  OBVIOUS
<1>4. /\ g \in AddFrames
      /\ (g.at = "query" /\ g.obj = f.obj /\ g.serial = f.serial) \/ g.at = "next"
  <2>1. CASE StillOurs
    <3>1. g = [f EXCEPT !.at = "query"]
      BY <1>2, <1>3, <2>1
    <3> QED
      BY <3>1 DEF AddFrames
  <2>2. CASE ~StillOurs
    <3>0. g = [f EXCEPT !.at = "next", !.obj = None, !.serial = 0]
      BY <1>2, <1>3, <2>2 DEF NextMember
    <3>1. 0 \in 0..MaxNumber
      BY ObjectsAssumption
    <3> QED
      BY <3>0, <3>1 DEF AddFrames
  <2> QED
    BY <2>1, <2>2
<1>5. g \in Frames /\ g.kind = "add" /\ SetTop(g)
  BY <1>1, <1>3, <1>4, AddParts DEF SetTop
<1>6. FrameOK(f) /\ Registering(f) /\ f.kind = "add"
  BY <1>1, <1>2 DEF Core, StackInv, Registering
<1>7. FrameOK(g)'
  BY <1>1, <1>4, <1>5, <1>6 DEF FrameOK, MakingOK, WalkOK, Registering
<1>8. Registering(g) => Registering(Top) /\ g.serial = Top.serial
  BY <1>2, <1>4, <1>6 DEF Registering
<1>9. registrationSerial_' \in 0..MaxNumber /\ registrationSerial_ <= registrationSerial_'
  BY <1>1, ObjectsAssumption DEF Core, TypeOK
<1>10. RegisteredHasTime' /\ registrationTime' \in [Objects -> BOOLEAN]
  BY <1>1 DEF Core, ListInv, RegisteredHasTime, Registered, TypeOK
<1> QED
  BY <1>1, <1>5, <1>7, <1>8, <1>9, <1>10, GoesOnCore

(* The addition goes on to its next member. *)
LEMMA NextMemberParts ==
    ASSUME TypeOK, stack # <<>>, Top.kind = "add", NEW g, g = NextMember
    PROVE  /\ g \in AddFrames /\ g.kind = "add" /\ g.at = "next" /\ g.owner = Top.owner
           /\ g.members = Top.members /\ g.todo = Top.todo /\ g.cancelled = Top.cancelled
<1>1. PICK f \in AddFrames : f = Top
  BY StackParts, FrameParts
<1>2. g = [f EXCEPT !.at = "next", !.obj = None, !.serial = 0] /\ 0 \in 0..MaxNumber
  BY <1>1, ObjectsAssumption DEF NextMember
<1>3. /\ g \in AddFrames /\ g.kind = "add" /\ g.at = "next" /\ g.owner = f.owner
      /\ g.members = f.members /\ g.todo = f.todo /\ g.cancelled = f.cancelled
  BY <1>2 DEF AddFrames
<1> QED
  BY <1>1, <1>3

(* The object does not want the pre-drain calls, or its registration is over. *)
LEMMA NoPreDrainCore ==
    ASSUME Core, NEW wants \in BOOLEAN, QueryReturns(wants), ~(wants /\ StillOurs) PROVE Core'
<1>1. /\ stack # <<>> /\ Top.kind = "add" /\ SetTop(NextMember)
      /\ UNCHANGED <<localObjectNames_, localPrefix, nodes, objectsMap_, objectCount_, registrationSerial_,
                     registrationTime, calls, tornDown_, strayed>>
  BY DEF QueryReturns, InAdd
<1>2. PICK g : g = NextMember
  OBVIOUS
<1>3. g \in Frames /\ g.kind = "add" /\ g.at = "next" /\ SetTop(g)
  BY <1>1, <1>2, NextMemberParts DEF SetTop, Core, Frames
<1>4. FrameOK(g)' /\ ~Registering(g)
  BY <1>3 DEF FrameOK, MakingOK, WalkOK, Registering
<1>5. registrationSerial_' \in 0..MaxNumber /\ registrationSerial_ <= registrationSerial_'
  BY <1>1, ObjectsAssumption DEF Core, TypeOK
<1>6. RegisteredHasTime' /\ registrationTime' \in [Objects -> BOOLEAN]
  BY <1>1 DEF Core, ListInv, RegisteredHasTime, Registered, TypeOK
<1> QED
  BY <1>1, <1>3, <1>4, <1>5, <1>6, GoesOnCore

(* unregistered() returns. *)
LEMMA UnregisteredReturnsCore ==
    ASSUME Core, UnregisteredReturns PROVE Core'
<1>1. /\ stack # <<>> /\ Top.kind = "remove" /\ Top.at = "unregistered" /\ Top \in RemoveFrames
      /\ registrationTime' = TimeAfterRemoval(Top.obj)
      /\ SetTop([Top EXCEPT !.at = "next", !.obj = None])
      /\ UNCHANGED <<localObjectNames_, localPrefix, nodes, objectsMap_, objectCount_, registrationSerial_, calls,
                     tornDown_, strayed>>
  BY StackParts, FrameParts DEF UnregisteredReturns, InRemove, Core
<1>2. PICK f \in RemoveFrames : f = Top
  BY <1>1
<1>3. PICK g : g = [f EXCEPT !.at = "next", !.obj = None]
  OBVIOUS
<1>4. g \in RemoveFrames /\ g.kind = "remove"
  BY <1>3 DEF RemoveFrames
<1>5. g \in Frames /\ SetTop(g)
  BY <1>1, <1>2, <1>3, <1>4 DEF Frames, SetTop
<1>6. FrameOK(g)' /\ ~Registering(g)
  BY <1>4 DEF FrameOK, MakingOK, WalkOK, Registering
<1>7. registrationSerial_' \in 0..MaxNumber /\ registrationSerial_ <= registrationSerial_'
  BY <1>1, ObjectsAssumption DEF Core, TypeOK
<1>8. registrationTime' \in [Objects -> BOOLEAN]
  BY <1>1 DEF TimeAfterRemoval, Core, TypeOK
<1>9. RegisteredHasTime'
  <2> SUFFICES ASSUME NEW o \in Objects, objectsMap_[o] # 0 PROVE registrationTime'[o]
    BY <1>1 DEF RegisteredHasTime, Registered
  <2>1. registrationTime[o]
    BY DEF Core, ListInv, RegisteredHasTime, Registered
  <2>2. CASE Registered(Top.obj)
    BY <1>1, <2>1, <2>2 DEF TimeAfterRemoval
  <2>3. CASE ~Registered(Top.obj)
    <3>1. o # Top.obj
      BY <2>3 DEF Registered
    <3> QED
      BY <1>1, <2>1, <2>3, <3>1 DEF TimeAfterRemoval, Core, TypeOK
  <2> QED
    BY <2>2, <2>3
<1> QED
  BY <1>1, <1>5, <1>6, <1>7, <1>8, <1>9, GoesOnCore

(* The hook of the object at the cursor is called. *)
LEMMA DriveCore ==
    ASSUME Core, Drive PROVE Core'
<1>1. /\ stack # <<>> /\ Top.kind = "walk" /\ Top.at = "next" /\ Top \in WalkFrames
      /\ Top \in OnStack /\ Top.cursor # End
      /\ SetTop([Top EXCEPT !.at = "driven", !.stepped = FALSE, !.driven = @ \union {Top.cursor}])
      /\ UNCHANGED <<localObjectNames_, localPrefix, nodes, objectsMap_, objectCount_, registrationSerial_,
                     registrationTime, calls, tornDown_, strayed>>
  BY StackParts, FrameParts DEF Drive, InWalk, Core
<1>2. PICK f \in WalkFrames : f = Top
  BY <1>1
<1>3. PICK d : d = f.driven \union {f.cursor}
  OBVIOUS
<1>4. f.cursor \in 1..MaxNumber /\ d \in SUBSET (1..MaxNumber)
  BY <1>1, <1>2, <1>3, WalkParts, ObjectsAssumption DEF End
<1>5. PICK g : g = [f EXCEPT !.at = "driven", !.stepped = FALSE, !.driven = d]
  OBVIOUS
<1>6. /\ g \in WalkFrames /\ g.kind = "walk" /\ g.list = f.list /\ g.due = f.due
      /\ g.cursor = f.cursor /\ g.stepped = FALSE /\ g.driven = d /\ g.at = "driven"
  BY <1>4, <1>5 DEF WalkFrames
<1>7. g \in Frames /\ SetTop(g)
  BY <1>1, <1>2, <1>3, <1>5, <1>6 DEF Frames, SetTop
<1>8. FrameOK(g)' /\ ~Registering(g)
  <2>1. WalkOK(f) /\ f.kind = "walk"
    BY <1>1, <1>2 DEF Core, StackInv, FrameOK
  <2>2. Numbers(g.list)' = Numbers(f.list)
    BY <1>1, <1>6 DEF Numbers
  <2>3. WalkOK(g)'
    BY <1>1, <1>2, <1>3, <1>6, <2>1, <2>2 DEF WalkOK
  <2> QED
    BY <1>6, <2>3 DEF FrameOK, MakingOK, Registering
<1>9. registrationSerial_' \in 0..MaxNumber /\ registrationSerial_ <= registrationSerial_'
  BY <1>1, ObjectsAssumption DEF Core, TypeOK
<1>10. RegisteredHasTime' /\ registrationTime' \in [Objects -> BOOLEAN]
  BY <1>1 DEF Core, ListInv, RegisteredHasTime, Registered, TypeOK
<1> QED
  BY <1>1, <1>7, <1>8, <1>9, <1>10, GoesOnCore

(* The hook returns: the cursor moves on, unless a removal moved it. *)
LEMMA DriveReturnsCore ==
    ASSUME Core, DriveReturns PROVE Core'
<1>1. /\ stack # <<>> /\ Top.kind = "walk" /\ Top.at = "driven" /\ Top \in WalkFrames
      /\ Top \in OnStack
      /\ SetTop([Top EXCEPT !.at = "next",
                            !.cursor = IF Top.stepped THEN @ ELSE AfterIn(Numbers(Top.list), @)])
      /\ UNCHANGED <<localObjectNames_, localPrefix, nodes, objectsMap_, objectCount_, registrationSerial_,
                     registrationTime, calls, tornDown_, strayed>>
  BY StackParts, FrameParts DEF DriveReturns, InWalk, Core
<1>2. PICK f \in WalkFrames : f = Top
  BY <1>1
<1>3. PICK c : c = IF f.stepped THEN f.cursor ELSE AfterIn(Numbers(f.list), f.cursor)
  OBVIOUS
<1>4. PICK g : g = [f EXCEPT !.at = "next", !.cursor = c]
  OBVIOUS
<1>5. /\ f.list \in Lists /\ f.cursor \in 0..MaxNumber /\ f.stepped \in BOOLEAN
      /\ Numbers(f.list) \in SUBSET (1..MaxNumber) /\ MaxNumber \in Nat
  BY WalkParts, NumbersParts, ObjectsAssumption DEF Core
<1>6. WalkOK(f) /\ f.kind = "walk" /\ f.at = "driven"
  BY <1>1, <1>2 DEF Core, StackInv, FrameOK
<1>7. /\ c \in 0..MaxNumber /\ c \in Numbers(f.list) \union {End}
      /\ \A n \in Numbers(f.list) \ f.driven :
           \/ c # End /\ c <= n
           \/ c = End /\ f.stepped /\ n \notin f.due
  <2>1. CASE f.stepped
    BY <1>3, <1>5, <1>6, <2>1 DEF WalkOK
  <2>2. CASE ~f.stepped
    <3>1. c = AfterIn(Numbers(f.list), f.cursor)
      BY <1>3, <2>2
    <3>2. f.cursor # End /\ f.cursor \in f.driven
      BY <1>6, <2>2 DEF WalkOK
    <3>3. /\ c \in 0..MaxNumber /\ (c # End => c \in Numbers(f.list))
          /\ \A j \in Numbers(f.list) : j > f.cursor => c # End /\ c <= j
      BY <1>5, <3>1, AfterParts
    <3>4. ASSUME NEW n \in Numbers(f.list), n \notin f.driven PROVE c # End /\ c <= n
      <4>1. f.cursor <= n
        BY <1>6, <3>2, <3>4 DEF WalkOK
      <4>2. n > f.cursor
        BY <1>5, <3>2, <3>4, <4>1
      <4> QED
        BY <3>3, <4>2
    <3> QED
      BY <3>3, <3>4
  <2> QED
    BY <2>1, <2>2
<1>8. /\ g \in WalkFrames /\ g.kind = "walk" /\ g.list = f.list /\ g.due = f.due
      /\ g.cursor = c /\ g.stepped = f.stepped /\ g.driven = f.driven /\ g.at = "next"
  BY <1>4, <1>7 DEF WalkFrames
<1>9. g \in Frames /\ SetTop(g)
  BY <1>1, <1>2, <1>3, <1>4, <1>8 DEF Frames, SetTop
<1>10. FrameOK(g)' /\ ~Registering(g)
  <2>1. Numbers(g.list)' = Numbers(f.list)
    BY <1>1, <1>8 DEF Numbers
  <2>2. WalkOK(g)'
    BY <1>1, <1>6, <1>7, <1>8, <2>1 DEF WalkOK
  <2> QED
    BY <1>8, <2>2 DEF FrameOK, MakingOK, Registering
<1>11. registrationSerial_' \in 0..MaxNumber /\ registrationSerial_ <= registrationSerial_'
  BY <1>1, ObjectsAssumption DEF Core, TypeOK
<1>12. RegisteredHasTime' /\ registrationTime' \in [Objects -> BOOLEAN]
  BY <1>1 DEF Core, ListInv, RegisteredHasTime, Registered, TypeOK
<1> QED
  BY <1>1, <1>9, <1>10, <1>11, <1>12, GoesOnCore

(* A call returns or is left by a throw. *)
LEMMA LeaveCore ==
    ASSUME Core, Return \/ Throw PROVE Core'
<1>1. /\ stack # <<>> /\ stack' = Below
      /\ UNCHANGED <<localObjectNames_, localPrefix, nodes, objectsMap_, objectCount_, registrationSerial_,
                     registrationTime, tornDown_>>
  BY DEF Return, Throw, InAdd, InRemove, InWalk
<1>2. stack' \in Seq(Frames)
  BY <1>1, PopShape DEF Core
<1>3. calls' \in 0..MaxCalls
  BY ObjectsAssumption DEF Return, Throw, Core, TypeOK
<1>4. strayed' \subseteq Objects \X {"readded", "other", "thrown", "renamed"}
  <2>1. Top \in Frames /\ (Top.kind # "walk" => Top.todo \subseteq Objects)
    BY <1>1, StackParts, FrameParts, AddParts, RemoveParts DEF Core
  <2> QED
    BY <2>1 DEF Return, Throw, Core, TypeOK
<1>5. TypeOK'
  BY <1>1, <1>2, <1>3, <1>4 DEF Core, TypeOK, Frames
<1>6. StackInv'
  BY <1>1, PopKeeps DEF Core
<1>7. ListInv'
  <2>1. RegisteredHasTime'
    BY <1>1 DEF Core, ListInv, RegisteredHasTime, Registered
  <2>2. registrationSerial_' \in Nat /\ registrationSerial_ <= registrationSerial_'
    BY <1>1, ObjectsAssumption DEF Core, TypeOK
  <2> QED
    BY <1>1, <2>1, <2>2, ListStays DEF Core
<1> QED
  BY <1>5, <1>6, <1>7 DEF Core

-----------------------------------------------------------------------------
(* A new node has a new number. *)
LEMMA NumberedGrows ==
    ASSUME TypeOK, Numbered, NEW l \in Lists, NEW o \in Objects,
           registrationSerial_' = registrationSerial_ + 1,
           NEW node, node = [number |-> registrationSerial_ + 1, obj |-> o],
           nodes' = [nodes EXCEPT ![l] = @ \union {node}],
           \A x \in Objects : objectsMap_'[x] <= registrationSerial_'
    PROVE  Numbered'
<1>0. registrationSerial_ \in Nat /\ MaxNumber \in Nat /\ node.number = registrationSerial_'
  BY ObjectsAssumption DEF TypeOK
<1>1. ASSUME NEW m \in Lists, NEW n \in nodes'[m]
      PROVE  \/ n = node
             \/ /\ n \in nodes[m] /\ n.number \in Nat /\ n.number <= registrationSerial_
                /\ n.number # node.number /\ n.number <= registrationSerial_'
  <2>1. n = node \/ n \in nodes[m]
    BY <1>1 DEF TypeOK
  <2>2. CASE n \in nodes[m]
    <3>1. n.number \in Nat /\ n.number <= registrationSerial_
      BY <1>0, <2>2, NumbersParts DEF Numbered
    <3> QED
      BY <1>0, <2>2, <3>1
  <2> QED
    BY <2>1, <2>2
<1>2. ASSUME NEW m \in Lists, NEW n \in nodes'[m] PROVE n.number <= registrationSerial_'
  BY <1>0, <1>1
<1>3. ASSUME NEW m \in Lists, NEW n \in nodes'[m], NEW k \in nodes'[m], n.number = k.number
      PROVE  n = k
  BY <1>1, <1>3 DEF Numbered
<1> QED
  BY <1>2, <1>3 DEF Numbered

(* A registration puts the object into the list, the map and the count together. *)
LEMMA ListedGrows ==
    ASSUME Core, NEW o \in Objects, ~Registered(o), NEW k \in 1..MaxNumber,
           NEW node, node = [number |-> k, obj |-> o],
           nodes' = [nodes EXCEPT !["objects"] = @ \union {node}],
           objectsMap_' = [objectsMap_ EXCEPT ![o] = k], objectCount_' = objectCount_ + 1
    PROVE  Listed'
<1>0. /\ nodes'["objects"] = nodes["objects"] \union {node} /\ node.number = k /\ node.obj = o
      /\ objectsMap_'[o] = k /\ \A x \in Objects : x # o => objectsMap_'[x] = objectsMap_[x]
  BY DEF Core, TypeOK, Lists
<1>1. \A n \in nodes["objects"] : n.obj \in Objects /\ n.number # 0 /\ objectsMap_[n.obj] = n.number
  BY NumbersParts, ObjectsAssumption DEF Core, ListInv, Listed, Lists
<1>2. \A n \in nodes["objects"] : n.obj # o
  BY <1>1 DEF Registered
<1>3. node \notin nodes["objects"]
  BY <1>0, <1>2
<1>4. \A n \in nodes'["objects"] : objectsMap_'[n.obj] = n.number
  BY <1>0, <1>1, <1>2
<1>5. ASSUME NEW x \in Objects, objectsMap_'[x] # 0
      PROVE  [number |-> objectsMap_'[x], obj |-> x] \in nodes'["objects"]
  <2>1. CASE x = o
    BY <1>0, <2>1
  <2>2. CASE x # o
    <3>1. [number |-> objectsMap_[x], obj |-> x] \in nodes["objects"]
      BY <1>0, <1>5, <2>2 DEF Core, ListInv, Listed, Registered
    <3> QED
      BY <1>0, <2>2, <3>1
  <2> QED
    BY <2>1, <2>2
<1>6. IsFiniteSet(nodes'["objects"]) /\ objectCount_' = Cardinality(nodes'["objects"])
  <2>1. IsFiniteSet(nodes["objects"]) /\ objectCount_ = Cardinality(nodes["objects"])
    BY DEF Core, ListInv, Listed
  <2>2. /\ IsFiniteSet(nodes["objects"] \union {node})
        /\ Cardinality(nodes["objects"] \union {node}) = Cardinality(nodes["objects"]) + 1
    BY <1>3, <2>1, FS_AddElement
  <2> QED
    BY <1>0, <2>1, <2>2
<1> QED
  BY <1>4, <1>5, <1>6 DEF Listed, Registered

(* A member of an addition is registered. *)
LEMMA RegisterCore ==
    ASSUME Core, NEW o \in Objects, RegisterNext(o), o \notin Top.cancelled, ~AlreadyRegistered(o)
    PROVE  Core'
<1>1. PICK k : k = registrationSerial_ + 1
  OBVIOUS
<1>2. PICK node : node = [number |-> k, obj |-> o]
  OBVIOUS
<1>3. /\ stack # <<>> /\ Top.kind = "add" /\ Top.at = "next" /\ Top \in AddFrames
      /\ registrationSerial_ < MaxNumber /\ registrationSerial_' = k
      /\ nodes' = [nodes EXCEPT !["objects"] = @ \union {node}]
      /\ objectsMap_' = [objectsMap_ EXCEPT ![o] = k]
      /\ objectCount_' = objectCount_ + 1
      /\ registrationTime' = [registrationTime EXCEPT ![o] = TRUE]
      /\ SetTop([Top EXCEPT !.todo = @ \ {o}, !.obj = o, !.serial = k, !.at = "registered"])
      /\ UNCHANGED <<localObjectNames_, localPrefix, calls, tornDown_, strayed>>
  BY <1>1, <1>2, StackParts, FrameParts DEF RegisterNext, InAdd, Core
<1>4. /\ registrationSerial_ \in Nat /\ MaxNumber \in Nat /\ k \in Nat /\ k \in 1..MaxNumber
      /\ k > registrationSerial_ /\ k \in 0..MaxNumber
  BY <1>1, <1>3, ObjectsAssumption DEF Core, TypeOK
<1>5. PICK f \in AddFrames : f = Top
  BY <1>3
<1>6. PICK g : g = [f EXCEPT !.todo = f.todo \ {o}, !.obj = o, !.serial = k, !.at = "registered"]
  OBVIOUS
<1>7. /\ g \in AddFrames /\ g.kind = "add" /\ g.at = "registered" /\ g.obj = o /\ g.serial = k
  BY <1>4, <1>6, AddParts DEF AddFrames
<1>8. g \in Frames /\ SetTop(g)
  BY <1>3, <1>5, <1>6, <1>7 DEF Frames, SetTop
<1>9. /\ stack' \in Seq(Frames) /\ Len(stack') = Len(stack) /\ Depth' = Depth
      /\ stack'[Len(stack)] = g
      /\ \A i \in Depth : i # Len(stack) => i < Len(stack) /\ stack'[i] = stack[i]
  BY <1>3, <1>8, TopShape DEF Core
<1>10. TypeOK'
  <2>1. node \in Nodes
    BY <1>2, <1>4 DEF Nodes
  <2>2. nodes' \in [Lists -> SUBSET Nodes]
    BY <1>3, <2>1 DEF Core, TypeOK
  <2>3. objectsMap_' \in [Objects -> 0..MaxNumber] /\ objectCount_' \in Nat
        /\ registrationTime' \in [Objects -> BOOLEAN]
    BY <1>3, <1>4 DEF Core, TypeOK
  <2> QED
    BY <1>3, <1>4, <1>9, <2>2, <2>3 DEF Core, TypeOK, Frames
<1>11. objectsMap_'[o] = k /\ \A x \in Objects : x # o => objectsMap_'[x] = objectsMap_[x]
  BY <1>3 DEF Core, TypeOK
<1>12. nodes'["preDrain"] = nodes["preDrain"]
  BY <1>3 DEF Core, TypeOK, Lists
<1>13. /\ ~Registered(o)
       /\ \A n \in nodes["preDrain"] : n.obj \in Objects /\ n.obj # o
  <2>1. \A n \in nodes["preDrain"] : n.obj \in Objects /\ objectsMap_[n.obj] # 0
    BY NumbersParts DEF Core, ListInv, PreDrainIsRegistered, Lists
  <2> QED
    BY <2>1 DEF AlreadyRegistered, Registered
<1>14. ListInv'
  <2>1. ASSUME NEW x \in Objects PROVE objectsMap_'[x] <= registrationSerial_'
    <3>1. objectsMap_[x] \in Nat /\ objectsMap_[x] <= registrationSerial_
      BY <1>4 DEF Core, TypeOK, ListInv, Numbered
    <3> QED
      BY <1>3, <1>4, <1>11, <3>1
  <2>2. Numbered'
    BY <1>1, <1>2, <1>3, <2>1, NumberedGrows DEF Core, ListInv, Lists
  <2>3. Listed'
    BY <1>2, <1>3, <1>4, <1>13, ListedGrows
  <2>4. PreDrainIsRegistered'
    BY <1>11, <1>12, <1>13 DEF Core, ListInv, PreDrainIsRegistered
  <2>5. RegisteredHasTime'
    BY <1>3, <1>11 DEF Core, TypeOK, ListInv, RegisteredHasTime, Registered
  <2> QED
    BY <2>2, <2>3, <2>4, <2>5 DEF ListInv
<1>15. FrameOK(g)'
  <2>1. MakingOK(g)'
    BY <1>3, <1>4, <1>7, <1>11, <1>12, <1>13 DEF MakingOK
  <2> QED
    BY <1>7, <2>1 DEF FrameOK, WalkOK
<1>16. ASSUME NEW h, NEW i \in Depth, i # Len(stack), h = stack'[i]
       PROVE  FrameOK(h)' /\ (Registering(stack[i]) => k # stack[i].serial)
  <2>1. h \in Frames /\ FrameOK(h) /\ h.at \in Hooks /\ h = stack[i]
    BY <1>9, <1>16, StackParts DEF Core, StackInv, HooksBelow
  <2>2. Registering(h) => h.obj \in Objects /\ h.serial \in 1..registrationSerial_ /\ h.serial # k
    BY <1>4, <2>1 DEF FrameOK, MakingOK
  <2>3. MakingOK(h)'
    <3> SUFFICES ASSUME Registering(h)
                 PROVE  /\ h.obj \in Objects /\ h.serial \in 1..registrationSerial_'
                        /\ objectsMap_'[h.obj] = h.serial => \A n \in nodes'["preDrain"] : n.obj # h.obj
      BY DEF MakingOK
    <3>1. h.serial \in 1..registrationSerial_'
      BY <1>3, <1>4, <2>2
    <3>2. objectsMap_'[h.obj] = h.serial => \A n \in nodes'["preDrain"] : n.obj # h.obj
      BY <1>11, <1>12, <2>1, <2>2 DEF FrameOK, MakingOK
    <3> QED
      BY <2>2, <3>1, <3>2
  <2>4. WalkOK(h)'
    BY <1>1, <1>2, <1>3, <2>1, WalkGrows DEF Core, ListInv, FrameOK, Lists
  <2> QED
    BY <2>1, <2>2, <2>3, <2>4 DEF FrameOK
<1>17. StackInv'
  <2>1. \A i \in Depth : i # Len(stack) =>
               /\ stack'[i].kind = stack[i].kind /\ stack'[i].at = stack[i].at
               /\ Registering(stack[i]) => stack'[i].serial = stack[i].serial
               /\ Registering(g) /\ Registering(stack[i]) => g.serial # stack[i].serial
    BY <1>7, <1>9, <1>16
  <2>2. \A h : (\E i \in Depth : i # Len(stack) /\ h = stack'[i]) => FrameOK(h)'
    BY <1>16
  <2> QED
    BY <1>3, <1>9, <1>15, <2>1, <2>2, TopKeeps DEF Core
<1> QED
  BY <1>10, <1>14, <1>17 DEF Core

(* An object that wants the pre-drain calls gets its entry. *)
LEMMA PreDrainCore ==
    ASSUME Core, NEW wants \in BOOLEAN, QueryReturns(wants), wants, StillOurs PROVE Core'
<1>1. PICK k : k = registrationSerial_ + 1
  OBVIOUS
<1>2. PICK o : o = Top.obj
  OBVIOUS
<1>3. PICK node : node = [number |-> k, obj |-> o]
  OBVIOUS
<1>4. /\ stack # <<>> /\ Top.kind = "add" /\ Top.at = "query" /\ Top \in AddFrames
      /\ Top \in OnStack /\ Len(stack) \in Depth /\ Top = stack[Len(stack)]
      /\ registrationSerial_ < MaxNumber /\ registrationSerial_' = k
      /\ nodes' = [nodes EXCEPT !["preDrain"] = @ \union {node}]
      /\ SetTop(NextMember)
      /\ UNCHANGED <<localObjectNames_, localPrefix, objectsMap_, objectCount_, registrationTime, calls,
                     tornDown_, strayed>>
  BY <1>1, <1>2, <1>3, StackParts, FrameParts DEF QueryReturns, InAdd, Core
<1>5. /\ registrationSerial_ \in Nat /\ MaxNumber \in Nat /\ k \in Nat /\ k \in 1..MaxNumber
      /\ k > registrationSerial_ /\ k \in 0..MaxNumber
  BY <1>1, <1>4, ObjectsAssumption DEF Core, TypeOK
<1>6. PICK f \in AddFrames : f = Top
  BY <1>4
<1>7. /\ Registering(f) /\ o \in Objects /\ f.obj = o /\ f.serial \in 1..registrationSerial_
      /\ objectsMap_[o] = f.serial /\ \A n \in nodes["preDrain"] : n.obj # o
  BY <1>2, <1>4, <1>6 DEF Registering, StillOurs, Core, StackInv, FrameOK, MakingOK
<1>8. PICK g : g = NextMember
  OBVIOUS
<1>9. g \in Frames /\ g.kind = "add" /\ g.at = "next" /\ SetTop(g) /\ ~Registering(g)
  BY <1>4, <1>8, NextMemberParts DEF SetTop, Core, Frames, Registering
<1>10. /\ stack' \in Seq(Frames) /\ Len(stack') = Len(stack) /\ Depth' = Depth
       /\ stack'[Len(stack)] = g
       /\ \A i \in Depth : i # Len(stack) => i < Len(stack) /\ stack'[i] = stack[i]
  BY <1>4, <1>9, TopShape DEF Core
<1>11. TypeOK'
  <2>1. node \in Nodes
    BY <1>3, <1>5, <1>7 DEF Nodes
  <2>2. nodes' \in [Lists -> SUBSET Nodes]
    BY <1>4, <2>1 DEF Core, TypeOK
  <2> QED
    BY <1>4, <1>5, <1>10, <2>2 DEF Core, TypeOK, Frames
<1>12. /\ nodes'["objects"] = nodes["objects"] /\ nodes'["preDrain"] = nodes["preDrain"] \union {node}
       /\ node.obj = o /\ node.number = k
  BY <1>3, <1>4 DEF Core, TypeOK, Lists
<1>13. ListInv'
  <2>1. ASSUME NEW x \in Objects PROVE objectsMap_'[x] <= registrationSerial_'
    <3>1. objectsMap_[x] \in Nat /\ objectsMap_[x] <= registrationSerial_
      BY <1>5 DEF Core, TypeOK, ListInv, Numbered
    <3> QED
      BY <1>4, <1>5, <3>1
  <2>2. Numbered'
    BY <1>1, <1>3, <1>4, <1>7, <2>1, NumberedGrows DEF Core, ListInv, Lists
  <2>3. Listed'
    BY <1>4, <1>12 DEF Core, ListInv, Listed, Registered
  <2>4. PreDrainIsRegistered'
    <3>1. objectsMap_[o] # 0 /\ objectsMap_[o] < k
      BY <1>5, <1>7
    <3>2. ASSUME NEW n \in nodes'["preDrain"]
          PROVE  /\ objectsMap_[n.obj] # 0 /\ objectsMap_[n.obj] < n.number
                 /\ \A m \in nodes'["preDrain"] : m.obj = n.obj => m = n
      <4>1. CASE n = node
        BY <1>7, <1>12, <3>1, <4>1
      <4>2. CASE n \in nodes["preDrain"]
        BY <1>7, <1>12, <4>2 DEF Core, ListInv, PreDrainIsRegistered
      <4> QED
        BY <1>12, <4>1, <4>2
    <3> QED
      BY <1>4, <3>2 DEF PreDrainIsRegistered
  <2>5. RegisteredHasTime'
    BY <1>4 DEF Core, ListInv, RegisteredHasTime, Registered
  <2> QED
    BY <2>2, <2>3, <2>4, <2>5 DEF ListInv
<1>14. FrameOK(g)'
  BY <1>9 DEF FrameOK, WalkOK, MakingOK
<1>15. ASSUME NEW h, NEW i \in Depth, i # Len(stack), h = stack'[i] PROVE FrameOK(h)'
  <2>1. h \in Frames /\ FrameOK(h) /\ h.at \in Hooks /\ h = stack[i]
    BY <1>10, <1>15, StackParts DEF Core, StackInv, HooksBelow
  <2>2. Registering(h) => h.obj \in Objects /\ h.serial \in 1..registrationSerial_
    BY <2>1 DEF FrameOK, MakingOK
  <2>3. Registering(h) => h.serial # f.serial
    BY <1>4, <1>6, <1>7, <1>15, <2>1 DEF Core, StackInv, OneMaker
  <2>4. MakingOK(h)'
    <3> SUFFICES ASSUME Registering(h)
                 PROVE  /\ h.obj \in Objects /\ h.serial \in 1..registrationSerial_'
                        /\ objectsMap_'[h.obj] = h.serial => \A n \in nodes'["preDrain"] : n.obj # h.obj
      BY DEF MakingOK
    <3>1. h.serial \in 1..registrationSerial_'
      BY <1>4, <1>5, <2>2
    <3>2. objectsMap_[h.obj] = h.serial => h.obj # o /\ \A n \in nodes["preDrain"] : n.obj # h.obj
      BY <1>7, <2>1, <2>3 DEF FrameOK, MakingOK
    <3>3. objectsMap_'[h.obj] = h.serial => \A n \in nodes'["preDrain"] : n.obj # h.obj
      BY <1>4, <1>12, <3>2
    <3> QED
      BY <2>2, <3>1, <3>3
  <2>5. WalkOK(h)'
    BY <1>1, <1>3, <1>4, <1>7, <2>1, WalkGrows DEF Core, ListInv, FrameOK, Lists
  <2> QED
    BY <2>4, <2>5 DEF FrameOK
<1>16. StackInv'
  <2>1. \A i \in Depth : i # Len(stack) =>
               /\ stack'[i].kind = stack[i].kind /\ stack'[i].at = stack[i].at
               /\ Registering(stack[i]) => stack'[i].serial = stack[i].serial
               /\ Registering(g) /\ Registering(stack[i]) => g.serial # stack[i].serial
    BY <1>9, <1>10
  <2>2. \A h : (\E i \in Depth : i # Len(stack) /\ h = stack'[i]) => FrameOK(h)'
    BY <1>15
  <2> QED
    BY <1>4, <1>10, <1>14, <2>1, <2>2, TopKeeps DEF Core
<1> QED
  BY <1>11, <1>13, <1>16 DEF Core

(* The nodes, the map and the count let go of an object together. *)
LEMMA ListShrinks ==
    ASSUME Core, NEW o \in Objects, Registered(o),
           nodes' = [l \in Lists |-> {n \in nodes[l] : n.obj # o}],
           objectsMap_' = [objectsMap_ EXCEPT ![o] = 0], objectCount_' = objectCount_ - 1,
           UNCHANGED <<registrationSerial_, registrationTime>>
    PROVE  ListInv' /\ objectCount_' \in Nat
<1>0. /\ objectsMap_'[o] = 0 /\ \A x \in Objects : x # o => objectsMap_'[x] = objectsMap_[x]
      /\ \A l \in Lists : nodes'[l] = {n \in nodes[l] : n.obj # o}
      /\ registrationSerial_ \in Nat
  BY ObjectsAssumption DEF Core, TypeOK
<1>1. /\ "objects" \in Lists /\ "preDrain" \in Lists
      /\ \A l \in Lists : \A n \in nodes[l] : n.obj \in Objects
  BY NumbersParts DEF Core, Lists
<1>2. Numbered'
  <2>1. \A x \in Objects : objectsMap_'[x] <= registrationSerial_'
    BY <1>0 DEF Core, ListInv, Numbered
  <2> QED
    BY <1>0, <2>1 DEF Core, ListInv, Numbered
<1>3. PICK node : node = [number |-> objectsMap_[o], obj |-> o]
  OBVIOUS
<1>4. node \in nodes["objects"] /\ node.obj = o
  BY <1>3 DEF Core, ListInv, Listed
<1>5. \A n \in nodes["objects"] : n.obj = o => n = node
  <2> SUFFICES ASSUME NEW n \in nodes["objects"], n.obj = o PROVE n = node
    OBVIOUS
  <2>1. n.number = node.number
    BY <1>4 DEF Core, ListInv, Listed
  <2> QED
    BY <1>1, <1>4, <2>1 DEF Core, ListInv, Numbered
<1>6. nodes'["objects"] = nodes["objects"] \ {node}
  BY <1>0, <1>1, <1>4, <1>5
<1>7. /\ IsFiniteSet(nodes'["objects"]) /\ objectCount_' = Cardinality(nodes'["objects"])
      /\ objectCount_' \in Nat
  <2>1. IsFiniteSet(nodes["objects"]) /\ objectCount_ = Cardinality(nodes["objects"])
    BY DEF Core, ListInv, Listed
  <2>2. /\ IsFiniteSet(nodes["objects"] \ {node})
        /\ Cardinality(nodes["objects"] \ {node}) = Cardinality(nodes["objects"]) - 1
    BY <1>4, <2>1, FS_RemoveElement
  <2>3. Cardinality(nodes["objects"] \ {node}) \in Nat
    BY <2>2, FS_CardinalityType
  <2> QED
    BY <1>6, <2>1, <2>2, <2>3
<1>8. Listed'
  <2>1. \A n \in nodes'["objects"] : objectsMap_'[n.obj] = n.number
    BY <1>0, <1>1 DEF Core, ListInv, Listed
  <2>2. ASSUME NEW x \in Objects, objectsMap_'[x] # 0
        PROVE  [number |-> objectsMap_'[x], obj |-> x] \in nodes'["objects"]
    <3>1. x # o /\ objectsMap_'[x] = objectsMap_[x]
      BY <1>0, <2>2
    <3>2. [number |-> objectsMap_[x], obj |-> x] \in nodes["objects"]
      BY <2>2, <3>1 DEF Core, ListInv, Listed, Registered
    <3>3. [number |-> objectsMap_[x], obj |-> x].obj = x
      OBVIOUS
    <3> QED
      BY <1>0, <1>1, <3>1, <3>2, <3>3
  <2> QED
    BY <1>7, <2>1, <2>2 DEF Listed, Registered
<1>9. PreDrainIsRegistered'
  BY <1>0, <1>1 DEF Core, ListInv, PreDrainIsRegistered
<1>10. RegisteredHasTime'
  BY <1>0 DEF Core, ListInv, RegisteredHasTime, Registered
<1> QED
  BY <1>2, <1>7, <1>8, <1>9, <1>10 DEF ListInv

(* A step that changes calls in their places. *)
LEMMA PlacesShape ==
    ASSUME TypeOK, stack' \in [1..Len(stack) -> Frames]
    PROVE  stack' \in Seq(Frames) /\ Len(stack') = Len(stack) /\ Depth' = Depth
<1>1. Len(stack) \in Nat
  BY StackParts
<1>2. stack' \in Seq(Frames)
  BY <1>1, SeqDef
<1>3. DOMAIN stack' = 1..Len(stack)
  OBVIOUS
<1>4. Len(stack') = Len(stack)
  BY <1>1, <1>2, <1>3, LenProperties
<1> QED
  BY <1>2, <1>4 DEF Depth

(* Cancelling a member leaves everything else of an addition, and every other call. *)
LEMMA CancelParts ==
    ASSUME NEW f \in AddFrames, NEW p, NEW o \in Objects, NEW g, g = Cancel(f, p, o)
    PROVE  /\ g \in AddFrames /\ g.at = f.at /\ g.owner = f.owner /\ g.members = f.members
           /\ g.todo = f.todo /\ g.obj = f.obj /\ g.serial = f.serial
           /\ f.owner = p /\ o \in f.members => g.cancelled = f.cancelled \union {o}
           /\ ~(f.owner = p /\ o \in f.members) => g.cancelled = f.cancelled
<1>0. f.kind = "add" /\ f.cancelled \subseteq Objects
  BY AddParts
<1>1. CASE f.owner = p /\ o \in f.members
  <2>1. PICK c \in SUBSET Objects : c = f.cancelled \union {o}
    BY <1>0
  <2>2. g = [f EXCEPT !.cancelled = c]
    BY <1>0, <1>1, <2>1 DEF Cancel
  <2>3. /\ g \in AddFrames /\ g.at = f.at
        /\ g.owner = f.owner /\ g.members = f.members /\ g.todo = f.todo /\ g.obj = f.obj
        /\ g.serial = f.serial /\ g.cancelled = c
    BY <2>2 DEF AddFrames
  <2> QED
    BY <1>1, <2>1, <2>3
<1>2. CASE ~(f.owner = p /\ o \in f.members)
  <2>1. g = f
    BY <1>2 DEF Cancel
  <2> QED
    BY <1>2, <2>1
<1> QED
  BY <1>1, <1>2

(* Calls other than additions are not told. *)
LEMMA CancelOthers ==
    ASSUME NEW f, f.kind # "add", NEW p, NEW o PROVE Cancel(f, p, o) = f
BY DEF Cancel

(* The innermost removal as it goes on to unregistered(), or to its next member. *)
LEMMA RemoveGoesOn ==
    ASSUME TypeOK, NEW o \in Objects, InRemove("next"), NEW g,
           \/ g = [Top EXCEPT !.todo = @ \ {o}, !.obj = o, !.at = "unregistered"]
           \/ g = [Top EXCEPT !.todo = @ \ {o}]
    PROVE  /\ g \in Frames /\ g.kind = "remove" /\ g.owner = Top.owner /\ g.todo = Top.todo \ {o}
           /\ stack # <<>> /\ Top \in RemoveFrames /\ Top.kind = "remove"
<1>1. stack # <<>> /\ Top \in RemoveFrames /\ Top.kind = "remove"
  BY StackParts, FrameParts DEF InRemove
<1>2. PICK f \in RemoveFrames : f = Top
  BY <1>1
<1>3. /\ g \in RemoveFrames /\ g.kind = "remove" /\ g.owner = f.owner /\ g.todo = f.todo \ {o}
  <2>1. CASE g = [Top EXCEPT !.todo = @ \ {o}, !.obj = o, !.at = "unregistered"]
    <3>1. g = [f EXCEPT !.todo = f.todo \ {o}, !.obj = o, !.at = "unregistered"]
      BY <1>2, <2>1
    <3> QED
      BY <3>1 DEF RemoveFrames
  <2>2. CASE g = [Top EXCEPT !.todo = @ \ {o}]
    <3>1. g = [f EXCEPT !.todo = f.todo \ {o}]
      BY <1>2, <2>2
    <3> QED
      BY <3>1 DEF RemoveFrames
  <2> QED
    BY <2>1, <2>2
<1> QED
  BY <1>1, <1>2, <1>3 DEF Frames

(* A member of a removal is taken out. *)
LEMMA UnregisterShape ==
    ASSUME Core, NEW o \in Objects, UnregisterNext(o), Registered(o)
    PROVE  /\ stack # <<>> /\ Top.kind = "remove" /\ Top \in RemoveFrames /\ o \in Top.todo
           /\ stack' \in Seq(Frames) /\ Len(stack') = Len(stack) /\ Depth' = Depth
           /\ \A i \in Depth : i # Len(stack) => stack'[i] = StepPast(stack[i], o)
           /\ \E g \in Frames : /\ g = stack'[Len(stack)] /\ g.kind = "remove"
                                /\ g.owner = Top.owner /\ g.todo = Top.todo \ {o}
           /\ nodes' = [l \in Lists |-> {n \in nodes[l] : n.obj # o}]
           /\ objectsMap_' = [objectsMap_ EXCEPT ![o] = 0]
           /\ objectCount_' = objectCount_ - 1
           /\ strayed' = IF \E p \in Owners \ {Top.owner} : o \in localObjectNames_[p]
                           THEN strayed \union {<<o, "other">>} ELSE strayed
           /\ UNCHANGED <<localObjectNames_, localPrefix, registrationSerial_, registrationTime, calls, tornDown_>>
<1>1. PICK g : g = [Top EXCEPT !.todo = @ \ {o}, !.obj = o, !.at = "unregistered"]
  OBVIOUS
<1>2. /\ InRemove("next") /\ o \in Top.todo
      /\ stack' = [i \in 1..Len(stack) |-> IF i = Len(stack) THEN g ELSE StepPast(stack[i], o)]
      /\ nodes' = [l \in Lists |-> {n \in nodes[l] : n.obj # o}]
      /\ objectsMap_' = [objectsMap_ EXCEPT ![o] = 0]
      /\ objectCount_' = objectCount_ - 1
      /\ strayed' = IF \E p \in Owners \ {Top.owner} : o \in localObjectNames_[p]
                      THEN strayed \union {<<o, "other">>} ELSE strayed
      /\ UNCHANGED <<localObjectNames_, localPrefix, registrationSerial_, registrationTime, calls, tornDown_>>
  BY <1>1 DEF UnregisterNext
<1>3. /\ g \in Frames /\ g.kind = "remove" /\ g.owner = Top.owner /\ g.todo = Top.todo \ {o}
      /\ stack # <<>> /\ Top \in RemoveFrames /\ Top.kind = "remove"
  BY <1>1, <1>2, RemoveGoesOn DEF Core
<1>4. \A i \in 1..Len(stack) : StepPast(stack[i], o) \in Frames
  <2> SUFFICES ASSUME NEW i \in 1..Len(stack) PROVE StepPast(stack[i], o) \in Frames
    OBVIOUS
  <2>1. PICK h \in Frames : h = stack[i]
    BY StackParts DEF Core, Depth
  <2>2. StepPast(h, o) \in Frames
    BY StepPastKeeps DEF Core
  <2> QED
    BY <2>1, <2>2
<1>5. /\ stack' \in [1..Len(stack) -> Frames]
      /\ \A i \in 1..Len(stack) : stack'[i] = IF i = Len(stack) THEN g ELSE StepPast(stack[i], o)
  BY <1>2, <1>3, <1>4
<1>6. stack' \in Seq(Frames) /\ Len(stack') = Len(stack) /\ Depth' = Depth
  BY <1>5, PlacesShape DEF Core
<1>7. Len(stack) \in Depth
  BY <1>3, StackParts DEF Core
<1>8. /\ stack'[Len(stack)] = g
      /\ \A i \in Depth : i # Len(stack) => stack'[i] = StepPast(stack[i], o)
  BY <1>5, <1>7 DEF Depth
<1>9. \E h \in Frames : /\ h = stack'[Len(stack)] /\ h.kind = "remove"
                        /\ h.owner = Top.owner /\ h.todo = Top.todo \ {o}
  BY <1>3, <1>8
<1> QED
  BY <1>2, <1>3, <1>6, <1>8, <1>9

(* The registration is taken out of the lists, and no walk is left standing on it. *)
LEMMA UnregisterCore ==
    ASSUME Core, NEW o \in Objects, UnregisterNext(o), Registered(o) PROVE Core'
<1>1. /\ stack # <<>> /\ Top.kind = "remove" /\ Top \in RemoveFrames
      /\ stack' \in Seq(Frames) /\ Len(stack') = Len(stack) /\ Depth' = Depth
      /\ \A i \in Depth : i # Len(stack) => stack'[i] = StepPast(stack[i], o)
      /\ nodes' = [l \in Lists |-> {n \in nodes[l] : n.obj # o}]
      /\ objectsMap_' = [objectsMap_ EXCEPT ![o] = 0]
      /\ objectCount_' = objectCount_ - 1
      /\ strayed' = IF \E p \in Owners \ {Top.owner} : o \in localObjectNames_[p]
                      THEN strayed \union {<<o, "other">>} ELSE strayed
      /\ UNCHANGED <<localObjectNames_, localPrefix, registrationSerial_, registrationTime, calls, tornDown_>>
  BY UnregisterShape
<1>2. PICK g \in Frames : g = stack'[Len(stack)] /\ g.kind = "remove"
  BY UnregisterShape
<1>3. ListInv' /\ objectCount_' \in Nat
  BY <1>1, ListShrinks
<1>4. TypeOK'
  <2>1. nodes' \in [Lists -> SUBSET Nodes]
    BY <1>1 DEF Core, TypeOK
  <2>2. objectsMap_' \in [Objects -> 0..MaxNumber]
    BY <1>1, ObjectsAssumption DEF Core, TypeOK
  <2>3. strayed' \subseteq Objects \X {"readded", "other", "thrown", "renamed"}
    BY <1>1 DEF Core, TypeOK
  <2> QED
    BY <1>1, <1>3, <2>1, <2>2, <2>3 DEF Core, TypeOK, Frames
<1>5. objectsMap_'[o] = 0 /\ \A x \in Objects : x # o => objectsMap_'[x] = objectsMap_[x]
  BY <1>1 DEF Core, TypeOK
<1>6. nodes'["preDrain"] \subseteq nodes["preDrain"]
  BY <1>1 DEF Lists
<1>7. FrameOK(g)' /\ ~Registering(g)
  BY <1>2 DEF FrameOK, WalkOK, MakingOK, Registering
<1>8. ASSUME NEW i \in Depth, i # Len(stack)
      PROVE  /\ stack[i] \in Frames /\ FrameOK(stack[i]) /\ stack[i].at \in Hooks
             /\ stack'[i] \in Frames /\ stack'[i].kind = stack[i].kind /\ stack'[i].at = stack[i].at
             /\ stack[i].kind # "walk" => stack'[i] = stack[i]
  <2>1. i < Len(stack)
    BY <1>8, StackParts DEF Core, Depth
  <2>2. PICK f \in Frames : f = stack[i] /\ FrameOK(f) /\ f.at \in Hooks
    BY <2>1, StackParts DEF Core, StackInv, HooksBelow
  <2>3. PICK h : h = StepPast(f, o)
    OBVIOUS
  <2>4. h \in Frames /\ h.kind = f.kind /\ h.at = f.at /\ (f.kind # "walk" => h = f)
    BY <2>3, StepPastKeeps DEF Core
  <2> QED
    BY <1>1, <1>8, <2>2, <2>3, <2>4
<1>9. ASSUME NEW h, NEW i \in Depth, i # Len(stack), h = stack'[i] PROVE FrameOK(h)'
  <2>1. PICK f \in Frames : f = stack[i] /\ FrameOK(f) /\ f.at \in Hooks
    BY <1>8, <1>9
  <2>2. h = StepPast(f, o) /\ h.kind = f.kind /\ (f.kind # "walk" => h = f)
    BY <1>1, <1>8, <1>9, <2>1
  <2>3. WalkOK(h)'
    BY <1>1, <2>1, <2>2, WalkShrinks DEF Core, ListInv, FrameOK
  <2>4. MakingOK(h)'
    <3> SUFFICES ASSUME Registering(h)
                 PROVE  /\ h.obj \in Objects /\ h.serial \in 1..registrationSerial_'
                        /\ objectsMap_'[h.obj] = h.serial => \A n \in nodes'["preDrain"] : n.obj # h.obj
      BY DEF MakingOK
    <3>1. h = f
      BY <2>2 DEF Registering
    <3>2. /\ h.obj \in Objects /\ h.serial \in 1..registrationSerial_
          /\ objectsMap_[h.obj] = h.serial => \A n \in nodes["preDrain"] : n.obj # h.obj
      BY <2>1, <3>1 DEF FrameOK, MakingOK
    <3>3. h.serial # 0
      BY <3>2, ObjectsAssumption DEF Core, TypeOK
    <3> QED
      BY <1>1, <1>5, <1>6, <3>2, <3>3
  <2> QED
    BY <2>3, <2>4 DEF FrameOK
<1>10. StackInv'
  <2>1. \A i \in Depth : i # Len(stack) =>
               /\ stack'[i].kind = stack[i].kind /\ stack'[i].at = stack[i].at
               /\ Registering(stack[i]) => stack'[i].serial = stack[i].serial
               /\ Registering(g) /\ Registering(stack[i]) => g.serial # stack[i].serial
    BY <1>7, <1>8 DEF Registering
  <2>2. \A h : (\E i \in Depth : i # Len(stack) /\ h = stack'[i]) => FrameOK(h)'
    BY <1>9
  <2> QED
    BY <1>1, <1>2, <1>7, <2>1, <2>2, TopKeeps DEF Core
<1> QED
  BY <1>3, <1>4, <1>10 DEF Core

(* A member of a removal is not registered: the removal is filed with the additions below. *)
LEMMA FileShape ==
    ASSUME Core, NEW o \in Objects, UnregisterNext(o), ~Registered(o)
    PROVE  /\ stack # <<>> /\ Top.kind = "remove" /\ Top \in RemoveFrames /\ o \in Top.todo
           /\ stack' \in Seq(Frames) /\ Len(stack') = Len(stack) /\ Depth' = Depth
           /\ \A i \in Depth : i # Len(stack) => stack'[i] = Cancel(stack[i], Top.owner, o)
           /\ \E g \in Frames : /\ g = stack'[Len(stack)] /\ g.kind = "remove"
                                /\ g.owner = Top.owner /\ g.todo = Top.todo \ {o}
           /\ UNCHANGED <<localObjectNames_, localPrefix, nodes, objectsMap_, objectCount_, registrationSerial_,
                          registrationTime, calls, tornDown_, strayed>>
<1>1. PICK g : g = [Top EXCEPT !.todo = @ \ {o}]
  OBVIOUS
<1>2. /\ InRemove("next") /\ o \in Top.todo
      /\ stack' = [i \in 1..Len(stack) |-> IF i = Len(stack) THEN g
                                                             ELSE Cancel(stack[i], Top.owner, o)]
      /\ UNCHANGED <<localObjectNames_, localPrefix, nodes, objectsMap_, objectCount_, registrationSerial_,
                     registrationTime, calls, tornDown_, strayed>>
  BY <1>1 DEF UnregisterNext
<1>3. /\ g \in Frames /\ g.kind = "remove" /\ g.owner = Top.owner /\ g.todo = Top.todo \ {o}
      /\ stack # <<>> /\ Top \in RemoveFrames /\ Top.kind = "remove"
  BY <1>1, <1>2, RemoveGoesOn DEF Core
<1>4. \A i \in 1..Len(stack) : Cancel(stack[i], Top.owner, o) \in Frames
  <2> SUFFICES ASSUME NEW i \in 1..Len(stack) PROVE Cancel(stack[i], Top.owner, o) \in Frames
    OBVIOUS
  <2>1. PICK h \in Frames : h = stack[i]
    BY StackParts DEF Core, Depth
  <2>2. PICK p : p = Top.owner
    OBVIOUS
  <2>3. Cancel(h, p, o) \in Frames
    BY CancelParts, CancelOthers, FrameParts, AddParts
  <2> QED
    BY <2>1, <2>2, <2>3
<1>5. /\ stack' \in [1..Len(stack) -> Frames]
      /\ \A i \in 1..Len(stack) :
           stack'[i] = IF i = Len(stack) THEN g ELSE Cancel(stack[i], Top.owner, o)
  BY <1>2, <1>3, <1>4
<1>6. stack' \in Seq(Frames) /\ Len(stack') = Len(stack) /\ Depth' = Depth
  BY <1>5, PlacesShape DEF Core
<1>7. Len(stack) \in Depth
  BY <1>3, StackParts DEF Core
<1>8. /\ stack'[Len(stack)] = g
      /\ \A i \in Depth : i # Len(stack) => stack'[i] = Cancel(stack[i], Top.owner, o)
  BY <1>5, <1>7 DEF Depth
<1>9. \E h \in Frames : /\ h = stack'[Len(stack)] /\ h.kind = "remove"
                        /\ h.owner = Top.owner /\ h.todo = Top.todo \ {o}
  BY <1>3, <1>8
<1> QED
  BY <1>2, <1>3, <1>6, <1>8, <1>9

(* Filing a removal changes no list. *)
LEMMA FileCore ==
    ASSUME Core, NEW o \in Objects, UnregisterNext(o), ~Registered(o) PROVE Core'
<1>1. /\ stack # <<>> /\ stack' \in Seq(Frames) /\ Len(stack') = Len(stack) /\ Depth' = Depth
      /\ \A i \in Depth : i # Len(stack) => stack'[i] = Cancel(stack[i], Top.owner, o)
      /\ UNCHANGED <<localObjectNames_, localPrefix, nodes, objectsMap_, objectCount_, registrationSerial_,
                     registrationTime, calls, tornDown_, strayed>>
  BY FileShape
<1>2. PICK g \in Frames : g = stack'[Len(stack)] /\ g.kind = "remove"
  BY FileShape
<1>3. TypeOK'
  BY <1>1 DEF Core, TypeOK, Frames
<1>4. FrameOK(g)' /\ ~Registering(g)
  BY <1>2 DEF FrameOK, WalkOK, MakingOK, Registering
<1>5. ASSUME NEW i \in Depth, i # Len(stack)
      PROVE  /\ stack[i] \in Frames /\ FrameOK(stack[i])
             /\ stack'[i].kind = stack[i].kind /\ stack'[i].at = stack[i].at
             /\ stack[i].kind # "add" => stack'[i] = stack[i]
             /\ stack[i].kind = "add" =>
                  stack'[i].obj = stack[i].obj /\ stack'[i].serial = stack[i].serial
  <2>1. PICK f \in Frames : f = stack[i] /\ FrameOK(f)
    BY StackParts DEF Core, StackInv
  <2>2. PICK p : p = Top.owner
    OBVIOUS
  <2>3. PICK h : h = Cancel(f, p, o)
    OBVIOUS
  <2>4. /\ h.kind = f.kind /\ h.at = f.at /\ (f.kind # "add" => h = f)
        /\ f.kind = "add" => h.obj = f.obj /\ h.serial = f.serial
    <3>1. CASE f.kind = "add"
      <4>1. f \in AddFrames /\ h \in AddFrames
        BY <2>3, <3>1, CancelParts, FrameParts
      <4>2. h.at = f.at /\ h.obj = f.obj /\ h.serial = f.serial
        BY <2>3, <4>1, CancelParts
      <4> QED
        BY <3>1, <4>1, <4>2, AddParts
    <3>2. CASE f.kind # "add"
      BY <2>3, <3>2, CancelOthers
    <3> QED
      BY <3>1, <3>2
  <2> QED
    BY <1>1, <1>5, <2>1, <2>2, <2>3, <2>4
<1>6. ASSUME NEW h, NEW i \in Depth, i # Len(stack), h = stack'[i] PROVE FrameOK(h)'
  <2>1. PICK f \in Frames : f = stack[i] /\ FrameOK(f)
    BY <1>5, <1>6
  <2>2. /\ h.kind = f.kind /\ h.at = f.at /\ (f.kind # "add" => h = f)
        /\ f.kind = "add" => h.obj = f.obj /\ h.serial = f.serial
    BY <1>5, <1>6, <2>1
  <2>3. FrameOK(f)'
    BY <1>1, <2>1, FrameStays
  <2>4. CASE f.kind = "add"
    BY <2>2, <2>3, <2>4 DEF FrameOK, MakingOK, WalkOK, Registering
  <2>5. CASE f.kind # "add"
    BY <2>2, <2>3, <2>5
  <2> QED
    BY <2>4, <2>5
<1>7. StackInv'
  <2>1. \A i \in Depth : i # Len(stack) =>
               /\ stack'[i].kind = stack[i].kind /\ stack'[i].at = stack[i].at
               /\ Registering(stack[i]) => stack'[i].serial = stack[i].serial
               /\ Registering(g) /\ Registering(stack[i]) => g.serial # stack[i].serial
    BY <1>4, <1>5 DEF Registering
  <2>2. \A h : (\E i \in Depth : i # Len(stack) /\ h = stack'[i]) => FrameOK(h)'
    BY <1>6
  <2> QED
    BY <1>1, <1>2, <1>4, <2>1, <2>2, TopKeeps DEF Core
<1>8. ListInv'
  <2>1. RegisteredHasTime'
    BY <1>1 DEF Core, ListInv, RegisteredHasTime, Registered
  <2>2. registrationSerial_' \in Nat /\ registrationSerial_ <= registrationSerial_'
    BY <1>1, ObjectsAssumption DEF Core, TypeOK
  <2> QED
    BY <1>1, <2>1, <2>2, ListStays DEF Core
<1> QED
  BY <1>3, <1>7, <1>8 DEF Core

(* The lists are cleared when the thread is gone. *)
LEMMA StopThreadCore ==
    ASSUME Core, StopThread PROVE Core'
<1>1. /\ stack = <<>> /\ stack' = stack /\ tornDown_' = TRUE
      /\ nodes' = [l \in Lists |-> {}] /\ objectsMap_' = [o \in Objects |-> 0] /\ objectCount_' = 0
      /\ UNCHANGED <<localObjectNames_, localPrefix, registrationSerial_, registrationTime, calls, strayed>>
  BY DEF StopThread
<1>2. TypeOK'
  BY <1>1, ObjectsAssumption DEF Core, TypeOK
<1>3. ListInv'
  <2>1. Numbered'
    BY <1>1, ObjectsAssumption DEF Numbered, Core, TypeOK
  <2>2. Listed'
    BY <1>1, FS_EmptySet DEF Listed, Lists, Registered
  <2>3. PreDrainIsRegistered' /\ RegisteredHasTime'
    BY <1>1 DEF PreDrainIsRegistered, RegisteredHasTime, Registered, Lists
  <2> QED
    BY <2>1, <2>2, <2>3 DEF ListInv
<1>4. StackInv'
  <2>1. Len(stack') = 0
    BY <1>1
  <2>2. Depth' = {}
    BY <2>1 DEF Depth
  <2> QED
    BY <2>2 DEF StackInv, HooksBelow, OneMaker, OnStack
<1> QED
  BY <1>2, <1>3, <1>4 DEF Core

(* Every step keeps the types, the lists and the calls. *)
LEMMA CoreStep ==
    ASSUME Core, [Next]_vars PROVE Core'
<1>1. CASE Next
  <2>1. ASSUME NEW p \in Owners, NEW b \in Batches, Add(p, b) PROVE Core'
    BY <2>1, AddCore
  <2>2. ASSUME NEW p \in Owners, NEW b \in Batches, Remove(p, b) PROVE Core'
    BY <2>2, RemoveCore
  <2>3. ASSUME NEW l \in Lists, Walk(l) PROVE Core'
    BY <2>3, WalkCore
  <2>4. ASSUME NEW o \in Objects, RegisterNext(o) PROVE Core'
    BY <2>4, PassOverCore, RegisterCore
  <2>5. ASSUME NEW o \in Objects, UnregisterNext(o) PROVE Core'
    BY <2>5, UnregisterCore, FileCore
  <2>6. CASE RegisteredReturns
    BY <2>6, RegisteredReturnsCore
  <2>7. ASSUME NEW wants \in BOOLEAN, QueryReturns(wants) PROVE Core'
    BY <2>7, NoPreDrainCore, PreDrainCore
  <2>8. CASE UnregisteredReturns
    BY <2>8, UnregisteredReturnsCore
  <2>9. CASE Drive \/ DriveReturns
    BY <2>9, DriveCore, DriveReturnsCore
  <2>10. CASE Return \/ Throw
    BY <2>10, LeaveCore
  <2>11. CASE StopThread
    BY <2>11, StopThreadCore
  <2> QED
    BY <1>1, <2>1, <2>2, <2>3, <2>4, <2>5, <2>6, <2>7, <2>8, <2>9, <2>10, <2>11 DEF Next
<1>2. CASE UNCHANGED vars
  <2>1. Depth' = Depth /\ OnStack' = OnStack
    BY <1>2 DEF Depth, OnStack, vars
  <2>2. TypeOK' /\ HooksBelow' /\ OneMaker'
    BY <1>2, <2>1 DEF vars, Core, TypeOK, StackInv, HooksBelow, OneMaker
  <2>3. \A f \in OnStack' : FrameOK(f)'
    BY <1>2, <2>1, FrameStays DEF vars, Core, StackInv
  <2>4. ListInv'
    BY <1>2 DEF vars, Core, ListInv, Numbered, Listed, PreDrainIsRegistered, RegisteredHasTime, Registered
  <2> QED
    BY <2>2, <2>3, <2>4 DEF Core, StackInv
<1> QED
  BY <1>1, <1>2

-----------------------------------------------------------------------------
(* The invariant says what the runs check: the lists and the map agree, *)
LEMMA CoreLists ==
    ASSUME Core PROVE RunnerIsConsistent
<1>0. "objects" \in Lists /\ "preDrain" \in Lists
  BY DEF Lists
<1>1. nodes["objects"] =
         {[number |-> objectsMap_[o], obj |-> o] : o \in {o \in Objects : Registered(o)}}
  <2> DEFINE S == {[number |-> objectsMap_[o], obj |-> o] : o \in {o \in Objects : Registered(o)}}
  <2>1. ASSUME NEW n \in nodes["objects"] PROVE n \in S
    <3>1. n \in Nodes /\ n.number \in 1..MaxNumber /\ n.obj \in Objects
      BY <1>0, NumbersParts DEF Core
    <3>2. objectsMap_[n.obj] = n.number
      BY DEF Core, ListInv, Listed
    <3>3. n = [number |-> n.number, obj |-> n.obj]
      BY <3>1 DEF Nodes
    <3>4. Registered(n.obj)
      BY <3>1, <3>2, ObjectsAssumption DEF Registered
    <3> QED
      BY <3>1, <3>2, <3>3, <3>4
  <2>2. ASSUME NEW n \in S PROVE n \in nodes["objects"]
    <3>1. PICK o \in Objects : Registered(o) /\ n = [number |-> objectsMap_[o], obj |-> o]
      BY <2>2
    <3> QED
      BY <3>1 DEF Core, ListInv, Listed
  <2> QED
    BY <2>1, <2>2
<1>2. ListsAgree
  BY <1>1 DEF ListsAgree, Core, ListInv, Listed
<1>3. CursorsAreLive
  <2> SUFFICES ASSUME NEW i \in Depth, stack[i].kind = "walk"
               PROVE  stack[i].cursor \in Numbers(stack[i].list) \union {End}
    BY DEF CursorsAreLive, Depth
  <2>1. PICK f \in Frames : f = stack[i] /\ FrameOK(f)
    BY StackParts DEF Core, StackInv
  <2> QED
    BY <2>1 DEF FrameOK, WalkOK
<1> QED
  BY <1>2, <1>3 DEF RunnerIsConsistent, Core, ListInv

(* and no walk leaves an object out. *)
LEMMA CoreWalks ==
    ASSUME Core PROVE WalksReachAll
<1> SUFFICES ASSUME NEW i \in Depth, stack[i].kind = "walk", NEW n \in Numbers(stack[i].list),
                    n \notin stack[i].driven
             PROVE  \/ stack[i].cursor # End /\ stack[i].cursor <= n
                    \/ stack[i].cursor = End /\ stack[i].stepped /\ n \notin stack[i].due
  BY DEF WalksReachAll, Depth
<1>1. PICK f \in Frames : f = stack[i] /\ FrameOK(f)
  BY StackParts DEF Core, StackInv
<1> QED
  BY <1>1 DEF FrameOK, WalkOK

(* A runner begins with empty lists and no call. *)
LEMMA CoreInit ==
    ASSUME Init PROVE Core
<1>1. TypeOK
  <2>1. stack \in Seq(AddFrames \union RemoveFrames \union WalkFrames)
    BY DEF Init
  <2>2. nodes \in [Lists -> SUBSET Nodes] /\ registrationTime \in [Objects -> BOOLEAN]
    BY DEF Init
  <2>3. objectsMap_ \in [Objects -> 0..MaxNumber] /\ registrationSerial_ \in 0..MaxNumber
    BY ObjectsAssumption DEF Init
  <2>4. calls \in 0..MaxCalls /\ objectCount_ \in Nat
    BY ObjectsAssumption DEF Init
  <2>5. localObjectNames_ \in [Owners -> SUBSET Objects] /\ tornDown_ \in BOOLEAN
    BY DEF Init
  <2>7. localPrefix \in [Objects -> Owners \union {None}]
    BY DEF Init
  <2>6. strayed \subseteq Objects \X {"readded", "other", "thrown", "renamed"}
    BY DEF Init
  <2> QED
    BY <2>1, <2>2, <2>3, <2>4, <2>5, <2>6, <2>7 DEF TypeOK
<1>2. ListInv
  BY FS_EmptySet DEF Init, ListInv, Numbered, Listed, PreDrainIsRegistered, RegisteredHasTime, Registered, Lists
<1>3. Depth = {}
  <2>1. Len(stack) = 0
    BY DEF Init
  <2> QED
    BY <2>1 DEF Depth
<1>4. StackInv
  BY <1>3 DEF StackInv, HooksBelow, OneMaker, OnStack
<1> QED
  BY <1>1, <1>2, <1>4 DEF Core

(* At every moment, also inside a hook of a hook, the list the cycle walks, the map removals look *)
(* in and the count agree, the pre-drain list has only registered objects and each once, no walk  *)
(* stands on a node that was freed, and a registered object has its registration time.            *)
THEOREM RunnerStaysConsistent == Spec => []RunnerIsConsistent
<1>1. Init => Core
  BY CoreInit
<1>2. Core /\ [Next]_vars => Core'
  BY CoreStep
<1>3. Core => RunnerIsConsistent
  BY CoreLists
<1> QED
  BY <1>1, <1>2, <1>3, PTL DEF Spec

(* However many objects hooks add and remove, and however many walks are nested, an object that   *)
(* is in a walk's list and was not driven is to come; only one that was added after the last one  *)
(* was removed by its own hook waits for the next cycle.                                          *)
THEOREM WalksLeaveNoneOut == Spec => []WalksReachAll
<1>1. Init => Core
  BY CoreInit
<1>2. Core /\ [Next]_vars => Core'
  BY CoreStep
<1>3. Core => WalksReachAll
  BY CoreWalks
<1> QED
  BY <1>1, <1>2, <1>3, PTL DEF Spec

-----------------------------------------------------------------------------
(* What a call is about to do to an object is told by a few of its parts. *)
Alike(f, g) ==
    /\ g.kind = f.kind
    /\ f.kind # "walk" => g.owner = f.owner /\ g.todo = f.todo
    /\ f.kind = "add" => g.members = f.members /\ g.cancelled = f.cancelled

(* Calls that are alike in these are about to do the same. *)
LEMMA AlikeAct ==
    ASSUME NEW f, NEW g, Alike(f, g)
    PROVE  /\ NamedFrame(f) => NamedFrame(g)
           /\ \A o : Adding(g, o) <=> Adding(f, o)
           /\ \A o, p : Removing(g, p, o) <=> Removing(f, p, o)
BY DEF Alike, NamedFrame, Adding, Removing

(* Nothing is under way for an object that was not under way before. *)
LEMMA UnderwayStays ==
    ASSUME NEW p, NEW o, Underway(p, o), AddsOf(o)' = AddsOf(o), RemovesOf(p, o)' = RemovesOf(p, o),
           objectsMap_'[o] = objectsMap_[o],
           o \in localObjectNames_'[p] <=> o \in localObjectNames_[p]
    PROVE  Underway(p, o)'
<1>1. Registered(o)' <=> Registered(o)
  BY DEF Registered
<1> QED
  BY <1>1 DEF Underway

(* A call on its way, below which nothing changes for the object. *)
LEMMA MarksStay ==
    ASSUME NEW o, Depth' = Depth,
           \A i \in Depth : /\ Adding(stack'[i], o) <=> Adding(stack[i], o)
                            /\ \A p : Removing(stack'[i], p, o) <=> Removing(stack[i], p, o)
    PROVE  AddsOf(o)' = AddsOf(o) /\ \A p : RemovesOf(p, o)' = RemovesOf(p, o)
<1>1. AddsOf(o)' = {i \in Depth : Adding(stack'[i], o)}
  BY DEF AddsOf, Adding
<1>2. \A p : RemovesOf(p, o)' = {i \in Depth : Removing(stack'[i], p, o)}
  BY DEF RemovesOf, Removing
<1>3. {i \in Depth : Adding(stack'[i], o)} = AddsOf(o)
  BY DEF AddsOf
<1>4. \A p : {i \in Depth : Removing(stack'[i], p, o)} = RemovesOf(p, o)
  BY DEF RemovesOf
<1> QED
  BY <1>1, <1>2, <1>3, <1>4

(* A call is made: its members join. *)
LEMMA MarksPush ==
    ASSUME TypeOK, NEW o, NEW f \in Frames, stack' = Append(stack, f)
    PROVE  /\ AddsOf(o)' = AddsOf(o) \union (IF Adding(f, o) THEN {Len(stack')} ELSE {})
           /\ \A p : RemovesOf(p, o)' =
                       RemovesOf(p, o) \union (IF Removing(f, p, o) THEN {Len(stack')} ELSE {})
<1>1. /\ \A i \in Depth' : \/ i = Len(stack') /\ stack'[i] = f
                           \/ i \in Depth /\ stack'[i] = stack[i]
      /\ \A i \in Depth : i \in Depth' /\ stack'[i] = stack[i]
      /\ Len(stack') \in Depth' /\ stack'[Len(stack')] = f
  BY PushShape
<1>2. AddsOf(o)' = {i \in Depth' : Adding(stack'[i], o)}
  BY DEF AddsOf, Adding
<1>3. \A p : RemovesOf(p, o)' = {i \in Depth' : Removing(stack'[i], p, o)}
  BY DEF RemovesOf, Removing
<1>4. {i \in Depth' : Adding(stack'[i], o)} =
        AddsOf(o) \union (IF Adding(f, o) THEN {Len(stack')} ELSE {})
  BY <1>1 DEF AddsOf
<1>5. \A p : {i \in Depth' : Removing(stack'[i], p, o)} =
        RemovesOf(p, o) \union (IF Removing(f, p, o) THEN {Len(stack')} ELSE {})
  BY <1>1 DEF RemovesOf
<1> QED
  BY <1>2, <1>3, <1>4, <1>5

(* A call is left that was not about the object. *)
LEMMA MarksPop ==
    ASSUME TypeOK, NEW o, stack # <<>>, stack' = Below, ~Adding(Top, o),
           \A p : ~Removing(Top, p, o)
    PROVE  AddsOf(o)' = AddsOf(o) /\ \A p : RemovesOf(p, o)' = RemovesOf(p, o)
<1>1. /\ \A i \in Depth' : i \in Depth /\ i # Len(stack) /\ stack'[i] = stack[i]
      /\ \A i \in Depth : i # Len(stack) => i \in Depth' /\ stack'[i] = stack[i]
      /\ Top = stack[Len(stack)]
  BY PopShape, StackParts
<1>2. AddsOf(o)' = {i \in Depth' : Adding(stack'[i], o)}
  BY DEF AddsOf, Adding
<1>3. \A p : RemovesOf(p, o)' = {i \in Depth' : Removing(stack'[i], p, o)}
  BY DEF RemovesOf, Removing
<1>4. {i \in Depth' : Adding(stack'[i], o)} = AddsOf(o)
  BY <1>1 DEF AddsOf
<1>5. \A p : {i \in Depth' : Removing(stack'[i], p, o)} = RemovesOf(p, o)
  BY <1>1 DEF RemovesOf
<1> QED
  BY <1>2, <1>3, <1>4, <1>5

(* The names stay as they are supposed to. *)
LEMMA NamedStays ==
    ASSUME Named, UNCHANGED localObjectNames_,
           \A f \in OnStack' : NamedFrame(f)
    PROVE  Named'
<1>1. \A f \in OnStack' : NamedFrame(f)'
  BY DEF NamedFrame
<1> QED
  BY <1>1 DEF Named

(* A runner's steps between which nothing is about to be added or removed. *)
LEMMA QuietStep ==
    ASSUME Core, Named, PublishInv, stack # <<>>, NEW g \in Frames, SetTop(g), Alike(Top, g),
           UNCHANGED <<localObjectNames_, localPrefix, objectsMap_, tornDown_, strayed>>
    PROVE  Named' /\ PublishInv'
<1>1. /\ Depth' = Depth /\ stack'[Len(stack)] = g /\ Top = stack[Len(stack)]
      /\ \A i \in Depth : i # Len(stack) => stack'[i] = stack[i]
  BY TopShape, StackParts DEF Core
<1>2. \A i \in Depth : Alike(stack[i], stack'[i])
  <2>1. \A f : Alike(f, f)
    BY DEF Alike
  <2> QED
    BY <1>1, <2>1
<1>3. ASSUME NEW o \in Objects
      PROVE  AddsOf(o)' = AddsOf(o) /\ \A p : RemovesOf(p, o)' = RemovesOf(p, o)
  BY <1>1, <1>2, AlikeAct, MarksStay
<1>4. PublishInv'
  <2> SUFFICES ASSUME ~tornDown_, NEW p \in Owners, NEW o \in Objects, AddedBy[o] = {p}, Straight(o)'
               PROVE  Underway(p, o)'
    BY DEF PublishInv
  <2>1. Straight(o)
    BY DEF Straight
  <2> QED
    BY <1>3, <2>1, UnderwayStays DEF PublishInv
<1>5. \A f \in OnStack' : NamedFrame(f)
  <2> SUFFICES ASSUME NEW f \in OnStack' PROVE NamedFrame(f)
    OBVIOUS
  <2>1. PICK i \in Depth : f = stack'[i]
    BY <1>1 DEF OnStack
  <2>2. NamedFrame(stack[i])
    BY DEF Named, OnStack
  <2> QED
    BY <1>2, <2>1, <2>2, AlikeAct
<1> QED
  BY <1>4, <1>5, NamedStays

(* The hooks of an addition return. *)
LEMMA HooksReturn ==
    ASSUME Core, Named, PublishInv,
           \/ RegisteredReturns \/ (\E wants \in BOOLEAN : QueryReturns(wants))
           \/ UnregisteredReturns \/ Drive \/ DriveReturns
    PROVE  Named' /\ PublishInv'
<1>1. CASE RegisteredReturns
  <2>1. /\ stack # <<>> /\ Top.kind = "add" /\ Top \in AddFrames
        /\ SetTop(IF StillOurs THEN [Top EXCEPT !.at = "query"] ELSE NextMember)
        /\ UNCHANGED <<localObjectNames_, localPrefix, objectsMap_, tornDown_, strayed>>
    BY <1>1, StackParts, FrameParts DEF RegisteredReturns, InAdd, Core
  <2>2. PICK g : g = IF StillOurs THEN [Top EXCEPT !.at = "query"] ELSE NextMember
    OBVIOUS
  <2>3. /\ g \in AddFrames /\ g.kind = "add" /\ g.owner = Top.owner /\ g.members = Top.members
        /\ g.todo = Top.todo /\ g.cancelled = Top.cancelled
    <3>1. CASE StillOurs
      <4>1. PICK f \in AddFrames : f = Top
        BY <2>1
      <4>2. g = [f EXCEPT !.at = "query"]
        BY <2>2, <3>1, <4>1
      <4>3. /\ g \in AddFrames /\ g.kind = "add" /\ g.owner = f.owner /\ g.members = f.members
            /\ g.todo = f.todo /\ g.cancelled = f.cancelled
        BY <4>2 DEF AddFrames
      <4> QED
        BY <4>1, <4>3
    <3>2. CASE ~StillOurs
      BY <2>1, <2>2, <3>2, NextMemberParts DEF Core
    <3> QED
      BY <3>1, <3>2
  <2>4. g \in Frames /\ SetTop(g) /\ Alike(Top, g)
    BY <2>1, <2>2, <2>3 DEF Frames, SetTop, Alike
  <2> QED
    BY <2>1, <2>4, QuietStep
<1>2. ASSUME NEW wants \in BOOLEAN, QueryReturns(wants) PROVE Named' /\ PublishInv'
  <2>1. /\ stack # <<>> /\ Top.kind = "add" /\ SetTop(NextMember)
        /\ UNCHANGED <<localObjectNames_, localPrefix, objectsMap_, tornDown_, strayed>>
    BY <1>2 DEF QueryReturns, InAdd
  <2>2. PICK g : g = NextMember
    OBVIOUS
  <2>3. /\ g \in AddFrames /\ g.kind = "add" /\ g.owner = Top.owner /\ g.members = Top.members
        /\ g.todo = Top.todo /\ g.cancelled = Top.cancelled
    BY <2>1, <2>2, NextMemberParts DEF Core
  <2>4. g \in Frames /\ SetTop(g) /\ Alike(Top, g)
    BY <2>1, <2>2, <2>3 DEF Frames, SetTop, Alike
  <2> QED
    BY <2>1, <2>4, QuietStep
<1>3. CASE UnregisteredReturns
  <2>1. /\ stack # <<>> /\ Top.kind = "remove" /\ Top \in RemoveFrames
        /\ SetTop([Top EXCEPT !.at = "next", !.obj = None])
        /\ UNCHANGED <<localObjectNames_, localPrefix, objectsMap_, tornDown_, strayed>>
    BY <1>3, StackParts, FrameParts DEF UnregisteredReturns, InRemove, Core
  <2>2. PICK f \in RemoveFrames : f = Top
    BY <2>1
  <2>3. PICK g : g = [f EXCEPT !.at = "next", !.obj = None]
    OBVIOUS
  <2>4. g \in RemoveFrames /\ g.kind = "remove" /\ g.owner = f.owner /\ g.todo = f.todo
    BY <2>3 DEF RemoveFrames
  <2>5. g \in Frames /\ SetTop(g) /\ Alike(Top, g)
    BY <2>1, <2>2, <2>3, <2>4 DEF Frames, SetTop, Alike
  <2> QED
    BY <2>1, <2>5, QuietStep
<1>4. CASE Drive
  <2>1. /\ stack # <<>> /\ Top.kind = "walk" /\ Top \in WalkFrames /\ Top.cursor # End
        /\ SetTop([Top EXCEPT !.at = "driven", !.stepped = FALSE, !.driven = @ \union {Top.cursor}])
        /\ UNCHANGED <<localObjectNames_, localPrefix, objectsMap_, tornDown_, strayed>>
    BY <1>4, StackParts, FrameParts DEF Drive, InWalk, Core
  <2>2. PICK f \in WalkFrames : f = Top
    BY <2>1
  <2>3. PICK d : d = f.driven \union {f.cursor}
    OBVIOUS
  <2>4. d \in SUBSET (1..MaxNumber)
    BY <2>1, <2>2, <2>3, WalkParts, ObjectsAssumption DEF End
  <2>5. PICK g : g = [f EXCEPT !.at = "driven", !.stepped = FALSE, !.driven = d]
    OBVIOUS
  <2>6. g \in WalkFrames /\ g.kind = "walk"
    BY <2>4, <2>5 DEF WalkFrames
  <2>7. g \in Frames /\ SetTop(g) /\ Alike(Top, g)
    BY <2>1, <2>2, <2>3, <2>5, <2>6 DEF Frames, SetTop, Alike
  <2> QED
    BY <2>1, <2>7, QuietStep
<1>5. CASE DriveReturns
  <2>1. /\ stack # <<>> /\ Top.kind = "walk" /\ Top \in WalkFrames
        /\ SetTop([Top EXCEPT !.at = "next",
                              !.cursor = IF Top.stepped THEN @ ELSE AfterIn(Numbers(Top.list), @)])
        /\ UNCHANGED <<localObjectNames_, localPrefix, objectsMap_, tornDown_, strayed>>
    BY <1>5, StackParts, FrameParts DEF DriveReturns, InWalk, Core
  <2>2. PICK f \in WalkFrames : f = Top
    BY <2>1
  <2>3. PICK c : c = IF f.stepped THEN f.cursor ELSE AfterIn(Numbers(f.list), f.cursor)
    OBVIOUS
  <2>4. c \in 0..MaxNumber
    <3>1. /\ f.cursor \in 0..MaxNumber /\ f.list \in Lists
          /\ Numbers(f.list) \in SUBSET (1..MaxNumber)
      BY WalkParts, NumbersParts DEF Core
    <3>2. AfterIn(Numbers(f.list), f.cursor) \in 0..MaxNumber
      BY <3>1, AfterParts
    <3> QED
      BY <2>3, <3>1, <3>2
  <2>5. PICK g : g = [f EXCEPT !.at = "next", !.cursor = c]
    OBVIOUS
  <2>6. g \in WalkFrames /\ g.kind = "walk"
    BY <2>4, <2>5 DEF WalkFrames
  <2>7. g \in Frames /\ SetTop(g) /\ Alike(Top, g)
    BY <2>1, <2>2, <2>3, <2>5, <2>6 DEF Frames, SetTop, Alike
  <2> QED
    BY <2>1, <2>7, QuietStep
<1> QED
  BY <1>1, <1>2, <1>3, <1>4, <1>5

(* A call that made it through is left. *)
LEMMA LeavePublish ==
    ASSUME Core, Named, PublishInv, Return \/ Throw PROVE Named' /\ PublishInv'
<1>1. /\ stack # <<>> /\ stack' = Below /\ UNCHANGED <<localObjectNames_, localPrefix, objectsMap_, tornDown_>>
  BY DEF Return, Throw, InAdd, InRemove, InWalk
<1>2. /\ \A i \in Depth' : i \in Depth /\ stack'[i] = stack[i]
      /\ Top \in Frames
  BY <1>1, PopShape, StackParts DEF Core
<1>3. \A f \in OnStack' : NamedFrame(f)
  <2> SUFFICES ASSUME NEW f \in OnStack' PROVE NamedFrame(f)
    OBVIOUS
  <2>1. f \in OnStack
    BY <1>2 DEF OnStack
  <2> QED
    BY <2>1 DEF Named
<1>4. strayed \subseteq strayed'
  BY DEF Return, Throw
<1>5. ASSUME NEW o \in Objects, Straight(o)' PROVE ~Adding(Top, o) /\ \A p : ~Removing(Top, p, o)
  <2>1. CASE Return
    BY <2>1 DEF Return, InAdd, InRemove, InWalk, Adding, Removing
  <2>2. CASE Throw
    <3>1. Top.kind # "walk" => strayed' = strayed \union (Top.todo \X {"thrown"})
      BY <2>2 DEF Throw
    <3>2. Top.kind # "walk" => o \notin Top.todo
      BY <1>5, <3>1 DEF Straight
    <3> QED
      BY <3>2 DEF Adding, Removing
  <2> QED
    BY <2>1, <2>2
<1>6. PublishInv'
  <2> SUFFICES ASSUME ~tornDown_, NEW p \in Owners, NEW o \in Objects, AddedBy[o] = {p}, Straight(o)'
               PROVE  Underway(p, o)'
    BY <1>1 DEF PublishInv
  <2>1. Straight(o)
    BY <1>4 DEF Straight
  <2>2. AddsOf(o)' = AddsOf(o) /\ RemovesOf(p, o)' = RemovesOf(p, o)
    BY <1>1, <1>5, MarksPop DEF Core
  <2> QED
    BY <1>1, <2>1, <2>2, UnderwayStays DEF PublishInv
<1> QED
  BY <1>1, <1>3, <1>6, NamedStays

(* A walk is called: it is about no object. *)
LEMMA WalkPublish ==
    ASSUME Core, Named, PublishInv, NEW l \in Lists, Walk(l) PROVE Named' /\ PublishInv'
<1>1. PICK f : f = [kind |-> "walk", list |-> l, cursor |-> AfterIn(Numbers(l), 0),
                    stepped |-> FALSE, due |-> Numbers(l), driven |-> {}, at |-> "next"]
  OBVIOUS
<1>2. stack' = Append(stack, f) /\ UNCHANGED <<localObjectNames_, localPrefix, objectsMap_, tornDown_, strayed>>
  BY <1>1 DEF Walk, Call
<1>3. f.kind = "walk"
  BY <1>1
<1>4. f \in Frames
  <2>1. Numbers(l) \in SUBSET (1..MaxNumber) /\ 0 \in 0..MaxNumber
    BY NumbersParts, ObjectsAssumption DEF Core
  <2>2. AfterIn(Numbers(l), 0) \in 0..MaxNumber
    BY <2>1, AfterParts
  <2> QED
    BY <1>1, <2>1, <2>2 DEF WalkFrames, Frames
<1>5. \A f1 \in OnStack' : f1 = f \/ f1 \in OnStack
  BY <1>2, <1>4, PushShape DEF OnStack, Core
<1>6. \A f1 \in OnStack' : NamedFrame(f1)
  BY <1>3, <1>5 DEF Named, NamedFrame
<1>7. PublishInv'
  <2> SUFFICES ASSUME ~tornDown_, NEW p \in Owners, NEW o \in Objects, AddedBy[o] = {p}, Straight(o)'
               PROVE  Underway(p, o)'
    BY <1>2 DEF PublishInv
  <2>1. Straight(o)
    BY <1>2 DEF Straight
  <2>2. ~Adding(f, o) /\ ~Removing(f, p, o)
    BY <1>3 DEF Adding, Removing
  <2>3. AddsOf(o)' = AddsOf(o) /\ RemovesOf(p, o)' = RemovesOf(p, o)
    BY <1>2, <1>4, <2>2, MarksPush, ZenonT(60) DEF Core
  <2> QED
    BY <1>2, <2>1, <2>3, UnderwayStays DEF PublishInv
<1> QED
  BY <1>2, <1>6, <1>7, NamedStays

(* An addition is called: what it accepts was not in use and, unless a removal of it was under *)
(* way, not registered.                                                                        *)
LEMMA AddPublish ==
    ASSUME Core, Named, PublishInv, NEW p \in Owners, NEW b \in Batches, Add(p, b)
    PROVE  Named' /\ PublishInv'
<1>1. PICK accepted : accepted = {o \in b : o \notin localObjectNames_[p]}
  OBVIOUS
<1>2. PICK f : f = [kind |-> "add", owner |-> p, members |-> accepted, todo |-> accepted,
                    cancelled |-> {}, obj |-> None, serial |-> 0, at |-> "next"]
  OBVIOUS
<1>3. /\ stack' = Append(stack, f) /\ \A o \in b : p \in AddedBy[o]
      /\ localObjectNames_' = [localObjectNames_ EXCEPT ![p] = @ \union accepted]
      /\ strayed' = strayed \union ({o \in accepted : BeingRemoved(o)} \X {"readded"})
      /\ UNCHANGED <<objectsMap_, tornDown_>>
  BY <1>1, <1>2 DEF Add, Call
<1>4. accepted \subseteq Objects /\ accepted \subseteq b /\ \A o \in accepted : o \notin localObjectNames_[p]
  BY <1>1 DEF Batches
<1>5. /\ f.kind = "add" /\ f.owner = p /\ f.members = accepted /\ f.todo = accepted
      /\ f.cancelled = {}
  BY <1>2
<1>6. f \in Frames
  BY <1>2, <1>4, ObjectsAssumption DEF AddFrames, Frames
<1>7. \A o : (Adding(f, o) <=> o \in accepted) /\ \A q : ~Removing(f, q, o)
  BY <1>5 DEF Adding, Removing
<1>8. /\ localObjectNames_'[p] = localObjectNames_[p] \union accepted
      /\ \A q \in Owners : q # p => localObjectNames_'[q] = localObjectNames_[q]
  BY <1>3 DEF Core, TypeOK
<1>9. Named'
  <2>1. \A q \in Owners : \A o \in localObjectNames_'[q] : q \in AddedBy[o]
    BY <1>3, <1>4, <1>8 DEF Named
  <2>2. ASSUME NEW g \in OnStack' PROVE NamedFrame(g)'
    <3>1. g = f \/ g \in OnStack
      BY <1>3, <1>6, PushShape DEF OnStack, Core
    <3>2. NamedFrame(f)
      BY <1>3, <1>4, <1>5 DEF NamedFrame
    <3>3. NamedFrame(g)
      BY <3>1, <3>2 DEF Named
    <3> QED
      BY <3>3 DEF NamedFrame
  <2> QED
    BY <2>1, <2>2 DEF Named
<1>10. PublishInv'
  <2> SUFFICES ASSUME ~tornDown_, NEW q \in Owners, NEW o \in Objects, AddedBy[o] = {q}, Straight(o)'
               PROVE  Underway(q, o)'
    BY <1>3 DEF PublishInv
  <2>1. Straight(o) /\ Underway(q, o)
    <3>1. Straight(o)
      BY <1>3 DEF Straight
    <3> QED
      BY <3>1 DEF PublishInv
  <2>2. /\ AddsOf(o)' = AddsOf(o) \union (IF Adding(f, o) THEN {Len(stack')} ELSE {})
        /\ RemovesOf(q, o)' = RemovesOf(q, o)
    <3>1. ~Removing(f, q, o)
      BY <1>7
    <3>2. /\ AddsOf(o)' = AddsOf(o) \union (IF Adding(f, o) THEN {Len(stack')} ELSE {})
          /\ RemovesOf(q, o)' =
               RemovesOf(q, o) \union (IF Removing(f, q, o) THEN {Len(stack')} ELSE {})
      BY <1>3, <1>6, MarksPush DEF Core
    <3> QED
      BY <3>1, <3>2
  <2>3. Registered(o)' <=> Registered(o)
    BY <1>3 DEF Registered
  <2>4. CASE o \notin accepted
    <3>1. AddsOf(o)' = AddsOf(o)
      BY <1>7, <2>2, <2>4
    <3>2. o \in localObjectNames_'[q] <=> o \in localObjectNames_[q]
      BY <1>8, <2>4
    <3> QED
      BY <1>3, <2>1, <2>2, <3>1, <3>2, UnderwayStays
  <2>5. CASE o \in accepted
    <3>1. p = q
      BY <1>3, <1>4, <2>5
    <3>2. ~BeingRemoved(o)
      <4>1. <<o, "readded">> \notin strayed'
        BY DEF Straight
      <4> QED
        BY <1>3, <2>5, <4>1
    <3>3. RemovesOf(q, o) = {}
      BY <3>2 DEF RemovesOf, Removing, BeingRemoved, Depth
    <3>4. o \notin localObjectNames_[q] /\ o \in localObjectNames_'[q]
      BY <1>4, <1>8, <2>5, <3>1
    <3>5. ~Registered(o) /\ AddsOf(o) = {}
      BY <2>1, <3>3, <3>4 DEF Underway
    <3>6. AddsOf(o)' = {Len(stack')}
      BY <1>7, <2>2, <2>5, <3>5
    <3> QED
      BY <2>2, <2>3, <3>3, <3>4, <3>5, <3>6 DEF Underway
  <2> QED
    BY <2>4, <2>5
<1> QED
  BY <1>9, <1>10

(* A removal is called: what it is about is no longer in use, unless it looked for another name, *)
(* and its call is above those that are about to register it.                                    *)
LEMMA RemovePublish ==
    ASSUME Core, Named, PublishInv, NEW p \in Owners, NEW b \in Batches, Remove(p, b)
    PROVE  Named' /\ PublishInv'
<1>1. PICK f : f = [kind |-> "remove", owner |-> p, todo |-> b, obj |-> None, at |-> "next"]
  OBVIOUS
<1>0. PICK named : named = {o \in b : localPrefix[o] = p}
  OBVIOUS
<1>2. /\ stack' = Append(stack, f)
      /\ localObjectNames_' = [localObjectNames_ EXCEPT ![p] = @ \ named]
      /\ strayed' =
           strayed \union (((b \ named) \intersect localObjectNames_[p]) \X {"renamed"})
      /\ UNCHANGED <<objectsMap_, tornDown_>>
  BY <1>0, <1>1 DEF Remove, Call
<1>3. f.kind = "remove" /\ f.owner = p /\ f.todo = b
  BY <1>1
<1>4. f \in Frames
  BY <1>1, ObjectsAssumption DEF Batches, RemoveFrames, Frames
<1>5. \A o : ~Adding(f, o) /\ \A q : Removing(f, q, o) <=> q = p /\ o \in b
  BY <1>3 DEF Adding, Removing
<1>6. /\ localObjectNames_'[p] = localObjectNames_[p] \ named /\ named \subseteq b
      /\ \A q \in Owners : q # p => localObjectNames_'[q] = localObjectNames_[q]
  BY <1>0, <1>2 DEF Core, TypeOK
<1>7. Named'
  <2>1. \A q \in Owners : \A o \in localObjectNames_'[q] : q \in AddedBy[o]
    BY <1>6 DEF Named
  <2>2. ASSUME NEW g \in OnStack' PROVE NamedFrame(g)'
    <3>1. g = f \/ g \in OnStack
      BY <1>2, <1>4, PushShape DEF OnStack, Core
    <3>2. NamedFrame(g)
      BY <1>3, <3>1 DEF Named, NamedFrame
    <3> QED
      BY <3>2 DEF NamedFrame
  <2> QED
    BY <2>1, <2>2 DEF Named
<1>8. PublishInv'
  <2> SUFFICES ASSUME ~tornDown_, NEW q \in Owners, NEW o \in Objects, AddedBy[o] = {q}, Straight(o)'
               PROVE  Underway(q, o)'
    BY <1>2 DEF PublishInv
  <2>1. Underway(q, o)
    <3>1. Straight(o)
      BY <1>2 DEF Straight
    <3> QED
      BY <3>1 DEF PublishInv
  <2>2. /\ AddsOf(o)' = AddsOf(o)
        /\ RemovesOf(q, o)' =
             RemovesOf(q, o) \union (IF Removing(f, q, o) THEN {Len(stack')} ELSE {})
    <3>1. ~Adding(f, o)
      BY <1>5
    <3> QED
      BY <1>2, <1>4, <3>1, MarksPush DEF Core
  <2>3. Registered(o)' <=> Registered(o)
    BY <1>2 DEF Registered
  <2>4. CASE ~(q = p /\ o \in b)
    <3>1. RemovesOf(q, o)' = RemovesOf(q, o)
      BY <1>5, <2>2, <2>4
    <3>2. o \in localObjectNames_'[q] <=> o \in localObjectNames_[q]
      BY <1>6, <2>4
    <3> QED
      BY <1>2, <2>1, <2>2, <3>1, <3>2, UnderwayStays
  <2>5. CASE q = p /\ o \in b
    <3>0. o \in named \/ o \notin localObjectNames_[p]
      <4>1. <<o, "renamed">> \notin strayed'
        BY DEF Straight
      <4> QED
        BY <1>2, <2>5, <4>1
    <3>1. Len(stack') \in RemovesOf(q, o)' /\ o \notin localObjectNames_'[q]
      BY <1>5, <1>6, <2>2, <2>5, <3>0
    <3>2. \A i \in AddsOf(o) : Len(stack') > i
      <4>1. \A i \in Depth : i < Len(stack')
        BY <1>2, <1>4, PushShape DEF Core
      <4>2. Len(stack') \in Nat /\ \A i \in Depth : i \in Nat
        BY <1>2, <1>4, PushShape, StackParts DEF Core, Depth
      <4> QED
        BY <4>1, <4>2 DEF AddsOf
    <3> QED
      BY <2>1, <2>2, <2>3, <3>1, <3>2 DEF Underway
  <2> QED
    BY <2>4, <2>5
<1> QED
  BY <1>7, <1>8

(* A member of an addition is taken: it is registered, if it was about to be. *)
LEMMA RegisterPublish ==
    ASSUME Core, Named, PublishInv, NEW o \in Objects, RegisterNext(o) PROVE Named' /\ PublishInv'
<1>1. /\ stack # <<>> /\ Top.kind = "add" /\ Top \in AddFrames /\ o \in Top.todo
      /\ UNCHANGED <<localObjectNames_, localPrefix, tornDown_, strayed>>
  BY StackParts, FrameParts DEF RegisterNext, InAdd, Core
<1>2. PICK f \in AddFrames : f = Top
  BY <1>1
<1>3. PICK g \in AddFrames :
         /\ SetTop(g) /\ g.kind = "add" /\ g.owner = f.owner /\ g.members = f.members
         /\ g.todo = f.todo \ {o} /\ g.cancelled = f.cancelled
  <2>1. CASE o \in Top.cancelled \/ AlreadyRegistered(o)
    <3>1. SetTop([Top EXCEPT !.todo = @ \ {o}])
      BY <2>1 DEF RegisterNext
    <3>2. PICK g : g = [f EXCEPT !.todo = f.todo \ {o}]
      OBVIOUS
    <3>3. /\ g \in AddFrames /\ g.kind = "add" /\ g.owner = f.owner /\ g.members = f.members
          /\ g.todo = f.todo \ {o} /\ g.cancelled = f.cancelled
      BY <3>2 DEF AddFrames
    <3>4. SetTop(g)
      BY <1>2, <3>1, <3>2 DEF SetTop
    <3> QED
      BY <3>3, <3>4
  <2>2. CASE ~(o \in Top.cancelled \/ AlreadyRegistered(o))
    <3>0. PICK k : k = registrationSerial_ + 1
      OBVIOUS
    <3>1. /\ SetTop([Top EXCEPT !.todo = @ \ {o}, !.obj = o, !.serial = k, !.at = "registered"])
          /\ registrationSerial_ < MaxNumber
      BY <2>2, <3>0 DEF RegisterNext
    <3>2. PICK g : g = [f EXCEPT !.todo = f.todo \ {o}, !.obj = o, !.serial = k, !.at = "registered"]
      OBVIOUS
    <3>3. k \in 0..MaxNumber
      BY <3>0, <3>1, ObjectsAssumption DEF Core, TypeOK
    <3>4. /\ g \in AddFrames /\ g.kind = "add" /\ g.owner = f.owner /\ g.members = f.members
          /\ g.todo = f.todo \ {o} /\ g.cancelled = f.cancelled
      BY <3>2, <3>3 DEF AddFrames
    <3>5. SetTop(g)
      BY <1>2, <3>1, <3>2 DEF SetTop
    <3> QED
      BY <3>4, <3>5
  <2> QED
    BY <2>1, <2>2
<1>4. /\ Depth' = Depth /\ Len(stack) \in Depth /\ stack[Len(stack)] = f /\ stack'[Len(stack)] = g
      /\ \A i \in Depth : i # Len(stack) => i < Len(stack) /\ stack'[i] = stack[i]
  BY <1>1, <1>2, <1>3, TopShape, StackParts, AddParts DEF Core
<1>5. f.kind = "add" /\ f \in OnStack
  BY <1>1, <1>2, <1>4 DEF OnStack
<1>6. Named'
  <2>1. NamedFrame(g)
    BY <1>3, <1>5 DEF Named, NamedFrame
  <2>2. \A h \in OnStack' : h = g \/ h \in OnStack
    BY <1>4 DEF OnStack
  <2> QED
    BY <1>1, <2>1, <2>2, NamedStays DEF Named
<1>7. ASSUME NEW x, x # o \/ ~Adding(f, o)
      PROVE  AddsOf(x)' = AddsOf(x)
  <2>1. Adding(g, x) <=> Adding(f, x)
    BY <1>3, <1>5, <1>7 DEF Adding
  <2>2. \A i \in Depth : Adding(stack'[i], x) <=> Adding(stack[i], x)
    BY <1>4, <2>1
  <2>3. AddsOf(x)' = {i \in Depth : Adding(stack'[i], x)}
    BY <1>4 DEF AddsOf, Adding
  <2>4. {i \in Depth : Adding(stack'[i], x)} = AddsOf(x)
    BY <2>2 DEF AddsOf
  <2> QED
    BY <2>3, <2>4
<1>8. ASSUME NEW x, NEW q PROVE RemovesOf(q, x)' = RemovesOf(q, x)
  <2>1. ~Removing(g, q, x) /\ ~Removing(f, q, x)
    BY <1>3, <1>5 DEF Removing
  <2>2. \A i \in Depth : Removing(stack'[i], q, x) <=> Removing(stack[i], q, x)
    BY <1>4, <2>1
  <2>3. RemovesOf(q, x)' = {i \in Depth : Removing(stack'[i], q, x)}
    BY <1>4 DEF RemovesOf, Removing
  <2>4. {i \in Depth : Removing(stack'[i], q, x)} = RemovesOf(q, x)
    BY <2>2 DEF RemovesOf
  <2> QED
    BY <2>3, <2>4
<1>9. \A x \in Objects : x # o => objectsMap_'[x] = objectsMap_[x]
  BY DEF RegisterNext, Core, TypeOK
<1>10. PublishInv'
  <2> SUFFICES ASSUME ~tornDown_, NEW q \in Owners, NEW x \in Objects, AddedBy[x] = {q}, Straight(x)'
               PROVE  Underway(q, x)'
    BY <1>1 DEF PublishInv
  <2>1. Underway(q, x)
    <3>1. Straight(x)
      BY <1>1 DEF Straight
    <3> QED
      BY <3>1 DEF PublishInv
  <2>2. CASE x # o
    BY <1>1, <1>7, <1>8, <1>9, <2>1, <2>2, UnderwayStays
  <2>3. CASE x = o /\ ~Adding(f, o)
    <3>1. o \in Top.cancelled
      BY <1>1, <1>2, <2>3 DEF Adding
    <3>2. UNCHANGED objectsMap_
      BY <3>1 DEF RegisterNext
    <3> QED
      BY <1>1, <1>7, <1>8, <2>1, <2>3, <3>2, UnderwayStays
  <2>4. CASE x = o /\ Adding(f, o)
    <3>1. Len(stack) \in AddsOf(o)
      BY <1>4, <2>4 DEF AddsOf
    <3>2. /\ ~Registered(o) /\ \A j \in AddsOf(o) : j = Len(stack)
          /\ o \in localObjectNames_[q] \/ \E j \in RemovesOf(q, o) : j > Len(stack)
      BY <2>1, <2>4, <3>1 DEF Underway
    <3>3. ~\E j \in RemovesOf(q, o) : j > Len(stack)
      BY StackParts DEF RemovesOf, Depth, Core
    <3>4. o \in localObjectNames_[q] /\ RemovesOf(q, o) = {}
      BY <2>1, <2>4, <3>2, <3>3 DEF Underway
    <3>5. AddsOf(o)' = {}
      <4>1. ~Adding(g, o)
        BY <1>3 DEF Adding
      <4>2. \A i \in Depth : ~Adding(stack'[i], o)
        BY <1>4, <3>2, <4>1 DEF AddsOf
      <4>3. AddsOf(o)' = {i \in Depth : Adding(stack'[i], o)}
        BY <1>4 DEF AddsOf, Adding
      <4> QED
        BY <4>2, <4>3
    <3>6. Registered(o)'
      <4>1. o \notin Top.cancelled /\ ~AlreadyRegistered(o)
        BY <1>2, <2>4, <3>2 DEF Adding, AlreadyRegistered
      <4>2. objectsMap_' = [objectsMap_ EXCEPT ![o] = registrationSerial_ + 1]
        BY <4>1 DEF RegisterNext
      <4>3. registrationSerial_ + 1 # 0
        BY ObjectsAssumption DEF Core, TypeOK
      <4> QED
        BY <4>2, <4>3 DEF Registered, Core, TypeOK
    <3> QED
      BY <1>1, <1>8, <2>4, <3>4, <3>5, <3>6 DEF Underway
  <2> QED
    BY <2>2, <2>3, <2>4
<1> QED
  BY <1>6, <1>10

(* A member of a removal is taken out of the lists: what belongs to one participant is out of use *)
(* by then, or was removed by another participant.                                                *)
LEMMA UnregisterPublish ==
    ASSUME Core, Named, PublishInv, NEW o \in Objects, UnregisterNext(o), Registered(o)
    PROVE  Named' /\ PublishInv'
<1>1. /\ stack # <<>> /\ Top.kind = "remove" /\ o \in Top.todo /\ Depth' = Depth
      /\ \A i \in Depth : i # Len(stack) => stack'[i] = StepPast(stack[i], o)
      /\ objectsMap_' = [objectsMap_ EXCEPT ![o] = 0]
      /\ strayed' = IF \E p \in Owners \ {Top.owner} : o \in localObjectNames_[p]
                      THEN strayed \union {<<o, "other">>} ELSE strayed
      /\ UNCHANGED <<localObjectNames_, localPrefix, tornDown_>>
  BY UnregisterShape
<1>2. PICK g \in Frames : /\ g = stack'[Len(stack)] /\ g.kind = "remove"
                          /\ g.owner = Top.owner /\ g.todo = Top.todo \ {o}
  BY UnregisterShape
<1>3. Len(stack) \in Depth /\ Top = stack[Len(stack)]
  BY <1>1, StackParts DEF Core
<1>4. ASSUME NEW i \in Depth, i # Len(stack) PROVE Alike(stack[i], stack'[i])
  <2>1. PICK f \in Frames : f = stack[i]
    BY StackParts DEF Core
  <2>2. PICK h : h = StepPast(f, o)
    OBVIOUS
  <2>3. h.kind = f.kind /\ (f.kind # "walk" => h = f) /\ f.kind \in {"add", "remove", "walk"}
    BY <2>2, StepPastKeeps, FrameParts DEF Core
  <2>4. Alike(f, h)
    BY <2>3 DEF Alike
  <2> QED
    BY <1>1, <1>4, <2>1, <2>2, <2>4
<1>5. \A h \in OnStack' : NamedFrame(h)
  <2> SUFFICES ASSUME NEW h \in OnStack' PROVE NamedFrame(h)
    OBVIOUS
  <2>1. PICK i \in Depth : h = stack'[i]
    BY <1>1 DEF OnStack
  <2>2. CASE i = Len(stack)
    BY <1>2, <2>1, <2>2 DEF NamedFrame
  <2>3. CASE i # Len(stack)
    BY <1>4, <2>1, <2>3, AlikeAct DEF Named, OnStack
  <2> QED
    BY <2>2, <2>3
<1>6. ASSUME NEW x PROVE AddsOf(x)' = AddsOf(x)
  <2>1. ~Adding(g, x) /\ ~Adding(Top, x)
    BY <1>1, <1>2 DEF Adding
  <2>2. \A i \in Depth : Adding(stack'[i], x) <=> Adding(stack[i], x)
    BY <1>2, <1>3, <1>4, <2>1, AlikeAct
  <2>3. AddsOf(x)' = {i \in Depth : Adding(stack'[i], x)}
    BY <1>1 DEF AddsOf, Adding
  <2>4. {i \in Depth : Adding(stack'[i], x)} = AddsOf(x)
    BY <2>2 DEF AddsOf
  <2> QED
    BY <2>3, <2>4
<1>7. ASSUME NEW x, NEW q
      PROVE  (x # o => RemovesOf(q, x)' = RemovesOf(q, x)) /\ RemovesOf(q, x)' \subseteq RemovesOf(q, x)
  <2>1. (Removing(g, q, x) => Removing(Top, q, x)) /\ (x # o /\ Removing(Top, q, x) => Removing(g, q, x))
    BY <1>1, <1>2 DEF Removing
  <2>2. \A i \in Depth : /\ Removing(stack'[i], q, x) => Removing(stack[i], q, x)
                         /\ x # o /\ Removing(stack[i], q, x) => Removing(stack'[i], q, x)
    BY <1>2, <1>3, <1>4, <2>1, AlikeAct
  <2>3. RemovesOf(q, x)' = {i \in Depth : Removing(stack'[i], q, x)}
    BY <1>1 DEF RemovesOf, Removing
  <2>4. /\ {i \in Depth : Removing(stack'[i], q, x)} \subseteq RemovesOf(q, x)
        /\ x # o => {i \in Depth : Removing(stack'[i], q, x)} = RemovesOf(q, x)
    BY <2>2 DEF RemovesOf
  <2> QED
    BY <2>3, <2>4
<1>8. objectsMap_'[o] = 0 /\ \A x \in Objects : x # o => objectsMap_'[x] = objectsMap_[x]
  BY <1>1 DEF Core, TypeOK
<1>9. PublishInv'
  <2> SUFFICES ASSUME ~tornDown_, NEW q \in Owners, NEW x \in Objects, AddedBy[x] = {q}, Straight(x)'
               PROVE  Underway(q, x)'
    BY <1>1 DEF PublishInv
  <2>1. Underway(q, x)
    <3>1. strayed \subseteq strayed'
      BY <1>1
    <3>2. Straight(x)
      BY <3>1 DEF Straight
    <3> QED
      BY <3>2 DEF PublishInv
  <2>2. CASE x # o
    BY <1>1, <1>6, <1>7, <1>8, <2>1, <2>2, UnderwayStays
  <2>3. CASE x = o
    <3>1. o \notin localObjectNames_[q]
      <4>1. CASE q = Top.owner
        <5>1. Len(stack) \in RemovesOf(q, o)
          BY <1>1, <1>3, <4>1 DEF RemovesOf, Removing
        <5> QED
          BY <2>1, <2>3, <5>1 DEF Underway
      <4>2. CASE q # Top.owner
        <5>1. <<o, "other">> \notin strayed'
          BY <2>3 DEF Straight
        <5> QED
          BY <1>1, <4>2, <5>1
      <4> QED
        BY <4>1, <4>2
    <3>2. AddsOf(o)' = {}
      BY <1>6, <2>1, <2>3 DEF Underway
    <3>3. ~Registered(o)'
      BY <1>8 DEF Registered
    <3> QED
      BY <1>1, <2>3, <3>1, <3>2, <3>3 DEF Underway
  <2> QED
    BY <2>2, <2>3
<1> QED
  BY <1>1, <1>5, <1>9, NamedStays

(* A member of a removal is not registered: whoever was about to register it for this participant *)
(* is told not to.                                                                                *)
LEMMA FilePublish ==
    ASSUME Core, Named, PublishInv, NEW o \in Objects, UnregisterNext(o), ~Registered(o)
    PROVE  Named' /\ PublishInv'
<1>1. /\ stack # <<>> /\ Top.kind = "remove" /\ o \in Top.todo /\ Depth' = Depth
      /\ \A i \in Depth : i # Len(stack) => stack'[i] = Cancel(stack[i], Top.owner, o)
      /\ UNCHANGED <<localObjectNames_, localPrefix, objectsMap_, tornDown_, strayed>>
  BY FileShape
<1>2. PICK g \in Frames : /\ g = stack'[Len(stack)] /\ g.kind = "remove"
                          /\ g.owner = Top.owner /\ g.todo = Top.todo \ {o}
  BY FileShape
<1>3. Len(stack) \in Depth /\ Top = stack[Len(stack)]
  BY <1>1, StackParts DEF Core
<1>4. PICK r : r = Top.owner
  OBVIOUS
<1>5. ASSUME NEW i \in Depth, i # Len(stack)
      PROVE  /\ stack[i].kind # "add" => stack'[i] = stack[i]
             /\ stack[i].kind = "add" =>
                  /\ stack'[i].kind = "add" /\ stack'[i].owner = stack[i].owner
                  /\ stack'[i].members = stack[i].members /\ stack'[i].todo = stack[i].todo
                  /\ stack[i].owner = r /\ o \in stack[i].members =>
                       stack'[i].cancelled = stack[i].cancelled \union {o}
                  /\ ~(stack[i].owner = r /\ o \in stack[i].members) =>
                       stack'[i].cancelled = stack[i].cancelled
  <2>1. PICK f \in Frames : f = stack[i]
    BY StackParts DEF Core
  <2>2. PICK h : h = Cancel(f, r, o)
    OBVIOUS
  <2>3. h = stack'[i]
    BY <1>1, <1>4, <1>5, <2>1, <2>2
  <2>4. CASE f.kind # "add"
    BY <2>1, <2>2, <2>3, <2>4, CancelOthers
  <2>5. CASE f.kind = "add"
    <3>1. f \in AddFrames
      BY <2>5, FrameParts
    <3>2. /\ h \in AddFrames /\ h.owner = f.owner /\ h.members = f.members /\ h.todo = f.todo
          /\ f.owner = r /\ o \in f.members => h.cancelled = f.cancelled \union {o}
          /\ ~(f.owner = r /\ o \in f.members) => h.cancelled = f.cancelled
      BY <2>2, <3>1, CancelParts
    <3>3. h.kind = "add"
      BY <3>2, AddParts
    <3> QED
      BY <2>1, <2>3, <2>5, <3>2, <3>3
  <2> QED
    BY <2>4, <2>5
<1>6. \A h \in OnStack' : NamedFrame(h)
  <2> SUFFICES ASSUME NEW h \in OnStack' PROVE NamedFrame(h)
    OBVIOUS
  <2>1. PICK i \in Depth : h = stack'[i]
    BY <1>1 DEF OnStack
  <2>2. CASE i = Len(stack)
    BY <1>2, <2>1, <2>2 DEF NamedFrame
  <2>3. CASE i # Len(stack)
    <3>1. NamedFrame(stack[i])
      BY DEF Named, OnStack
    <3> QED
      BY <1>5, <2>1, <2>3, <3>1 DEF NamedFrame
  <2> QED
    BY <2>2, <2>3
<1>7. ASSUME NEW x, NEW q, x # o \/ q # r
      PROVE  RemovesOf(q, x)' = RemovesOf(q, x)
  <2>1. Removing(g, q, x) <=> Removing(Top, q, x)
    BY <1>1, <1>2, <1>4, <1>7 DEF Removing
  <2>2. \A i \in Depth : Removing(stack'[i], q, x) <=> Removing(stack[i], q, x)
    <3> SUFFICES ASSUME NEW i \in Depth PROVE Removing(stack'[i], q, x) <=> Removing(stack[i], q, x)
      OBVIOUS
    <3>1. CASE i = Len(stack)
      BY <1>2, <1>3, <2>1, <3>1
    <3>2. CASE i # Len(stack)
      BY <1>5, <3>2 DEF Removing
    <3> QED
      BY <3>1, <3>2
  <2>3. RemovesOf(q, x)' = {i \in Depth : Removing(stack'[i], q, x)}
    BY <1>1 DEF RemovesOf, Removing
  <2>4. {i \in Depth : Removing(stack'[i], q, x)} = RemovesOf(q, x)
    BY <2>2 DEF RemovesOf
  <2> QED
    BY <2>3, <2>4
<1>8. ASSUME NEW x PROVE AddsOf(x)' = {i \in Depth : Adding(stack'[i], x)}
  BY <1>1 DEF AddsOf, Adding
<1>9. ASSUME NEW q, AddedBy[o] = {q}, NEW i \in Depth, stack[i].kind = "add", o \in stack[i].todo
      PROVE  stack[i].owner = q /\ o \in stack[i].members
  <2>1. NamedFrame(stack[i])
    BY DEF Named, OnStack
  <2> QED
    BY <1>9, <2>1 DEF NamedFrame
<1>10. PublishInv'
  <2> SUFFICES ASSUME ~tornDown_, NEW q \in Owners, NEW x \in Objects, AddedBy[x] = {q}, Straight(x)'
               PROVE  Underway(q, x)'
    BY <1>1 DEF PublishInv
  <2>1. Underway(q, x)
    <3>1. Straight(x)
      BY <1>1 DEF Straight
    <3> QED
      BY <3>1 DEF PublishInv
  <2>2. CASE x # o \/ q # r
    <3>1. \A i \in Depth : Adding(stack'[i], x) <=> Adding(stack[i], x)
      <4> SUFFICES ASSUME NEW i \in Depth PROVE Adding(stack'[i], x) <=> Adding(stack[i], x)
        OBVIOUS
      <4>1. CASE i = Len(stack)
        BY <1>1, <1>2, <1>3, <4>1 DEF Adding
      <4>2. CASE i # Len(stack) /\ stack[i].kind # "add"
        BY <1>5, <4>2
      <4>3. CASE i # Len(stack) /\ stack[i].kind = "add"
        <5>1. x \in stack[i].todo => (x \in stack'[i].cancelled <=> x \in stack[i].cancelled)
          BY <1>5, <1>9, <2>2, <4>3, SMTT(40)
        <5> QED
          BY <1>5, <4>3, <5>1 DEF Adding
      <4> QED
        BY <4>1, <4>2, <4>3
    <3>2. AddsOf(x)' = AddsOf(x)
      <4>1. {i \in Depth : Adding(stack'[i], x)} = AddsOf(x)
        BY <3>1 DEF AddsOf
      <4> QED
        BY <1>8, <4>1
    <3> QED
      BY <1>1, <1>7, <2>1, <2>2, <3>2, UnderwayStays
  <2>3. CASE x = o /\ q = r
    <3>1. Len(stack) \in RemovesOf(q, o)
      BY <1>1, <1>3, <1>4, <2>3 DEF RemovesOf, Removing
    <3>2. o \notin localObjectNames_[q]
      BY <2>1, <2>3, <3>1 DEF Underway
    <3>3. \A i \in Depth : ~Adding(stack'[i], o)
      <4> SUFFICES ASSUME NEW i \in Depth, Adding(stack'[i], o) PROVE FALSE
        OBVIOUS
      <4>1. i # Len(stack)
        BY <1>2 DEF Adding
      <4>2. stack[i].kind = "add" /\ o \in stack[i].todo
        BY <1>5, <4>1 DEF Adding
      <4>3. stack[i].owner = r /\ o \in stack[i].members
        BY <1>9, <2>3, <4>2
      <4> QED
        BY <1>5, <4>1, <4>2, <4>3 DEF Adding
    <3>4. AddsOf(o)' = {}
      BY <1>8, <3>3
    <3>5. ~Registered(o)'
      BY <1>1 DEF Registered
    <3> QED
      BY <1>1, <2>3, <3>2, <3>4, <3>5 DEF Underway
  <2> QED
    BY <2>2, <2>3
<1> QED
  BY <1>1, <1>6, <1>10, NamedStays

(* The invariant is inductive. *)
LEMMA InvStep ==
    ASSUME Core, Named, PublishInv, [Next]_vars PROVE Named' /\ PublishInv'
<1> DEFINE Goal == Named' /\ PublishInv'
<1>1. CASE Next
  <2>1. ASSUME NEW p \in Owners, NEW b \in Batches, Add(p, b) PROVE Goal
    BY <2>1, AddPublish
  <2>2. ASSUME NEW p \in Owners, NEW b \in Batches, Remove(p, b) PROVE Goal
    BY <2>2, RemovePublish
  <2>3. ASSUME NEW l \in Lists, Walk(l) PROVE Goal
    BY <2>3, WalkPublish
  <2>4. ASSUME NEW o \in Objects, RegisterNext(o) PROVE Goal
    BY <2>4, RegisterPublish
  <2>5. ASSUME NEW o \in Objects, UnregisterNext(o) PROVE Goal
    BY <2>5, UnregisterPublish, FilePublish
  <2>6. CASE \/ RegisteredReturns \/ (\E wants \in BOOLEAN : QueryReturns(wants))
             \/ UnregisteredReturns \/ Drive \/ DriveReturns
    BY <2>6, HooksReturn
  <2>7. CASE Return \/ Throw
    BY <2>7, LeavePublish
  <2>8. CASE StopThread
    <3>1. tornDown_' = TRUE /\ UNCHANGED <<stack, localObjectNames_>>
      BY <2>8 DEF StopThread
    <3>2. PublishInv'
      BY <3>1 DEF PublishInv
    <3>3. OnStack' = OnStack
      BY <3>1 DEF OnStack, Depth
    <3> QED
      BY <3>1, <3>2, <3>3, NamedStays DEF Named
  <2> QED
    BY <1>1, <2>1, <2>2, <2>3, <2>4, <2>5, <2>6, <2>7, <2>8 DEF Next
<1>2. CASE UNCHANGED vars
  <2>1. Depth' = Depth /\ OnStack' = OnStack /\ UNCHANGED <<localObjectNames_, localPrefix, tornDown_, objectsMap_>>
    BY <1>2 DEF Depth, OnStack, vars
  <2>2. Named'
    BY <2>1, NamedStays DEF Named
  <2>3. ASSUME NEW o, NEW p PROVE AddsOf(o)' = AddsOf(o) /\ RemovesOf(p, o)' = RemovesOf(p, o)
    BY <1>2, <2>1 DEF AddsOf, RemovesOf, Adding, Removing, vars
  <2>4. PublishInv'
    <3> SUFFICES ASSUME ~tornDown_, NEW q \in Owners, NEW x \in Objects, AddedBy[x] = {q}, Straight(x)'
                 PROVE  Underway(q, x)'
      BY <2>1 DEF PublishInv
    <3>1. Straight(x)
      BY <1>2 DEF Straight, vars
    <3> QED
      BY <2>1, <2>3, <3>1, UnderwayStays DEF PublishInv
  <2> QED
    BY <2>2, <2>4
<1> QED
  BY <1>1, <1>2

(* With no call in progress nothing is under way. *)
LEMMA InvPublished ==
    ASSUME Core, Named, PublishInv PROVE PublishedAreDriven
<1> SUFFICES ASSUME stack = <<>>, ~tornDown_, NEW o \in Objects, Cardinality(AddedBy[o]) = 1,
                    Strays(o) = {}
             PROVE  Registered(o) <=> InUse(o)
  BY DEF PublishedAreDriven
<1>1. AddedBy[o] \subseteq Owners /\ IsFiniteSet(Owners)
  BY ObjectsAssumption
<1>2. IsFiniteSet(AddedBy[o])
  BY <1>1, FS_Subset
<1>3. PICK p : AddedBy[o] = {p}
  BY <1>2, FS_Singleton
<1>4. p \in Owners /\ Straight(o)
  BY <1>1, <1>3 DEF Strays, Straight
<1>5. Underway(p, o)
  BY <1>3, <1>4 DEF PublishInv
<1>6. AddsOf(o) = {} /\ RemovesOf(p, o) = {}
  <2>1. Len(stack) = 0
    OBVIOUS
  <2> QED
    BY <2>1 DEF AddsOf, RemovesOf, Depth
<1>7. Registered(o) <=> o \in localObjectNames_[p]
  BY <1>5, <1>6 DEF Underway
<1>8. InUse(o) <=> o \in localObjectNames_[p]
  BY <1>3, <1>4 DEF InUse, Named
<1> QED
  BY <1>7, <1>8

(* Once all calls have returned, the runner drives what its participants publish and nothing else, *)
(* however deep the hooks of additions and removals called each other; of the objects that belong  *)
(* to one participant, that no throw and no other participant came in between, and that were not   *)
(* removed under the name a refused add left them with (local_participant.cpp:189, 296).           *)
THEOREM PublishedStayDriven == Spec => []PublishedAreDriven
<1>1. Init => Inv
  <2> SUFFICES ASSUME Init PROVE Inv
    OBVIOUS
  <2>1. Core
    BY CoreInit
  <2>2. Depth = {}
    <3>1. Len(stack) = 0
      BY DEF Init
    <3> QED
      BY <3>1 DEF Depth
  <2>3. \A p \in Owners : localObjectNames_[p] = {}
    BY DEF Init
  <2>4. \A o \in Objects : ~Registered(o)
    BY DEF Init, Registered
  <2>5. Named /\ PublishInv
    BY <2>2, <2>3, <2>4 DEF Named, OnStack, PublishInv, Underway, AddsOf, RemovesOf
  <2> QED
    BY <2>1, <2>5 DEF Inv
<1>2. Inv /\ [Next]_vars => Inv'
  BY CoreStep, InvStep DEF Inv
<1>3. Inv => PublishedAreDriven
  BY InvPublished DEF Inv
<1> QED
  BY <1>1, <1>2, <1>3, PTL DEF Spec

=============================================================================
