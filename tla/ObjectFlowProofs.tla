-------------------------- MODULE ObjectFlowProofs --------------------------
(***************************************************************************)
(* Proofs about ObjectFlow for any finite set of objects, any interests    *)
(* and any number of calls, changes and subscriptions: the containers of   *)
(* the publisher and the providers agree, the mux counts the interests in  *)
(* which an object is present, what is present is listed, and what a       *)
(* filter shows is present once nothing about it waits in the queues of    *)
(* the three threads.                                                      *)
(*                                                                         *)
(* A drain folds a bulk of actions into the manager's state; what the fold *)
(* keeps is shown by induction on the length of the bulk, in the form of a *)
(* set of numbers that holds 0 and the successor of each of its members.   *)
(***************************************************************************)
EXTENDS ObjectFlow, FiniteSetTheorems, WellFoundedInduction, TLAPS

(* What a producing thread may queue. *)
Actions == [kind : {"addition", "removal"}, object : Objects]

----------------------------------------------------------------------------
(* Induction, as a fact about sets of numbers. *)
LEMMA Inductive ==
    ASSUME NEW S, S \subseteq Nat, 0 \in S, \A k \in S : k + 1 \in S
    PROVE  S = Nat
<1> DEFINE R == {ss \in Nat \X Nat : ss[1] < ss[2]}
           T == Nat \ S
<1>1. IsWellFoundedOn(R, Nat)
  BY NatLessThanWellFounded, Zenon DEF OpToRel
<1>2. SUFFICES ASSUME T # {} PROVE FALSE
  OBVIOUS
<1>3. T \subseteq Nat
  OBVIOUS
<1> HIDE DEF R, T
<1>4. PICK x \in T : \A y \in T : ~(<<y, x>> \in R)
  BY <1>1, <1>2, <1>3, WFMin
<1>5. x \in Nat /\ x \notin S
  BY DEF T
<1>6. x - 1 \in Nat
  BY <1>5
<1>7. x - 1 \in S
  <2> SUFFICES ASSUME x - 1 \notin S PROVE FALSE
    OBVIOUS
  <2>1. x - 1 \in T
    BY <1>6 DEF T
  <2>2. <<x - 1, x>> \in R
    BY <1>5, <1>6 DEF R
  <2> QED
    BY <1>4, <2>1, <2>2
<1>8. (x - 1) + 1 \in S
  BY <1>7
<1> QED
  BY <1>5, <1>8

(* The sequence of a finite set holds its elements and nothing else. *)
LEMMA SetAsSequence ==
    ASSUME NEW S, IsFiniteSet(S)
    PROVE  /\ SetToSeq(S) \in Seq(S)
           /\ \A k \in 1..Len(SetToSeq(S)) : SetToSeq(S)[k] \in S
           /\ \A x \in S : \E k \in 1..Len(SetToSeq(S)) : SetToSeq(S)[k] = x
<1> DEFINE n == Cardinality(S)
           f == SetToSeq(S)
<1>1. n \in Nat /\ ExistsBijection(1..n, S)
  BY FS_CardinalityType
<1>2. PICK b : b \in Bijection(1..n, S)
  BY <1>1 DEF ExistsBijection
<1>3. b \in [1..n -> S] /\ IsInjective(b)
  BY <1>2 DEF Bijection, Injection, IsInjective
<1>4. f \in [1..n -> S] /\ IsInjective(f)
  BY <1>3, Zenon DEF SetToSeq
<1> HIDE DEF f
<1>5. f \in Injection(1..n, S)
  BY <1>4 DEF Injection
<1>6. Cardinality(1..n) = n
  BY <1>1, FS_Interval
<1>7. f \in Surjection(1..n, S)
  BY <1>5, <1>6, FS_Injection
<1>8. f \in Seq(S) /\ Len(f) = n
  BY <1>1, <1>4
<1>9. \A x \in S : \E k \in 1..n : f[k] = x
  BY <1>7 DEF Surjection
<1> QED
  BY <1>4, <1>8, <1>9 DEF f

(* What is queued for a set of objects: an addition, or a removal, of each of them. *)
LEMMA AdditionsOf ==
    ASSUME NEW S, S \subseteq Objects
    PROVE  /\ Additions(S) \in Seq(Actions)
           /\ \A k \in 1..Len(Additions(S)) : \E o \in S : Additions(S)[k] = Addition(o)
           /\ \A o \in S : \E k \in 1..Len(Additions(S)) : Additions(S)[k] = Addition(o)
<1> DEFINE T == {Addition(o) : o \in S}
           f == [o \in S |-> Addition(o)]
<1>1. IsFiniteSet(S)
  BY ObjectsAssumption, FS_Subset DEF ObjectsAssumption
<1>2. f \in Surjection(S, T)
  BY DEF Surjection
<1> HIDE DEF f
<1>3. IsFiniteSet(T)
  BY <1>1, <1>2, FS_Surjection
<1>4. T \subseteq Actions
  BY DEF Addition, Actions
<1>5. \A o \in S : Addition(o) \in T
  OBVIOUS
<1>6. \A x \in T : \E o \in S : x = Addition(o)
  OBVIOUS
<1>7. Additions(S) = SetToSeq(T)
  BY Zenon DEF Additions
<1> HIDE DEF T
<1>8. /\ Additions(S) \in Seq(T)
      /\ \A k \in 1..Len(Additions(S)) : Additions(S)[k] \in T
      /\ \A x \in T : \E k \in 1..Len(Additions(S)) : Additions(S)[k] = x
  BY <1>3, <1>7, SetAsSequence
<1>9. Additions(S) \in Seq(Actions)
  BY <1>4, <1>8
<1> QED
  BY <1>5, <1>6, <1>8, <1>9

(* The same for the removals of a set of objects. *)
LEMMA RemovalsOf ==
    ASSUME NEW S, S \subseteq Objects
    PROVE  /\ Removals(S) \in Seq(Actions)
           /\ \A k \in 1..Len(Removals(S)) : \E o \in S : Removals(S)[k] = Removal(o)
<1> DEFINE T == {Removal(o) : o \in S}
           f == [o \in S |-> Removal(o)]
<1>1. IsFiniteSet(S)
  BY ObjectsAssumption, FS_Subset DEF ObjectsAssumption
<1>2. f \in Surjection(S, T)
  BY DEF Surjection
<1> HIDE DEF f
<1>3. IsFiniteSet(T)
  BY <1>1, <1>2, FS_Surjection
<1>4. T \subseteq Actions
  BY DEF Removal, Actions
<1>6. \A x \in T : \E o \in S : x = Removal(o)
  OBVIOUS
<1>7. Removals(S) = SetToSeq(T)
  BY Zenon DEF Removals
<1> HIDE DEF T
<1>8. /\ Removals(S) \in Seq(T)
      /\ \A k \in 1..Len(Removals(S)) : Removals(S)[k] \in T
  BY <1>3, <1>7, SetAsSequence
<1>9. Removals(S) \in Seq(Actions)
  BY <1>4, <1>8
<1> QED
  BY <1>6, <1>8, <1>9

----------------------------------------------------------------------------
(* processPendingActions: the states of a bulk's fold. *)
FoldStates == [present : SUBSET Objects, added : [Objects -> Nat], removed : [Objects -> Nat]]

IsFold(f, s, actions) ==
    f = [k \in 0..Len(actions) |-> IF k = 0 THEN s ELSE Apply(f[k - 1], actions[k])]

(* The fold exists. *)
LEMMA FoldExists ==
    ASSUME NEW s, NEW actions, actions \in Seq(Actions)
    PROVE  \E f : IsFold(f, s, actions)
<1> DEFINE G(f, n) == f = [k \in 0..n |-> IF k = 0 THEN s ELSE Apply(f[k - 1], actions[k])]
           S == {n \in Nat : \E f : G(f, n)}
<1>1. 0 \in S
  <2> DEFINE f == [k \in 0..0 |-> s]
  <2>1. f = [k \in 0..0 |-> IF k = 0 THEN s ELSE Apply(f[k - 1], actions[k])]
    OBVIOUS
  <2> QED
    BY <2>1
<1>2. ASSUME NEW n \in S PROVE n + 1 \in S
  <2>1. n \in Nat
    OBVIOUS
  <2>2. PICK f : G(f, n)
    OBVIOUS
  <2> DEFINE g == [k \in 0..(n + 1) |-> IF k <= n THEN f[k] ELSE Apply(f[n], actions[n + 1])]
  <2>3. ASSUME NEW k \in 0..(n + 1)
        PROVE  g[k] = IF k = 0 THEN s ELSE Apply(g[k - 1], actions[k])
    <3>1. CASE k <= n
      <4>1. k \in 0..n /\ g[k] = f[k]
        BY <2>1, <3>1
      <4>2. f[k] = IF k = 0 THEN s ELSE Apply(f[k - 1], actions[k])
        BY <2>2, <4>1
      <4>3. k # 0 => k - 1 \in 0..(n + 1) /\ k - 1 <= n
        BY <2>1, <3>1
      <4>4. k # 0 => g[k - 1] = f[k - 1]
        BY <4>3
      <4> HIDE DEF g
      <4> QED
        BY <4>1, <4>2, <4>4, Zenon
    <3>2. CASE ~(k <= n)
      <4>1. k = n + 1 /\ k # 0 /\ k - 1 = n /\ n \in 0..(n + 1) /\ n <= n
        BY <2>1, <3>2
      <4>2. g[n] = f[n] /\ g[k] = Apply(f[n], actions[n + 1])
        BY <3>2, <4>1
      <4> HIDE DEF g
      <4> QED
        BY <4>1, <4>2, Zenon
    <3> QED
      BY <3>1, <3>2
  <2>4. g = [k \in 0..(n + 1) |-> g[k]]
    OBVIOUS
  <2> HIDE DEF g
  <2>5. G(g, n + 1)
    BY <2>3, <2>4, Zenon
  <2>6. n + 1 \in Nat
    BY <2>1
  <2> QED
    BY <2>5, <2>6
<1>3. S \subseteq Nat
  OBVIOUS
<1> HIDE DEF S
<1>4. S = Nat
  BY <1>1, <1>2, <1>3, Inductive
<1>5. Len(actions) \in S
  BY <1>4
<1> QED
  BY <1>5 DEF S, IsFold

(* What an object was plus what came is what it is plus what went. *)
One(b) == IF b THEN 1 ELSE 0
Balance(s, o) == One(o \in s.present) + s.removed[o] - s.added[o]

(* One action keeps the balance of every object; only a removal takes an object away, and an *)
(* addition makes it present.                                                                *)
LEMMA ApplyKeeps ==
    ASSUME NEW s \in FoldStates, NEW a \in Actions, ViewObjects = Objects
    PROVE  /\ Apply(s, a) \in FoldStates
           /\ \A o \in Objects :
                /\ Balance(Apply(s, a), o) = Balance(s, o)
                /\ o \in s.present /\ a # Removal(o) => o \in Apply(s, a).present
                /\ a = Addition(o) => o \in Apply(s, a).present
<1> DEFINE x == a.object
           t == Apply(s, a)
<1>0. /\ a.kind \in {"addition", "removal"} /\ x \in Objects
      /\ a = [kind |-> a.kind, object |-> x]
  BY DEF Actions
<1>1. /\ s.present \subseteq Objects
      /\ s.added \in [Objects -> Nat] /\ s.removed \in [Objects -> Nat]
      /\ s = [present |-> s.present, added |-> s.added, removed |-> s.removed]
  BY DEF FoldStates
<1>2. CASE a.kind = "addition" /\ x \notin s.present
  <2>1. t = [s EXCEPT !.present = @ \union {x}, !.added[x] = @ + 1]
    BY <1>2, Zenon DEF Apply
  <2>2. /\ t.present = s.present \union {x} /\ t.removed = s.removed
        /\ t.added = [s.added EXCEPT ![x] = @ + 1]
        /\ t = [present |-> t.present, added |-> t.added, removed |-> t.removed]
    BY <1>1, <2>1
  <2>3. t.added \in [Objects -> Nat] /\ t.added[x] = s.added[x] + 1
        /\ \A o \in Objects \ {x} : t.added[o] = s.added[o]
    BY <1>0, <1>1, <2>2
  <2> HIDE DEF t
  <2>4. t \in FoldStates
    BY <1>0, <1>1, <2>2, <2>3 DEF FoldStates
  <2>5. ASSUME NEW o \in Objects
        PROVE  /\ Balance(t, o) = Balance(s, o)
               /\ o \in s.present /\ a # Removal(o) => o \in t.present
               /\ a = Addition(o) => o \in t.present
    <3>1. s.added[o] \in Nat /\ s.removed[o] \in Nat
      BY <1>1
    <3>2. Balance(t, o) = Balance(s, o)
      <4>1. CASE o = x
        <5>1. o \in t.present /\ o \notin s.present
          BY <1>2, <2>2, <4>1
        <5> QED
          BY <2>2, <2>3, <3>1, <4>1, <5>1 DEF Balance, One
      <4>2. CASE o # x
        <5>1. (o \in t.present) = (o \in s.present)
          BY <2>2, <4>2
        <5> QED
          BY <2>2, <2>3, <4>2, <5>1, Zenon DEF Balance
      <4> QED
        BY <4>1, <4>2
    <3> QED
      BY <1>0, <2>2, <3>2 DEF Addition
  <2> QED
    BY <2>4, <2>5 DEF t
<1>3. CASE a.kind = "removal" /\ x \in s.present
  <2>1. t = [s EXCEPT !.present = @ \ {x}, !.removed[x] = @ + 1]
    BY <1>3 DEF Apply
  <2>2. /\ t.present = s.present \ {x} /\ t.added = s.added
        /\ t.removed = [s.removed EXCEPT ![x] = @ + 1]
        /\ t = [present |-> t.present, added |-> t.added, removed |-> t.removed]
    BY <1>1, <2>1
  <2>3. t.removed \in [Objects -> Nat] /\ t.removed[x] = s.removed[x] + 1
        /\ \A o \in Objects \ {x} : t.removed[o] = s.removed[o]
    BY <1>0, <1>1, <2>2
  <2> HIDE DEF t
  <2>4. t \in FoldStates
    BY <1>0, <1>1, <2>2, <2>3 DEF FoldStates
  <2>5. ASSUME NEW o \in Objects
        PROVE  /\ Balance(t, o) = Balance(s, o)
               /\ o \in s.present /\ a # Removal(o) => o \in t.present
               /\ a = Addition(o) => o \in t.present
    <3>1. s.added[o] \in Nat /\ s.removed[o] \in Nat
      BY <1>1
    <3>2. Balance(t, o) = Balance(s, o)
      <4>1. CASE o = x
        <5>1. o \notin t.present /\ o \in s.present
          BY <1>3, <2>2, <4>1
        <5> QED
          BY <2>2, <2>3, <3>1, <4>1, <5>1 DEF Balance, One
      <4>2. CASE o # x
        <5>1. (o \in t.present) = (o \in s.present)
          BY <2>2, <4>2
        <5> QED
          BY <2>2, <2>3, <4>2, <5>1, Zenon DEF Balance
      <4> QED
        BY <4>1, <4>2
    <3>3. a = Removal(x)
      BY <1>0, <1>3 DEF Removal
    <3>4. a # Addition(o)
      BY <1>3 DEF Addition
    <3> QED
      BY <2>2, <3>2, <3>3, <3>4
  <2> QED
    BY <2>4, <2>5 DEF t
<1>4. CASE ~(a.kind = "addition" /\ x \notin s.present) /\ ~(a.kind = "removal" /\ x \in s.present)
  <2>1. t = s
    BY <1>4 DEF Apply
  <2>2. ASSUME NEW o \in Objects, a = Addition(o) PROVE o \in s.present
    BY <1>4, <2>2 DEF Addition
  <2> QED
    BY <2>1, <2>2
<1> QED
  BY <1>2, <1>3, <1>4

(* A whole bulk does, too.  An object is present after it if it was and the bulk holds no *)
(* removal of it, or if the bulk holds an addition of it and no removal after that.       *)
LEMMA ProcessedKeeps ==
    ASSUME NEW i, present[i] \in SUBSET Objects, ViewObjects = Objects,
           NEW actions \in Seq(Actions)
    PROVE  /\ Processed(i, actions) \in FoldStates
           /\ \A o \in Objects :
                /\ Balance(Processed(i, actions), o) = One(o \in present[i])
                /\ (/\ o \in present[i]
                    /\ \A j \in 1..Len(actions) : actions[j] # Removal(o))
                     => o \in Processed(i, actions).present
                /\ \A k \in 1..Len(actions) :
                     (/\ actions[k] = Addition(o)
                      /\ \A j \in (k + 1)..Len(actions) : actions[j] # Removal(o))
                       => o \in Processed(i, actions).present
<1> DEFINE s == [present |-> present[i], added |-> NoNews, removed |-> NoNews]
           n == Len(actions)
           g == CHOOSE f : f = [k \in 0..n |-> IF k = 0 THEN s ELSE Apply(f[k - 1], actions[k])]
<1>1. n \in Nat /\ \A k \in 1..n : actions[k] \in Actions
  OBVIOUS
<1>2. g = [k \in 0..n |-> IF k = 0 THEN s ELSE Apply(g[k - 1], actions[k])]
  <2> HIDE DEF s
  <2>0. \E f : IsFold(f, s, actions)
    BY FoldExists, Zenon
  <2>1. \E f : f = [k \in 0..n |-> IF k = 0 THEN s ELSE Apply(f[k - 1], actions[k])]
    BY <2>0, Zenon DEF IsFold
  <2> QED
    BY <2>1, Zenon
<1>3. Processed(i, actions) = g[n]
  BY Zenon DEF Processed
<1>4. s \in FoldStates /\ \A o \in Objects : Balance(s, o) = One(o \in present[i])
  BY DEF FoldStates, NoNews, Balance, One
<1> HIDE DEF g, s
<1>5. g[0] = s
  BY <1>1, <1>2
<1>6. ASSUME NEW k \in 0..n, k + 1 <= n
      PROVE  k + 1 \in 1..n /\ g[k + 1] = Apply(g[k], actions[k + 1])
  <2>1. k + 1 \in 0..n /\ k + 1 # 0 /\ (k + 1) - 1 = k /\ k + 1 \in 1..n
    BY <1>1, <1>6
  <2> QED
    BY <1>2, <2>1
<1>7. \A k \in 0..n : g[k] \in FoldStates /\ \A o \in Objects : Balance(g[k], o) = Balance(s, o)
  <2> DEFINE P(k) == g[k] \in FoldStates /\ \A o \in Objects : Balance(g[k], o) = Balance(s, o)
             S == {k \in Nat : k <= n => P(k)}
  <2>1. 0 \in S
    BY <1>4, <1>5
  <2>2. ASSUME NEW k \in S PROVE k + 1 \in S
    <3>1. k \in Nat /\ k + 1 \in Nat
      OBVIOUS
    <3>2. CASE k + 1 <= n
      <4>1. k \in 0..n /\ P(k)
        BY <1>1, <3>1, <3>2
      <4>2. g[k + 1] = Apply(g[k], actions[k + 1]) /\ actions[k + 1] \in Actions
        BY <1>1, <1>6, <3>2, <4>1
      <4>3. P(k + 1)
        BY <4>1, <4>2, ApplyKeeps
      <4> QED
        BY <3>1, <4>3
    <3>3. CASE ~(k + 1 <= n)
      BY <3>1, <3>3
    <3> QED
      BY <3>2, <3>3
  <2>3. S \subseteq Nat
    OBVIOUS
  <2> HIDE DEF S
  <2>4. S = Nat
    BY <2>1, <2>2, <2>3, Inductive
  <2>5. \A k \in 0..n : k \in S /\ k <= n
    BY <1>1, <2>4
  <2> QED
    BY <2>5 DEF S
<1>8. ASSUME NEW o \in Objects, NEW m \in 0..n, o \in g[m].present,
             \A j \in (m + 1)..n : actions[j] # Removal(o)
      PROVE  o \in g[n].present
  <2> DEFINE S == {k \in Nat : m + k <= n => o \in g[m + k].present}
  <2>0. m \in Nat /\ m + 0 = m
    BY <1>1
  <2>1. 0 \in S
    BY <1>8, <2>0
  <2>2. ASSUME NEW k \in S PROVE k + 1 \in S
    <3>1. k \in Nat /\ k + 1 \in Nat /\ m + (k + 1) = (m + k) + 1
      BY <2>0
    <3>2. CASE (m + k) + 1 <= n
      <4>1. m + k \in 0..n /\ (m + k) + 1 \in (m + 1)..n /\ m + k <= n
        BY <1>1, <2>0, <3>1, <3>2
      <4>2. o \in g[m + k].present
        BY <4>1
      <4>3. (m + k) + 1 \in 1..n /\ g[(m + k) + 1] = Apply(g[m + k], actions[(m + k) + 1])
        BY <1>6, <3>2, <4>1
      <4>4. actions[(m + k) + 1] \in Actions /\ actions[(m + k) + 1] # Removal(o)
        BY <1>1, <1>8, <4>1, <4>3
      <4>5. g[m + k] \in FoldStates
        BY <1>7, <4>1
      <4>6. o \in g[(m + k) + 1].present
        BY <4>2, <4>3, <4>4, <4>5, ApplyKeeps
      <4> QED
        BY <3>1, <4>6
    <3>3. CASE ~((m + k) + 1 <= n)
      BY <3>1, <3>3
    <3> QED
      BY <3>2, <3>3
  <2>3. S \subseteq Nat
    OBVIOUS
  <2> HIDE DEF S
  <2>4. S = Nat
    BY <2>1, <2>2, <2>3, Inductive
  <2>5. n - m \in S /\ m + (n - m) = n /\ n <= n
    BY <1>1, <2>0, <2>4
  <2>6. m + (n - m) <= n => o \in g[m + (n - m)].present
    BY <2>5 DEF S
  <2> QED
    BY <2>5, <2>6
<1>9. n \in 0..n /\ 0 \in 0..n
  BY <1>1
<1>10. ASSUME NEW o \in Objects, o \in present[i],
              \A j \in 1..n : actions[j] # Removal(o)
       PROVE  o \in g[n].present
  <2>1. o \in g[0].present
    BY <1>5, <1>10 DEF s
  <2>2. \A j \in (0 + 1)..n : actions[j] # Removal(o)
    BY <1>10
  <2> QED
    BY <1>8, <1>9, <2>1, <2>2
<1>11. ASSUME NEW o \in Objects, NEW k \in 1..n, actions[k] = Addition(o),
              \A j \in (k + 1)..n : actions[j] # Removal(o)
       PROVE  o \in g[n].present
  <2>1. k \in 0..n /\ k - 1 \in 0..n /\ (k - 1) + 1 = k /\ (k - 1) + 1 <= n
    BY <1>1
  <2>2. g[k] = Apply(g[k - 1], actions[k]) /\ actions[k] \in Actions /\ g[k - 1] \in FoldStates
    BY <1>1, <1>6, <1>7, <2>1
  <2>3. o \in g[k].present
    BY <1>11, <2>2, ApplyKeeps
  <2> QED
    BY <1>8, <1>11, <2>1, <2>3
<1> HIDE DEF n
<1> QED
  BY <1>3, <1>4, <1>7, <1>9, <1>10, <1>11 DEF n

----------------------------------------------------------------------------
(* The inductive invariant.  The types of the managers, lists and queues: *)
ViewTypes ==
    /\ subscribed \subseteq Interests
    /\ pending \in [Interests -> [Producers -> Seq(Actions)]]
    /\ present \in [Interests -> SUBSET Objects]
    /\ list \in [Interests -> [Objects -> Nat]]
    /\ iteratorMap \in [Interests -> SUBSET Objects]
    /\ muxPresent \in [Objects -> [Interests -> Nat]] /\ muxListed \subseteq Objects
    /\ subscriptions \in 0..MaxSubscriptions

Providers == [exists : BOOLEAN, tracked : SUBSET Objects, evaluated : SUBSET Objects,
              notified : SUBSET Objects]

(* S holds what is published: until the evaluation the current objects, then what will be *)
(* current when the commit ends.                                                          *)
Covers(S) ==
    IF pc = "evaluated" THEN (currentObjects \ deletedObjects) \union newObjects \subseteq S
                        ELSE currentObjects \subseteq S

(* The snapshot and every provider cover what is published; nobody adds after the evaluation, *)
(* and there is no commit once the participant has left.                                      *)
PublisherInv ==
    /\ PublicationTypeOK
    /\ provider \in [Interests -> Providers]
    /\ pc = "evaluated" => ~inCallback
    /\ left => pc = "idle"
    /\ Covers(lastPresent)
    /\ \A i \in Interests : provider[i].exists => Covers(provider[i].tracked)

(* The map of a list has only entries of the list, and what is present has an entry. *)
ListInv ==
    /\ \A i \in Interests : iteratorMap[i] \subseteq Listed(i)
    /\ PresentAreListed

(* After the k-th action of the queue no removal of the object waits. *)
Stands(q, k, o) == \A j \in (k + 1)..Len(q) : q[j] # Removal(o)

(* An object that is shown will be present when the queues are empty, in whatever order they *)
(* are drained: the last that the owner says of it is an addition, or the owner says nothing *)
(* against it and it is present or the subscriber's own addition of it waits.                *)
WillBePresent(i, o) ==
    LET q == pending[i]["owner"]  s == pending[i]["subscriber"] IN
    \/ \E k \in 1..Len(q) : q[k] = Addition(o) /\ Stands(q, k, o)
    \/ Stands(q, 0, o) /\ (o \in present[i] \/ \E k \in 1..Len(s) : s[k] = Addition(o))

(* The subscriber queues additions only, the thread that stops the owner queues only when the *)
(* owner has left, and then nothing is shown.                                                 *)
QueueInv ==
    /\ left => \A i \in Interests : provider[i].notified = {}
    /\ \A i \in Interests :
         /\ ~left => pending[i]["stopper"] = <<>>
         /\ \A k \in 1..Len(pending[i]["subscriber"]) :
              \E o \in Objects : pending[i]["subscriber"][k] = Addition(o)
    /\ \A i \in subscribed : \A o \in provider[i].notified : WillBePresent(i, o)

Inv == ViewTypes /\ PublisherInv /\ ListInv /\ MuxCountsInterests /\ QueueInv

(* The type invariant of the publisher, part by part. *)
LEMMA PublisherTypes ==
    PublicationTypeOK <=>
        /\ pc \in Stages /\ inCallback \in BOOLEAN
        /\ newObjects \subseteq Objects /\ tempNewObjects \subseteq Objects
        /\ currentObjects \subseteq Objects /\ deletedObjects \subseteq Objects
        /\ localObjectNames \subseteq Objects /\ matching \subseteq Objects
        /\ changed \subseteq Objects /\ ownListed \subseteq Objects /\ lastPresent \subseteq Objects
        /\ deletedObjects \subseteq currentObjects
        /\ newObjects \intersect deletedObjects = {}
        /\ \A i \in Interests : /\ provider[i].notified \subseteq provider[i].tracked
                                /\ provider[i].evaluated \subseteq provider[i].tracked
                                /\ provider[i].tracked \subseteq Objects
        /\ left \in BOOLEAN
        /\ calls \in 0..MaxCalls /\ flips \in 0..MaxFlips /\ rejections \in 0..MaxRejections
BY DEF PublicationTypeOK

(* The invariant holds initially. *)
LEMMA InitInv == Init => Inv
<1> SUFFICES ASSUME Init PROVE Inv
  OBVIOUS
<1> USE ViewsAssumption, BoundsAssumption, SubscriptionsAssumption
    DEF ViewsAssumption, BoundsAssumption, SubscriptionsAssumption, Init, PublicationInit, ViewsInit
<1>0. <<>> \in Seq(Actions) /\ Len(<<>>) = 0
  OBVIOUS
<1>1. pending = [i \in Interests |-> [t \in Producers |-> <<>>]]
  BY DEF EmptyQueue
<1>2. ViewTypes
  <2>1. pending \in [Interests -> [Producers -> Seq(Actions)]]
    BY <1>0, <1>1
  <2>2. /\ list \in [Interests -> [Objects -> Nat]]
        /\ muxPresent \in [Objects -> [Interests -> Nat]]
    OBVIOUS
  <2> QED
    BY <2>1, <2>2 DEF ViewTypes
<1>3. PublisherInv
  <2>1. provider \in [Interests -> Providers]
    BY DEF Providers, NoProvider
  <2>2. inCallback \in BOOLEAN /\ left \in BOOLEAN
    BY Zenon
  <2>3. calls \in 0..MaxCalls /\ flips \in 0..MaxFlips /\ rejections \in 0..MaxRejections
    <3>1. MaxCalls \in Nat /\ MaxFlips \in Nat /\ MaxRejections \in Nat
      OBVIOUS
    <3> QED
      BY <3>1
  <2>4. \A i \in Interests : /\ provider[i].notified \subseteq provider[i].tracked
                            /\ provider[i].evaluated \subseteq provider[i].tracked
                            /\ provider[i].tracked \subseteq Objects
    BY DEF NoProvider
  <2>5. PublicationTypeOK
    BY <2>2, <2>3, <2>4, PublisherTypes DEF Stages
  <2> QED
    BY <2>1, <2>5 DEF PublisherInv, Covers, NoProvider
<1>4. ListInv
  BY DEF ListInv, Listed, PresentAreListed
<1>5. MuxCountsInterests
  <2>1. \A o \in Objects, i \in Interests :
          muxPresent[o][i] = 0 /\ o \notin present[i] /\ ~(muxPresent[o][i] > 0)
    OBVIOUS
  <2>2. \A o \in Objects : ~MuxHas(muxPresent, o) /\ o \notin muxListed
    BY <2>1 DEF MuxHas
  <2> QED
    BY <2>1, <2>2, Zenon DEF MuxCountsInterests
<1>6. QueueInv
  BY <1>0, <1>1 DEF QueueInv, Producers
<1> QED
  BY <1>2, <1>3, <1>4, <1>5, <1>6 DEF Inv

(* A step of the owner that changes no view, no provider and not that it is there. *)
LEMMA ViewFrame ==
    ASSUME Inv, PublisherInv', UNCHANGED <<viewVars, subscriptions, provider, left>>
    PROVE  Inv'
<1> USE DEF viewVars, listVars, muxVars
<1>1. ViewTypes'
  BY DEF Inv, ViewTypes
<1>2. ListInv'
  BY DEF Inv, ListInv, Listed, PresentAreListed
<1>3. MuxCountsInterests'
  BY DEF Inv, MuxCountsInterests, MuxHas
<1>4. QueueInv'
  BY DEF Inv, QueueInv, WillBePresent, Stands
<1> QED
  BY <1>1, <1>2, <1>3, <1>4 DEF Inv

(* The owner's own steps. *)
LEMMA OwnerKeeps ==
    ASSUME Inv,
           \/ \E o \in Objects : OwnerCalls(o) \/ OwnerRejected(o)
           \/ OwnerCommits \/ OwnerEvaluatesItsOwn \/ OwnerFinishes
    PROVE  Inv'
<1> USE DEF publicationVars, objectVars, valueVars, filterVars, boundVars
<1>0. PublisherInv
  BY DEF Inv
<1>1. SUFFICES ASSUME UNCHANGED <<viewVars, subscriptions>>,
                      \/ \E o \in Objects : Add(o) \/ RemoveObject(o) \/ Reject(o)
                      \/ \E S \in SUBSET Objects : CommitObjects(S)
                      \/ OwnStops \/ OwnEvaluates \/ Finish
               PROVE  PublisherInv' /\ UNCHANGED <<provider, left>>
  BY ViewFrame DEF OwnerCalls, OwnerRejected, OwnerCommits, OwnerEvaluatesItsOwn, OwnerFinishes
<1>2. ASSUME NEW o \in Objects, Add(o) PROVE PublisherInv' /\ UNCHANGED <<provider, left>>
  <2>1. PublicationTypeOK'
    BY <1>0, <1>2, BoundsAssumption DEF PublisherInv, PublicationTypeOK, Add, MayCall, TakenBack,
       BoundsAssumption
  <2>2. pc # "evaluated" /\ UNCHANGED <<pc, inCallback, currentObjects, lastPresent, provider, left>>
    BY <1>0, <1>2 DEF PublisherInv, Add, MayCall
  <2> QED
    BY <1>0, <2>1, <2>2 DEF PublisherInv, Covers
<1>3. ASSUME NEW o \in Objects, RemoveObject(o) \/ Reject(o)
      PROVE PublisherInv' /\ UNCHANGED <<provider, left>>
  <2>1. PublicationTypeOK'
    BY <1>0, <1>3, BoundsAssumption DEF PublisherInv, PublicationTypeOK, RemoveObject, Reject,
       MayCall, RemoveSingleObject, BoundsAssumption
  <2>2. /\ UNCHANGED <<pc, inCallback, currentObjects, lastPresent, provider, left>>
        /\ newObjects' \subseteq newObjects /\ deletedObjects \subseteq deletedObjects'
    BY <1>3 DEF RemoveObject, Reject, RemoveSingleObject
  <2> QED
    BY <1>0, <2>1, <2>2 DEF PublisherInv, Covers
<1>4. ASSUME NEW S \in SUBSET Objects, CommitObjects(S)
      PROVE  PublisherInv' /\ UNCHANGED <<provider, left>>
  <2>1. PublicationTypeOK'
    BY <1>0, <1>4, BoundsAssumption DEF PublisherInv, PublicationTypeOK, CommitObjects,
       BoundsAssumption, Stages
  <2>2. /\ UNCHANGED <<inCallback, currentObjects, lastPresent, provider, left>>
        /\ pc = "idle" /\ ~left /\ pc' = "committed"
    BY <1>4 DEF CommitObjects
  <2> QED
    BY <1>0, <2>1, <2>2 DEF PublisherInv, Covers
<1>5. CASE OwnStops \/ OwnEvaluates
  <2>1. PublicationTypeOK'
    BY <1>0, <1>5 DEF PublisherInv, PublicationTypeOK, OwnStops, OwnEvaluates, Stages
  <2>2. /\ UNCHANGED <<currentObjects, lastPresent, provider, left>>
        /\ pc # "idle" /\ pc # "evaluated" /\ pc' # "evaluated"
    BY <1>5 DEF OwnStops, OwnEvaluates
  <2> QED
    BY <1>0, <2>1, <2>2 DEF PublisherInv, Covers
<1>6. CASE Finish
  <2>1. PublicationTypeOK'
    BY <1>0, <1>6 DEF PublisherInv, PublicationTypeOK, Finish, Stages
  <2>2. /\ UNCHANGED <<inCallback, lastPresent, provider, left>>
        /\ pc = "evaluated" /\ pc' = "idle"
        /\ currentObjects' = (currentObjects \union newObjects) \ deletedObjects
    BY <1>6 DEF Finish
  <2>3. currentObjects' \subseteq (currentObjects \ deletedObjects) \union newObjects
    BY <2>2
  <2> QED
    BY <1>0, <2>1, <2>2, <2>3 DEF PublisherInv, Covers
<1> QED
  BY <1>1, <1>2, <1>3, <1>4, <1>5, <1>6

----------------------------------------------------------------------------
(* What the listeners make of the news of a drain, or of a subscription that ends.  The news *)
(* are balanced: what an object was plus what came less what went is what it is.             *)
Balanced(i, r, P) ==
    /\ r.added \in [Objects -> Nat] /\ r.removed \in [Objects -> Nat]
    /\ P \subseteq Objects
    /\ \A o \in Objects : One(o \in present[i]) + r.added[o] - r.removed[o] = One(o \in P)

(* The mux ends up with one entry for the interest exactly for the objects in P. *)
LEMMA MuxKeeps ==
    ASSUME ViewTypes, MuxCountsInterests, NEW i \in Interests, NEW r, NEW P,
           Balanced(i, r, P), MuxTold(i, r), present' = [present EXCEPT ![i] = P]
    PROVE  /\ MuxCountsInterests'
           /\ muxPresent' \in [Objects -> [Interests -> Nat]] /\ muxListed' \subseteq Objects
<1> USE ViewsAssumption DEF ViewsAssumption
<1>1. \A o \in Objects : r.added[o] \in Nat /\ r.removed[o] \in Nat
  BY DEF Balanced
<1>2. \A o \in Objects : muxPresent[o][i] = One(o \in present[i])
  BY DEF MuxCountsInterests, One
<1>3. ASSUME NEW o \in Objects PROVE MuxEntriesLeft(i, o, r) = One(o \in P)
  <2>1. MuxEntries(i, o, r) = One(o \in present[i]) + r.added[o]
    BY <1>2 DEF MuxEntries
  <2>2. One(o \in present[i]) + r.added[o] - r.removed[o] = One(o \in P)
    BY DEF Balanced
  <2>3. One(o \in P) \in Nat /\ One(o \in present[i]) \in Nat
    BY DEF One
  <2>4. ~(r.removed[o] > MuxEntries(i, o, r))
    BY <1>1, <2>1, <2>2, <2>3
  <2> QED
    BY <1>1, <2>1, <2>2, <2>3, <2>4 DEF MuxEntriesLeft
<1>4. ASSUME NEW o \in Objects
      PROVE  /\ muxPresent'[o] \in [Interests -> Nat]
             /\ muxPresent'[o][i] = One(o \in P)
             /\ \A j \in Interests \ {i} : muxPresent'[o][j] = muxPresent[o][j]
  <2>1. muxPresent'[o] = [muxPresent[o] EXCEPT ![i] = One(o \in P)]
    BY <1>3 DEF MuxTold
  <2>2. muxPresent[o] \in [Interests -> Nat] /\ One(o \in P) \in Nat
    BY DEF ViewTypes, One
  <2> QED
    BY <2>1, <2>2
<1>5. muxPresent' \in [Objects -> [Interests -> Nat]]
  <2>1. muxPresent' = [o \in Objects |-> muxPresent'[o]]
    BY DEF MuxTold
  <2> QED
    BY <1>4, <2>1
<1>6. /\ present'[i] = P
      /\ \A j \in Interests \ {i} : present'[j] = present[j]
  BY DEF ViewTypes
<1>7. ASSUME NEW o \in Objects, NEW j \in Interests
      PROVE  muxPresent'[o][j] = IF o \in present'[j] THEN 1 ELSE 0
  BY <1>4, <1>6 DEF MuxCountsInterests, One
<1>8. ASSUME NEW o \in Objects
      PROVE  o \in muxListed' <=>
               /\ o \in muxListed \/ r.added[o] > 0
               /\ ~(r.removed[o] > 0 /\ ~MuxHas(muxPresent', o))
  BY DEF MuxTold
<1>9. muxListed' \subseteq Objects
  BY DEF MuxTold, ViewTypes
<1>10. ASSUME NEW o \in Objects PROVE o \in muxListed' <=> MuxHas(muxPresent', o)
  <2>1. MuxHas(muxPresent', o) <=> \E j \in Interests : o \in present'[j]
    BY <1>7 DEF MuxHas
  <2>2. o \in muxListed <=> \E j \in Interests : o \in present[j]
    BY DEF MuxCountsInterests, MuxHas
  <2>3. One(o \in present[i]) + r.added[o] - r.removed[o] = One(o \in P)
    BY DEF Balanced
  <2>4. o \in P => o \in present[i] \/ r.added[o] > 0
    BY <1>1, <2>3 DEF One
  <2>5. o \notin P /\ (o \in present[i] \/ r.added[o] > 0) => r.removed[o] > 0
    BY <1>1, <2>3 DEF One
  <2>6. CASE \E j \in Interests : o \in present'[j]
    <3>1. o \in muxListed \/ r.added[o] > 0
      BY <1>6, <2>2, <2>4, <2>6
    <3> QED
      BY <1>8, <2>1, <2>6, <3>1
  <2>7. CASE ~\E j \in Interests : o \in present'[j]
    <3>1. o \notin P /\ ~MuxHas(muxPresent', o)
      BY <1>6, <2>1, <2>7
    <3>2. o \in muxListed => o \in present[i]
      BY <1>6, <2>2, <2>7
    <3> QED
      BY <1>8, <2>5, <3>1, <3>2
  <2> QED
    BY <2>6, <2>7
<1> QED
  BY <1>5, <1>7, <1>9, <1>10 DEF MuxCountsInterests

(* The list of the subscription keeps an entry for every object in P, and its map points to *)
(* entries only: additions come first, and each makes an entry.                             *)
LEMMA ListKeeps ==
    ASSUME ViewTypes, ListInv, NEW i \in Interests, NEW r, NEW P,
           Balanced(i, r, P), ListTold(i, r), present' = [present EXCEPT ![i] = P]
    PROVE  /\ ListInv'
           /\ list' \in [Interests -> [Objects -> Nat]]
           /\ iteratorMap' \in [Interests -> SUBSET Objects]
<1> USE ViewsAssumption DEF ViewsAssumption
<1>1. ASSUME NEW o \in Objects
      PROVE  r.added[o] \in Nat /\ r.removed[o] \in Nat /\ list[i][o] \in Nat
  BY DEF Balanced, ViewTypes
<1>2. ASSUME NEW o \in Objects
      PROVE  /\ EntriesLeft(i, o, r) \in Nat
             /\ Mapped(i, o, r) /\ r.removed[o] = 0 => EntriesLeft(i, o, r) > 0
             /\ o \in P => EntriesLeft(i, o, r) > 0
  <2>1. o \in iteratorMap[i] => list[i][o] > 0
    BY DEF ListInv, Listed
  <2>2. Mapped(i, o, r) => Entries(i, o, r) > 0
    BY <1>1, <2>1 DEF Mapped, Entries
  <2>3. o \in present[i] => list[i][o] > 0
    BY DEF ListInv, PresentAreListed, Listed
  <2>4. One(o \in present[i]) + r.added[o] - r.removed[o] = One(o \in P)
    BY DEF Balanced
  <2>5. Entries(i, o, r) = list[i][o] + r.added[o]
    BY DEF Entries
  <2>6. CASE r.removed[o] > 0 /\ Mapped(i, o, r)
    <3>1. EntriesLeft(i, o, r) = Entries(i, o, r) - 1
      BY <2>6 DEF EntriesLeft
    <3>2. o \in P => Entries(i, o, r) > 1
      BY <1>1, <2>3, <2>4, <2>5, <2>6 DEF One
    <3> QED
      BY <1>1, <2>2, <2>5, <2>6, <3>1, <3>2
  <2>7. CASE ~(r.removed[o] > 0 /\ Mapped(i, o, r))
    <3>1. EntriesLeft(i, o, r) = Entries(i, o, r)
      BY <2>7 DEF EntriesLeft
    <3>2. o \in P => Entries(i, o, r) > 0
      BY <1>1, <2>3, <2>4, <2>5 DEF One
    <3> QED
      BY <1>1, <2>2, <2>5, <3>1, <3>2
  <2> QED
    BY <2>6, <2>7
<1>3. /\ list' \in [Interests -> [Objects -> Nat]]
      /\ \A o \in Objects : list'[i][o] = EntriesLeft(i, o, r)
      /\ \A j \in Interests \ {i} : list'[j] = list[j]
  BY <1>2 DEF ListTold, ViewTypes
<1>4. /\ iteratorMap' \in [Interests -> SUBSET Objects]
      /\ iteratorMap'[i] = {o \in Objects : Mapped(i, o, r) /\ r.removed[o] = 0}
      /\ \A j \in Interests \ {i} : iteratorMap'[j] = iteratorMap[j]
  BY DEF ListTold, ViewTypes, MappedLeft
<1>5. /\ present'[i] = P /\ P \subseteq Objects
      /\ \A j \in Interests \ {i} : present'[j] = present[j]
  BY DEF ViewTypes, Balanced
<1>6. ASSUME NEW j \in Interests
      PROVE  iteratorMap'[j] \subseteq Listed(j)' /\ present'[j] \subseteq Listed(j)'
  <2>1. CASE j = i
    BY <1>2, <1>3, <1>4, <1>5, <2>1 DEF Listed
  <2>2. CASE j # i
    BY <1>3, <1>4, <1>5, <2>2 DEF Listed, ListInv, PresentAreListed
  <2> QED
    BY <2>1, <2>2
<1> QED
  BY <1>3, <1>4, <1>6 DEF ListInv, PresentAreListed

----------------------------------------------------------------------------
(* The bulk of a drain *)

(* How much of every thread's queue a bulk takes. *)
LEMMA BulkBounds ==
    ASSUME NEW q \in [Producers -> Seq(Actions)], NEW n \in Bulks(q), NEW t \in Producers
    PROVE  n[t] \in Nat /\ n[t] <= Len(q[t])
<1> DEFINE S == {Len(q[u]) : u \in Producers}
<1>1. \A u \in Producers : Len(q[u]) \in Nat
  OBVIOUS
<1>2. S \subseteq Nat
  BY <1>1
<1>3. \E x \in S : \A y \in S : x >= y
  <2> DEFINE a == Len(q["subscriber"])
             b == Len(q["owner"])
             c == Len(q["stopper"])
  <2>1. a \in Nat /\ b \in Nat /\ c \in Nat /\ S = {a, b, c}
    BY <1>1 DEF Producers
  <2> HIDE DEF a, b, c, S
  <2>2. \/ a >= b /\ a >= c
        \/ b >= a /\ b >= c
        \/ c >= a /\ c >= b
    BY <2>1
  <2> QED
    BY <2>1, <2>2
<1> HIDE DEF S
<1>4. Max(S) \in S
  BY <1>3 DEF Max
<1>5. Max(S) \in Nat
  BY <1>2, <1>4
<1>6. n \in [Producers -> 0..Max(S)] /\ n[t] <= Len(q[t])
  BY Zenon DEF Bulks, S
<1>7. n[t] \in 0..Max(S)
  BY <1>6
<1> QED
  BY <1>5, <1>6, <1>7

(* Two sequences in a row. *)
LEMMA TwoInRow ==
    ASSUME NEW A \in Seq(Actions), NEW B \in Seq(Actions)
    PROVE  /\ A \o B \in Seq(Actions) /\ Len(A \o B) = Len(A) + Len(B)
           /\ \A j \in 1..Len(A) : (A \o B)[j] = A[j]
           /\ \A j \in 1..Len(B) : (A \o B)[Len(A) + j] = B[j]
OBVIOUS

(* The same for three sequences. *)
LEMMA ThreeInRow ==
    ASSUME NEW A \in Seq(Actions), NEW B \in Seq(Actions), NEW C \in Seq(Actions),
           NEW E, E = A \o B \o C
    PROVE  /\ E \in Seq(Actions)
           /\ Len(E) = Len(A) + Len(B) + Len(C)
           /\ \A j \in 1..Len(A) : E[j] = A[j]
           /\ \A j \in 1..Len(B) : E[Len(A) + j] = B[j]
           /\ \A j \in 1..Len(C) : E[Len(A) + Len(B) + j] = C[j]
<1>1. PICK D \in Seq(Actions) : D = A \o B
  BY TwoInRow
<1>2. /\ Len(D) = Len(A) + Len(B)
      /\ \A j \in 1..Len(A) : D[j] = A[j]
      /\ \A j \in 1..Len(B) : D[Len(A) + j] = B[j]
  BY <1>1, TwoInRow
<1>3. /\ D \o C \in Seq(Actions) /\ Len(D \o C) = Len(D) + Len(C)
      /\ \A j \in 1..Len(D) : (D \o C)[j] = D[j]
      /\ \A j \in 1..Len(C) : (D \o C)[Len(D) + j] = C[j]
  BY TwoInRow
<1>5. E = D \o C
  BY <1>1
<1>6. PICK la \in Nat, lb \in Nat, lc \in Nat : la = Len(A) /\ lb = Len(B) /\ lc = Len(C)
  OBVIOUS
<1>7. Len(D) = la + lb
  BY <1>2, <1>6
<1>8. Len(E) = la + lb + lc /\ E \in Seq(Actions)
  BY <1>3, <1>5, <1>6, <1>7
<1>9. ASSUME NEW j \in 1..la PROVE E[j] = A[j]
  <2>1. j \in 1..(la + lb)
    OBVIOUS
  <2> QED
    BY <1>2, <1>3, <1>5, <1>6, <1>7, <2>1
<1>10. ASSUME NEW j \in 1..lb PROVE E[la + j] = B[j]
  <2>1. la + j \in 1..(la + lb)
    OBVIOUS
  <2> QED
    BY <1>2, <1>3, <1>5, <1>6, <1>7, <2>1
<1>11. ASSUME NEW j \in 1..lc PROVE E[la + lb + j] = C[j]
  BY <1>3, <1>5, <1>6, <1>7
<1> QED
  BY <1>6, <1>8, <1>9, <1>10, <1>11

(* What a bulk holds was queued, and behind an action of a thread come only later ones of the *)
(* same thread and those of the others.                                                       *)
HoldsQueued(b, q, n) ==
    \A j \in 1..Len(b) : \E t \in Producers : \E m \in 1..n[t] : b[j] = q[t][m]

KeepsOrder(b, q, n) ==
    \A t \in Producers : \A m \in 1..n[t] : \E k \in 1..Len(b) :
        /\ b[k] = q[t][m]
        /\ \A j \in (k + 1)..Len(b) :
             \/ \E l \in (m + 1)..n[t] : b[j] = q[t][l]
             \/ \E u \in Producers \ {t} : \E l \in 1..n[u] : b[j] = q[u][l]

(* A bulk is taken in the order of each thread, whichever order the threads come in. *)
LEMMA BulkIsOrdered ==
    ASSUME NEW q \in [Producers -> Seq(Actions)], NEW n \in Bulks(q), NEW f \in Orders,
           NEW b, b = BulkOf(q, n, f)
    PROVE  b \in Seq(Actions) /\ HoldsQueued(b, q, n) /\ KeepsOrder(b, q, n)
<1>1. f[1] \in Producers /\ f[2] \in Producers /\ f[3] \in Producers
  BY DEF Orders
<1>2. f[1] # f[2] /\ f[1] # f[3] /\ f[2] # f[3]
  BY DEF Orders
<1>3. PICK x \in Producers, y \in Producers, z \in Producers :
         x = f[1] /\ y = f[2] /\ z = f[3]
  BY <1>1
<1>4. x # y /\ x # z /\ y # z
  BY <1>2, <1>3
<1>5. \A t \in Producers : t = x \/ t = y \/ t = z
  BY <1>4 DEF Producers
<1> DEFINE A == SubSeq(q[x], 1, n[x])
           B == SubSeq(q[y], 1, n[y])
           C == SubSeq(q[z], 1, n[z])
<1>6. \A t \in Producers : n[t] \in Nat /\ n[t] <= Len(q[t]) /\ q[t] \in Seq(Actions)
  BY BulkBounds
<1>7. ASSUME NEW t \in Producers
      PROVE  /\ SubSeq(q[t], 1, n[t]) \in Seq(Actions) /\ Len(SubSeq(q[t], 1, n[t])) = n[t]
             /\ \A j \in 1..n[t] : SubSeq(q[t], 1, n[t])[j] = q[t][j]
  BY <1>6
<1>8. /\ A \in Seq(Actions) /\ Len(A) = n[x] /\ \A j \in 1..n[x] : A[j] = q[x][j]
      /\ B \in Seq(Actions) /\ Len(B) = n[y] /\ \A j \in 1..n[y] : B[j] = q[y][j]
      /\ C \in Seq(Actions) /\ Len(C) = n[z] /\ \A j \in 1..n[z] : C[j] = q[z][j]
  BY <1>7
<1>9. b = A \o B \o C
  BY <1>3, Zenon DEF BulkOf
<1> HIDE DEF A, B, C
<1>10. PICK nx \in Nat, ny \in Nat, nz \in Nat : nx = n[x] /\ ny = n[y] /\ nz = n[z]
  BY <1>6
<1>15. A \in Seq(Actions) /\ B \in Seq(Actions) /\ C \in Seq(Actions)
  BY <1>8
<1>16. Len(A) = nx /\ Len(B) = ny /\ Len(C) = nz
  BY <1>8, <1>10
<1>17. /\ b \in Seq(Actions) /\ Len(b) = Len(A) + Len(B) + Len(C)
       /\ \A j \in 1..Len(A) : b[j] = A[j]
       /\ \A j \in 1..Len(B) : b[Len(A) + j] = B[j]
       /\ \A j \in 1..Len(C) : b[Len(A) + Len(B) + j] = C[j]
  BY <1>9, <1>15, ThreeInRow
<1>0. b \in Seq(Actions) /\ Len(b) = nx + ny + nz
  BY <1>16, <1>17, Zenon
<1>11. /\ \A j \in 1..nx : b[j] = q[x][j]
       /\ \A j \in 1..ny : b[nx + j] = q[y][j]
       /\ \A j \in 1..nz : b[nx + ny + j] = q[z][j]
  BY <1>8, <1>10, <1>16, <1>17
<1>12. ASSUME NEW j \in 1..Len(b)
       PROVE  \/ j \in 1..nx /\ b[j] = q[x][j]
              \/ j - nx \in 1..ny /\ b[j] = q[y][j - nx]
              \/ j - nx - ny \in 1..nz /\ b[j] = q[z][j - nx - ny]
  <2>1. CASE j <= nx
    <3>1. j \in 1..nx
      BY <1>0, <2>1
    <3> QED
      BY <1>11, <3>1
  <2>2. CASE j > nx /\ j <= nx + ny
    <3>1. j - nx \in 1..ny /\ nx + (j - nx) = j
      BY <1>0, <2>2
    <3> QED
      BY <1>11, <3>1
  <2>3. CASE j > nx + ny
    <3>1. j - nx - ny \in 1..nz /\ nx + ny + (j - nx - ny) = j
      BY <1>0, <2>3
    <3> QED
      BY <1>11, <3>1
  <2> QED
    BY <1>0, <2>1, <2>2, <2>3
<1>13. ASSUME NEW j \in 1..Len(b)
       PROVE  \E t \in Producers : \E m \in 1..n[t] : b[j] = q[t][m]
  BY <1>10, <1>12
<1>14. ASSUME NEW t \in Producers, NEW m \in 1..n[t]
       PROVE  \E k \in 1..Len(b) :
                /\ b[k] = q[t][m]
                /\ \A j \in (k + 1)..Len(b) :
                     \/ \E l \in (m + 1)..n[t] : b[j] = q[t][l]
                     \/ \E u \in Producers \ {t} : \E l \in 1..n[u] : b[j] = q[u][l]
  <2>0. m \in Nat /\ m >= 1
    BY <1>6
  <2>1. CASE t = x
    <3>0. m \in 1..nx
      BY <1>10, <2>1
    <3>1. m \in 1..Len(b) /\ b[m] = q[t][m]
      <4>1. m \in 1..Len(b)
        BY <1>0, <3>0
      <4> QED
        BY <1>11, <2>1, <3>0, <4>1
    <3>2. ASSUME NEW j \in (m + 1)..Len(b)
          PROVE  \/ \E l \in (m + 1)..n[t] : b[j] = q[t][l]
                 \/ \E u \in Producers \ {t} : \E l \in 1..n[u] : b[j] = q[u][l]
      <4>1. j \in 1..Len(b) /\ (j \in 1..nx => j \in (m + 1)..n[t])
        BY <1>0, <1>10, <2>0, <2>1
      <4>2. \/ j \in 1..nx /\ b[j] = q[x][j]
            \/ j - nx \in 1..ny /\ b[j] = q[y][j - nx]
            \/ j - nx - ny \in 1..nz /\ b[j] = q[z][j - nx - ny]
        BY <1>12, <4>1
      <4>3. CASE j \in 1..nx /\ b[j] = q[x][j]
        BY <2>1, <4>1, <4>3, Zenon
      <4>4. CASE j - nx \in 1..ny /\ b[j] = q[y][j - nx]
        BY <1>4, <1>10, <2>1, <4>4, Zenon
      <4>5. CASE j - nx - ny \in 1..nz /\ b[j] = q[z][j - nx - ny]
        BY <1>4, <1>10, <2>1, <4>5, Zenon
      <4> QED
        BY <4>2, <4>3, <4>4, <4>5, Zenon
    <3> QED
      BY <3>1, <3>2
  <2>2. CASE t = y
    <3>0. m \in 1..ny
      BY <1>10, <2>2
    <3>1. nx + m \in 1..Len(b) /\ b[nx + m] = q[t][m]
      <4>1. nx + m \in 1..Len(b)
        BY <1>0, <3>0
      <4> QED
        BY <1>11, <2>2, <3>0, <4>1
    <3>2. ASSUME NEW j \in ((nx + m) + 1)..Len(b)
          PROVE  \/ \E l \in (m + 1)..n[t] : b[j] = q[t][l]
                 \/ \E u \in Producers \ {t} : \E l \in 1..n[u] : b[j] = q[u][l]
      <4>1. /\ j \in 1..Len(b)
            /\ j - nx \in 1..ny => j - nx \in (m + 1)..n[t]
        <5>1. n[t] = ny
          BY <1>10, <2>2
        <5>2. Len(b) = nx + ny + nz
          BY <1>0
        <5> QED
          BY <2>0, <5>1, <5>2
      <4>2. \/ j \in 1..nx /\ b[j] = q[x][j]
            \/ j - nx \in 1..ny /\ b[j] = q[y][j - nx]
            \/ j - nx - ny \in 1..nz /\ b[j] = q[z][j - nx - ny]
        BY <1>12, <4>1
      <4>3. CASE j \in 1..nx /\ b[j] = q[x][j]
        BY <1>4, <1>10, <2>2, <4>3, Zenon
      <4>4. CASE j - nx \in 1..ny /\ b[j] = q[y][j - nx]
        BY <2>2, <4>1, <4>4, Zenon
      <4>5. CASE j - nx - ny \in 1..nz /\ b[j] = q[z][j - nx - ny]
        BY <1>4, <1>10, <2>2, <4>5, Zenon
      <4> QED
        BY <4>2, <4>3, <4>4, <4>5, Zenon
    <3> QED
      BY <3>1, <3>2
  <2>3. CASE t = z
    <3>0. m \in 1..nz
      BY <1>10, <2>3
    <3>1. nx + ny + m \in 1..Len(b) /\ b[nx + ny + m] = q[t][m]
      <4>1. nx + ny + m \in 1..Len(b)
        BY <1>0, <3>0
      <4> QED
        BY <1>11, <2>3, <3>0, <4>1
    <3>2. ASSUME NEW j \in ((nx + ny + m) + 1)..Len(b)
          PROVE  \/ \E l \in (m + 1)..n[t] : b[j] = q[t][l]
                 \/ \E u \in Producers \ {t} : \E l \in 1..n[u] : b[j] = q[u][l]
      <4>1. /\ j \in 1..Len(b)
            /\ j - nx - ny \in 1..nz => j - nx - ny \in (m + 1)..n[t]
        <5>1. n[t] = nz
          BY <1>10, <2>3
        <5>2. Len(b) = nx + ny + nz
          BY <1>0
        <5> QED
          BY <2>0, <5>1, <5>2
      <4>2. \/ j \in 1..nx /\ b[j] = q[x][j]
            \/ j - nx \in 1..ny /\ b[j] = q[y][j - nx]
            \/ j - nx - ny \in 1..nz /\ b[j] = q[z][j - nx - ny]
        BY <1>12, <4>1
      <4>3. CASE j \in 1..nx /\ b[j] = q[x][j]
        BY <1>4, <1>10, <2>3, <4>3, Zenon
      <4>4. CASE j - nx \in 1..ny /\ b[j] = q[y][j - nx]
        BY <1>4, <1>10, <2>3, <4>4, Zenon
      <4>5. CASE j - nx - ny \in 1..nz /\ b[j] = q[z][j - nx - ny]
        BY <2>3, <4>1, <4>5, Zenon
      <4> QED
        BY <4>2, <4>3, <4>4, <4>5, Zenon
    <3> QED
      BY <3>1, <3>2
  <2> QED
    BY <1>5, <2>1, <2>2, <2>3
<1> QED
  BY <1>0, <1>13, <1>14, Zenon DEF HoldsQueued, KeepsOrder

(* What a bulk leaves in a queue. *)
LEMMA LeftBehind ==
    ASSUME NEW q \in [Producers -> Seq(Actions)], NEW n \in Bulks(q), NEW t \in Producers
    PROVE  /\ LeftIn(q, n)[t] \in Seq(Actions)
           /\ Len(LeftIn(q, n)[t]) = Len(q[t]) - n[t]
           /\ \A k \in 1..(Len(q[t]) - n[t]) : LeftIn(q, n)[t][k] = q[t][n[t] + k]
<1>1. n[t] \in Nat /\ n[t] <= Len(q[t]) /\ q[t] \in Seq(Actions)
  BY BulkBounds
<1>2. LeftIn(q, n)[t] = SubSeq(q[t], n[t] + 1, Len(q[t]))
  BY DEF LeftIn
<1>3. PICK x \in Seq(Actions), m \in Nat : x = q[t] /\ m = n[t]
  BY <1>1
<1>4. m <= Len(x)
  BY <1>1, <1>3
<1>5. /\ SubSeq(x, m + 1, Len(x)) \in Seq(Actions)
      /\ Len(SubSeq(x, m + 1, Len(x))) = Len(x) - m
      /\ \A k \in 1..(Len(x) - m) : SubSeq(x, m + 1, Len(x))[k] = x[m + k]
  BY <1>4
<1> QED
  BY <1>2, <1>3, <1>5

(* Positions behind the k-th action, counted from the end of the bulk. *)
LEMMA BehindTheBulk ==
    ASSUME NEW len \in Nat, NEW m \in Nat, NEW k \in 1..len, k > m,
           NEW j \in ((k - m) + 1)..(len - m)
    PROVE  j \in 1..(len - m) /\ m + j \in (k + 1)..len
OBVIOUS

(* And behind the whole bulk. *)
LEMMA PastTheBulk ==
    ASSUME NEW len \in Nat, NEW m \in Nat, NEW k \in 1..len, k <= m, NEW j \in 1..(len - m)
    PROVE  m + j \in (k + 1)..len
OBVIOUS

(* A drain makes an object that will be present no less so: whatever prefix of the queues is *)
(* taken, and in whatever order of the threads.                                              *)
LEMMA DrainShows ==
    ASSUME NEW q \in [Producers -> Seq(Actions)], NEW n \in Bulks(q), NEW f \in Orders,
           NEW i \in Interests, NEW o \in Objects, present[i] \in SUBSET Objects,
           pending[i] = q, WillBePresent(i, o), q["stopper"] = <<>>,
           \A k \in 1..Len(q["subscriber"]) : \E x \in Objects : q["subscriber"][k] = Addition(x),
           pending'[i] = LeftIn(q, n), present'[i] = Processed(i, BulkOf(q, n, f)).present
    PROVE  WillBePresent(i, o)'
<1> USE ViewsAssumption DEF ViewsAssumption
<1>1. PICK b : b = BulkOf(q, n, f)
  OBVIOUS
<1>2. b \in Seq(Actions) /\ HoldsQueued(b, q, n) /\ KeepsOrder(b, q, n)
  BY <1>1, BulkIsOrdered
<1>3. "owner" \in Producers /\ "subscriber" \in Producers /\ "stopper" \in Producers
  BY DEF Producers
<1>4. PICK w \in Seq(Actions), s \in Seq(Actions) : w = q["owner"] /\ s = q["subscriber"]
  BY <1>3
<1>5. PICK nw \in Nat, ns \in Nat :
         nw = n["owner"] /\ ns = n["subscriber"] /\ nw <= Len(w) /\ ns <= Len(s)
  BY <1>3, <1>4, BulkBounds
<1>6. n["stopper"] = 0
  <2>1. Len(q["stopper"]) = 0
    OBVIOUS
  <2>2. n["stopper"] \in Nat /\ n["stopper"] <= Len(q["stopper"])
    BY <1>3, BulkBounds
  <2> QED
    BY <2>1, <2>2
<1>7. ASSUME NEW u \in Producers \ {"owner"}, NEW l \in 1..n[u] PROVE q[u][l] # Removal(o)
  <2>1. CASE u = "subscriber"
    <3>1. l \in 1..Len(s)
      BY <1>5, <2>1
    <3>2. PICK x \in Objects : q["subscriber"][l] = Addition(x)
      BY <1>4, <3>1
    <3>3. Addition(x) # Removal(o)
      BY DEF Addition, Removal
    <3> QED
      BY <2>1, <3>2, <3>3
  <2>2. CASE u = "stopper"
    BY <1>6, <2>2
  <2> QED
    BY <2>1, <2>2 DEF Producers
<1>8. PICK P : P = Processed(i, b).present
  OBVIOUS
<1>9. /\ (/\ o \in present[i]
          /\ \A j \in 1..Len(b) : b[j] # Removal(o)) => o \in P
      /\ \A k \in 1..Len(b) :
           (/\ b[k] = Addition(o)
            /\ \A j \in (k + 1)..Len(b) : b[j] # Removal(o)) => o \in P
  BY <1>2, <1>8, ProcessedKeeps
<1>10. present'[i] = P
  BY <1>1, <1>8
<1>11. PICK w1, s1 : w1 = pending'[i]["owner"] /\ s1 = pending'[i]["subscriber"]
  OBVIOUS
<1>12. /\ \A k \in 1..(Len(w) - nw) : w1[k] = w[nw + k]
       /\ \A k \in 1..(Len(s) - ns) : s1[k] = s[ns + k]
  <2>1. w1 = LeftIn(q, n)["owner"] /\ s1 = LeftIn(q, n)["subscriber"]
    BY <1>11
  <2>2. \A k \in 1..(Len(q["owner"]) - n["owner"]) :
           LeftIn(q, n)["owner"][k] = q["owner"][n["owner"] + k]
    BY <1>3, LeftBehind
  <2>3. \A k \in 1..(Len(q["subscriber"]) - n["subscriber"]) :
           LeftIn(q, n)["subscriber"][k] = q["subscriber"][n["subscriber"] + k]
    BY <1>3, LeftBehind
  <2> QED
    BY <1>4, <1>5, <2>1, <2>2, <2>3, Zenon
<1>18. Len(w1) = Len(w) - nw /\ Len(s1) = Len(s) - ns
  <2>1. w1 = LeftIn(q, n)["owner"] /\ s1 = LeftIn(q, n)["subscriber"]
    BY <1>11
  <2> QED
    BY <1>3, <1>4, <1>5, <2>1, LeftBehind
<1>13. WillBePresent(i, o)' <=>
         \/ \E k \in 1..Len(w1) : w1[k] = Addition(o) /\ Stands(w1, k, o)
         \/ Stands(w1, 0, o) /\ (o \in P \/ \E k \in 1..Len(s1) : s1[k] = Addition(o))
  BY <1>10, <1>11 DEF WillBePresent, Stands
<1>14. \/ \E k \in 1..Len(w) : w[k] = Addition(o) /\ Stands(w, k, o)
       \/ Stands(w, 0, o) /\ (o \in present[i] \/ \E k \in 1..Len(s) : s[k] = Addition(o))
  BY <1>4 DEF WillBePresent
<1>15. Len(w) \in Nat /\ Len(s) \in Nat
  OBVIOUS
<1>16. CASE \E k \in 1..Len(w) : w[k] = Addition(o) /\ Stands(w, k, o)
  <2>1. PICK k \in 1..Len(w) : w[k] = Addition(o) /\ Stands(w, k, o)
    BY <1>16
  <2>2. CASE k > nw
    <3>1. k - nw \in 1..(Len(w) - nw) /\ nw + (k - nw) = k
      BY <1>5, <1>15, <2>2
    <3>2. w1[k - nw] = Addition(o)
      BY <1>12, <2>1, <3>1
    <3>3. ASSUME NEW j \in ((k - nw) + 1)..Len(w1) PROVE w1[j] # Removal(o)
      <4>0. j \in ((k - nw) + 1)..(Len(w) - nw)
        BY <1>18
      <4>1. j \in 1..(Len(w) - nw) /\ nw + j \in (k + 1)..Len(w)
        BY <1>5, <1>15, <2>2, <4>0, BehindTheBulk
      <4> QED
        BY <1>12, <2>1, <4>1 DEF Stands
    <3> QED
      BY <1>13, <1>18, <3>1, <3>2, <3>3 DEF Stands
  <2>3. CASE k <= nw
    <3>1. k \in 1..n["owner"]
      BY <1>5, <1>15, <2>3
    <3>2. PICK m \in 1..Len(b) :
            /\ b[m] = q["owner"][k]
            /\ \A j \in (m + 1)..Len(b) :
                 \/ \E l \in (k + 1)..n["owner"] : b[j] = q["owner"][l]
                 \/ \E u \in Producers \ {"owner"} : \E l \in 1..n[u] : b[j] = q[u][l]
      BY <1>2, <1>3, <3>1, Zenon DEF KeepsOrder
    <3>3. ASSUME NEW l \in (k + 1)..n["owner"] PROVE q["owner"][l] # Removal(o)
      <4>1. l \in (k + 1)..Len(w)
        BY <1>5, <1>15
      <4> QED
        BY <1>4, <2>1, <4>1 DEF Stands
    <3>4. \A j \in (m + 1)..Len(b) : b[j] # Removal(o)
      BY <1>7, <3>2, <3>3
    <3>5. o \in P
      BY <1>4, <1>9, <2>1, <3>2, <3>4
    <3>6. ASSUME NEW j \in (0 + 1)..Len(w1) PROVE w1[j] # Removal(o)
      <4>0. j \in 1..(Len(w) - nw)
        BY <1>18
      <4>1. nw + j \in (k + 1)..Len(w)
        BY <1>5, <1>15, <2>3, <4>0, PastTheBulk
      <4> QED
        BY <1>12, <2>1, <4>0, <4>1 DEF Stands
    <3> QED
      BY <1>13, <3>5, <3>6 DEF Stands
  <2> QED
    BY <1>5, <1>15, <2>2, <2>3
<1>17. CASE /\ Stands(w, 0, o)
            /\ o \in present[i] \/ \E k \in 1..Len(s) : s[k] = Addition(o)
  <2>1. \A l \in 1..Len(w) : w[l] # Removal(o)
    BY <1>17 DEF Stands
  <2>2. ASSUME NEW t \in Producers, NEW l \in 1..n[t] PROVE q[t][l] # Removal(o)
    <3>1. CASE t = "owner"
      <4>1. l \in 1..Len(w)
        BY <1>5, <1>15, <3>1
      <4> QED
        BY <1>4, <2>1, <3>1, <4>1
    <3> QED
      BY <1>7, <3>1
  <2>3. \A j \in 1..Len(b) : b[j] # Removal(o)
    BY <1>2, <2>2, Zenon DEF HoldsQueued
  <2>4. ASSUME NEW j \in (0 + 1)..Len(w1) PROVE w1[j] # Removal(o)
    <3>1. j \in 1..(Len(w) - nw) /\ nw + j \in 1..Len(w)
      BY <1>5, <1>18, <1>15
    <3> QED
      BY <1>12, <2>1, <3>1
  <2>5. CASE o \in present[i]
    <3>1. o \in P
      BY <1>9, <2>3, <2>5
    <3> QED
      BY <1>13, <2>4, <3>1 DEF Stands
  <2>6. CASE \E k \in 1..Len(s) : s[k] = Addition(o)
    <3>1. PICK k \in 1..Len(s) : s[k] = Addition(o)
      BY <2>6
    <3>2. CASE k > ns
      <4>1. k - ns \in 1..(Len(s) - ns) /\ ns + (k - ns) = k
        BY <1>5, <1>15, <3>2
      <4>2. s1[k - ns] = Addition(o) /\ k - ns \in 1..Len(s1)
        BY <1>12, <1>18, <3>1, <4>1
      <4> QED
        BY <1>13, <2>4, <4>2 DEF Stands
    <3>3. CASE k <= ns
      <4>1. k \in 1..n["subscriber"]
        BY <1>5, <1>15, <3>3
      <4>2. PICK m \in 1..Len(b) :
              /\ b[m] = q["subscriber"][k]
              /\ \A j \in (m + 1)..Len(b) :
                   \/ \E l \in (k + 1)..n["subscriber"] : b[j] = q["subscriber"][l]
                   \/ \E u \in Producers \ {"subscriber"} : \E l \in 1..n[u] : b[j] = q[u][l]
        BY <1>2, <1>3, <4>1, Zenon DEF KeepsOrder
      <4>3. \A j \in (m + 1)..Len(b) : j \in 1..Len(b)
        BY <1>2
      <4>4. o \in P
        BY <1>4, <1>9, <2>3, <3>1, <4>2, <4>3
      <4> QED
        BY <1>13, <2>4, <4>4 DEF Stands
    <3> QED
      BY <1>5, <1>15, <3>2, <3>3
  <2> QED
    BY <1>17, <2>5, <2>6
<1> QED
  BY <1>14, <1>16, <1>17

----------------------------------------------------------------------------
(* The subscriber's steps *)

(* A drain: the manager, the list and the mux take the news of a bulk. *)
LEMMA DrainKeeps ==
    ASSUME Inv, NEW i \in Interests, Drains(i)
    PROVE  Inv'
<1> USE ViewsAssumption DEF ViewsAssumption
<1>0. ViewTypes /\ PublisherInv /\ ListInv /\ MuxCountsInterests /\ QueueInv
  BY DEF Inv
<1>1. Drain(i) /\ UNCHANGED <<publicationVars, subscriptions, subscribed>>
  BY DEF Drains, Drain
<1>2. PICK q \in [Producers -> Seq(Actions)] : q = pending[i]
  BY <1>0 DEF ViewTypes
<1>3. PICK n \in Bulks(q), f \in Orders :
         LET r == Processed(i, BulkOf(q, n, f)) IN
            /\ pending' = [pending EXCEPT ![i] = LeftIn(q, n)]
            /\ present' = [present EXCEPT ![i] = r.present]
            /\ ListTold(i, r)
            /\ MuxTold(i, r)
  BY <1>1, <1>2 DEF Drain
<1>4. PICK r : r = Processed(i, BulkOf(q, n, f))
  OBVIOUS
<1>5. /\ pending' = [pending EXCEPT ![i] = LeftIn(q, n)]
      /\ present' = [present EXCEPT ![i] = r.present]
      /\ ListTold(i, r) /\ MuxTold(i, r)
  BY <1>3, <1>4
<1>6. BulkOf(q, n, f) \in Seq(Actions)
  BY BulkIsOrdered
<1>7. present[i] \in SUBSET Objects
  BY <1>0 DEF ViewTypes
<1>8. r \in FoldStates /\ \A o \in Objects : Balance(r, o) = One(o \in present[i])
  BY <1>4, <1>6, <1>7, ProcessedKeeps
<1>9. Balanced(i, r, r.present)
  <2>1. /\ r.added \in [Objects -> Nat] /\ r.removed \in [Objects -> Nat]
        /\ r.present \subseteq Objects
    BY <1>8 DEF FoldStates
  <2>2. ASSUME NEW o \in Objects
        PROVE  One(o \in present[i]) + r.added[o] - r.removed[o] = One(o \in r.present)
    <3>1. r.added[o] \in Nat /\ r.removed[o] \in Nat
      BY <2>1
    <3>2. One(o \in present[i]) \in Nat /\ One(o \in r.present) \in Nat
      BY DEF One
    <3>3. One(o \in r.present) + r.removed[o] - r.added[o] = One(o \in present[i])
      BY <1>8 DEF Balance
    <3> QED
      BY <3>1, <3>2, <3>3
  <2> QED
    BY <2>1, <2>2 DEF Balanced
<1>10. PICK P : P = r.present
  OBVIOUS
<1>11. /\ MuxCountsInterests'
       /\ muxPresent' \in [Objects -> [Interests -> Nat]] /\ muxListed' \subseteq Objects
  BY <1>0, <1>5, <1>9, <1>10, MuxKeeps
<1>12. /\ ListInv'
       /\ list' \in [Interests -> [Objects -> Nat]]
       /\ iteratorMap' \in [Interests -> SUBSET Objects]
  BY <1>0, <1>5, <1>9, <1>10, ListKeeps
<1>13. \A t \in Producers : LeftIn(q, n)[t] \in Seq(Actions)
  BY LeftBehind
<1>14. LeftIn(q, n) \in [Producers -> Seq(Actions)]
  <2>1. LeftIn(q, n) = [t \in Producers |-> LeftIn(q, n)[t]]
    BY DEF LeftIn
  <2> QED
    BY <1>13, <2>1
<1>15. /\ pending' \in [Interests -> [Producers -> Seq(Actions)]]
       /\ pending'[i] = LeftIn(q, n)
       /\ \A j \in Interests \ {i} : pending'[j] = pending[j]
  BY <1>0, <1>5, <1>14 DEF ViewTypes
<1>16. /\ present' \in [Interests -> SUBSET Objects]
       /\ present'[i] = r.present
       /\ \A j \in Interests \ {i} : present'[j] = present[j]
  BY <1>0, <1>5, <1>9 DEF ViewTypes, Balanced
<1>17. ViewTypes'
  BY <1>0, <1>1, <1>11, <1>12, <1>15, <1>16 DEF ViewTypes
<1>18. UNCHANGED <<provider, left>> /\ PublisherInv'
  <2>1. UNCHANGED <<pc, inCallback, newObjects, tempNewObjects, currentObjects, deletedObjects,
                    localObjectNames, matching, changed, ownListed, lastPresent, provider, left,
                    calls, flips, rejections>>
    BY <1>1 DEF publicationVars, objectVars, valueVars, filterVars, boundVars
  <2> QED
    BY <1>0, <2>1 DEF PublisherInv, PublicationTypeOK, Covers
<1>19. "owner" \in Producers /\ "subscriber" \in Producers /\ "stopper" \in Producers
  BY DEF Producers
<1>20. ASSUME NEW j \in Interests
       PROVE  /\ ~left => pending'[j]["stopper"] = <<>>
              /\ \A k \in 1..Len(pending'[j]["subscriber"]) :
                   \E o \in Objects : pending'[j]["subscriber"][k] = Addition(o)
  <2>1. CASE j # i
    <3>1. pending'[j] = pending[j]
      BY <1>15, <2>1
    <3>2. /\ ~left => pending[j]["stopper"] = <<>>
          /\ \A k \in 1..Len(pending[j]["subscriber"]) :
               \E o \in Objects : pending[j]["subscriber"][k] = Addition(o)
      BY <1>0, Zenon DEF QueueInv
    <3> QED
      BY <3>1, <3>2, Zenon
  <2>2. CASE j = i
    <3>1. ASSUME ~left PROVE LeftIn(q, n)["stopper"] = <<>>
      <4>1. q["stopper"] = <<>>
        BY <1>0, <1>2, <3>1 DEF QueueInv
      <4>2. n["stopper"] \in Nat /\ n["stopper"] <= Len(q["stopper"])
        BY <1>19, BulkBounds
      <4>3. Len(q["stopper"]) = 0 /\ n["stopper"] = 0
        BY <4>1, <4>2
      <4>4. Len(LeftIn(q, n)["stopper"]) = 0 /\ LeftIn(q, n)["stopper"] \in Seq(Actions)
        BY <1>19, <4>3, LeftBehind
      <4> QED
        BY <4>4
    <3>2. PICK s \in Seq(Actions), m \in Nat :
            s = q["subscriber"] /\ m = n["subscriber"] /\ m <= Len(s)
      BY <1>19, BulkBounds
    <3>3. PICK s1 : s1 = LeftIn(q, n)["subscriber"]
      OBVIOUS
    <3>4. Len(s1) = Len(s) - m /\ \A k \in 1..(Len(s) - m) : s1[k] = s[m + k]
      BY <1>19, <3>2, <3>3, LeftBehind
    <3>5. ASSUME NEW k \in 1..Len(s1) PROVE \E o \in Objects : s1[k] = Addition(o)
      <4>1. k \in 1..(Len(s) - m) /\ m + k \in 1..Len(s)
        BY <3>2, <3>4
      <4>2. \A l \in 1..Len(s) : \E o \in Objects : s[l] = Addition(o)
        BY <1>0, <1>2, <3>2 DEF QueueInv
      <4> QED
        BY <3>4, <4>1, <4>2
    <3> QED
      BY <1>15, <2>2, <3>1, <3>3, <3>5
  <2> QED
    BY <2>1, <2>2
<1>21. ASSUME NEW j \in subscribed, NEW o \in provider[j].notified
       PROVE  WillBePresent(j, o)'
  <2>0. j \in Interests /\ WillBePresent(j, o)
    BY <1>0 DEF ViewTypes, QueueInv
  <2>1. CASE j # i
    BY <1>15, <1>16, <2>0, <2>1, ZenonT(60) DEF WillBePresent, Stands
  <2>2. CASE j = i
    <3>1. ~left
      BY <1>0, <2>0 DEF QueueInv
    <3>2. o \in Objects
      <4>1. provider[j] \in Providers
        BY <1>0, <2>0 DEF PublisherInv
      <4> QED
        BY <4>1 DEF Providers
    <3>3. /\ pending[i] = q /\ q["stopper"] = <<>>
          /\ \A k \in 1..Len(q["subscriber"]) :
               \E x \in Objects : q["subscriber"][k] = Addition(x)
      BY <1>0, <1>2, <3>1 DEF QueueInv
    <3>4. pending'[i] = LeftIn(q, n) /\ present'[i] = Processed(i, BulkOf(q, n, f)).present
      BY <1>4, <1>15, <1>16
    <3>5. WillBePresent(i, o)
      BY <2>0, <2>2
    <3>6. WillBePresent(i, o)'
      BY <1>7, <3>2, <3>3, <3>4, <3>5, DrainShows
    <3> QED
      BY <2>2, <3>6
  <2> QED
    BY <2>1, <2>2
<1>22. QueueInv'
  BY <1>0, <1>1, <1>18, <1>20, <1>21 DEF QueueInv
<1> QED
  BY <1>11, <1>12, <1>17, <1>18, <1>22 DEF Inv

(* An evaluation keeps what a provider tracks, and shows and remembers some of it. *)
LEMMA EvaluationTypes ==
    ASSUME NEW i \in Interests, NEW p \in Providers
    PROVE  LET e == EvaluateTracked(i, p) IN
           /\ e \in Providers /\ e.exists = p.exists /\ e.tracked = p.tracked
           /\ e.notified \subseteq e.tracked /\ e.evaluated \subseteq e.tracked
<1>1. PICK P : P = Present(i, p)
  OBVIOUS
<1>2. P \subseteq p.tracked
  BY <1>1 DEF Present
<1>3. EvaluateTracked(i, p) =
        [p EXCEPT !.notified = P, !.evaluated = IF i \in Conditional THEN p.tracked ELSE {}]
  BY <1>1 DEF EvaluateTracked
<1>4. /\ p.exists \in BOOLEAN /\ p.tracked \subseteq Objects
      /\ p = [exists |-> p.exists, tracked |-> p.tracked, evaluated |-> p.evaluated,
              notified |-> p.notified]
  BY DEF Providers
<1>5. EvaluateTracked(i, p) =
        [exists |-> p.exists, tracked |-> p.tracked,
         evaluated |-> IF i \in Conditional THEN p.tracked ELSE {}, notified |-> P]
  BY <1>3, <1>4
<1> QED
  BY <1>2, <1>4, <1>5 DEF Providers

(* A new provider starts with the snapshot. *)
LEMMA SeedTypes ==
    ASSUME PublisherInv, NEW i \in Interests
    PROVE  /\ Seeded(i) \in Providers /\ Covers(Seeded(i).tracked)
           /\ Seeded(i).notified \subseteq Seeded(i).tracked
           /\ Seeded(i).evaluated \subseteq Seeded(i).tracked
<1>1. CASE provider[i].exists
  BY <1>1 DEF Seeded, PublisherInv, PublicationTypeOK
<1>2. CASE ~provider[i].exists
  <2>1. lastPresent \subseteq Objects
    BY PublisherTypes DEF PublisherInv
  <2>2. NoProvider.tracked = {} /\ {} \union lastPresent = lastPresent
    BY DEF NoProvider
  <2>3. StartTracking(NoProvider, lastPresent) = [NoProvider EXCEPT !.tracked = lastPresent]
    BY <2>2, Zenon DEF StartTracking
  <2>4. PICK y : y = StartTracking(NoProvider, lastPresent)
    OBVIOUS
  <2>5. y = [exists |-> FALSE, tracked |-> lastPresent, evaluated |-> {}, notified |-> {}]
    BY <2>3, <2>4 DEF NoProvider
  <2>6. y \in Providers /\ y.tracked = lastPresent
    BY <2>1, <2>5 DEF Providers
  <2>7. PICK p : p = [y EXCEPT !.exists = TRUE]
    OBVIOUS
  <2>8. p \in Providers /\ p.tracked = lastPresent
    BY <2>6, <2>7 DEF Providers
  <2>9. Seeded(i) = EvaluateTracked(i, p)
    BY <1>2, <2>4, <2>7, Zenon DEF Seeded
  <2> QED
    BY <2>8, <2>9, EvaluationTypes DEF PublisherInv
<1> QED
  BY <1>1, <1>2

(* A subscription: the additions of all that is shown wait in the new queue. *)
LEMMA SubscribeKeeps ==
    ASSUME Inv, NEW i \in Interests, Subscribes(i)
    PROVE  Inv'
<1> USE ViewsAssumption DEF ViewsAssumption
<1>0. ViewTypes /\ PublisherInv /\ ListInv /\ MuxCountsInterests /\ QueueInv
  BY DEF Inv
<1>1. PICK e, a : e = Seeded(i) /\ a = Additions(Seeded(i).notified)
  OBVIOUS
<1>2. /\ ~left /\ provider' = [provider EXCEPT ![i] = e]
      /\ UNCHANGED <<pc, inCallback, newObjects, tempNewObjects, currentObjects, deletedObjects,
                     localObjectNames, matching, changed, ownListed, lastPresent, left,
                     calls, flips, rejections>>
  BY <1>1 DEF Subscribes, AddSubscriber, objectVars, valueVars, boundVars
<1>3. /\ subscribed' = subscribed \union {i}
      /\ pending' = [pending EXCEPT ![i] = [EmptyQueue EXCEPT !["subscriber"] = a]]
      /\ UNCHANGED <<present, list, iteratorMap, muxPresent, muxListed>>
      /\ subscriptions < MaxSubscriptions /\ subscriptions' = subscriptions + 1
  BY <1>1 DEF Subscribes, Subscribe, ShownTo, listVars, muxVars
<1>4. /\ e \in Providers /\ Covers(e.tracked)
      /\ e.notified \subseteq e.tracked /\ e.evaluated \subseteq e.tracked
  BY <1>0, <1>1, SeedTypes
<1>5. e.notified \subseteq Objects /\ e.tracked \subseteq Objects
  BY <1>4 DEF Providers
<1>6. /\ a \in Seq(Actions)
      /\ \A k \in 1..Len(a) : \E o \in Objects : a[k] = Addition(o)
      /\ \A o \in e.notified : \E k \in 1..Len(a) : a[k] = Addition(o)
  BY <1>1, <1>5, AdditionsOf
<1>7. PICK q : q = [EmptyQueue EXCEPT !["subscriber"] = a]
  OBVIOUS
<1>8. /\ q \in [Producers -> Seq(Actions)]
      /\ q["subscriber"] = a /\ q["owner"] = <<>> /\ q["stopper"] = <<>>
  <2>1. /\ EmptyQueue \in [Producers -> Seq(Actions)]
        /\ EmptyQueue["stopper"] = <<>> /\ EmptyQueue["owner"] = <<>>
    BY DEF EmptyQueue, Producers
  <2>2. "owner" \in Producers /\ "subscriber" \in Producers /\ "stopper" \in Producers
    BY DEF Producers
  <2> QED
    BY <1>6, <1>7, <2>1, <2>2
<1>9. /\ pending' \in [Interests -> [Producers -> Seq(Actions)]]
      /\ pending'[i] = q /\ \A j \in Interests \ {i} : pending'[j] = pending[j]
  BY <1>0, <1>3, <1>7, <1>8 DEF ViewTypes
<1>10. ViewTypes'
  <2>1. subscriptions' \in 0..MaxSubscriptions
    BY <1>0, <1>3, SubscriptionsAssumption DEF ViewTypes, SubscriptionsAssumption
  <2> QED
    BY <1>0, <1>3, <1>9, <2>1 DEF ViewTypes
<1>11. /\ provider' \in [Interests -> Providers]
       /\ provider'[i] = e /\ \A j \in Interests \ {i} : provider'[j] = provider[j]
  BY <1>0, <1>2, <1>4 DEF PublisherInv
<1>12. PublisherInv'
  <2>1. \A j \in Interests : /\ provider'[j].notified \subseteq provider'[j].tracked
                             /\ provider'[j].evaluated \subseteq provider'[j].tracked
                             /\ provider'[j].tracked \subseteq Objects
    BY <1>0, <1>4, <1>5, <1>11 DEF PublisherInv, PublicationTypeOK
  <2>2. PublicationTypeOK'
    BY <1>0, <1>2, <2>1 DEF PublisherInv, PublicationTypeOK
  <2>3. \A j \in Interests : provider'[j].exists => Covers(provider'[j].tracked)
    BY <1>0, <1>4, <1>11 DEF PublisherInv
  <2> QED
    BY <1>0, <1>2, <1>11, <2>2, <2>3 DEF PublisherInv, Covers
<1>13. ListInv' /\ MuxCountsInterests'
  BY <1>0, <1>3 DEF ListInv, Listed, PresentAreListed, MuxCountsInterests, MuxHas
<1>14. ASSUME NEW j \in Interests
       PROVE  /\ ~left => pending'[j]["stopper"] = <<>>
              /\ \A k \in 1..Len(pending'[j]["subscriber"]) :
                   \E o \in Objects : pending'[j]["subscriber"][k] = Addition(o)
  <2>1. CASE j # i
    <3>1. pending'[j] = pending[j]
      BY <1>9, <2>1
    <3>2. /\ ~left => pending[j]["stopper"] = <<>>
          /\ \A k \in 1..Len(pending[j]["subscriber"]) :
               \E o \in Objects : pending[j]["subscriber"][k] = Addition(o)
      BY <1>0, Zenon DEF QueueInv
    <3> QED
      BY <3>1, <3>2, Zenon
  <2>2. CASE j = i
    BY <1>6, <1>8, <1>9, <2>2, Zenon
  <2> QED
    BY <2>1, <2>2
<1>15. ASSUME NEW j \in subscribed', NEW o \in provider'[j].notified
       PROVE  WillBePresent(j, o)'
  <2>1. CASE j # i
    <3>1. j \in subscribed /\ j \in Interests
      BY <1>0, <1>3, <2>1 DEF ViewTypes
    <3>2. o \in provider[j].notified
      BY <1>11, <2>1, <3>1
    <3>3. WillBePresent(j, o)
      BY <1>0, <3>1, <3>2 DEF QueueInv
    <3> QED
      BY <1>3, <1>9, <2>1, <3>1, <3>3 DEF WillBePresent, Stands
  <2>2. CASE j = i
    <3>1. \E k \in 1..Len(a) : a[k] = Addition(o)
      BY <1>6, <1>11, <2>2
    <3>2. Stands(q["owner"], 0, o)
      BY <1>8 DEF Stands
    <3> QED
      BY <1>8, <1>9, <2>2, <3>1, <3>2 DEF WillBePresent, Stands
  <2> QED
    BY <2>1, <2>2
<1>16. QueueInv'
  BY <1>2, <1>14, <1>15 DEF QueueInv
<1> QED
  BY <1>10, <1>12, <1>13, <1>16 DEF Inv

(* The end of a subscription. *)
LEMMA UnsubscribeKeeps ==
    ASSUME Inv, NEW i \in Interests, Unsubscribes(i)
    PROVE  Inv'
<1> USE ViewsAssumption DEF ViewsAssumption
<1>0. ViewTypes /\ PublisherInv /\ ListInv /\ MuxCountsInterests /\ QueueInv
  BY DEF Inv
<1>1. UNCHANGED <<pc, inCallback, newObjects, tempNewObjects, currentObjects, deletedObjects,
                  localObjectNames, matching, changed, ownListed, lastPresent, provider, left,
                  calls, flips, rejections, subscriptions>>
  BY DEF Unsubscribes, publicationVars, objectVars, valueVars, filterVars, boundVars
<1>2. PICK r : r = [added |-> NoNews,
                    removed |-> [o \in ViewObjects |-> IF o \in present[i] THEN 1 ELSE 0]]
  OBVIOUS
<1>3. /\ subscribed' = subscribed \ {i}
      /\ MuxTold(i, r)
      /\ pending' = [pending EXCEPT ![i] = EmptyQueue]
      /\ present' = [present EXCEPT ![i] = {}]
      /\ list' = [list EXCEPT ![i] = NoNews]
      /\ iteratorMap' = [iteratorMap EXCEPT ![i] = {}]
  BY <1>2 DEF Unsubscribes, Unsubscribe
<1>4. Balanced(i, r, {})
  <2>1. /\ r.added = [o \in Objects |-> 0]
        /\ r.removed = [o \in Objects |-> IF o \in present[i] THEN 1 ELSE 0]
    BY <1>2 DEF NoNews
  <2> QED
    BY <2>1 DEF Balanced, One
<1>5. /\ MuxCountsInterests'
      /\ muxPresent' \in [Objects -> [Interests -> Nat]] /\ muxListed' \subseteq Objects
  BY <1>0, <1>3, <1>4, MuxKeeps
<1>6. /\ EmptyQueue \in [Producers -> Seq(Actions)]
      /\ EmptyQueue["stopper"] = <<>> /\ EmptyQueue["subscriber"] = <<>>
  BY DEF EmptyQueue, Producers
<1>7. /\ pending' \in [Interests -> [Producers -> Seq(Actions)]]
      /\ pending'[i] = EmptyQueue /\ \A j \in Interests \ {i} : pending'[j] = pending[j]
  BY <1>0, <1>3, <1>6 DEF ViewTypes
<1>8. /\ present' \in [Interests -> SUBSET Objects] /\ present'[i] = {}
      /\ \A j \in Interests \ {i} : present'[j] = present[j]
  BY <1>0, <1>3 DEF ViewTypes
<1>9. /\ list' \in [Interests -> [Objects -> Nat]]
      /\ \A j \in Interests \ {i} : list'[j] = list[j]
  BY <1>0, <1>3 DEF ViewTypes, NoNews
<1>10. /\ iteratorMap' \in [Interests -> SUBSET Objects] /\ iteratorMap'[i] = {}
       /\ \A j \in Interests \ {i} : iteratorMap'[j] = iteratorMap[j]
  BY <1>0, <1>3 DEF ViewTypes
<1>11. ViewTypes'
  BY <1>0, <1>1, <1>3, <1>5, <1>7, <1>8, <1>9, <1>10 DEF ViewTypes
<1>12. ListInv'
  BY <1>0, <1>8, <1>9, <1>10 DEF ListInv, Listed, PresentAreListed
<1>13. PublisherInv'
  BY <1>0, <1>1 DEF PublisherInv, PublicationTypeOK, Covers
<1>14. ASSUME NEW j \in Interests
       PROVE  /\ ~left => pending'[j]["stopper"] = <<>>
              /\ \A k \in 1..Len(pending'[j]["subscriber"]) :
                   \E o \in Objects : pending'[j]["subscriber"][k] = Addition(o)
  <2>1. CASE j # i
    <3>1. pending'[j] = pending[j]
      BY <1>7, <2>1
    <3>2. /\ ~left => pending[j]["stopper"] = <<>>
          /\ \A k \in 1..Len(pending[j]["subscriber"]) :
               \E o \in Objects : pending[j]["subscriber"][k] = Addition(o)
      BY <1>0, Zenon DEF QueueInv
    <3> QED
      BY <3>1, <3>2, Zenon
  <2>2. CASE j = i
    BY <1>6, <1>7, <2>2
  <2> QED
    BY <2>1, <2>2
<1>15. ASSUME NEW j \in subscribed', NEW o \in provider[j].notified
       PROVE  WillBePresent(j, o)'
  <2>1. j \in subscribed /\ j \in Interests \ {i}
    BY <1>0, <1>3 DEF ViewTypes
  <2>2. WillBePresent(j, o)
    BY <1>0, <2>1 DEF QueueInv
  <2> QED
    BY <1>7, <1>8, <2>1, <2>2 DEF WillBePresent, Stands
<1>16. QueueInv'
  BY <1>0, <1>1, <1>14, <1>15 DEF QueueInv
<1> QED
  BY <1>5, <1>11, <1>12, <1>13, <1>16 DEF Inv

(* What a thread queues goes behind what it queued before; the other queues stay. *)
LEMMA QueuedBehind ==
    ASSUME ViewTypes, NEW t \in Producers, NEW news \in [Interests -> Seq(Actions)],
           pending' = Queued(t, news)
    PROVE  /\ pending' \in [Interests -> [Producers -> Seq(Actions)]]
           /\ \A i \in subscribed : pending'[i][t] = pending[i][t] \o news[i]
           /\ \A i \in Interests : \A u \in Producers \ {t} : pending'[i][u] = pending[i][u]
<1> USE ViewsAssumption DEF ViewsAssumption
<1>1. ASSUME NEW i \in Interests
      PROVE  /\ pending'[i] \in [Producers -> Seq(Actions)]
             /\ i \in subscribed => pending'[i][t] = pending[i][t] \o news[i]
             /\ \A u \in Producers \ {t} : pending'[i][u] = pending[i][u]
  <2>1. PICK q \in [Producers -> Seq(Actions)], w \in Seq(Actions) : q = pending[i] /\ w = news[i]
    BY DEF ViewTypes
  <2>2. pending'[i] = IF i \in subscribed THEN [q EXCEPT ![t] = @ \o w] ELSE q
    BY <2>1 DEF Queued
  <2>3. q[t] \o w \in Seq(Actions)
    OBVIOUS
  <2> QED
    BY <2>1, <2>2, <2>3
<1>2. pending' = [i \in Interests |-> pending'[i]]
  BY DEF Queued
<1>3. pending' \in [Interests -> [Producers -> Seq(Actions)]]
  BY <1>1, <1>2
<1>4. subscribed \subseteq Interests
  BY DEF ViewTypes
<1> QED
  BY <1>1, <1>3, <1>4

(* What stands in a queue does so behind more actions that do not remove the object, and what *)
(* stands among the new actions does so in the whole queue.                                   *)
Continues(e, q, w, o) ==
    /\ Len(e) \in Nat /\ Len(q) \in Nat /\ Len(q) <= Len(e)
    /\ \A k \in 1..Len(q) : e[k] = q[k]
    /\ \A k \in 1..Len(w) : Len(q) + k \in 1..Len(e) /\ e[Len(q) + k] = w[k]
    /\ (\A j \in 1..Len(w) : w[j] # Removal(o))
         => \A k \in 0..Len(q) : Stands(q, k, o) => Stands(e, k, o)
    /\ \A k \in 1..Len(w) : Stands(w, k, o) => Stands(e, Len(q) + k, o)

(* A queue and what is put behind it. *)
LEMMA StandsBehind ==
    ASSUME NEW q \in Seq(Actions), NEW w \in Seq(Actions), NEW e, e = q \o w, NEW o
    PROVE  Continues(e, q, w, o)
<1>1. /\ e \in Seq(Actions) /\ Len(e) = Len(q) + Len(w)
      /\ \A j \in 1..Len(q) : e[j] = q[j]
      /\ \A j \in 1..Len(w) : e[Len(q) + j] = w[j]
  BY TwoInRow
<1>2. PICK lq \in Nat, lw \in Nat : lq = Len(q) /\ lw = Len(w)
  OBVIOUS
<1>3. Len(e) = lq + lw
  BY <1>1, <1>2
<1>4. ASSUME NEW j \in 1..Len(e), j > lq PROVE j - lq \in 1..lw /\ e[j] = w[j - lq]
  <2>1. j - lq \in 1..lw /\ lq + (j - lq) = j
    BY <1>3, <1>4
  <2> QED
    BY <1>1, <1>2, <2>1
<1>5. ASSUME \A j \in 1..lw : w[j] # Removal(o), NEW k \in 0..lq, Stands(q, k, o)
      PROVE  Stands(e, k, o)
  <2> SUFFICES ASSUME NEW j \in (k + 1)..Len(e) PROVE e[j] # Removal(o)
    BY DEF Stands
  <2>0. j \in 1..Len(e) /\ j \in Nat
    BY <1>3
  <2>1. CASE j <= lq
    <3>1. j \in (k + 1)..lq /\ j \in 1..lq
      BY <2>0, <2>1
    <3> QED
      BY <1>1, <1>2, <1>5, <3>1 DEF Stands
  <2>2. CASE j > lq
    BY <1>4, <1>5, <2>0, <2>2
  <2> QED
    BY <2>0, <2>1, <2>2
<1>6. ASSUME NEW k \in 1..lw, Stands(w, k, o) PROVE Stands(e, lq + k, o)
  <2> SUFFICES ASSUME NEW j \in ((lq + k) + 1)..Len(e) PROVE e[j] # Removal(o)
    BY DEF Stands
  <2>1. j \in 1..Len(e) /\ j > lq /\ j - lq \in (k + 1)..lw
    BY <1>3
  <2> QED
    BY <1>2, <1>4, <1>6, <2>1 DEF Stands
<1>7. \A k \in 1..lw : lq + k \in 1..Len(e)
  BY <1>3
<1>8. Len(e) \in Nat /\ lq <= Len(e)
  BY <1>3
<1> QED
  BY <1>1, <1>2, <1>5, <1>6, <1>7, <1>8 DEF Continues

(* A provider in an evaluation: the deleted objects go, the new ones come. *)
LEMMA TrackingTypes ==
    ASSUME PublisherInv, NEW i \in Interests
    PROVE  /\ Tracking(i) \in Providers /\ Tracking(i).exists = provider[i].exists
           /\ Tracking(i).tracked = (provider[i].tracked \ deletedObjects) \union newObjects
           /\ Tracking(i).notified = provider[i].notified \ deletedObjects
<1>1. PICK p \in Providers : p = provider[i]
  BY DEF PublisherInv
<1>2. newObjects \subseteq Objects
  BY PublisherTypes DEF PublisherInv
<1>3. PICK s : s = StopTracking(p, deletedObjects)
  OBVIOUS
<1>4. /\ s \in Providers /\ s.exists = p.exists
      /\ s.tracked = p.tracked \ deletedObjects /\ s.notified = p.notified \ deletedObjects
  BY <1>3 DEF StopTracking, Providers
<1>5. PICK t : t = StartTracking(s, newObjects)
  OBVIOUS
<1>6. /\ t \in Providers /\ t.exists = s.exists
      /\ t.tracked = s.tracked \union newObjects /\ t.notified = s.notified
  BY <1>2, <1>4, <1>5 DEF StartTracking, Providers
<1>7. Tracking(i) = t
  BY <1>1, <1>3, <1>5, Zenon DEF Tracking
<1> QED
  BY <1>1, <1>4, <1>6, <1>7

(* What an evaluation queues: the addition of an object that appears stands, and an object that *)
(* neither goes nor is hidden is not removed.                                                   *)
NewsAre(w, G, A, H) ==
    /\ w \in Seq(Actions)
    /\ \A o \in A \ H : \E k \in 1..Len(w) : w[k] = Addition(o) /\ Stands(w, k, o)
    /\ \A o : o \notin G /\ o \notin H => \A j \in 1..Len(w) : w[j] # Removal(o)

(* The news of an evaluation, by the sets of objects they are about. *)
LEMMA NewsOf ==
    ASSUME NEW G, NEW A, NEW H, G \subseteq Objects, A \subseteq Objects, H \subseteq Objects,
           NEW w, w = Removals(G) \o Additions(A) \o Removals(H)
    PROVE  NewsAre(w, G, A, H)
<1>1. PICK g \in Seq(Actions), a \in Seq(Actions), h \in Seq(Actions) :
         g = Removals(G) /\ a = Additions(A) /\ h = Removals(H)
  BY AdditionsOf, RemovalsOf
<1>2. \A k \in 1..Len(g) : \E o \in G : g[k] = Removal(o)
  BY <1>1, RemovalsOf
<1>3. /\ \A k \in 1..Len(a) : \E o \in A : a[k] = Addition(o)
      /\ \A o \in A : \E k \in 1..Len(a) : a[k] = Addition(o)
  BY <1>1, AdditionsOf
<1>4. \A k \in 1..Len(h) : \E o \in H : h[k] = Removal(o)
  BY <1>1, RemovalsOf
<1>5. PICK lg \in Nat, la \in Nat, lh \in Nat : lg = Len(g) /\ la = Len(a) /\ lh = Len(h)
  OBVIOUS
<1>6. w = g \o a \o h
  BY <1>1
<1>7. /\ w \in Seq(Actions) /\ Len(w) = Len(g) + Len(a) + Len(h)
      /\ \A j \in 1..Len(g) : w[j] = g[j]
      /\ \A j \in 1..Len(a) : w[Len(g) + j] = a[j]
      /\ \A j \in 1..Len(h) : w[Len(g) + Len(a) + j] = h[j]
  BY <1>6, ThreeInRow
<1>8. /\ w \in Seq(Actions) /\ Len(w) = lg + la + lh
      /\ \A j \in 1..lg : w[j] = g[j]
      /\ \A j \in 1..la : w[lg + j] = a[j]
      /\ \A j \in 1..lh : w[lg + la + j] = h[j]
  BY <1>5, <1>7
<1>9. \A x, y : Addition(x) # Removal(y) /\ (Removal(x) = Removal(y) => x = y)
  BY DEF Addition, Removal
<1>10. ASSUME NEW j \in 1..Len(w)
       PROVE  \/ j <= lg /\ \E o \in G : w[j] = Removal(o)
              \/ \E o \in A : w[j] = Addition(o)
              \/ \E o \in H : w[j] = Removal(o)
  <2>0. j \in Nat /\ j >= 1 /\ j <= lg + la + lh
    BY <1>8
  <2>1. CASE j <= lg
    <3>1. j \in 1..lg
      BY <2>0, <2>1
    <3> QED
      BY <1>2, <1>5, <1>8, <2>1, <3>1
  <2>2. CASE j > lg /\ j <= lg + la
    <3>1. j - lg \in 1..la /\ lg + (j - lg) = j
      BY <2>0, <2>2
    <3> QED
      BY <1>3, <1>5, <1>8, <3>1
  <2>3. CASE j > lg + la
    <3>1. j - lg - la \in 1..lh /\ lg + la + (j - lg - la) = j
      BY <2>0, <2>3
    <3> QED
      BY <1>4, <1>5, <1>8, <3>1
  <2> QED
    BY <2>0, <2>1, <2>2, <2>3
<1>11. ASSUME NEW o \in A \ H
       PROVE  \E k \in 1..Len(w) : w[k] = Addition(o) /\ Stands(w, k, o)
  <2>1. PICK k \in 1..la : a[k] = Addition(o)
    BY <1>3, <1>5
  <2>2. lg + k \in 1..Len(w) /\ w[lg + k] = Addition(o)
    <3>1. lg + k \in 1..(lg + la + lh)
      OBVIOUS
    <3>2. w[lg + k] = a[k]
      BY <1>8
    <3>3. Len(w) = lg + la + lh
      BY <1>8
    <3> QED
      BY <2>1, <3>1, <3>2, <3>3, Zenon
  <2>3. ASSUME NEW j \in ((lg + k) + 1)..Len(w) PROVE w[j] # Removal(o)
    <3>1. j \in 1..Len(w) /\ ~(j <= lg)
      BY <1>8
    <3> QED
      BY <1>9, <1>10, <3>1, ZenonT(60)
  <2> QED
    BY <2>2, <2>3 DEF Stands
<1>12. ASSUME NEW o, o \notin G, o \notin H, NEW j \in 1..Len(w) PROVE w[j] # Removal(o)
  BY <1>9, <1>10, <1>12
<1> QED
  BY <1>8, <1>11, <1>12 DEF NewsAre

(* An evaluation for the others. *)
LEMMA EvaluateKeeps ==
    ASSUME Inv, OwnerEvaluates
    PROVE  Inv'
<1> USE ViewsAssumption DEF ViewsAssumption
<1>0. ViewTypes /\ PublisherInv /\ ListInv /\ MuxCountsInterests /\ QueueInv
  BY DEF Inv
<1>1. PICK news : news = [i \in Interests |->
                            Removals(Gone(i)) \o Additions(Appeared(i)) \o Removals(Hidden(i))]
  OBVIOUS
<1>2. /\ pc = "own_evaluated" /\ pc' = "evaluated" /\ inCallback' = FALSE
      /\ provider' = [i \in Interests |-> IF provider[i].exists THEN Evaluated(i) ELSE NoProvider]
      /\ lastPresent' = Snapshot
      /\ UNCHANGED <<newObjects, tempNewObjects, currentObjects, deletedObjects, localObjectNames,
                     matching, changed, ownListed, left, calls, flips, rejections>>
  BY DEF OwnerEvaluates, Evaluate, objectVars, valueVars, boundVars
<1>3. /\ pending' = Queued("owner", news)
      /\ UNCHANGED <<subscribed, present, list, iteratorMap, muxPresent, muxListed, subscriptions>>
  BY <1>1 DEF OwnerEvaluates, Enqueue, listVars, muxVars
<1>4. ~left /\ ~left'
  BY <1>0, <1>2 DEF PublisherInv
<1>5. ASSUME NEW i \in Interests
      PROVE  /\ Evaluated(i) \in Providers /\ Evaluated(i).exists = provider[i].exists
             /\ Evaluated(i).tracked = (provider[i].tracked \ deletedObjects) \union newObjects
             /\ Evaluated(i).notified \subseteq Evaluated(i).tracked
             /\ Evaluated(i).evaluated \subseteq Evaluated(i).tracked
             /\ Evaluated(i).tracked \subseteq Objects
             /\ Tracking(i).notified = provider[i].notified \ deletedObjects
             /\ Tracking(i).notified \subseteq Objects
             /\ provider[i].notified \subseteq Objects
  <2>1. PICK t : t = Tracking(i)
    OBVIOUS
  <2>2. /\ t \in Providers /\ t.exists = provider[i].exists
        /\ t.tracked = (provider[i].tracked \ deletedObjects) \union newObjects
        /\ t.notified = provider[i].notified \ deletedObjects
    BY <1>0, <2>1, TrackingTypes
  <2>3. /\ Evaluated(i) \in Providers /\ Evaluated(i).exists = t.exists
        /\ Evaluated(i).tracked = t.tracked
        /\ Evaluated(i).notified \subseteq Evaluated(i).tracked
        /\ Evaluated(i).evaluated \subseteq Evaluated(i).tracked
    BY <2>1, <2>2, EvaluationTypes DEF Evaluated
  <2>4. t.tracked \subseteq Objects /\ t.notified \subseteq Objects
    BY <2>2 DEF Providers
  <2>5. provider[i].notified \subseteq Objects
    BY <1>0 DEF PublisherInv, Providers
  <2> QED
    BY <2>1, <2>2, <2>3, <2>4, <2>5
<1>6. ASSUME NEW i \in Interests
      PROVE  /\ news[i] \in Seq(Actions)
             /\ \A o \in Appeared(i) :
                  \E k \in 1..Len(news[i]) : news[i][k] = Addition(o) /\ Stands(news[i], k, o)
             /\ \A o : o \notin Gone(i) /\ o \notin Hidden(i)
                         => \A j \in 1..Len(news[i]) : news[i][j] # Removal(o)
  <2>1. Gone(i) \subseteq Objects /\ Appeared(i) \subseteq Objects /\ Hidden(i) \subseteq Objects
    BY <1>5 DEF Gone, Appeared, Hidden
  <2>2. Appeared(i) \ Hidden(i) = Appeared(i)
    BY DEF Appeared, Hidden
  <2>3. PICK G, A, H, w : /\ G = Gone(i) /\ A = Appeared(i) /\ H = Hidden(i)
                          /\ w = Removals(G) \o Additions(A) \o Removals(H)
    OBVIOUS
  <2>4. news[i] = w
    BY <1>1, <2>3
  <2>5. G \subseteq Objects /\ A \subseteq Objects /\ H \subseteq Objects
    BY <2>1, <2>3
  <2>6. NewsAre(w, G, A, H)
    BY <2>3, <2>5, NewsOf
  <2>7. A \ H = A
    BY <2>2, <2>3
  <2> QED
    BY <2>3, <2>4, <2>6, <2>7, Zenon DEF NewsAre
<1>7. news \in [Interests -> Seq(Actions)]
  <2>1. news = [i \in Interests |-> news[i]]
    BY <1>1
  <2> QED
    BY <1>6, <2>1
<1>8. "owner" \in Producers /\ "subscriber" \in Producers /\ "stopper" \in Producers
  BY DEF Producers
<1>9. /\ pending' \in [Interests -> [Producers -> Seq(Actions)]]
      /\ \A i \in subscribed : pending'[i]["owner"] = pending[i]["owner"] \o news[i]
      /\ \A i \in Interests : /\ pending'[i]["subscriber"] = pending[i]["subscriber"]
                              /\ pending'[i]["stopper"] = pending[i]["stopper"]
  <2>1. /\ pending' \in [Interests -> [Producers -> Seq(Actions)]]
        /\ \A i \in subscribed : pending'[i]["owner"] = pending[i]["owner"] \o news[i]
        /\ \A i \in Interests : \A u \in Producers \ {"owner"} : pending'[i][u] = pending[i][u]
    BY <1>0, <1>3, <1>7, <1>8, QueuedBehind
  <2> QED
    BY <1>8, <2>1
<1>10. ViewTypes'
  BY <1>0, <1>3, <1>9 DEF ViewTypes
<1>11. ListInv' /\ MuxCountsInterests'
  BY <1>0, <1>3 DEF ListInv, Listed, PresentAreListed, MuxCountsInterests, MuxHas
<1>12. /\ NoProvider \in Providers /\ NoProvider.notified = {} /\ NoProvider.evaluated = {}
       /\ NoProvider.tracked = {} /\ ~NoProvider.exists
  BY DEF NoProvider, Providers
<1>13. ASSUME NEW i \in Interests
       PROVE  /\ provider'[i] \in Providers
              /\ provider'[i].notified \subseteq provider'[i].tracked
              /\ provider'[i].evaluated \subseteq provider'[i].tracked
              /\ provider'[i].tracked \subseteq Objects
              /\ provider'[i].exists => /\ provider[i].exists
                                        /\ provider'[i].tracked =
                                             (provider[i].tracked \ deletedObjects) \union newObjects
              /\ provider'[i].notified # {} => provider'[i] = Evaluated(i)
  <2>1. CASE provider[i].exists
    <3>1. provider'[i] = Evaluated(i)
      BY <1>2, <2>1
    <3> QED
      BY <1>5, <2>1, <3>1
  <2>2. CASE ~provider[i].exists
    <3>1. provider'[i] = NoProvider
      BY <1>2, <2>2
    <3> QED
      BY <1>12, <3>1
  <2> QED
    BY <2>1, <2>2
<1>14. PublisherInv'
  <2>1. provider' \in [Interests -> Providers]
    <3>1. provider' = [i \in Interests |-> provider'[i]]
      BY <1>2
    <3> QED
      BY <1>13, <3>1
  <2>2. lastPresent' \subseteq Objects
    BY <1>0, <1>2, PublisherTypes DEF PublisherInv, Snapshot
  <2>3. PublicationTypeOK'
    <3>1. inCallback' \in BOOLEAN
      BY <1>2, Zenon
    <3>2. pc' \in Stages
      BY <1>2 DEF Stages
    <3> QED
      BY <1>0, <1>2, <1>13, <2>2, <3>1, <3>2 DEF PublisherInv, PublicationTypeOK
  <2>4. Covers(lastPresent)'
    BY <1>2 DEF Covers, Snapshot
  <2>5. ASSUME NEW i \in Interests, provider'[i].exists PROVE Covers(provider[i].tracked)'
    <3>1. currentObjects \subseteq provider[i].tracked
      BY <1>0, <1>2, <1>13, <2>5 DEF PublisherInv, Covers
    <3>2. provider'[i].tracked = (provider[i].tracked \ deletedObjects) \union newObjects
      BY <1>13, <2>5
    <3> QED
      BY <1>2, <3>1, <3>2 DEF Covers
  <2> QED
    BY <1>2, <1>4, <2>1, <2>3, <2>4, <2>5 DEF PublisherInv
<1>15. ASSUME NEW i \in subscribed, NEW o \in provider'[i].notified
       PROVE  WillBePresent(i, o)'
  <2>1. i \in Interests
    BY <1>0 DEF ViewTypes
  <2>2. o \in Evaluated(i).notified
    BY <1>13, <2>1
  <2>3. PICK q \in Seq(Actions), w \in Seq(Actions) : q = pending[i]["owner"] /\ w = news[i]
    BY <1>0, <1>6, <1>8, <2>1 DEF ViewTypes
  <2>4. PICK e : e = q \o w
    OBVIOUS
  <2>5. pending'[i]["owner"] = e
    BY <1>9, <2>3, <2>4
  <2>6. Continues(e, q, w, o)
    BY <2>4, StandsBehind
  <2>7. CASE o \in Appeared(i)
    <3>1. PICK k \in 1..Len(w) : w[k] = Addition(o) /\ Stands(w, k, o)
      BY <1>6, <2>1, <2>3, <2>7
    <3>2. PICK m \in 1..Len(e) : e[m] = Addition(o) /\ Stands(e, m, o)
      BY <2>6, <3>1 DEF Continues
    <3> QED
      BY <2>5, <3>2 DEF WillBePresent, Stands
  <2>8. CASE o \notin Appeared(i)
    <3>1. o \in provider[i].notified /\ o \notin deletedObjects
      BY <1>5, <2>1, <2>2, <2>8 DEF Appeared
    <3>2. o \notin Gone(i) /\ o \notin Hidden(i)
      BY <2>2, <3>1 DEF Gone, Hidden
    <3>3. \A j \in 1..Len(w) : w[j] # Removal(o)
      BY <1>6, <2>1, <2>3, <3>2
    <3>4. \A k \in 0..Len(q) : Stands(q, k, o) => Stands(e, k, o)
      BY <2>6, <3>3 DEF Continues
    <3>5. WillBePresent(i, o)
      BY <1>0, <3>1 DEF QueueInv
    <3>6. CASE \E k \in 1..Len(q) : q[k] = Addition(o) /\ Stands(q, k, o)
      <4>1. PICK k \in 1..Len(q) : q[k] = Addition(o) /\ Stands(q, k, o)
        BY <3>6
      <4>2. k \in 0..Len(q) /\ k \in 1..Len(e) /\ e[k] = Addition(o)
        BY <2>6, <4>1 DEF Continues
      <4>3. Stands(e, k, o)
        BY <3>4, <4>1, <4>2
      <4> QED
        BY <2>5, <4>2, <4>3 DEF WillBePresent, Stands
    <3>7. CASE Stands(q, 0, o) /\ (\/ o \in present[i]
                                   \/ \E k \in 1..Len(pending[i]["subscriber"]) :
                                         pending[i]["subscriber"][k] = Addition(o))
      <4>1. Stands(e, 0, o)
        BY <2>6, <3>4, <3>7 DEF Continues
      <4> QED
        BY <1>3, <1>9, <2>1, <2>5, <3>7, <4>1 DEF WillBePresent, Stands
    <3> QED
      BY <2>3, <3>5, <3>6, <3>7 DEF WillBePresent
  <2> QED
    BY <2>7, <2>8
<1>16. QueueInv'
  <2>1. ASSUME NEW i \in Interests
        PROVE  /\ pending'[i]["stopper"] = <<>>
               /\ \A k \in 1..Len(pending'[i]["subscriber"]) :
                    \E o \in Objects : pending'[i]["subscriber"][k] = Addition(o)
    <3>1. /\ pending[i]["stopper"] = <<>>
          /\ \A k \in 1..Len(pending[i]["subscriber"]) :
               \E o \in Objects : pending[i]["subscriber"][k] = Addition(o)
      BY <1>0, <1>4, Zenon DEF QueueInv
    <3>2. /\ pending'[i]["subscriber"] = pending[i]["subscriber"]
          /\ pending'[i]["stopper"] = pending[i]["stopper"]
      BY <1>9
    <3> QED
      BY <3>1, <3>2, Zenon
  <2> QED
    BY <1>3, <1>4, <1>15, <2>1 DEF QueueInv
<1> QED
  BY <1>10, <1>11, <1>14, <1>16 DEF Inv

(* The participant leaves its bus: nothing is shown any more. *)
LEMMA LeaveKeeps ==
    ASSUME Inv, OwnerLeaves
    PROVE  Inv'
<1> USE ViewsAssumption DEF ViewsAssumption
<1>0. ViewTypes /\ PublisherInv /\ ListInv /\ MuxCountsInterests /\ QueueInv
  BY DEF Inv
<1>1. PICK news : news = [i \in Interests |-> Removals(provider[i].notified)]
  OBVIOUS
<1>2. /\ pc = "idle" /\ ~left /\ left' = TRUE
      /\ provider' = [i \in Interests |-> NoProvider]
      /\ UNCHANGED <<pc, inCallback, newObjects, tempNewObjects, currentObjects, deletedObjects,
                     localObjectNames, matching, changed, ownListed, lastPresent,
                     calls, flips, rejections>>
  BY DEF OwnerLeaves, Leave, objectVars, valueVars, boundVars
<1>3. /\ pending' = Queued("stopper", news)
      /\ UNCHANGED <<subscribed, present, list, iteratorMap, muxPresent, muxListed, subscriptions>>
  BY <1>1 DEF OwnerLeaves, Enqueue, listVars, muxVars
<1>4. news \in [Interests -> Seq(Actions)]
  <2>1. ASSUME NEW i \in Interests PROVE news[i] \in Seq(Actions)
    <3>1. PICK S : S = provider[i].notified
      OBVIOUS
    <3>2. S \subseteq Objects
      BY <1>0, <3>1 DEF PublisherInv, Providers
    <3>3. news[i] = Removals(S)
      BY <1>1, <3>1
    <3> QED
      BY <3>2, <3>3, RemovalsOf
  <2>2. news = [i \in Interests |-> news[i]]
    BY <1>1
  <2> QED
    BY <2>1, <2>2
<1>5. "owner" \in Producers /\ "subscriber" \in Producers /\ "stopper" \in Producers
  BY DEF Producers
<1>6. /\ pending' \in [Interests -> [Producers -> Seq(Actions)]]
      /\ \A i \in Interests : pending'[i]["subscriber"] = pending[i]["subscriber"]
  <2>1. /\ pending' \in [Interests -> [Producers -> Seq(Actions)]]
        /\ \A i \in Interests : \A u \in Producers \ {"stopper"} : pending'[i][u] = pending[i][u]
    BY <1>0, <1>3, <1>4, <1>5, QueuedBehind
  <2> QED
    BY <1>5, <2>1
<1>7. ViewTypes'
  BY <1>0, <1>3, <1>6 DEF ViewTypes
<1>8. ListInv' /\ MuxCountsInterests'
  BY <1>0, <1>3 DEF ListInv, Listed, PresentAreListed, MuxCountsInterests, MuxHas
<1>9. /\ NoProvider \in Providers /\ NoProvider.notified = {} /\ NoProvider.evaluated = {}
      /\ NoProvider.tracked = {} /\ ~NoProvider.exists
  BY DEF NoProvider, Providers
<1>10. \A i \in Interests : provider'[i] = NoProvider
  BY <1>2
<1>11. PublisherInv'
  <2>1. provider' \in [Interests -> Providers]
    BY <1>2, <1>9
  <2>2. left' \in BOOLEAN
    BY <1>2, Zenon
  <2>3. PublicationTypeOK'
    BY <1>0, <1>2, <1>9, <1>10, <2>2 DEF PublisherInv, PublicationTypeOK
  <2>4. Covers(lastPresent)'
    BY <1>0, <1>2 DEF PublisherInv, Covers
  <2>5. \A i \in Interests : ~provider'[i].exists
    BY <1>9, <1>10
  <2> QED
    BY <1>2, <2>1, <2>3, <2>4, <2>5 DEF PublisherInv
<1>12. \A i \in Interests : provider'[i].notified = {}
  BY <1>9, <1>10
<1>13. QueueInv'
  <2>1. ASSUME NEW i \in Interests
        PROVE  \A k \in 1..Len(pending'[i]["subscriber"]) :
                 \E o \in Objects : pending'[i]["subscriber"][k] = Addition(o)
    <3>1. \A k \in 1..Len(pending[i]["subscriber"]) :
            \E o \in Objects : pending[i]["subscriber"][k] = Addition(o)
      BY <1>0, Zenon DEF QueueInv
    <3> QED
      BY <1>6, <3>1, Zenon
  <2>2. \A i \in subscribed' : provider'[i].notified = {}
    BY <1>0, <1>3, <1>12 DEF ViewTypes
  <2> QED
    BY <1>2, <1>12, <2>1, <2>2 DEF QueueInv
<1> QED
  BY <1>7, <1>8, <1>11, <1>13 DEF Inv

(* Every step keeps the invariant. *)
LEMMA NextKeeps == Inv /\ [Next]_vars => Inv'
<1> SUFFICES ASSUME Inv, [Next]_vars PROVE Inv'
  OBVIOUS
<1>1. CASE \E o \in Objects : OwnerCalls(o) \/ OwnerRejected(o)
  BY <1>1, OwnerKeeps
<1>2. CASE OwnerCommits \/ OwnerEvaluatesItsOwn \/ OwnerFinishes
  BY <1>2, OwnerKeeps
<1>3. CASE OwnerEvaluates
  BY <1>3, EvaluateKeeps
<1>4. CASE OwnerLeaves
  BY <1>4, LeaveKeeps
<1>5. ASSUME NEW i \in Interests, Subscribes(i) PROVE Inv'
  BY <1>5, SubscribeKeeps
<1>6. ASSUME NEW i \in Interests, Unsubscribes(i) PROVE Inv'
  BY <1>6, UnsubscribeKeeps
<1>7. ASSUME NEW i \in Interests, Drains(i) PROVE Inv'
  BY <1>7, DrainKeeps
<1>8. CASE UNCHANGED vars
  <2>1. UNCHANGED <<viewVars, subscriptions>>
    BY <1>8 DEF vars
  <2>2. UNCHANGED <<pc, inCallback, newObjects, tempNewObjects, currentObjects, deletedObjects,
                    localObjectNames, matching, changed, ownListed, lastPresent, provider, left,
                    calls, flips, rejections>>
    BY <1>8 DEF vars, publicationVars, objectVars, valueVars, filterVars, boundVars
  <2>3. PublisherInv'
    BY <2>2 DEF Inv, PublisherInv, PublicationTypeOK, Covers
  <2> QED
    BY <2>1, <2>2, <2>3, ViewFrame
<1> QED
  BY <1>1, <1>2, <1>3, <1>4, <1>5, <1>6, <1>7, <1>8 DEF Next

(* The invariant holds in every reachable state. *)
LEMMA Invariance == Spec => []Inv
BY InitInv, NextKeeps, PTL DEF Spec

----------------------------------------------------------------------------
(* In whatever order the calls, a rejection, a commit and the subscriptions came, the           *)
(* containers of the publisher agree, and at the end of a commit every provider tracks every    *)
(* published object (local_participant.cpp add, removeSingleObject and flushOutputs;            *)
(* object_filter.cpp evaluate and addSubscriber).                                               *)
THEOREM FlowStaysSound == Spec => []FlowIsSound
<1>1. ASSUME Inv PROVE FlowIsSound
  <2>1. TypeOK
    BY <1>1 DEF Inv, ViewTypes, PublisherInv, ListInv, TypeOK
  <2>2. PublishedAreTracked
    BY <1>1 DEF Inv, PublisherInv, Covers, PublishedAreTracked
  <2> QED
    BY <2>1, <2>2 DEF FlowIsSound
<1> QED
  BY <1>1, Invariance, PTL

(* An object a filter shows is present in the manager of its interest once no action on it waits, *)
(* however the queues of the three threads are merged (object_filter.cpp evaluateTrackedObjects;  *)
(* proxy_manager.cpp processPendingActions).                                                      *)
THEOREM ShownBecomePresent == Spec => []ShownArePresent
<1>1. ASSUME Inv PROVE ShownArePresent
  <2> SUFFICES ASSUME NEW i \in subscribed, NEW o \in provider[i].notified, NothingPending(i, o)
               PROVE  o \in present[i]
    BY DEF ShownArePresent
  <2>1. WillBePresent(i, o)
    BY <1>1 DEF Inv, QueueInv
  <2>2. "owner" \in Producers /\ "subscriber" \in Producers
    BY DEF Producers
  <2>3. Addition(o).object = o
    BY DEF Addition
  <2>4. /\ \A k \in 1..Len(pending[i]["owner"]) : pending[i]["owner"][k] # Addition(o)
        /\ \A k \in 1..Len(pending[i]["subscriber"]) : pending[i]["subscriber"][k] # Addition(o)
    BY <2>2, <2>3 DEF NothingPending
  <2> QED
    BY <2>1, <2>4, Zenon DEF WillBePresent
<1> QED
  BY <1>1, Invariance, PTL

(* An object present in a manager is in the subscription's list, even if it was removed and added *)
(* again between two drains (object_list.h onObjectsAdded and onObjectsRemoved).                  *)
THEOREM PresentStayListed == Spec => []PresentAreListed
<1>1. Inv => PresentAreListed
  BY DEF Inv, ListInv
<1> QED
  BY <1>1, Invariance, PTL

(* The mux holds exactly one entry for every interest in which an object is present, and its *)
(* listener knows the objects with an entry (object_mux.cpp onObjectsAdded and               *)
(* onObjectsRemoved).                                                                        *)
THEOREM MuxKeepsCount == Spec => []MuxCountsInterests
<1>1. Inv => MuxCountsInterests
  BY DEF Inv
<1> QED
  BY <1>1, Invariance, PTL

=============================================================================
