--------------------------- MODULE HealQueueProofs ---------------------------
(***************************************************************************)
(* Proofs about HealQueue for all keys, disks, importances and limits.     *)
(***************************************************************************)
EXTENDS HealQueue, TLAPS, SequenceTheorems, FiniteSetTheorems, WellFoundedInduction

-----------------------------------------------------------------------------
(* Numbers and finite sets: induction over a set a proof can instantiate,  *)
(* and extrema.                                                            *)

\* A non-empty set of natural numbers has a least element.
LEMMA NatLeast ==
  ASSUME NEW S \in SUBSET Nat, S # {}
  PROVE  \E x \in S : \A y \in S : x <= y
<1>1. PICK x \in S : \A y \in S : <<y, x>> \notin OpToRel(<, Nat)
  BY WFMin, NatLessThanWellFounded, Zenon
<1>2. \A y \in S : ~ (y < x)
  <2>1. x \in Nat /\ \A y \in S : y \in Nat
    OBVIOUS
  <2> QED BY <1>1, <2>1, Zenon DEF OpToRel
<1> QED BY <1>2

\* Min of a set of natural numbers.
LEMMA MinIsLeast ==
  ASSUME NEW S \in SUBSET Nat, S # {}
  PROVE  Min(S) \in S /\ \A y \in S : Min(S) <= y
BY NatLeast DEF Min

\* Max of a bounded set of natural numbers.
LEMMA MaxIsGreatest ==
  ASSUME NEW S \in SUBSET Nat, S # {}, NEW m \in Nat, \A x \in S : x <= m
  PROVE  Max(S) \in S /\ \A y \in S : Max(S) >= y
<1> DEFINE T == {n \in Nat : m - n \in S}
<1>0. \A x \in S : m - x \in T
  BY \A x \in S : m - (m - x) = x /\ m - x \in Nat
<1>1. T \in SUBSET Nat /\ T # {}
  BY <1>0
<1>2. PICK t \in T : \A y \in T : t <= y
  BY <1>1, NatLeast
<1>3. \A y \in S : m - t >= y
  <2> TAKE y \in S
  <2>1. t <= m - y
    BY <1>0, <1>2
  <2> QED BY <2>1
<1> QED BY <1>2, <1>3 DEF Max

-----------------------------------------------------------------------------
(* Sequences. *)

\* What RemoveAt leaves: the other elements, and nothing else.
LEMMA RemoveAtProperties ==
  ASSUME NEW S, NEW s \in Seq(S), NEW i \in DOMAIN s
  PROVE  /\ RemoveAt(s, i) \in Seq(S)
         /\ \A j \in DOMAIN s : j # i => \E n \in DOMAIN RemoveAt(s, i) : RemoveAt(s, i)[n] = s[j]
         /\ \A n \in DOMAIN RemoveAt(s, i) : \E j \in DOMAIN s : RemoveAt(s, i)[n] = s[j]
<1> DEFINE a == SubSeq(s, 1, i - 1)
           b == SubSeq(s, i + 1, Len(s))
<1>0. i \in 1 .. Len(s) /\ Len(s) \in Nat /\ DOMAIN s = 1 .. Len(s)
  BY LenProperties
<1>1. /\ a \in Seq(S) /\ Len(a) = i - 1
      /\ \A n \in 1 .. i - 1 : a[n] = s[n]
  BY <1>0, SubSeqProperties, ElementOfSeq
<1>2. /\ b \in Seq(S) /\ Len(b) = Len(s) - i
      /\ \A n \in 1 .. Len(s) - i : b[n] = s[i + n]
  BY <1>0, SubSeqProperties, ElementOfSeq
<1> HIDE DEF a, b
<1> DEFINE c == a \o b
<1>3. /\ c \in Seq(S) /\ Len(c) = Len(a) + Len(b)
      /\ \A n \in 1 .. Len(a) + Len(b) : c[n] = IF n <= Len(a) THEN a[n] ELSE b[n - Len(a)]
  BY <1>1, <1>2, ConcatProperties
<1>4. RemoveAt(s, i) = c
  BY DEF RemoveAt, a, b
<1> HIDE DEF c
<1>5. Len(c) = Len(s) - 1 /\ DOMAIN c = 1 .. Len(s) - 1
  <2>1. Len(c) = Len(s) - 1
    BY <1>0, <1>1, <1>2, <1>3
  <2> QED BY <2>1, <1>3, LenProperties
<1>6. ASSUME NEW n \in 1 .. Len(s) - 1
      PROVE  c[n] = IF n <= i - 1 THEN s[n] ELSE s[n + 1]
  <2>1. n \in 1 .. Len(a) + Len(b)
    BY <1>0, <1>1, <1>2
  <2>2. CASE n <= i - 1
    BY <2>1, <2>2, <1>0, <1>1, <1>3
  <2>3. CASE ~ (n <= i - 1)
    <3>1. n - (i - 1) \in 1 .. Len(s) - i /\ i + (n - (i - 1)) = n + 1
      BY <2>3, <1>0
    <3>2. c[n] = b[n - (i - 1)]
      BY <2>1, <2>3, <1>0, <1>1, <1>3
    <3> QED BY <2>3, <3>1, <3>2, <1>2
  <2> QED BY <2>2, <2>3
<1>7. ASSUME NEW j \in 1 .. Len(s), j # i
      PROVE  \E n \in 1 .. Len(s) - 1 : c[n] = s[j]
  <2>1. CASE j < i
    <3>1. j \in 1 .. Len(s) - 1 /\ j <= i - 1
      BY <2>1, <1>0
    <3> QED BY <3>1, <1>6
  <2>2. CASE j > i
    <3>1. j - 1 \in 1 .. Len(s) - 1 /\ ~ (j - 1 <= i - 1) /\ (j - 1) + 1 = j
      BY <2>2, <1>0
    <3> QED BY <3>1, <1>6
  <2> QED BY <1>7, <2>1, <2>2, <1>0
<1>8. ASSUME NEW n \in 1 .. Len(s) - 1
      PROVE  \E j \in 1 .. Len(s) : c[n] = s[j]
  <2>1. n \in 1 .. Len(s) /\ n + 1 \in 1 .. Len(s)
    BY <1>0
  <2> QED BY <2>1, <1>6
<1> QED BY <1>0, <1>3, <1>4, <1>5, <1>7, <1>8

\* The place SelectInSeq finds holds an element of the set, when there is one.
LEMMA SelectMember ==
  ASSUME NEW S, NEW s \in Seq(S), NEW h, \E i \in 1 .. Len(s) : s[i] \in h
  PROVE  LET d == SelectInSeq(s, LAMBDA t : t \in h)
         IN  d \in 1 .. Len(s) /\ s[d] \in h
<1> DEFINE I == {i \in 1 .. Len(s) : s[i] \in h}
<1>1. SelectInSeq(s, LAMBDA t : t \in h) = IF I # {} THEN Min(I) ELSE 0
  BY Zenon DEF SelectInSeq
<1>2. I \in SUBSET Nat /\ I # {}
  OBVIOUS
<1> QED BY <1>1, <1>2, MinIsLeast

-----------------------------------------------------------------------------
(* Counting: one element enters or leaves the counted set. *)

LEMMA CountUp ==
  ASSUME NEW S, IsFiniteSet(S), NEW T, NEW x, x \notin S, T = S \cup {x}
  PROVE  IsFiniteSet(T) /\ Cardinality(T) = Cardinality(S) + 1
BY FS_AddElement

LEMMA CountDown ==
  ASSUME NEW S, IsFiniteSet(S), NEW T, NEW x \in S, T = S \ {x}
  PROVE  IsFiniteSet(T) /\ Cardinality(T) = Cardinality(S) - 1
BY FS_RemoveElement

-----------------------------------------------------------------------------
(* The inductive invariant. *)

AtWork == {"slot", "over", "release"}

\* What the phase of the drain says about its locals; work is left only when
\* the shared index has passed the batch.
PhaseShape ==
  /\ phase # "work" => next = 1 /\ \A w \in W : wpc[w] = "done"
  /\ phase \in {"idle", "requeue"} => batch = << >>
  /\ phase \in {"idle", "pop"} => deferred = << >>
  /\ phase = "work" => next > Len(batch) \/ \E w \in W : wpc[w] # "done"
  /\ Len(batch) <= MaxBatch /\ next >= 1

\* What the place of a worker says about its item and its slots: while it
\* acquires, it holds exactly the first disks of its key.
ShapeOf(w) ==
  /\ wpc[w] \in {"take", "done"} => held[w] = {}
  /\ ok[w] => wpc[w] = "release"
  /\ wpc[w] \in AtWork => item[w] \in 1 .. Len(batch) /\ item[w] < next
  /\ wpc[w] \in {"slot", "over"} =>
       /\ Cardinality(held[w]) \in 0 .. Len(Targets(w))
       /\ held[w] = {Targets(w)[i] : i \in 1 .. Cardinality(held[w])}
  /\ wpc[w] = "over" => Cardinality(held[w]) < Len(Targets(w))
  /\ wpc[w] = "release" => held[w] \subseteq Range(Targets(w))
WorkerShape == \A w \in W : ShapeOf(w)

\* Workers have items of their own, and items have keys of their own.
ItemsApart ==
  \A v, w \in W : v # w /\ wpc[v] \in AtWork /\ wpc[w] \in AtWork => item[v] # item[w]
KeysApart == \A i, j \in DOMAIN batch : i # j => batch[i].key # batch[j].key

\* While a batch is popped its keys are out of the map, and no item left in the
\* heap, stale ones included, outranks it.
BatchTaken ==
  phase = "pop" => \A i \in DOMAIN batch :
    /\ dedup[batch[i].key] = 0
    /\ \A j \in DOMAIN heap : heap[j].prio <= batch[i].prio

Inv ==
  /\ TypeOK /\ PhaseShape /\ WorkerShape /\ ItemsApart
  /\ KeysApart /\ BatchTaken /\ QueuedIsReachable /\ Bulkhead

-----------------------------------------------------------------------------
(* The operators the actions are built from. *)

\* Pop takes an item of the heap, and none outranks it.
LEMMA TopIsFirst ==
  ASSUME TypeOK, heap # << >>
  PROVE  Top \in DOMAIN heap /\ \A j \in DOMAIN heap : heap[j].prio <= heap[Top].prio
<1> DEFINE P == {heap[i].prio : i \in DOMAIN heap}
<1>0. /\ DOMAIN heap = 1 .. Len(heap) /\ Len(heap) \in Nat \ {0}
      /\ \A i \in DOMAIN heap : heap[i] \in Item
  BY LenProperties, EmptySeq, ElementOfSeq DEF TypeOK
<1>1. P \subseteq Prios /\ P # {}
  <2>1. 1 \in DOMAIN heap
    BY <1>0
  <2>2. \A i \in DOMAIN heap : heap[i].prio \in Prios
    BY <1>0 DEF Item
  <2> QED BY <2>1, <2>2
<1>2. PICK m \in Nat : \A p \in Prios : p <= m
  BY HealAssumption
<1>3. P \in SUBSET Nat /\ \A p \in P : p <= m
  BY <1>1, <1>2, HealAssumption
<1>4. Max(P) \in P /\ \A p \in P : Max(P) >= p
  <2> HIDE DEF P
  <2> QED BY <1>1, <1>3, MaxIsGreatest
<1> DEFINE I == {i \in DOMAIN heap : heap[i].prio = Max(P)}
<1>5. I \in SUBSET Nat /\ I # {}
  <2>1. \E i \in DOMAIN heap : heap[i].prio = Max(P)
    BY <1>4
  <2> HIDE DEF P
  <2> QED BY <2>1, <1>0
<1>6. PICK i \in I : \A j \in I : i <= j
  BY <1>5, NatLeast
<1>7. \A j \in DOMAIN heap : heap[j].prio \in Nat /\ heap[j].prio <= Max(P)
  BY <1>3, <1>4
<1>8. Max(P) \in Nat
  BY <1>3, <1>4
<1>9. \A j \in DOMAIN heap :
        heap[j].prio < heap[i].prio \/ (heap[j].prio = heap[i].prio /\ i <= j)
  <2> TAKE j \in DOMAIN heap
  <2>1. heap[i].prio = Max(P)
    BY <1>6
  <2>2. CASE heap[j].prio = Max(P)
    BY <2>1, <2>2, <1>6
  <2>3. CASE heap[j].prio # Max(P)
    <3> HIDE DEF P
    <3> QED BY <2>1, <2>3, <1>7, <1>8
  <2> QED BY <2>2, <2>3
<1>10. /\ Top \in DOMAIN heap
       /\ \A j \in DOMAIN heap :
            heap[j].prio < heap[Top].prio \/ (heap[j].prio = heap[Top].prio /\ Top <= j)
  <2>1. \E x \in DOMAIN heap : \A j \in DOMAIN heap :
           heap[j].prio < heap[x].prio \/ (heap[j].prio = heap[x].prio /\ x <= j)
    BY <1>6, <1>9
  <2> QED BY <2>1, Zenon DEF Top
<1> QED
  <2> HIDE DEF P
  <2> QED BY <1>7, <1>10

\* A heap item and what Push and Pop do to the typing of the queue.
LEMMA PushType ==
  ASSUME TypeOK, NEW k \in Keys, NEW p \in Prios, Push(k, p)
  PROVE  heap' \in Seq(Item) /\ dedup' \in [Keys -> Prios \cup {0}]
<1>1. [key |-> k, prio |-> p] \in Item
  BY DEF Item
<1>2. Append(heap, [key |-> k, prio |-> p]) \in Seq(Item)
  BY <1>1, AppendProperties DEF TypeOK
<1>3. heap' \in {heap, Append(heap, [key |-> k, prio |-> p])} /\ dedup' \in {dedup, [dedup EXCEPT ![k] = p]}
  BY DEF Push, queue
<1>4. dedup' \in [Keys -> Prios \cup {0}]
  BY <1>3 DEF TypeOK
<1> QED BY <1>2, <1>3, <1>4 DEF TypeOK

LEMMA PopType ==
  ASSUME TypeOK, Pop
  PROVE  /\ Top \in DOMAIN heap /\ heap[Top] \in Item
         /\ heap' \in Seq(Item) /\ dedup' \in [Keys -> Prios \cup {0}] /\ batch' \in Seq(Item)
         /\ Len(batch') <= MaxBatch
<1>1. Top \in DOMAIN heap
  BY TopIsFirst DEF Pop
<1>2. heap[Top] \in Item
  BY <1>1, LenProperties, ElementOfSeq DEF TypeOK
<1>3. heap' \in Seq(Item)
  BY <1>1, RemoveAtProperties DEF Pop, TypeOK
<1>4. batch' \in Seq(Item) /\ Len(batch') <= Len(batch) + 1
  <2>1. Append(batch, heap[Top]) \in Seq(Item) /\ Len(Append(batch, heap[Top])) = Len(batch) + 1
    BY <1>2, AppendProperties DEF TypeOK
  <2>2. batch' \in {batch, Append(batch, heap[Top])}
    BY DEF Pop
  <2>3. Len(batch) \in Nat
    BY LenProperties DEF TypeOK
  <2>4. batch \in Seq(Item)
    BY DEF TypeOK
  <2>5. CASE batch' = batch
    BY <2>3, <2>4, <2>5
  <2>6. CASE batch' = Append(batch, heap[Top])
    BY <2>1, <2>3, <2>6
  <2> QED BY <2>2, <2>5, <2>6
<1>5. Len(batch) \in Nat /\ Len(batch') \in Nat /\ Len(batch) < MaxBatch
  BY <1>4, LenProperties DEF Pop, TypeOK
<1>6. dedup' \in [Keys -> Prios \cup {0}]
  BY <1>2 DEF Pop, TypeOK, Item
<1> QED BY <1>1, <1>2, <1>3, <1>4, <1>5, <1>6, HealAssumption

\* A worker with an item has a key, and its disks are apart.
LEMMA TargetsType ==
  ASSUME TypeOK, WorkerShape, NEW w \in W, wpc[w] \in AtWork
  PROVE  /\ item[w] \in DOMAIN batch /\ batch[item[w]] \in Item /\ KeyOf(w) \in Keys
         /\ Targets(w) \in Seq(Disks) /\ Len(Targets(w)) \in Nat
         /\ DOMAIN Targets(w) = 1 .. Len(Targets(w))
         /\ \A i, j \in 1 .. Len(Targets(w)) : Targets(w)[i] = Targets(w)[j] => i = j
<1>1. item[w] \in DOMAIN batch
  BY LenProperties DEF WorkerShape, ShapeOf, TypeOK
<1>2. batch[item[w]] \in Item
  BY <1>1, LenProperties, ElementOfSeq DEF TypeOK
<1>3. KeyOf(w) \in Keys
  BY <1>2 DEF KeyOf, Item
<1>4. Targets(w) \in Seq(Disks) /\ IsInjective(Targets(w))
  BY <1>3, HealAssumption DEF Targets
<1>5. Len(Targets(w)) \in Nat /\ DOMAIN Targets(w) = 1 .. Len(Targets(w))
  BY <1>4, LenProperties
<1> QED BY <1>1, <1>2, <1>3, <1>4, <1>5 DEF IsInjective

\* The disk a worker reaches for next is one it does not hold, and with it the
\* worker holds the first disks of its key.
LEMMA NextTarget ==
  ASSUME TypeOK, WorkerShape, NEW w \in W, wpc[w] \in {"slot", "over"},
         Cardinality(held[w]) < Len(Targets(w))
  PROVE  LET n == Cardinality(held[w])
             t == Targets(w)[n + 1]
         IN  /\ n \in Nat /\ t \in Disks /\ t \notin held[w]
             /\ n + 1 \in 0 .. Len(Targets(w)) /\ Cardinality(held[w] \cup {t}) = n + 1
             /\ held[w] \cup {t} = {Targets(w)[i] : i \in 1 .. n + 1}
<1> DEFINE n == Cardinality(held[w])
           t == Targets(w)[n + 1]
<1>1. /\ Targets(w) \in Seq(Disks) /\ Len(Targets(w)) \in Nat
      /\ \A i, j \in 1 .. Len(Targets(w)) : Targets(w)[i] = Targets(w)[j] => i = j
  BY TargetsType DEF AtWork
<1>2. n \in Nat /\ n < Len(Targets(w)) /\ held[w] = {Targets(w)[i] : i \in 1 .. n}
  BY <1>1 DEF WorkerShape, ShapeOf
<1> HIDE DEF n
<1>3. n + 1 \in 1 .. Len(Targets(w)) /\ \A i \in 1 .. n : i \in 1 .. Len(Targets(w)) /\ i # n + 1
  BY <1>1, <1>2
<1>4. t \in Disks
  BY <1>1, <1>3, ElementOfSeq
<1>5. t \notin held[w]
  BY <1>1, <1>2, <1>3
<1>6. held[w] \cup {t} = {Targets(w)[i] : i \in 1 .. n + 1}
  <2>1. 1 .. n + 1 = (1 .. n) \cup {n + 1}
    BY <1>2
  <2> QED BY <2>1, <1>2
<1>7. IsFiniteSet(held[w])
  <2>1. IsFiniteSet(1 .. n)
    BY <1>2, FS_Interval
  <2> DEFINE f == [i \in 1 .. n |-> Targets(w)[i]]
  <2>2. f \in Surjection(1 .. n, held[w])
    BY <1>2 DEF Surjection
  <2> QED BY <2>1, <2>2, FS_Surjection
<1>8. Cardinality(held[w] \cup {t}) = n + 1
  BY <1>5, <1>7, FS_AddElement DEF n
<1> QED BY <1>2, <1>3, <1>4, <1>5, <1>6, <1>8 DEF n

\* A release names a disk the worker holds.
LEMMA ReleaseTarget ==
  ASSUME TypeOK, WorkerShape, NEW w \in W, Release(w)
  PROVE  \E t \in held[w] :
            /\ t \in Disks
            /\ inflight' = [inflight EXCEPT ![t] = @ - 1]
            /\ held' = [held EXCEPT ![w] = @ \ {t}]
<1>1. /\ Targets(w) \in Seq(Disks) /\ DOMAIN Targets(w) = 1 .. Len(Targets(w))
      /\ held[w] \subseteq Range(Targets(w)) /\ held[w] # {}
  BY TargetsType DEF AtWork, WorkerShape, ShapeOf, Release
<1>2. \E i \in 1 .. Len(Targets(w)) : Targets(w)[i] \in held[w]
  BY <1>1 DEF Range
<1> DEFINE d == SelectInSeq(Targets(w), LAMBDA t : t \in held[w])
<1>3. d \in 1 .. Len(Targets(w)) /\ Targets(w)[d] \in held[w]
  BY <1>1, <1>2, SelectMember
<1>4. Targets(w)[d] \in Disks
  BY <1>1, <1>3, ElementOfSeq
<1>5. /\ inflight' = [inflight EXCEPT ![Targets(w)[d]] = @ - 1]
      /\ held' = [held EXCEPT ![w] = @ \ {Targets(w)[d]}]
  BY DEF Release
<1> HIDE DEF d
<1> QED BY <1>3, <1>4, <1>5
-----------------------------------------------------------------------------
(* The invariant is inductive: one lemma per conjunct. *)

\* All of the typing but the slot counters', which Bulkhead bounds.
TypeButSlots ==
  /\ heap \in Seq(Item) /\ dedup \in [Keys -> Prios \cup {0}]
  /\ phase \in {"idle", "pop", "work", "requeue"}
  /\ batch \in Seq(Item) /\ next \in Nat /\ deferred \in Seq(Item)
  /\ wpc \in [W -> {"take", "slot", "over", "release", "done"}]
  /\ item \in [W -> 0 .. MaxBatch] /\ held \in [W -> SUBSET Disks] /\ ok \in [W -> BOOLEAN]
  /\ down \subseteq Disks /\ sourceless \subseteq Keys /\ asks \in 0 .. MaxAsks

LEMMA TypeStep ==
  ASSUME Inv, [Next]_vars
  PROVE  TypeButSlots' /\ inflight' \in [Disks -> Int]
<1> USE HealAssumption
<1>0. TypeOK /\ TypeButSlots /\ PhaseShape /\ WorkerShape /\ inflight \in [Disks -> Int]
  BY DEF Inv, TypeOK, TypeButSlots
<1>1. ASSUME NEW k \in Keys, NEW p \in Prios, Ask(k, p)
      PROVE  TypeButSlots' /\ inflight' \in [Disks -> Int]
  <2>1. heap' \in Seq(Item) /\ dedup' \in [Keys -> Prios \cup {0}]
    BY <1>0, <1>1, PushType DEF Ask
  <2> QED BY <2>1, <1>0, <1>1 DEF Ask, TypeButSlots, workers
<1>2. CASE Tick
  BY <1>0, <1>2 DEF Tick, TypeButSlots, queue, workers
<1>3. CASE Pop
  <2>1. heap' \in Seq(Item) /\ dedup' \in [Keys -> Prios \cup {0}] /\ batch' \in Seq(Item)
    BY <1>0, <1>3, PopType
  <2> QED BY <2>1, <1>0, <1>3 DEF Pop, TypeButSlots, workers
<1>4. CASE StartWorkers
  BY <1>0, <1>4 DEF StartWorkers, TypeButSlots, queue
<1>5. CASE Join
  BY <1>0, <1>5 DEF Join, TypeButSlots, queue, workers
<1>6. CASE Requeue
  <2>1. Head(deferred) \in Item /\ Tail(deferred) \in Seq(Item)
    BY <1>0, <1>6, HeadTailProperties DEF Requeue, TypeOK
  <2>2. Head(deferred).key \in Keys /\ Head(deferred).prio \in Prios
    BY <2>1 DEF Item
  <2>3. heap' \in Seq(Item) /\ dedup' \in [Keys -> Prios \cup {0}]
    BY <2>2, <1>0, <1>6, PushType DEF Requeue
  <2> QED BY <2>1, <2>3, <1>0, <1>6 DEF Requeue, TypeButSlots, workers
<1>7. CASE EndDrain
  BY <1>0, <1>7 DEF EndDrain, TypeButSlots, queue, workers
<1>8. ASSUME NEW w \in W, Take(w)
      PROVE  TypeButSlots' /\ inflight' \in [Disks -> Int]
  <2>1. Len(batch) \in Nat /\ Len(batch) <= MaxBatch
    BY <1>0, LenProperties DEF TypeOK, PhaseShape
  <2>2. next' \in Nat /\ wpc' \in [W -> {"take", "slot", "over", "release", "done"}]
    <3>1. /\ wpc' = [wpc EXCEPT ![w] = "slot"] \/ wpc' = [wpc EXCEPT ![w] = "done"]
          /\ next' = next + 1
      BY <1>8 DEF Take
    <3>2. wpc \in [W -> {"take", "slot", "over", "release", "done"}] /\ next \in Nat
      BY <1>0 DEF TypeButSlots
    <3>3. wpc' \in [W -> {"take", "slot", "over", "release", "done"}]
      BY <3>1, <3>2
    <3> QED BY <3>1, <3>2, <3>3
  <2>3. item' \in [W -> 0 .. MaxBatch]
    <3>1. CASE next <= Len(batch)
      <4>1. item' = [item EXCEPT ![w] = next] /\ next \in 0 .. MaxBatch
        BY <3>1, <2>1, <1>0, <1>8 DEF Take, TypeButSlots
      <4> QED BY <4>1, <1>0 DEF TypeButSlots
    <3>2. CASE ~ (next <= Len(batch))
      BY <3>2, <1>0, <1>8 DEF Take, TypeButSlots
    <3> QED BY <3>1, <3>2
  <2> QED BY <1>0, <1>8, <2>2, <2>3 DEF Take, TypeButSlots, queue
<1>9. ASSUME NEW w \in W, Slot(w)
      PROVE  TypeButSlots' /\ inflight' \in [Disks -> Int]
  <2> DEFINE t == Targets(w)[Cardinality(held[w]) + 1]
  <2>1. t \in Disks
    BY <1>0, <1>9, NextTarget DEF Slot
  <2>2. inflight' = [inflight EXCEPT ![t] = @ + 1]
    BY <1>9 DEF Slot
  <2>3. \/ wpc' = [wpc EXCEPT ![w] = "over"] /\ held' = held
        \/ held' = [held EXCEPT ![w] = @ \cup {t}] /\ wpc' = wpc
    BY <1>9 DEF Slot
  <2>4. UNCHANGED <<queue, phase, batch, next, item, ok, deferred, down, sourceless, asks>>
    BY <1>9 DEF Slot
  <2> HIDE DEF t
  <2>5. wpc' \in [W -> {"take", "slot", "over", "release", "done"}] /\ held' \in [W -> SUBSET Disks]
    <3>0. wpc \in [W -> {"take", "slot", "over", "release", "done"}] /\ held \in [W -> SUBSET Disks]
      BY <1>0 DEF TypeButSlots
    <3>1. [wpc EXCEPT ![w] = "over"] \in [W -> {"take", "slot", "over", "release", "done"}]
      BY ONLY <3>0
    <3>2. [held EXCEPT ![w] = @ \cup {t}] \in [W -> SUBSET Disks]
      BY ONLY <3>0, <2>1
    <3> QED BY ONLY <3>0, <3>1, <3>2, <2>3
  <2> QED BY <1>0, <2>1, <2>2, <2>4, <2>5 DEF TypeButSlots, queue
<1>10. ASSUME NEW w \in W, GiveBack(w)
       PROVE  TypeButSlots' /\ inflight' \in [Disks -> Int]
  <2> DEFINE t == Targets(w)[Cardinality(held[w]) + 1]
  <2>1. t \in Disks
    BY <1>0, <1>10, NextTarget DEF GiveBack, WorkerShape, ShapeOf
  <2>2. inflight' = [inflight EXCEPT ![t] = @ - 1] /\ wpc' = [wpc EXCEPT ![w] = "release"]
    BY <1>10 DEF GiveBack
  <2>4. UNCHANGED <<queue, phase, batch, next, item, held, ok, deferred, down, sourceless, asks>>
    BY <1>10 DEF GiveBack
  <2> HIDE DEF t
  <2> QED BY <1>0, <2>1, <2>2, <2>4 DEF TypeButSlots, queue
<1>11. ASSUME NEW w \in W, Repair(w)
       PROVE  TypeButSlots' /\ inflight' \in [Disks -> Int]
  BY <1>0, <1>11 DEF Repair, TypeButSlots, queue
<1>12. ASSUME NEW w \in W, Release(w)
       PROVE  TypeButSlots' /\ inflight' \in [Disks -> Int]
  <2>1. PICK t \in held[w] : /\ t \in Disks
                             /\ inflight' = [inflight EXCEPT ![t] = @ - 1]
                             /\ held' = [held EXCEPT ![w] = @ \ {t}]
    BY <1>0, <1>12, ReleaseTarget
  <2>2. UNCHANGED <<queue, phase, batch, next, wpc, item, ok, deferred, down, sourceless, asks>>
    BY <1>12 DEF Release
  <2> QED BY <1>0, <2>1, <2>2 DEF TypeButSlots, queue
<1>13. ASSUME NEW w \in W, Resolve(w)
       PROVE  TypeButSlots' /\ inflight' \in [Disks -> Int]
  <2>1. batch[item[w]] \in Item
    BY <1>0, <1>13, TargetsType DEF Resolve, AtWork
  <2>2. deferred' \in Seq(Item)
    <3>1. Append(deferred, batch[item[w]]) \in Seq(Item)
      BY <2>1, <1>0, AppendProperties DEF TypeOK
    <3> QED BY <3>1, <1>0, <1>13 DEF Resolve, TypeOK
  <2>3. /\ wpc' = [wpc EXCEPT ![w] = "take"]
        /\ item' = [item EXCEPT ![w] = 0] /\ ok' = [ok EXCEPT ![w] = FALSE]
        /\ UNCHANGED <<queue, phase, batch, next, held, inflight, down, sourceless, asks>>
    BY <1>13 DEF Resolve
  <2> QED BY <1>0, <2>2, <2>3 DEF TypeButSlots, queue
<1>14. CASE Trouble
  BY <1>0, <1>14 DEF Trouble, Flip, Source, TypeButSlots, queue, workers
<1>15. CASE UNCHANGED vars
  BY <1>0, <1>15 DEF vars, TypeButSlots
<1> QED BY <1>1, <1>2, <1>3, <1>4, <1>5, <1>6, <1>7, <1>8, <1>9, <1>10, <1>11, <1>12,
           <1>13, <1>14, <1>15 DEF Next, Drain, Work
\* A worker that is not idle works on a batch.
LEMMA WorkingPhase ==
  ASSUME PhaseShape, NEW w \in W, wpc[w] # "done"
  PROVE  phase = "work"
BY DEF PhaseShape

LEMMA PhaseStep ==
  ASSUME Inv, [Next]_vars
  PROVE  PhaseShape'
<1> USE HealAssumption
<1>0. TypeOK /\ PhaseShape /\ next \in Nat /\ Len(batch) \in Nat
  BY LenProperties DEF Inv, TypeOK
<1>1. ASSUME NEW k \in Keys, NEW p \in Prios, Ask(k, p) PROVE PhaseShape'
  BY <1>0, <1>1 DEF Ask, PhaseShape, workers
<1>2. CASE Tick
  BY <1>0, <1>2 DEF Tick, PhaseShape, workers
<1>3. CASE Pop
  <2>1. Len(batch') <= MaxBatch
    BY <1>0, <1>3, PopType
  <2> QED BY <2>1, <1>0, <1>3 DEF Pop, PhaseShape, workers
<1>4. CASE StartWorkers
  <2>1. CASE batch = << >>
    <3>1. Len(batch) = 0
      BY <2>1, EmptySeq
    <3>2. wpc' = [w \in W |-> "done"]
      BY <1>4, <3>1 DEF StartWorkers, W
    <3> QED BY <2>1, <3>2, <1>0, <1>4 DEF StartWorkers, PhaseShape
  <2>2. CASE batch # << >>
    <3>1. Len(batch) >= 1 /\ 1 \in W
      BY <2>2, <1>0, EmptySeq DEF TypeOK, W
    <3>2. wpc'[1] = "take"
      BY <1>4, <3>1 DEF StartWorkers
    <3> QED BY <2>2, <3>1, <3>2, <1>0, <1>4 DEF StartWorkers, PhaseShape
  <2> QED BY <2>1, <2>2
<1>5. CASE Join
  <2>1. Len(<< >>) = 0
    BY EmptySeq
  <2> QED BY <2>1, <1>0, <1>5 DEF Join, PhaseShape, workers
<1>6. CASE Requeue
  BY <1>0, <1>6 DEF Requeue, PhaseShape, workers
<1>7. CASE EndDrain
  BY <1>0, <1>7 DEF EndDrain, PhaseShape, workers
<1>8. ASSUME NEW w \in W, Take(w) PROVE PhaseShape'
  <2>1. CASE next <= Len(batch)
    <3>1. wpc'[w] = "slot"
      BY <2>1, <1>0, <1>8 DEF Take, TypeOK
    <3> QED BY <3>1, <1>0, <1>8 DEF Take, PhaseShape
  <2>2. CASE ~ (next <= Len(batch))
    BY <2>2, <1>0, <1>8 DEF Take, PhaseShape
  <2> QED BY <2>1, <2>2
<1>9. ASSUME NEW w \in W, Slot(w) \/ GiveBack(w) \/ Repair(w) \/ Release(w) \/ Resolve(w)
      PROVE  PhaseShape'
  <2>1. phase = "work"
    BY <1>0, <1>9, WorkingPhase DEF Slot, GiveBack, Repair, Release, Resolve
  <2>2. UNCHANGED <<phase, batch, next>>
    BY <1>9 DEF Slot, GiveBack, Repair, Release, Resolve
  <2>3. wpc'[w] # "done"
    BY <1>0, <1>9 DEF Slot, GiveBack, Repair, Release, Resolve, TypeOK
  <2> QED BY <2>1, <2>2, <2>3, <1>0 DEF PhaseShape
<1>10. CASE Trouble
  BY <1>0, <1>10 DEF Trouble, Flip, Source, PhaseShape, workers
<1>11. CASE UNCHANGED vars
  BY <1>0, <1>11 DEF vars, PhaseShape
<1> QED BY <1>1, <1>2, <1>3, <1>4, <1>5, <1>6, <1>7, <1>8, <1>9, <1>10, <1>11
        DEF Next, Drain, Work

\* A worker keeps its shape while others move.
LEMMA ShapeFrame ==
  ASSUME TypeOK, NEW v \in W, ShapeOf(v), next' \in Nat, next <= next', batch' = batch,
         wpc'[v] = wpc[v], item'[v] = item[v], held'[v] = held[v], ok'[v] = ok[v]
  PROVE  ShapeOf(v)'
<1>1. Targets(v)' = Targets(v)
  BY DEF Targets, KeyOf
<1>2. item[v] \in Int /\ next \in Int
  BY DEF TypeOK
<1> QED BY <1>1, <1>2 DEF ShapeOf

\* A worker without an item has no slots.
LEMMA IdleShape ==
  ASSUME TypeOK, NEW v \in W, ShapeOf(v), wpc[v] \in {"take", "done"},
         wpc'[v] \in {"take", "done"}, held'[v] = held[v], ok'[v] = ok[v]
  PROVE  ShapeOf(v)'
BY DEF ShapeOf, AtWork

LEMMA WorkerStep ==
  ASSUME Inv, [Next]_vars
  PROVE  WorkerShape'
<1> USE HealAssumption
<1>0. /\ TypeOK /\ PhaseShape /\ WorkerShape
      /\ next \in Nat /\ next' \in Nat /\ Len(batch) \in Nat
      /\ \A v \in W : ShapeOf(v)
  BY LenProperties, TypeStep DEF Inv, TypeOK, TypeButSlots, WorkerShape
<1> SUFFICES ASSUME NEW v \in W PROVE ShapeOf(v)'
  BY DEF WorkerShape
<1>1. ASSUME NEW k \in Keys, NEW p \in Prios, Ask(k, p) PROVE ShapeOf(v)'
  BY <1>0, <1>1, ShapeFrame DEF Ask, workers
<1>2. CASE Tick \/ Requeue \/ EndDrain
  BY <1>0, <1>2, ShapeFrame DEF Tick, Requeue, EndDrain, workers
<1>3. CASE Pop \/ Join
  <2>1. wpc[v] = "done" /\ wpc'[v] = "done"
    BY <1>0, <1>3 DEF Pop, Join, workers, PhaseShape
  <2> QED BY <2>1, <1>0, <1>3, IdleShape DEF Pop, Join, workers
<1>4. CASE StartWorkers
  <2>1. wpc[v] = "done"
    BY <1>0, <1>4 DEF StartWorkers, PhaseShape
  <2>2. wpc'[v] \in {"take", "done"} /\ held' = held /\ ok' = ok
    BY <1>4 DEF StartWorkers
  <2> QED BY <2>1, <2>2, <1>0, IdleShape
<1>5. ASSUME NEW w \in W, Take(w) PROVE ShapeOf(v)'
  <2>0. /\ batch' = batch /\ held' = held /\ ok' = ok /\ next' = next + 1 /\ wpc[w] = "take"
        /\ \/ /\ next <= Len(batch)
              /\ wpc' = [wpc EXCEPT ![w] = "slot"] /\ item' = [item EXCEPT ![w] = next]
           \/ wpc' = [wpc EXCEPT ![w] = "done"] /\ item' = item
    BY <1>5 DEF Take
  <2>1. CASE v # w
    <3>1. wpc'[v] = wpc[v] /\ item'[v] = item[v]
      BY <2>0, <2>1, <1>0 DEF TypeOK
    <3> QED BY <3>1, <2>0, <1>0, ShapeFrame
  <2>2. CASE v = w /\ next <= Len(batch) /\ wpc'[v] = "slot" /\ item'[v] = next
    <3>1. held'[v] = {} /\ ~ ok'[v]
      BY <2>0, <2>2, <1>0 DEF ShapeOf
    <3>2. Cardinality({}) = 0
      BY FS_EmptySet
    <3>3. Targets(v)' \in Seq(Disks)
      <4>1. batch[next] \in Item
        BY <2>2, <1>0, ElementOfSeq DEF TypeOK, PhaseShape
      <4>2. Targets(v)' = TargetsOf[batch[next].key]
        BY <2>0, <2>2 DEF Targets, KeyOf
      <4> QED BY <4>1, <4>2 DEF Item
    <3>4. Len(Targets(v)') \in Nat
      BY <3>3, LenProperties
    <3>5. next >= 1
      BY <1>0 DEF PhaseShape
    <3>6. {Targets(v)'[i] : i \in 1 .. 0} = {}
      OBVIOUS
    <3>7. (Len(Targets(v)))' = Len(Targets(v)') /\ (Cardinality(held[v]))' = 0
      BY <3>1, <3>2
    <3> QED BY <2>0, <2>2, <3>1, <3>4, <3>5, <3>6, <3>7, <1>0 DEF ShapeOf, AtWork
  <2>3. CASE v = w /\ wpc'[v] = "done"
    BY <2>0, <2>3, <1>0, IdleShape
  <2> QED BY <2>0, <2>1, <2>2, <2>3, <1>0 DEF TypeOK
<1>6. ASSUME NEW w \in W, Slot(w) PROVE ShapeOf(v)'
  <2> DEFINE n == Cardinality(held[w])
             t == Targets(w)[n + 1]
  <2>0. /\ wpc[w] = "slot" /\ n < Len(Targets(w))
        /\ batch' = batch /\ next' = next /\ item' = item /\ ok' = ok
        /\ \/ wpc' = [wpc EXCEPT ![w] = "over"] /\ held' = held
           \/ held' = [held EXCEPT ![w] = @ \cup {t}] /\ wpc' = wpc
    BY <1>6 DEF Slot
  <2>1. CASE v # w
    <3>1. wpc'[v] = wpc[v] /\ held'[v] = held[v]
      BY <2>0, <2>1, <1>0 DEF TypeOK
    <3> QED BY <3>1, <2>0, <1>0, ShapeFrame
  <2>2. Targets(w)' = Targets(w)
    BY <2>0 DEF Targets, KeyOf
  <2>3. CASE v = w /\ wpc'[w] = "over" /\ held' = held
    BY <2>0, <2>2, <2>3, <1>0 DEF ShapeOf, AtWork
  <2>4. CASE v = w /\ wpc'[w] = "slot" /\ held'[w] = held[w] \cup {t}
    <3>1. /\ n + 1 \in 0 .. Len(Targets(w)) /\ Cardinality(held[w] \cup {t}) = n + 1
          /\ held[w] \cup {t} = {Targets(w)[i] : i \in 1 .. n + 1}
      BY <2>0, <1>0, NextTarget
    <3> HIDE DEF t, n
    <3>2. Cardinality(held'[w]) = n + 1 /\ held'[w] = {Targets(w)'[i] : i \in 1 .. n + 1}
      BY <2>2, <2>4, <3>1
    <3>3. held'[w] = {Targets(w)'[i] : i \in 1 .. Cardinality(held'[w])}
      BY <3>2, Zenon
    <3>4. Cardinality(held'[w]) \in 0 .. Len(Targets(w)')
      BY <2>2, <3>1, <3>2
    <3>5. item[w] \in 1 .. Len(batch) /\ item[w] < next /\ ~ ok[w]
      BY <2>0, <1>0 DEF ShapeOf, AtWork
    <3> QED BY <2>0, <2>4, <3>3, <3>4, <3>5 DEF ShapeOf, AtWork
  <2> QED BY <2>0, <2>1, <2>3, <2>4, <1>0 DEF TypeOK
<1>7. ASSUME NEW w \in W, GiveBack(w) \/ Repair(w) PROVE ShapeOf(v)'
  <2>0. /\ wpc[w] \in {"slot", "over"} /\ wpc' = [wpc EXCEPT ![w] = "release"]
        /\ batch' = batch /\ next' = next /\ item' = item /\ held' = held
    BY <1>7 DEF GiveBack, Repair
  <2>1. CASE v # w
    <3>1. wpc'[v] = wpc[v] /\ ok'[v] = ok[v]
      BY <2>0, <2>1, <1>0, <1>7 DEF TypeOK, GiveBack, Repair
    <3> QED BY <3>1, <2>0, <1>0, ShapeFrame
  <2>2. CASE v = w
    <3>1. Targets(w)' = Targets(w) /\ wpc'[w] = "release"
      BY <2>0, <1>0 DEF Targets, KeyOf, TypeOK
    <3>2. /\ DOMAIN Targets(w) = 1 .. Len(Targets(w)) /\ Len(Targets(w)) \in Nat
          /\ Cardinality(held[w]) \in 0 .. Len(Targets(w))
          /\ held[w] = {Targets(w)[i] : i \in 1 .. Cardinality(held[w])}
      BY <2>0, <1>0, TargetsType DEF ShapeOf, AtWork
    <3>3. held[w] \subseteq Range(Targets(w))
      BY <3>2 DEF Range
    <3> QED BY <2>0, <2>2, <3>1, <3>3, <1>0 DEF ShapeOf, AtWork
  <2> QED BY <2>1, <2>2
<1>8. ASSUME NEW w \in W, Release(w) PROVE ShapeOf(v)'
  <2>0. PICK t \in held[w] : held' = [held EXCEPT ![w] = @ \ {t}]
    BY <1>0, <1>8, ReleaseTarget
  <2>1. wpc[w] = "release" /\ UNCHANGED <<batch, next, item, ok, wpc>>
    BY <1>8 DEF Release
  <2>2. CASE v # w
    BY <2>0, <2>1, <2>2, <1>0, ShapeFrame DEF TypeOK
  <2>3. CASE v = w
    <3>1. Targets(w)' = Targets(w) /\ held'[w] \subseteq held[w]
      BY <2>0, <2>1, <1>0 DEF Targets, KeyOf, TypeOK
    <3> QED BY <2>1, <2>3, <3>1, <1>0 DEF ShapeOf, AtWork
  <2> QED BY <2>2, <2>3
<1>9. ASSUME NEW w \in W, Resolve(w) PROVE ShapeOf(v)'
  <2>0. /\ held[w] = {} /\ held' = held /\ batch' = batch /\ next' = next
        /\ wpc' = [wpc EXCEPT ![w] = "take"]
        /\ item' = [item EXCEPT ![w] = 0] /\ ok' = [ok EXCEPT ![w] = FALSE]
    BY <1>9 DEF Resolve
  <2>1. CASE v # w
    <3>1. wpc'[v] = wpc[v] /\ item'[v] = item[v] /\ ok'[v] = ok[v]
      BY <2>0, <2>1, <1>0 DEF TypeOK
    <3>2. next <= next' /\ batch' = batch /\ held'[v] = held[v]
      BY <2>0, <1>0
    <3> QED BY <3>1, <3>2, <1>0, ShapeFrame
  <2>2. CASE v = w
    <3>1. wpc'[w] = "take" /\ ok'[w] = FALSE /\ held'[w] = {}
      BY <2>0, <1>0 DEF TypeOK
    <3> QED BY <2>2, <3>1 DEF ShapeOf, AtWork
  <2> QED BY <2>1, <2>2
<1>10. CASE Trouble
  BY <1>0, <1>10, ShapeFrame DEF Trouble, Flip, Source, workers
<1>11. CASE UNCHANGED vars
  BY <1>0, <1>11, ShapeFrame DEF vars
<1> QED BY <1>1, <1>2, <1>3, <1>4, <1>5, <1>6, <1>7, <1>8, <1>9, <1>10, <1>11
        DEF Next, Drain, Work
\* Workers have items of their own: an index is handed out once.
LEMMA ItemsStep ==
  ASSUME Inv, [Next]_vars
  PROVE  ItemsApart'
<1>0. /\ TypeOK /\ PhaseShape /\ WorkerShape /\ ItemsApart /\ next \in Nat
      /\ \A v \in W : wpc[v] \in AtWork => item[v] < next /\ item[v] \in Nat
  BY DEF Inv, TypeOK, WorkerShape, ShapeOf
<1>1. ASSUME NEW k \in Keys, NEW p \in Prios, Ask(k, p) PROVE ItemsApart'
  BY <1>0, <1>1 DEF Ask, ItemsApart, workers
<1>2. CASE Tick \/ Pop \/ Join \/ Requeue \/ EndDrain
  BY <1>0, <1>2 DEF Tick, Pop, Join, Requeue, EndDrain, ItemsApart, workers
<1>3. CASE StartWorkers
  <2>1. \A v \in W : wpc'[v] \in {"take", "done"}
    BY <1>3 DEF StartWorkers
  <2> QED BY <2>1 DEF ItemsApart, AtWork
<1>4. ASSUME NEW w \in W, Take(w) PROVE ItemsApart'
  <2>1. \/ wpc' = [wpc EXCEPT ![w] = "slot"] /\ item' = [item EXCEPT ![w] = next]
        \/ wpc' = [wpc EXCEPT ![w] = "done"] /\ item' = item
    BY <1>4 DEF Take
  <2>2. CASE wpc' = [wpc EXCEPT ![w] = "slot"] /\ item' = [item EXCEPT ![w] = next]
    <3> SUFFICES ASSUME NEW u \in W, NEW v \in W, u # v, wpc'[u] \in AtWork, wpc'[v] \in AtWork
                 PROVE  item'[u] # item'[v]
      BY DEF ItemsApart
    <3>1. CASE u = w
      BY <2>2, <3>1, <1>0 DEF TypeOK
    <3>2. CASE v = w
      BY <2>2, <3>2, <1>0 DEF TypeOK
    <3>3. CASE u # w /\ v # w
      BY <2>2, <3>3, <1>0 DEF TypeOK, ItemsApart
    <3> QED BY <3>1, <3>2, <3>3
  <2>3. CASE wpc' = [wpc EXCEPT ![w] = "done"] /\ item' = item
    <3>1. \A v \in W : wpc'[v] \in AtWork => wpc[v] \in AtWork
      BY <2>3, <1>0 DEF TypeOK, AtWork
    <3> QED BY <2>3, <3>1, <1>0 DEF ItemsApart
  <2> QED BY <2>1, <2>2, <2>3
<1>5. ASSUME NEW w \in W, Slot(w) \/ GiveBack(w) \/ Repair(w) \/ Release(w)
      PROVE  ItemsApart'
  <2>1. item' = item /\ \A v \in W : wpc'[v] \in AtWork => wpc[v] \in AtWork
    BY <1>0, <1>5 DEF Slot, GiveBack, Repair, Release, TypeOK, AtWork
  <2> QED BY <2>1, <1>0 DEF ItemsApart
<1>6. ASSUME NEW w \in W, Resolve(w) PROVE ItemsApart'
  <2>1. wpc' = [wpc EXCEPT ![w] = "take"] /\ item' = [item EXCEPT ![w] = 0]
    BY <1>6 DEF Resolve
  <2>2. \A v \in W : wpc'[v] \in AtWork => v # w /\ wpc[v] \in AtWork /\ item'[v] = item[v]
    BY <2>1, <1>0 DEF TypeOK, AtWork
  <2> QED BY <2>2, <1>0 DEF ItemsApart
<1>7. CASE Trouble
  BY <1>0, <1>7 DEF Trouble, Flip, Source, ItemsApart, workers
<1>8. CASE UNCHANGED vars
  BY <1>0, <1>8 DEF vars, ItemsApart
<1> QED BY <1>1, <1>2, <1>3, <1>4, <1>5, <1>6, <1>7, <1>8 DEF Next, Drain, Work

\* Outside Pop the batch stays, or is dropped by Join.
LEMMA BatchFrame ==
  ASSUME [Next]_vars, ~ Pop
  PROVE  batch' = batch \/ (batch' = << >> /\ phase' = "requeue")
BY DEF Next, Drain, Work, vars, Ask, Tick, StartWorkers, Join, Requeue, EndDrain, Take, Slot,
       GiveBack, Repair, Release, Resolve, Trouble, Flip, Source

\* A key enters a batch with its first item and leaves the map, so that it
\* cannot enter it again through a stale copy; what enters it was at the top.
LEMMA BatchStep ==
  ASSUME Inv, [Next]_vars
  PROVE  KeysApart' /\ BatchTaken'
<1>0. /\ TypeOK /\ KeysApart /\ BatchTaken /\ PhaseShape
      /\ DOMAIN batch = 1 .. Len(batch) /\ Len(batch) \in Nat
  BY LenProperties DEF Inv, TypeOK
<1>1. CASE Pop
  <2>1. /\ Top \in DOMAIN heap /\ heap[Top] \in Item /\ batch' \in Seq(Item)
        /\ \A j \in DOMAIN heap : heap[j].prio <= heap[Top].prio
    BY <1>0, <1>1, PopType, TopIsFirst DEF Pop
  <2>2. \A n \in DOMAIN heap' : \E j \in DOMAIN heap : heap'[n] = heap[j]
    BY <2>1, <1>0, <1>1, RemoveAtProperties DEF Pop, TypeOK
  <2>3. phase = "pop" /\ phase' = "pop"
    BY <1>1 DEF Pop
  <2>4. CASE dedup[heap[Top].key] # heap[Top].prio
    <3>1. batch' = batch /\ dedup' = dedup
      BY <2>4, <1>1 DEF Pop
    <3>2. KeysApart'
      BY <3>1, <1>0 DEF KeysApart
    <3>3. BatchTaken'
      BY <2>2, <2>3, <3>1, <1>0 DEF BatchTaken
    <3> QED BY <3>2, <3>3
  <2>5. CASE dedup[heap[Top].key] = heap[Top].prio
    <3>1. batch' = Append(batch, heap[Top]) /\ dedup' = [dedup EXCEPT ![heap[Top].key] = 0]
      BY <2>5, <1>1 DEF Pop
    <3>2. /\ Len(batch') = Len(batch) + 1
          /\ \A i \in 1 .. Len(batch) : batch'[i] = batch[i]
          /\ batch'[Len(batch) + 1] = heap[Top]
      BY <2>1, <3>1, <1>0, AppendProperties DEF TypeOK
    <3>3. DOMAIN batch' = 1 .. Len(batch) + 1
      BY <2>1, <3>2, LenProperties
    <3>4. heap[Top].key \in Keys /\ heap[Top].prio \in Nat \ {0}
      BY <2>1, HealAssumption DEF Item
    <3>5. \A i \in 1 .. Len(batch) : batch[i].key # heap[Top].key
      BY <2>3, <2>5, <3>4, <1>0 DEF BatchTaken
    <3>6. \A i \in DOMAIN batch' : i \in 1 .. Len(batch) \/ i = Len(batch) + 1
      BY <3>3, <1>0
    <3>7. KeysApart'
      BY <3>2, <3>5, <3>6, <1>0 DEF KeysApart
    <3>8. ASSUME NEW i \in DOMAIN batch' PROVE dedup'[batch'[i].key] = 0
      <4>1. CASE i \in 1 .. Len(batch)
        <5>1. batch[i] \in Item /\ dedup[batch[i].key] = 0
          BY <4>1, <2>3, <1>0, ElementOfSeq DEF TypeOK, BatchTaken
        <5> QED BY <4>1, <5>1, <3>1, <3>2, <1>0 DEF TypeOK, Item
      <4>2. CASE i = Len(batch) + 1
        BY <4>2, <3>1, <3>2, <3>4, <1>0 DEF TypeOK
      <4> QED BY <3>6, <4>1, <4>2
    <3>9. ASSUME NEW i \in DOMAIN batch', NEW n \in DOMAIN heap' PROVE heap'[n].prio <= batch'[i].prio
      <4>1. PICK j \in DOMAIN heap : heap'[n] = heap[j]
        BY <2>2
      <4> QED BY <4>1, <2>1, <2>3, <3>2, <3>6, <1>0 DEF BatchTaken
    <3> QED BY <3>7, <3>8, <3>9 DEF BatchTaken
  <2> QED BY <2>4, <2>5
<1>2. CASE ~ Pop
  <2>1. batch' = batch \/ (batch' = << >> /\ phase' = "requeue")
    BY <1>2, BatchFrame
  <2>2. KeysApart'
    BY <2>1, <1>0 DEF KeysApart
  <2>3. SUFFICES ASSUME phase' = "pop" PROVE BatchTaken'
    BY <2>2 DEF BatchTaken
  <2>4. batch' = batch
    BY <2>1, <2>3
  <2>5. CASE phase = "pop"
    <3>1. UNCHANGED <<heap, dedup>>
      BY <2>3, <2>5, <1>2, <1>0, WorkingPhase DEF Next, Drain, Work, vars, queue, Ask, Unlocked,
         Tick, StartWorkers, Join, Requeue, EndDrain, Take, Slot, GiveBack, Repair, Release, Resolve, Trouble, Flip, Source
    <3> QED BY <2>2, <2>4, <2>5, <3>1, <1>0 DEF BatchTaken
  <2>6. CASE phase # "pop"
    <3>1. Tick
      BY <2>3, <2>6, <1>2 DEF Next, Drain, Work, vars, Ask, Pop, StartWorkers, Join, Requeue,
         EndDrain, Take, Slot, GiveBack, Repair, Release, Resolve, Trouble, Flip, Source
    <3>2. batch = << >>
      BY <3>1, <1>0 DEF Tick, PhaseShape
    <3> QED BY <2>2, <2>4, <3>2 DEF BatchTaken
  <2> QED BY <2>5, <2>6
<1> QED BY <1>1, <1>2

\* A push leaves every mapped key with its item.
LEMMA PushReachable ==
  ASSUME TypeOK, QueuedIsReachable, NEW k \in Keys, NEW p \in Prios, Push(k, p)
  PROVE  QueuedIsReachable'
<1>0. DOMAIN heap = 1 .. Len(heap) /\ Len(heap) \in Nat
  BY LenProperties DEF TypeOK
<1>1. CASE Accepts(k, p)
  <2> DEFINE e == [key |-> k, prio |-> p]
  <2>1. heap' = Append(heap, e) /\ dedup' = [dedup EXCEPT ![k] = p]
    BY <1>1 DEF Push
  <2>2. e \in Item
    BY DEF Item
  <2> HIDE DEF e
  <2>3. /\ heap' \in Seq(Item) /\ Len(heap') = Len(heap) + 1
        /\ \A i \in 1 .. Len(heap) : heap'[i] = heap[i]
        /\ heap'[Len(heap) + 1] = e
    BY <2>1, <2>2, AppendProperties DEF TypeOK
  <2>4. DOMAIN heap' = 1 .. Len(heap) + 1
    BY <2>3, LenProperties
  <2> SUFFICES ASSUME NEW j \in Keys, dedup'[j] # 0
               PROVE  \E i \in DOMAIN heap' : heap'[i] = [key |-> j, prio |-> dedup'[j]]
    BY DEF QueuedIsReachable, Queued
  <2>5. CASE j = k
    <3>1. dedup'[j] = p
      BY <2>1, <2>5 DEF TypeOK
    <3>2. Len(heap) + 1 \in DOMAIN heap'
      BY <2>4, <1>0
    <3> QED BY <2>3, <2>5, <3>1, <3>2 DEF e
  <2>6. CASE j # k
    <3>1. dedup'[j] = dedup[j] /\ dedup[j] # 0
      BY <2>1, <2>6 DEF TypeOK
    <3>2. PICK i \in DOMAIN heap : heap[i] = [key |-> j, prio |-> dedup[j]]
      BY <3>1 DEF QueuedIsReachable, Queued
    <3>3. i \in DOMAIN heap' /\ heap'[i] = heap[i]
      BY <2>3, <2>4, <1>0
    <3> QED BY <3>1, <3>2, <3>3
  <2> QED BY <2>5, <2>6
<1>2. CASE ~ Accepts(k, p)
  BY <1>2 DEF Push, queue, QueuedIsReachable, Queued
<1> QED BY <1>1, <1>2

LEMMA ReachableStep ==
  ASSUME Inv, [Next]_vars
  PROVE  QueuedIsReachable'
<1>0. TypeOK /\ QueuedIsReachable
  BY DEF Inv
<1>1. ASSUME NEW k \in Keys, NEW p \in Prios, Ask(k, p) PROVE QueuedIsReachable'
  BY <1>0, <1>1, PushReachable DEF Ask
<1>2. CASE Requeue
  <2>1. Head(deferred) \in Item
    BY <1>0, <1>2, HeadTailProperties DEF Requeue, TypeOK
  <2>2. Head(deferred).key \in Keys /\ Head(deferred).prio \in Prios
    BY <2>1 DEF Item
  <2> QED BY <2>2, <1>0, <1>2, PushReachable DEF Requeue
<1>3. CASE Pop
  <2>1. Top \in DOMAIN heap /\ heap[Top] \in Item
    BY <1>0, <1>3, PopType
  <2>2. heap' = RemoveAt(heap, Top)
    BY <1>3 DEF Pop
  <2>3. \A j \in DOMAIN heap : j # Top => \E n \in DOMAIN heap' : heap'[n] = heap[j]
    BY <2>1, <2>2, <1>0, RemoveAtProperties DEF TypeOK
  <2> SUFFICES ASSUME NEW j \in Keys, dedup'[j] # 0
               PROVE  \E i \in DOMAIN heap' : heap'[i] = [key |-> j, prio |-> dedup'[j]]
    BY DEF QueuedIsReachable, Queued
  <2>4. dedup'[j] = dedup[j] /\ ~ (heap[Top].key = j /\ heap[Top].prio = dedup[j])
    BY <1>0, <1>3, <2>1 DEF Pop, TypeOK, Item
  <2>5. PICK i \in DOMAIN heap : heap[i] = [key |-> j, prio |-> dedup[j]]
    BY <2>4, <1>0 DEF QueuedIsReachable, Queued
  <2>6. i # Top
    BY <2>4, <2>5
  <2> QED BY <2>3, <2>4, <2>5, <2>6
<1>4. CASE UNCHANGED queue
  BY <1>0, <1>4 DEF queue, QueuedIsReachable, Queued
<1>5. UNCHANGED queue \/ Pop \/ Requeue \/ \E k \in Keys, p \in Prios : Ask(k, p)
  BY DEF Next, Drain, Work, vars, queue, Tick, StartWorkers, Join, EndDrain, Take, Slot, GiveBack,
         Repair, Release, Resolve, Trouble, Flip, Source
<1> QED BY <1>1, <1>2, <1>3, <1>4, <1>5
-----------------------------------------------------------------------------
(* The slot counters. *)

\* The disk a worker took one slot too many of.
Wanted(w) == Targets(w)[Cardinality(held[w]) + 1]
Holders(d) == {w \in W : d \in held[w]}
Over(d) == {w \in W : wpc[w] = "over" /\ Wanted(w) = d}
SlotsOf(d) ==
  /\ inflight[d] = Cardinality(Holders(d)) + Cardinality(Over(d))
  /\ Cardinality(Holders(d)) <= MaxPerShard

LEMMA BulkheadIsSlots == Bulkhead <=> \A d \in Disks : SlotsOf(d)
BY DEF Bulkhead, SlotsOf, Holders, Over, Wanted

\* Sets of workers are finite, and no larger than the number of workers.
LEMMA CountType ==
  ASSUME NEW S \in SUBSET W
  PROVE  IsFiniteSet(S) /\ Cardinality(S) \in Nat /\ Cardinality(S) <= Parallelism
<1>1. IsFiniteSet(W) /\ Cardinality(W) = Parallelism
  BY HealAssumption, FS_Interval DEF W
<1>2. IsFiniteSet(S) /\ Cardinality(S) <= Parallelism
  BY <1>1, FS_Subset
<1> QED BY <1>2, FS_CardinalityType

\* The workers over their limit stay the same when only w moves, and not to or
\* from that place.
LEMMA OverFrame ==
  ASSUME NEW w \in W, batch' = batch, wpc[w] # "over", wpc'[w] # "over",
         \A v \in W : v # w => wpc'[v] = wpc[v] /\ item'[v] = item[v] /\ held'[v] = held[v]
  PROVE  \A d \in Disks : Over(d)' = Over(d)
<1>1. \A v \in W : v # w => Wanted(v)' = Wanted(v)
  BY DEF Wanted, Targets, KeyOf
<1> QED BY <1>1 DEF Over

\* Nothing that counts has changed.
LEMMA SlotsFrame ==
  ASSUME NEW d \in Disks, SlotsOf(d), inflight'[d] = inflight[d],
         Holders(d)' = Holders(d), Over(d)' = Over(d)
  PROVE  SlotsOf(d)'
BY DEF SlotsOf

LEMMA BulkheadStep ==
  ASSUME Inv, [Next]_vars
  PROVE  Bulkhead'
<1> USE HealAssumption
<1>0. /\ TypeOK /\ PhaseShape /\ WorkerShape
      /\ \A d \in Disks : SlotsOf(d)
  BY BulkheadIsSlots DEF Inv
<1> SUFFICES ASSUME NEW d \in Disks PROVE SlotsOf(d)'
  <2>1. (\A d \in Disks : SlotsOf(d))' => Bulkhead'
    BY BulkheadIsSlots, PTL
  <2> QED BY <2>1
<1>a. /\ Holders(d) \in SUBSET W /\ Over(d) \in SUBSET W
      /\ IsFiniteSet(Holders(d)) /\ Cardinality(Holders(d)) \in Nat
      /\ IsFiniteSet(Over(d)) /\ Cardinality(Over(d)) \in Nat
  <2>1. Holders(d) \in SUBSET W /\ Over(d) \in SUBSET W
    BY DEF Holders, Over
  <2> QED BY <2>1, CountType
<1>b. SlotsOf(d) /\ inflight[d] \in Nat
  BY <1>0 DEF TypeOK
<1>1. CASE UNCHANGED <<batch, workers, inflight>>
  <2>1. Holders(d)' = Holders(d) /\ Over(d)' = Over(d)
    BY <1>1 DEF workers, Holders, Over, Wanted, Targets, KeyOf
  <2> QED BY <2>1, <1>1, <1>b, SlotsFrame
<1>2. CASE Pop \/ Join
  <2>1. UNCHANGED <<workers, inflight>> /\ \A w \in W : wpc[w] = "done"
    BY <1>0, <1>2 DEF Pop, Join, PhaseShape
  <2>2. Holders(d)' = Holders(d) /\ Over(d)' = Over(d)
    BY <2>1 DEF workers, Holders, Over
  <2> QED BY <2>1, <2>2, <1>b, SlotsFrame
<1>3. CASE StartWorkers
  <2>1. \A w \in W : held[w] = {} /\ wpc'[w] \in {"take", "done"}
    BY <1>0, <1>3 DEF StartWorkers, PhaseShape, WorkerShape, ShapeOf
  <2>2. Holders(d)' = {} /\ Over(d)' = {} /\ inflight'[d] = 0
    BY <2>1, <1>3 DEF StartWorkers, Holders, Over
  <2>3. Cardinality({}) = 0
    BY FS_EmptySet
  <2> QED BY <2>2, <2>3 DEF SlotsOf
<1>4. ASSUME NEW w \in W, Take(w) PROVE SlotsOf(d)'
  <2>1. /\ batch' = batch /\ held' = held /\ inflight' = inflight /\ wpc[w] = "take"
        /\ \/ wpc' = [wpc EXCEPT ![w] = "slot"] /\ item' = [item EXCEPT ![w] = next]
           \/ wpc' = [wpc EXCEPT ![w] = "done"] /\ item' = item
    BY <1>4 DEF Take
  <2>2. /\ wpc'[w] # "over"
        /\ \A v \in W : v # w => wpc'[v] = wpc[v] /\ item'[v] = item[v] /\ held'[v] = held[v]
    BY <2>1, <1>0 DEF TypeOK
  <2>3. Over(d)' = Over(d)
    BY <2>1, <2>2, OverFrame
  <2>4. Holders(d)' = Holders(d)
    BY <2>1 DEF Holders
  <2> QED BY <2>1, <2>3, <2>4, <1>b, SlotsFrame
<1>5. ASSUME NEW w \in W, Slot(w) PROVE SlotsOf(d)'
  <2> DEFINE t == Wanted(w)
  <2>1. /\ wpc[w] = "slot" /\ batch' = batch /\ item' = item
        /\ inflight' = [inflight EXCEPT ![t] = @ + 1]
    BY <1>5 DEF Slot, Wanted
  <2>2. t \in Disks /\ t \notin held[w]
    BY <1>0, <1>5, NextTarget DEF Slot, Wanted
  <2>3. CASE inflight[t] >= MaxPerShard
    <3>1. wpc' = [wpc EXCEPT ![w] = "over"] /\ held' = held
      BY <2>3, <1>5 DEF Slot, Wanted
    <3>2. Holders(d)' = Holders(d)
      BY <3>1 DEF Holders
    <3>3. \A v \in W : Wanted(v)' = Wanted(v)
      BY <2>1, <3>1 DEF Wanted, Targets, KeyOf
    <3>4. w \notin Over(d) /\ Over(d)' = IF d = t THEN Over(d) \cup {w} ELSE Over(d)
      <4>1. \A v \in W : wpc'[v] = IF v = w THEN "over" ELSE wpc[v]
        BY <3>1, <1>0 DEF TypeOK
      <4> HIDE DEF t
      <4> QED BY <4>1, <2>1, <3>3 DEF Over, t
    <3>5. CASE d = t
      <4>1. Cardinality(Over(d)') = Cardinality(Over(d)) + 1
        BY <3>4, <3>5, <1>a, CountUp
      <4>2. inflight'[d] = inflight[d] + 1
        BY <2>1, <2>2, <3>5, <1>0 DEF TypeOK
      <4>3. /\ inflight'[d] = Cardinality(Holders(d)') + Cardinality(Over(d)')
            /\ Cardinality(Holders(d)') <= MaxPerShard
        BY <4>1, <4>2, <3>2, <1>a, <1>b DEF SlotsOf
      <4> QED BY <4>3 DEF SlotsOf
    <3>6. CASE d # t
      <4>1. inflight'[d] = inflight[d]
        BY <2>1, <3>6, <1>0 DEF TypeOK
      <4> QED BY <4>1, <3>2, <3>4, <3>6, <1>b, SlotsFrame
    <3> QED BY <3>5, <3>6
  <2>4. CASE ~ (inflight[t] >= MaxPerShard)
    <3>1. held' = [held EXCEPT ![w] = @ \cup {t}] /\ wpc' = wpc
      BY <2>4, <1>5 DEF Slot, Wanted
    <3> HIDE DEF t
    <3>2. \A v \in W : held'[v] = IF v = w THEN held[v] \cup {t} ELSE held[v]
      BY <3>1, <1>0 DEF TypeOK
    <3>3. Over(d)' = Over(d)
      BY <2>1, <3>1, <3>2, OverFrame
    <3>4. Holders(d)' = IF d = t THEN Holders(d) \cup {w} ELSE Holders(d)
      BY <3>2 DEF Holders
    <3>5. CASE d = t
      <4>1. w \notin Holders(d)
        BY <2>2, <3>5 DEF Holders
      <4>2. Cardinality(Holders(d)') = Cardinality(Holders(d)) + 1
        BY <4>1, <3>4, <3>5, <1>a, CountUp
      <4>3. inflight'[d] = inflight[d] + 1 /\ inflight[d] < MaxPerShard
        BY <2>1, <2>2, <2>4, <3>5, <1>0, <1>b DEF TypeOK
      <4>4. /\ inflight'[d] = Cardinality(Holders(d)') + Cardinality(Over(d)')
            /\ Cardinality(Holders(d)') <= MaxPerShard
        BY <4>2, <4>3, <3>3, <1>a, <1>b DEF SlotsOf
      <4> QED BY <4>4 DEF SlotsOf
    <3>6. CASE d # t
      <4>1. inflight'[d] = inflight[d]
        BY <2>1, <3>6, <1>0 DEF TypeOK
      <4> QED BY <4>1, <3>3, <3>4, <3>6, <1>b, SlotsFrame
    <3> QED BY <3>5, <3>6
  <2> QED BY <2>3, <2>4
<1>6. ASSUME NEW w \in W, GiveBack(w) PROVE SlotsOf(d)'
  <2> DEFINE t == Wanted(w)
  <2>1. /\ wpc[w] = "over" /\ batch' = batch /\ item' = item /\ held' = held
        /\ inflight' = [inflight EXCEPT ![t] = @ - 1] /\ wpc' = [wpc EXCEPT ![w] = "release"]
    BY <1>6 DEF GiveBack, Wanted
  <2>2. t \in Disks
    BY <2>1, <1>0, NextTarget DEF WorkerShape, ShapeOf, Wanted
  <2>3. Holders(d)' = Holders(d)
    BY <2>1 DEF Holders
  <2>4. \A v \in W : Wanted(v)' = Wanted(v)
    BY <2>1 DEF Wanted, Targets, KeyOf
  <2>5. Over(d)' = IF d = t THEN Over(d) \ {w} ELSE Over(d)
    <3>1. \A v \in W : wpc'[v] = IF v = w THEN "release" ELSE wpc[v]
      BY <2>1, <1>0 DEF TypeOK
    <3> HIDE DEF t
    <3> QED BY <3>1, <2>1, <2>4 DEF Over, t
  <2>6. CASE d = t
    <3>0. w \in Over(d)
      BY <2>1, <2>6 DEF Over
    <3>1. Cardinality(Over(d)') = Cardinality(Over(d)) - 1
      BY <3>0, <2>5, <2>6, <1>a, CountDown
    <3>2. inflight'[d] = inflight[d] - 1
      BY <2>1, <2>2, <2>6, <1>0 DEF TypeOK
    <3>3. /\ inflight'[d] = Cardinality(Holders(d)') + Cardinality(Over(d)')
          /\ Cardinality(Holders(d)') <= MaxPerShard
      BY <3>1, <3>2, <2>3, <1>a, <1>b DEF SlotsOf
    <3> QED BY <3>3 DEF SlotsOf
  <2>7. CASE d # t
    <3>1. inflight'[d] = inflight[d]
      BY <2>1, <2>7, <1>0 DEF TypeOK
    <3> QED BY <3>1, <2>3, <2>5, <2>7, <1>b, SlotsFrame
  <2> QED BY <2>6, <2>7
<1>7. ASSUME NEW w \in W, Repair(w) \/ Resolve(w) PROVE SlotsOf(d)'
  <2>1. /\ batch' = batch /\ held' = held /\ inflight' = inflight /\ wpc[w] # "over" /\ wpc'[w] # "over"
        /\ \A v \in W : v # w => wpc'[v] = wpc[v] /\ item'[v] = item[v] /\ held'[v] = held[v]
    BY <1>0, <1>7 DEF Repair, Resolve, TypeOK
  <2>2. Over(d)' = Over(d)
    BY <2>1, OverFrame
  <2>3. Holders(d)' = Holders(d)
    BY <2>1 DEF Holders
  <2> QED BY <2>1, <2>2, <2>3, <1>b, SlotsFrame
<1>8. ASSUME NEW w \in W, Release(w) PROVE SlotsOf(d)'
  <2>1. PICK t \in held[w] : /\ t \in Disks
                             /\ inflight' = [inflight EXCEPT ![t] = @ - 1]
                             /\ held' = [held EXCEPT ![w] = @ \ {t}]
    BY <1>0, <1>8, ReleaseTarget
  <2>2. wpc[w] = "release" /\ UNCHANGED <<batch, item, wpc>>
    BY <1>8 DEF Release
  <2>3. \A v \in W : held'[v] = IF v = w THEN held[v] \ {t} ELSE held[v]
    BY <2>1, <1>0 DEF TypeOK
  <2>4. Over(d)' = Over(d)
    BY <2>2, <2>3, OverFrame
  <2>5. Holders(d)' = IF d = t THEN Holders(d) \ {w} ELSE Holders(d)
    BY <2>3 DEF Holders
  <2>6. CASE d = t
    <3>0. w \in Holders(d)
      BY <2>1, <2>6 DEF Holders
    <3>1. Cardinality(Holders(d)') = Cardinality(Holders(d)) - 1
      BY <3>0, <2>5, <2>6, <1>a, CountDown
    <3>2. inflight'[d] = inflight[d] - 1
      BY <2>1, <2>6, <1>0 DEF TypeOK
    <3>3. /\ inflight'[d] = Cardinality(Holders(d)') + Cardinality(Over(d)')
          /\ Cardinality(Holders(d)') <= MaxPerShard
      BY <3>1, <3>2, <2>4, <1>a, <1>b DEF SlotsOf
    <3> QED BY <3>3 DEF SlotsOf
  <2>7. CASE d # t
    <3>1. inflight'[d] = inflight[d]
      BY <2>1, <2>7, <1>0 DEF TypeOK
    <3> QED BY <3>1, <2>4, <2>5, <2>7, <1>b, SlotsFrame
  <2> QED BY <2>6, <2>7
<1>9. \/ UNCHANGED <<batch, workers, inflight>> \/ Pop \/ Join \/ StartWorkers
      \/ \E w \in W : Take(w) \/ Slot(w) \/ GiveBack(w) \/ Repair(w) \/ Release(w) \/ Resolve(w)
  BY DEF Next, Drain, Work, vars, workers, Ask, Tick, Requeue, EndDrain, Trouble, Flip, Source
<1> QED BY <1>1, <1>2, <1>3, <1>4, <1>5, <1>6, <1>7, <1>8, <1>9

\* The counters stay within what the workers can take.
LEMMA SlotsBounded ==
  ASSUME Bulkhead, inflight \in [Disks -> Int]
  PROVE  inflight \in [Disks -> 0 .. MaxPerShard + Parallelism]
<1>1. ASSUME NEW d \in Disks PROVE inflight[d] \in 0 .. MaxPerShard + Parallelism
  <2>1. /\ Cardinality(Holders(d)) \in Nat /\ Cardinality(Over(d)) \in Nat
        /\ Cardinality(Over(d)) <= Parallelism
    <3>1. Holders(d) \in SUBSET W /\ Over(d) \in SUBSET W
      BY DEF Holders, Over
    <3> QED BY <3>1, CountType
  <2>2. SlotsOf(d)
    BY BulkheadIsSlots
  <2> QED BY <2>1, <2>2, HealAssumption DEF SlotsOf
<1> QED BY <1>1

-----------------------------------------------------------------------------
(* The theorems. *)

LEMMA InvInit == Init => Inv
<1> SUFFICES ASSUME Init PROVE Inv
  OBVIOUS
<1> USE HealAssumption
<1>1. /\ << >> \in Seq(Item) /\ Len(<< >>) = 0 /\ DOMAIN << >> = {}
      /\ Cardinality({}) = 0
  BY EmptySeq, FS_EmptySet
<1>2. TypeOK
  BY <1>1 DEF Init, TypeOK
<1>3. PhaseShape
  BY <1>1 DEF Init, PhaseShape
<1>4. WorkerShape
  BY DEF Init, WorkerShape, ShapeOf, AtWork
<1>5. ItemsApart /\ KeysApart /\ BatchTaken
  BY <1>1 DEF Init, ItemsApart, KeysApart, BatchTaken, AtWork
<1>6. QueuedIsReachable
  BY DEF Init, QueuedIsReachable, Queued
<1>7. ASSUME NEW d \in Disks PROVE SlotsOf(d)
  <2>1. Holders(d) = {} /\ Over(d) = {} /\ inflight[d] = 0
    BY DEF Init, Holders, Over
  <2> QED BY <2>1, <1>1 DEF SlotsOf
<1> QED BY <1>2, <1>3, <1>4, <1>5, <1>6, <1>7, BulkheadIsSlots DEF Inv

LEMMA InvStep == Inv /\ [Next]_vars => Inv'
<1> SUFFICES ASSUME Inv, [Next]_vars PROVE Inv'
  OBVIOUS
<1>1. Bulkhead' /\ TypeButSlots' /\ inflight' \in [Disks -> Int]
  BY BulkheadStep, TypeStep
<1>2. (Bulkhead /\ inflight \in [Disks -> Int])' => (inflight \in [Disks -> 0 .. MaxPerShard + Parallelism])'
  BY SlotsBounded, PTL
<1>3. TypeOK'
  BY <1>1, <1>2 DEF TypeOK, TypeButSlots
<1> QED BY <1>1, <1>3, PhaseStep, WorkerStep, ItemsStep, BatchStep, ReachableStep DEF Inv

\* The invariant of the queue, its drain and the slot counters.
THEOREM InvHolds == Spec => []Inv
BY InvInit, InvStep, PTL DEF Spec

LEMMA InvImplies == Inv => QueueSound /\ Bulkhead
<1> SUFFICES ASSUME Inv PROVE QueueSound /\ Bulkhead
  OBVIOUS
<1>1. OneRepairPerKey
  <2> SUFFICES ASSUME NEW v \in W, NEW w \in W, v # w, wpc[v] \in AtWork, wpc[w] \in AtWork
               PROVE  KeyOf(v) # KeyOf(w)
    BY DEF OneRepairPerKey, AtWork
  <2>1. item[v] \in DOMAIN batch /\ item[w] \in DOMAIN batch /\ item[v] # item[w]
    BY TargetsType DEF Inv, ItemsApart
  <2> QED BY <2>1 DEF Inv, KeysApart, KeyOf
<1>2. BatchOutranksRest
  <2> SUFFICES ASSUME phase = "pop", NEW i \in DOMAIN batch, NEW k \in Queued
               PROVE  dedup[k] <= batch[i].prio
    BY DEF BatchOutranksRest
  <2>1. PICK j \in DOMAIN heap : heap[j] = [key |-> k, prio |-> dedup[k]]
    BY DEF Inv, QueuedIsReachable
  <2> QED BY <2>1 DEF Inv, BatchTaken
<1> QED BY <1>1, <1>2 DEF QueueSound, Inv

\* Whatever is asked while a batch is popped, worked on and requeued: no key of
\* the map is without its heap item, no key is repaired by two workers at a
\* time, and nothing left in the queue outranks the batch (HealQueue, mrf_drain).
THEOREM QueueStaysSound == Spec => []QueueSound
BY InvHolds, InvImplies, PTL

\* Any number of workers, in any order of their fetch_add and fetch_sub: the
\* counter of a disk is exact and no more than MaxPerShard repairs hold it.
THEOREM BulkheadHolds == Spec => []Bulkhead
BY InvHolds, InvImplies, PTL
-----------------------------------------------------------------------------
(* The queue and its drain implement HealRequests. *)

\* The importances at which k is asked for, wherever the request is.
InBatch(k) == {j \in DOMAIN batch : batch[j].key = k /\ Unresolved(j)}
InDeferred(k) == {j \in DOMAIN deferred : deferred[j].key = k}
Asked(k) ==
  {dedup[k]} \cup {batch[i].prio : i \in InBatch(k)} \cup {deferred[i].prio : i \in InDeferred(k)}
\* The refinement mapping.
ReqOf == [k \in Keys |-> Outstanding(k)]
FixedOf == {KeyOf(w) : w \in {v \in W : wpc[v] = "release" /\ ok[v]}}

\* Importances are positive, and there is a highest one.
LEMMA PriosBounded == Prios \subseteq Nat \ {0} /\ \E m \in Nat : \A p \in Prios : p <= m
BY HealAssumption

\* The outstanding importance is the highest one asked for.
LEMMA OutstandingIsHighest ==
  ASSUME TypeOK, NEW k \in Keys
  PROVE  /\ Asked(k) \subseteq Nat /\ Outstanding(k) \in Asked(k)
         /\ \A x \in Asked(k) : x <= Outstanding(k)
<1>1. PICK m \in Nat : \A p \in Prios : p <= m
  BY PriosBounded
<1>2. Asked(k) \subseteq Prios \cup {0}
  <2>1. \A j \in DOMAIN batch : batch[j].prio \in Prios
    <3>1. \A j \in DOMAIN batch : batch[j] \in Item
      BY LenProperties, ElementOfSeq DEF TypeOK
    <3> QED BY <3>1 DEF Item
  <2>2. \A j \in DOMAIN deferred : deferred[j].prio \in Prios
    <3>1. \A j \in DOMAIN deferred : deferred[j] \in Item
      BY LenProperties, ElementOfSeq DEF TypeOK
    <3> QED BY <3>1 DEF Item
  <2>3. dedup[k] \in Prios \cup {0}
    BY DEF TypeOK
  <2> QED BY <2>1, <2>2, <2>3 DEF Asked, InBatch, InDeferred
<1>3. Asked(k) \in SUBSET Nat /\ Asked(k) # {} /\ \A x \in Asked(k) : x <= m
  <2>1. dedup[k] \in Asked(k)
    BY DEF Asked
  <2>2. Prios \cup {0} \subseteq Nat /\ \A p \in Prios \cup {0} : p <= m
    BY <1>1, PriosBounded
  <2> QED BY <2>1, <2>2, <1>2
<1>4. Outstanding(k) = Max(Asked(k))
  BY DEF Outstanding, Asked, InBatch, InDeferred
<1>5. Max(Asked(k)) \in Asked(k) /\ \A x \in Asked(k) : Max(Asked(k)) >= x
  BY <1>3, MaxIsGreatest
<1> QED BY <1>3, <1>4, <1>5

Highest ==
  \A k \in Keys : /\ Outstanding(k) \in Nat /\ Outstanding(k) \in Asked(k)
                  /\ \A x \in Asked(k) : x \in Nat /\ x <= Outstanding(k)

LEMMA HighestHolds == TypeOK => Highest
BY OutstandingIsHighest DEF Highest

\* The same, before and after a step.
LEMMA OutstandingStep ==
  ASSUME TypeOK, TypeOK', NEW k \in Keys
  PROVE  /\ Outstanding(k) \in Nat /\ Outstanding(k) \in Asked(k)
         /\ \A x \in Asked(k) : x \in Nat /\ x <= Outstanding(k)
         /\ Outstanding(k)' \in Nat /\ Outstanding(k)' \in Asked(k)'
         /\ \A x \in Asked(k)' : x \in Nat /\ x <= Outstanding(k)'
<1>1. TypeOK' => Highest'
  BY HighestHolds, PTL
<1> QED BY <1>1, HighestHolds DEF Highest

\* A step after which nothing lower and nothing higher is asked changes nothing.
LEMMA NoHigher ==
  ASSUME TypeOK, TypeOK', NEW k \in Keys, \A x \in Asked(k)' : \E y \in Asked(k) : x <= y
  PROVE  Outstanding(k)' <= Outstanding(k)
BY OutstandingStep

LEMMA SameOutstanding ==
  ASSUME TypeOK, TypeOK', NEW k \in Keys,
         \A x \in Asked(k)' : \E y \in Asked(k) : x <= y,
         \A y \in Asked(k) : \E x \in Asked(k)' : y <= x
  PROVE  Outstanding(k)' = Outstanding(k)
<1>1. /\ Outstanding(k) \in Nat /\ Outstanding(k) \in Asked(k)
      /\ \A x \in Asked(k) : x \in Nat /\ x <= Outstanding(k)
      /\ Outstanding(k)' \in Nat /\ Outstanding(k)' \in Asked(k)'
      /\ \A x \in Asked(k)' : x \in Nat /\ x <= Outstanding(k)'
  BY OutstandingStep
<1>2. Outstanding(k)' <= Outstanding(k)
  BY <1>1
<1>3. Outstanding(k) <= Outstanding(k)'
  BY <1>1
<1> QED BY <1>1, <1>2, <1>3

LEMMA SameAsked ==
  ASSUME TypeOK, TypeOK', NEW k \in Keys, Asked(k)' = Asked(k)
  PROVE  Outstanding(k)' = Outstanding(k)
<1>1. \A x \in Asked(k) : x <= x
  BY OutstandingStep
<1> QED BY <1>1, SameOutstanding

\* Steps that move no request: whatever is unresolved stays so.
LEMMA AskedFrame ==
  ASSUME NEW k \in Keys, dedup' = dedup, batch' = batch, deferred' = deferred,
         \A i \in DOMAIN batch : Unresolved(i)' <=> Unresolved(i)
  PROVE  Asked(k)' = Asked(k)
<1>1. InBatch(k)' = InBatch(k) /\ InDeferred(k)' = InDeferred(k)
  BY DEF InBatch, InDeferred
<1> QED BY <1>1 DEF Asked

\* A push changes what is asked of its key only, and to the higher importance;
\* where it is refused at the cap, another key than the queued ones is asked for.
LEMMA PushAsked ==
  ASSUME TypeOK, NEW k \in Keys, NEW p \in Prios, Push(k, p)
  PROVE  /\ \A j \in Keys : j # k => dedup'[j] = dedup[j]
         /\ \/ dedup'[k] = p /\ dedup[k] < p
            \/ dedup' = dedup /\ p <= dedup[k]
            \/ dedup' = dedup /\ dedup[k] = 0 /\ ~ (Cardinality(Queued) < Cap)
<1>0. dedup[k] \in Prios \cup {0}
  BY DEF TypeOK
<1>a. \A x \in Prios \cup {0} : x \in Nat
  BY PriosBounded
<1>1. dedup[k] \in Nat /\ p \in Nat
  BY <1>0, <1>a
<1>2. CASE Accepts(k, p)
  BY <1>1, <1>2 DEF Accepts, Push, TypeOK
<1>3. CASE ~ Accepts(k, p)
  BY <1>1, <1>3 DEF Accepts, Push, queue
<1> QED BY <1>2, <1>3

\* The step of HealRequests that a step of the queue and its drain takes.
RequestStep ==
  \/ UNCHANGED <<ReqOf, FixedOf>>
  \/ \E k \in Keys, p \in Prios : Requests!Ask(k, p)
  \/ \E k \in Keys : Requests!Fix(k) \/ Requests!Serve(k) \/ Requests!Lose(k)

\* A step that moves no request and finishes no repair is a stutter.
LEMMA StutterStep ==
  ASSUME \A k \in Keys : Outstanding(k)' = Outstanding(k), FixedOf' = FixedOf
  PROVE  RequestStep
BY DEF RequestStep, ReqOf

\* The repairs that have succeeded are the same ones.
LEMMA FixedFrame ==
  ASSUME \A w \in W : (wpc[w] = "release" /\ ok[w]) <=> (wpc'[w] = "release" /\ ok'[w]),
         \A w \in W : wpc[w] = "release" /\ ok[w] => KeyOf(w)' = KeyOf(w)
  PROVE  FixedOf' = FixedOf
BY DEF FixedOf

LEMMA AskRefines ==
  ASSUME Inv, Inv', NEW k \in Keys, NEW p \in Prios, Ask(k, p)
  PROVE  RequestStep
<1>0. TypeOK /\ TypeOK'
  BY DEF Inv
<1>1. /\ UNCHANGED <<phase, batch, next, wpc, item, held, ok, deferred>>
      /\ Push(k, p)
  BY DEF Ask, workers
<1>2. FixedOf' = FixedOf
  BY <1>1 DEF FixedOf, KeyOf
<1>3. \A i \in DOMAIN batch : Unresolved(i)' <=> Unresolved(i)
  BY <1>1 DEF Unresolved
<1>4. \A j \in Keys : InBatch(j)' = InBatch(j) /\ InDeferred(j)' = InDeferred(j)
  BY <1>1, <1>3 DEF InBatch, InDeferred
<1>5. ASSUME NEW j \in Keys, dedup'[j] = dedup[j] PROVE Outstanding(j)' = Outstanding(j)
  <2>1. Asked(j)' = Asked(j)
    BY <1>1, <1>4, <1>5 DEF Asked
  <2> QED BY <2>1, <1>0, SameAsked
<1>6. CASE dedup'[k] = dedup[k]
  <2>1. \A j \in Keys : dedup'[j] = dedup[j]
    BY <1>0, <1>1, <1>6, PushAsked
  <2> QED BY <2>1, <1>2, <1>5, StutterStep
<1>7. CASE dedup'[k] = p /\ dedup[k] < p
  <2>0. /\ Outstanding(k) \in Nat /\ Outstanding(k) \in Asked(k)
        /\ \A x \in Asked(k) : x \in Nat /\ x <= Outstanding(k)
        /\ Outstanding(k)' \in Nat /\ Outstanding(k)' \in Asked(k)'
        /\ \A x \in Asked(k)' : x \in Nat /\ x <= Outstanding(k)'
    BY <1>0, OutstandingStep
  <2>1. \A j \in Keys : j # k => Outstanding(j)' = Outstanding(j)
    BY <1>0, <1>1, <1>5, PushAsked
  <2>2. p \in Asked(k)' /\ \A x \in Asked(k)' : x = p \/ x \in Asked(k)
    BY <1>1, <1>4, <1>7 DEF Asked
  <2>3. \A x \in Asked(k) : x = dedup[k] \/ x \in Asked(k)'
    BY <1>1, <1>4 DEF Asked
  <2>4. dedup[k] \in Asked(k) /\ p \in Nat
    BY <2>0, <2>2 DEF Asked
  <2>5. CASE p <= Outstanding(k)
    <3>1. Outstanding(k)' <= Outstanding(k)
      BY <2>0, <2>2, <2>5
    <3>2. Outstanding(k) <= Outstanding(k)'
      <4>1. CASE Outstanding(k) = dedup[k]
        BY <2>0, <2>2, <2>4, <4>1, <1>7
      <4>2. CASE Outstanding(k) # dedup[k]
        BY <2>0, <2>3, <4>2
      <4> QED BY <4>1, <4>2
    <3>3. Outstanding(k)' = Outstanding(k)
      BY <3>1, <3>2, <2>0
    <3> QED BY <3>3, <2>1, <1>2, StutterStep
  <2>6. CASE Outstanding(k) < p
    <3>1. Outstanding(k)' = p
      <4>1. p <= Outstanding(k)'
        BY <2>0, <2>2
      <4>2. Outstanding(k)' \notin Asked(k)
        BY <2>0, <2>4, <2>6, <4>1
      <4> QED BY <4>2, <2>0, <2>2
    <3>2. ReqOf' = [ReqOf EXCEPT ![k] = p] /\ ReqOf[k] < p
      BY <2>1, <2>6, <3>1 DEF ReqOf
    <3>3. Requests!Ask(k, p)
      BY <3>2, <1>2 DEF Requests!Ask, ReqOf, FixedOf
    <3> QED BY <3>3 DEF RequestStep
  <2> QED BY <2>0, <2>4, <2>5, <2>6
<1> QED BY <1>0, <1>1, <1>6, <1>7, PushAsked

LEMMA PopRefines ==
  ASSUME Inv, Inv', Pop
  PROVE  RequestStep
<1>0. TypeOK /\ TypeOK' /\ PhaseShape
  BY DEF Inv
<1>1. /\ phase = "pop" /\ next = 1 /\ \A w \in W : wpc[w] = "done"
      /\ UNCHANGED <<phase, next, wpc, item, held, ok, deferred>>
  BY <1>0 DEF Pop, workers, PhaseShape
<1>2. FixedOf' = FixedOf
  <2>1. \A w \in W : ~ (wpc[w] = "release" /\ ok[w]) /\ ~ (wpc'[w] = "release" /\ ok'[w])
    BY <1>1
  <2> QED BY <2>1 DEF FixedOf
<1>3. Top \in DOMAIN heap /\ heap[Top] \in Item /\ batch' \in Seq(Item)
  BY <1>0, PopType
<1> SUFFICES ASSUME NEW k \in Keys PROVE Outstanding(k)' = Outstanding(k)
  BY <1>2, StutterStep
<1>4. InDeferred(k)' = InDeferred(k)
  BY <1>1 DEF InDeferred
<1>a. \A x \in Asked(k) : x \in Nat
  BY <1>0, OutstandingStep
<1>b. \A x \in Asked(k)' : x \in Nat
  BY <1>0, OutstandingStep
<1>5. CASE dedup[heap[Top].key] # heap[Top].prio
  <2>1. batch' = batch /\ dedup' = dedup
    BY <1>5 DEF Pop
  <2>2. Asked(k)' = Asked(k)
    BY <2>1, <1>1, AskedFrame DEF Unresolved
  <2> QED BY <2>2, <1>0, SameAsked
<1>6. CASE dedup[heap[Top].key] = heap[Top].prio
  <2> DEFINE n == Len(batch) + 1
  <2>1. batch' = Append(batch, heap[Top]) /\ dedup' = [dedup EXCEPT ![heap[Top].key] = 0]
    BY <1>6 DEF Pop
  <2>2. /\ DOMAIN batch = 1 .. Len(batch) /\ Len(batch) \in Nat
        /\ DOMAIN batch' = 1 .. Len(batch) + 1
        /\ \A i \in 1 .. Len(batch) : batch'[i] = batch[i]
        /\ batch'[n] = heap[Top]
    BY <2>1, <1>0, <1>3, AppendProperties, LenProperties DEF TypeOK
  <2>3. \A i \in DOMAIN batch : Unresolved(i)
    BY <2>2, <1>1 DEF Unresolved
  <2>4. \A i \in DOMAIN batch' : Unresolved(i)'
    BY <2>2, <1>1 DEF Unresolved
  <2>5. heap[Top].key \in Keys
    BY <1>3 DEF Item
  <2>6. CASE k # heap[Top].key
    <3>1. dedup'[k] = dedup[k]
      BY <2>1, <2>6 DEF TypeOK
    <3>2. InBatch(k)' = InBatch(k)
      BY <2>2, <2>3, <2>4, <2>6 DEF InBatch
    <3>3. \A i \in InBatch(k) : batch'[i] = batch[i]
      BY <2>2 DEF InBatch
    <3>4. Asked(k)' = Asked(k)
      BY <3>1, <3>2, <3>3, <1>1, <1>4 DEF Asked
    <3> QED BY <3>4, <1>0, SameAsked
  <2>7. CASE k = heap[Top].key
    <3>1. dedup'[k] = 0 /\ dedup[k] = heap[Top].prio
      BY <2>1, <2>5, <2>7, <1>0, <1>6 DEF TypeOK
    <3>2. InBatch(k)' = InBatch(k) \cup {n} /\ n \notin InBatch(k)
      BY <2>2, <2>3, <2>4, <2>7 DEF InBatch
    <3>3. \A i \in InBatch(k) : batch'[i] = batch[i]
      BY <2>2 DEF InBatch
    <3>4. Asked(k)' = {0} \cup Asked(k)
      BY <3>1, <3>2, <3>3, <2>2, <1>1, <1>4 DEF Asked
    <3>5. \A x \in Asked(k)' : \E y \in Asked(k) : x <= y
      <4>1. dedup[k] \in Asked(k)
        BY DEF Asked
      <4> QED BY <4>1, <3>4, <1>a
    <3>6. \A y \in Asked(k) : \E x \in Asked(k)' : y <= x
      BY <3>4, <1>a
    <3> QED BY <3>5, <3>6, <1>0, SameOutstanding
  <2> QED BY <2>6, <2>7
<1> QED BY <1>5, <1>6
\* Steps of the drain that move no request.
LEMMA QuietRefines ==
  ASSUME Inv, Inv', Tick \/ EndDrain \/ StartWorkers \/ Join \/ Trouble \/ UNCHANGED vars
  PROVE  RequestStep
<1>0. TypeOK /\ TypeOK' /\ PhaseShape /\ DOMAIN batch = 1 .. Len(batch) /\ Len(batch) \in Nat
  BY LenProperties DEF Inv, TypeOK
<1>1. CASE Tick \/ EndDrain \/ Trouble \/ UNCHANGED vars
  <2>1. UNCHANGED <<dedup, batch, next, wpc, item, ok, deferred>>
    BY <1>1 DEF Tick, EndDrain, Trouble, Flip, Source, vars, queue, workers
  <2>2. FixedOf' = FixedOf
    BY <2>1 DEF FixedOf, KeyOf
  <2>3. \A k \in Keys : Asked(k)' = Asked(k)
    BY <2>1, AskedFrame DEF Unresolved
  <2> QED BY <2>2, <2>3, <1>0, SameAsked, StutterStep
<1>2. CASE StartWorkers
  <2>1. /\ next = 1 /\ UNCHANGED <<dedup, batch, next, deferred>>
        /\ \A w \in W : wpc[w] = "done" /\ wpc'[w] \in {"take", "done"}
    BY <1>0, <1>2 DEF StartWorkers, PhaseShape, queue
  <2>2. FixedOf' = FixedOf
    BY <2>1, FixedFrame
  <2>3. \A i \in DOMAIN batch : Unresolved(i)' <=> Unresolved(i)
    BY <2>1, <1>0 DEF Unresolved
  <2>4. \A k \in Keys : Asked(k)' = Asked(k)
    BY <2>1, <2>3, AskedFrame
  <2> QED BY <2>2, <2>4, <1>0, SameAsked, StutterStep
<1>3. CASE Join
  <2>1. /\ phase = "work" /\ batch' = << >> /\ UNCHANGED <<dedup, wpc, ok, deferred>>
        /\ \A w \in W : wpc[w] = "done"
    BY <1>3 DEF Join, queue, workers
  <2>2. next > Len(batch)
    BY <2>1, <1>0 DEF PhaseShape
  <2>3. \A i \in DOMAIN batch : ~ Unresolved(i)
    BY <2>1, <2>2, <1>0 DEF Unresolved, TypeOK
  <2>4. FixedOf' = FixedOf
    BY <2>1, FixedFrame
  <2>5. ASSUME NEW k \in Keys PROVE Asked(k)' = Asked(k)
    <3>1. InBatch(k) = {} /\ InBatch(k)' = {}
      BY <2>1, <2>3 DEF InBatch
    <3>2. InDeferred(k)' = InDeferred(k)
      BY <2>1 DEF InDeferred
    <3> QED BY <2>1, <3>1, <3>2 DEF Asked
  <2> QED BY <2>4, <2>5, <1>0, SameAsked, StutterStep
<1> QED BY <1>1, <1>2, <1>3

\* A worker that takes an index, takes, gives back or releases slots.
LEMMA WorkRefines ==
  ASSUME Inv, Inv', NEW w \in W, Take(w) \/ Slot(w) \/ GiveBack(w) \/ Release(w)
  PROVE  RequestStep
<1>0. /\ TypeOK /\ TypeOK' /\ PhaseShape /\ WorkerShape /\ next \in Nat
      /\ DOMAIN batch = 1 .. Len(batch) /\ Len(batch) \in Nat
  BY LenProperties DEF Inv, TypeOK
<1>1. UNCHANGED <<dedup, batch, ok, deferred>>
  BY DEF Take, Slot, GiveBack, Release, queue
<1>2. CASE Slot(w) \/ GiveBack(w) \/ Release(w)
  <2>1. UNCHANGED <<next, item>>
    BY <1>2 DEF Slot, GiveBack, Release
  <2>2. /\ wpc[w] \in AtWork /\ wpc'[w] \in AtWork
        /\ \A v \in W : v # w => wpc'[v] = wpc[v]
        /\ wpc[w] # "release" => ~ ok[w]
        /\ wpc[w] = "release" => wpc'[w] = "release"
    BY <1>0, <1>2 DEF Slot, GiveBack, Release, AtWork, TypeOK, WorkerShape, ShapeOf
  <2>3. \A v \in W : wpc[v] \in AtWork <=> wpc'[v] \in AtWork
    BY <2>2
  <2>4. \A i \in DOMAIN batch : Unresolved(i)' <=> Unresolved(i)
    BY <2>1, <2>3 DEF Unresolved, AtWork
  <2>5. FixedOf' = FixedOf
    <3>1. \A v \in W : (wpc[v] = "release" /\ ok[v]) <=> (wpc'[v] = "release" /\ ok'[v])
      BY <1>1, <2>2
    <3>2. \A v \in W : KeyOf(v)' = KeyOf(v)
      BY <1>1, <2>1 DEF KeyOf
    <3> QED BY <3>1, <3>2, FixedFrame
  <2>6. \A k \in Keys : Asked(k)' = Asked(k)
    BY <1>1, <2>4, AskedFrame
  <2> QED BY <2>5, <2>6, <1>0, SameAsked, StutterStep
<1>3. CASE Take(w)
  <2>1. /\ wpc[w] = "take" /\ next' = next + 1
        /\ \/ /\ next <= Len(batch)
              /\ wpc' = [wpc EXCEPT ![w] = "slot"] /\ item' = [item EXCEPT ![w] = next]
           \/ /\ ~ (next <= Len(batch))
              /\ wpc' = [wpc EXCEPT ![w] = "done"] /\ item' = item
    BY <1>3 DEF Take
  <2>2. \A v \in W : v # w => wpc'[v] = wpc[v] /\ item'[v] = item[v]
    BY <2>1, <1>0 DEF TypeOK
  <2>3. wpc'[w] \in {"slot", "done"}
    BY <2>1, <1>0 DEF TypeOK
  <2>4. ASSUME NEW i \in DOMAIN batch PROVE Unresolved(i)' <=> Unresolved(i)
    <3>1. CASE i = next
      <4>1. wpc'[w] = "slot" /\ item'[w] = i
        BY <2>1, <3>1, <1>0 DEF TypeOK
      <4>2. Unresolved(i)'
        BY <4>1 DEF Unresolved
      <4>3. Unresolved(i)
        BY <3>1, <1>0 DEF Unresolved
      <4> QED BY <4>2, <4>3
    <3>2. CASE i # next
      <4>1. i >= next' <=> i >= next
        BY <2>1, <3>2, <1>0
      <4>2. ASSUME NEW v \in W
            PROVE  (wpc[v] \in AtWork /\ item[v] = i) <=> (wpc'[v] \in AtWork /\ item'[v] = i)
        <5>1. CASE v = w
          <6>1. wpc[v] \notin AtWork
            BY <2>1, <5>1 DEF AtWork
          <6>2. wpc'[v] \in AtWork => item'[v] = next
            BY <2>1, <5>1, <1>0 DEF AtWork, TypeOK
          <6> QED BY <6>1, <6>2, <3>2
        <5>2. CASE v # w
          BY <2>2, <5>2
        <5> QED BY <5>1, <5>2
      <4> QED BY <4>1, <4>2 DEF Unresolved, AtWork
    <3> QED BY <3>1, <3>2
  <2>5. FixedOf' = FixedOf
    <3>1. \A v \in W : (wpc[v] = "release" /\ ok[v]) <=> (wpc'[v] = "release" /\ ok'[v])
      BY <1>1, <2>1, <2>2, <2>3
    <3>2. \A v \in W : wpc[v] = "release" => KeyOf(v)' = KeyOf(v)
      BY <1>1, <2>1, <2>2 DEF KeyOf
    <3> QED BY <3>1, <3>2, FixedFrame
  <2>6. \A k \in Keys : Asked(k)' = Asked(k)
    BY <1>1, <2>4, AskedFrame
  <2> QED BY <2>5, <2>6, <1>0, SameAsked, StutterStep
<1> QED BY <1>2, <1>3
\* A repair that succeeds fixes its key, which is still asked for.
LEMMA RepairRefines ==
  ASSUME Inv, Inv', NEW w \in W, Repair(w)
  PROVE  RequestStep
<1>0. TypeOK /\ TypeOK' /\ WorkerShape
  BY DEF Inv
<1>1. /\ UNCHANGED <<dedup, batch, next, item, deferred>>
      /\ wpc[w] = "slot" /\ wpc' = [wpc EXCEPT ![w] = "release"]
  BY DEF Repair, queue
<1>2. /\ wpc'[w] = "release" /\ wpc[w] \in AtWork
      /\ \A v \in W : v # w => wpc'[v] = wpc[v]
  BY <1>0, <1>1 DEF TypeOK, AtWork
<1>3. PICK r \in BOOLEAN : ok' = [ok EXCEPT ![w] = r]
  BY DEF Repair
<1>4. ok'[w] = r /\ \A v \in W : v # w => ok'[v] = ok[v]
  BY <1>0, <1>3 DEF TypeOK
<1>5. \A v \in W : wpc[v] \in AtWork <=> wpc'[v] \in AtWork
  BY <1>2 DEF AtWork
<1>6. \A i \in DOMAIN batch : Unresolved(i)' <=> Unresolved(i)
  BY <1>1, <1>5 DEF Unresolved, AtWork
<1>7. \A k \in Keys : Outstanding(k)' = Outstanding(k)
  <2>1. \A k \in Keys : Asked(k)' = Asked(k)
    BY <1>1, <1>6, AskedFrame
  <2> QED BY <2>1, <1>0, SameAsked
<1>8. \A v \in W : KeyOf(v)' = KeyOf(v)
  BY <1>1 DEF KeyOf
<1>9. CASE ~ r
  <2>1. \A v \in W : (wpc[v] = "release" /\ ok[v]) <=> (wpc'[v] = "release" /\ ok'[v])
    BY <1>1, <1>2, <1>4, <1>9
  <2>2. FixedOf' = FixedOf
    BY <2>1, <1>8, FixedFrame
  <2> QED BY <2>2, <1>7, StutterStep
<1>10. CASE r
  <2>1. item[w] \in DOMAIN batch /\ batch[item[w]] \in Item
    BY <1>0, <1>2, TargetsType
  <2>a. PICK k \in Keys : k = KeyOf(w)
    BY <1>0, <1>2, TargetsType
  <2>2. FixedOf' = FixedOf \cup {k}
    <3>1. {v \in W : wpc'[v] = "release" /\ ok'[v]} = {v \in W : wpc[v] = "release" /\ ok[v]} \cup {w}
      BY <1>1, <1>2, <1>4, <1>10
    <3> QED BY <3>1, <2>a, <1>8 DEF FixedOf
  <2>3. batch[item[w]].prio \in Asked(k) /\ batch[item[w]].prio \in Nat \ {0}
    <3>1. Unresolved(item[w])
      BY <1>1 DEF Unresolved
    <3>2. item[w] \in InBatch(k)
      BY <2>1, <2>a, <3>1 DEF InBatch, KeyOf
    <3>3. \A x \in Prios : x \in Nat \ {0}
      BY PriosBounded
    <3> QED BY <2>1, <3>2, <3>3 DEF Asked, Item
  <2>4. Outstanding(k) # 0
    BY <2>3, <1>0, OutstandingStep
  <2>5. ReqOf' = ReqOf /\ ReqOf[k] # 0
    BY <2>4, <1>7 DEF ReqOf
  <2>6. Requests!Fix(k)
    BY <2>2, <2>5 DEF Requests!Fix, ReqOf, FixedOf
  <2> QED BY <2>6 DEF RequestStep
<1> QED BY <1>9, <1>10

\* A repaired key leaves the batch; a key that was not repaired moves from the
\* batch to the deferred ones.
LEMMA ResolveRefines ==
  ASSUME Inv, Inv', NEW w \in W, Resolve(w)
  PROVE  RequestStep
<1>0. TypeOK /\ TypeOK' /\ WorkerShape /\ ItemsApart /\ OneRepairPerKey
  BY InvImplies DEF Inv, QueueSound
<1>a. item[w] \in Nat /\ KeyOf(w) \in Keys
  BY <1>0, TargetsType DEF Resolve, AtWork, TypeOK
<1>b. PICK n \in Nat : n = item[w]
  BY <1>a
<1>c. PICK kw \in Keys : kw = KeyOf(w)
  BY <1>a
<1>1. /\ UNCHANGED <<dedup, batch, next>> /\ wpc[w] = "release"
      /\ wpc' = [wpc EXCEPT ![w] = "take"] /\ item' = [item EXCEPT ![w] = 0]
      /\ ok' = [ok EXCEPT ![w] = FALSE]
      /\ deferred' = IF ok[w] THEN deferred ELSE Append(deferred, batch[n])
  BY <1>b DEF Resolve, queue
<1>2. /\ wpc'[w] = "take" /\ wpc[w] \in AtWork
      /\ \A v \in W : v # w => wpc'[v] = wpc[v] /\ item'[v] = item[v] /\ ok'[v] = ok[v]
  BY <1>0, <1>1 DEF TypeOK, AtWork
<1>3. n \in DOMAIN batch /\ batch[n] \in Item /\ batch[n].key = kw /\ n < next
  BY <1>0, <1>b, <1>c, <1>2, TargetsType DEF KeyOf, WorkerShape, ShapeOf, TypeOK
<1>4. \A v \in W : v # w => KeyOf(v)' = KeyOf(v)
  BY <1>1, <1>2 DEF KeyOf
<1>5. \A v \in W : v # w /\ wpc[v] \in AtWork => KeyOf(v) # kw
  BY <1>0, <1>2, <1>c DEF OneRepairPerKey, AtWork
<1>6. FixedOf' = FixedOf \ {kw} /\ (ok[w] => kw \in FixedOf) /\ (~ ok[w] => kw \notin FixedOf)
  <2>1. {v \in W : wpc'[v] = "release" /\ ok'[v]} = {v \in W : wpc[v] = "release" /\ ok[v]} \ {w}
    BY <1>1, <1>2
  <2>2. \A v \in W : v # w /\ wpc[v] = "release" => KeyOf(v) # kw
    BY <1>5 DEF AtWork
  <2>3. FixedOf' = {KeyOf(v) : v \in {u \in W : wpc[u] = "release" /\ ok[u]} \ {w}}
    <3>1. FixedOf' = {KeyOf(v)' : v \in {u \in W : wpc'[u] = "release" /\ ok'[u]}}
      BY DEF FixedOf
    <3> QED BY <3>1, <2>1, <1>4
  <2> QED BY <2>2, <2>3, <1>1, <1>c DEF FixedOf
<1>7. ASSUME NEW i \in DOMAIN batch PROVE Unresolved(i)' <=> (Unresolved(i) /\ i # n)
  <2>1. \A v \in W : v # w /\ wpc[v] \in AtWork => item[v] # n
    BY <1>0, <1>2, <1>b DEF ItemsApart
  <2>2. i >= next => i # n
    BY <1>0, <1>3 DEF TypeOK
  <2>3. ASSUME NEW v \in W
        PROVE  (wpc'[v] \in AtWork /\ item'[v] = i) <=> (v # w /\ wpc[v] \in AtWork /\ item[v] = i)
    BY <1>2 DEF AtWork
  <2>4. (\E v \in W : wpc'[v] \in AtWork /\ item'[v] = i)
          <=> (i # n /\ \E v \in W : wpc[v] \in AtWork /\ item[v] = i)
    BY <2>1, <2>3, <1>2, <1>b
  <2> QED BY <1>1, <2>2, <2>4 DEF Unresolved, AtWork
<1>8. \A k \in Keys : InBatch(k)' = InBatch(k) \ {n}
  BY <1>1, <1>7 DEF InBatch
<1>9. n \in InBatch(kw) /\ \A k \in Keys : k # kw => n \notin InBatch(k)
  BY <1>1, <1>3, <1>b DEF InBatch, Unresolved
<1>10. CASE ok[w]
  <2>1. deferred' = deferred
    BY <1>1, <1>10
  <2>2. \A k \in Keys : InDeferred(k)' = InDeferred(k)
    BY <2>1 DEF InDeferred
  <2>3. \A k \in Keys : k # kw => Outstanding(k)' = Outstanding(k)
    <3>1. \A k \in Keys : k # kw => Asked(k)' = Asked(k)
      BY <1>1, <1>8, <1>9, <2>1, <2>2 DEF Asked
    <3> QED BY <3>1, <1>0, SameAsked
  <2>4. Outstanding(kw)' \in 0 .. Outstanding(kw)
    <3>1. Asked(kw)' \subseteq Asked(kw)
      BY <1>1, <1>3, <1>8, <2>1, <2>2 DEF Asked
    <3>2. /\ Outstanding(kw) \in Nat /\ Outstanding(kw)' \in Nat /\ Outstanding(kw)' \in Asked(kw)'
          /\ \A x \in Asked(kw) : x <= Outstanding(kw)
      BY <1>0, <1>3, OutstandingStep
    <3> QED BY <3>1, <3>2
  <2>5. /\ ReqOf' = [ReqOf EXCEPT ![kw] = Outstanding(kw)']
        /\ ReqOf[kw] = Outstanding(kw)
    BY <1>3, <2>3 DEF ReqOf
  <2>6. \E p \in 0 .. ReqOf[kw] : ReqOf' = [ReqOf EXCEPT ![kw] = p]
    BY <2>4, <2>5
  <2>7. Requests!Serve(kw)
    BY <2>6, <1>6, <1>10 DEF Requests!Serve, Requests!Lowered, ReqOf, FixedOf
  <2> QED BY <2>7, <1>3 DEF RequestStep
<1>11. CASE ~ ok[w]
  <2>1. deferred' = Append(deferred, batch[n])
    BY <1>1, <1>11
  <2>2. /\ DOMAIN deferred = 1 .. Len(deferred) /\ Len(deferred) \in Nat
        /\ DOMAIN deferred' = 1 .. Len(deferred) + 1
        /\ \A i \in 1 .. Len(deferred) : deferred'[i] = deferred[i]
        /\ deferred'[Len(deferred) + 1] = batch[n]
    BY <2>1, <1>0, <1>3, AppendProperties, LenProperties DEF TypeOK
  <2>3. ASSUME NEW k \in Keys PROVE Asked(k)' = Asked(k)
    <3>1. InDeferred(k)' = IF k = kw THEN InDeferred(k) \cup {Len(deferred) + 1} ELSE InDeferred(k)
      BY <1>3, <2>2 DEF InDeferred
    <3>2. \A i \in InDeferred(k) : deferred'[i] = deferred[i]
      BY <2>2 DEF InDeferred
    <3>3. CASE k = kw
      <4>1. {batch[i].prio : i \in InBatch(k)} = {batch[i].prio : i \in InBatch(k) \ {n}} \cup {batch[n].prio}
        BY <1>9, <3>3
      <4>2. {deferred'[i].prio : i \in InDeferred(k)'} = {deferred[i].prio : i \in InDeferred(k)} \cup {batch[n].prio}
        BY <2>2, <3>1, <3>2, <3>3
      <4>3. {batch'[i].prio : i \in InBatch(k)'} = {batch[i].prio : i \in InBatch(k) \ {n}}
        BY <1>1, <1>8
      <4> QED BY <4>1, <4>2, <4>3, <1>1 DEF Asked
    <3>4. CASE k # kw
      BY <1>1, <1>8, <1>9, <3>1, <3>2, <3>4 DEF Asked
    <3> QED BY <3>3, <3>4
  <2>4. FixedOf' = FixedOf
    BY <1>6, <1>11
  <2> QED BY <2>3, <2>4, <1>0, SameAsked, StutterStep
<1> QED BY <1>10, <1>11

\* A deferred key is queued again, or it is there already, or the queue is full
\* of other keys and the request is lost.
LEMMA RequeueRefines ==
  ASSUME Inv, Inv', Requeue
  PROVE  RequestStep
<1>0. TypeOK /\ TypeOK'
  BY DEF Inv
<1>a. Head(deferred) \in Item /\ deferred # << >>
  BY <1>0, HeadTailProperties DEF Requeue, TypeOK
<1>b. PICK k \in Keys : k = Head(deferred).key
  BY <1>a DEF Item
<1>c. PICK p \in Prios : p = Head(deferred).prio
  BY <1>a DEF Item
<1>1. /\ deferred # << >> /\ deferred' = Tail(deferred) /\ Push(k, p)
      /\ UNCHANGED <<batch, next, wpc, item, ok>>
  BY <1>a, <1>b, <1>c DEF Requeue, workers
<1>2. p \in Nat \ {0}
  <2>1. \A x \in Prios : x \in Nat \ {0}
    BY PriosBounded
  <2> QED BY <2>1
<1>3. /\ DOMAIN deferred = 1 .. Len(deferred) /\ Len(deferred) \in Nat \ {0}
      /\ DOMAIN deferred' = 1 .. Len(deferred) - 1
      /\ \A i \in 1 .. Len(deferred) - 1 : deferred'[i] = deferred[i + 1]
      /\ deferred[1] = Head(deferred)
  <2>1. Tail(deferred) \in Seq(Item) /\ Len(Tail(deferred)) = Len(deferred) - 1
        /\ \A i \in 1 .. Len(Tail(deferred)) : Tail(deferred)[i] = deferred[i + 1]
    BY <1>0, <1>1, HeadTailProperties DEF TypeOK
  <2>2. DOMAIN Tail(deferred) = 1 .. Len(Tail(deferred))
    BY <2>1, LenProperties
  <2>3. DOMAIN deferred = 1 .. Len(deferred) /\ Len(deferred) \in Nat \ {0}
    BY <1>0, <1>1, EmptySeq, LenProperties DEF TypeOK
  <2>4. deferred[1] = Head(deferred)
    BY <1>0, <1>1 DEF TypeOK
  <2> QED BY <1>1, <2>1, <2>2, <2>3, <2>4
<1> DEFINE D(j) == {deferred[i].prio : i \in InDeferred(j)}
<1>4. \A j \in Keys : D(j)' \subseteq D(j) /\ D(j) \subseteq D(j)' \cup (IF j = k THEN {p} ELSE {})
  <2> TAKE j \in Keys
  <2>1. D(j)' \subseteq D(j)
    <3> SUFFICES ASSUME NEW i \in InDeferred(j)' PROVE deferred'[i].prio \in D(j)
      OBVIOUS
    <3>1. i \in 1 .. Len(deferred) - 1 /\ deferred'[i] = deferred[i + 1] /\ deferred'[i].key = j
      BY <1>3 DEF InDeferred
    <3>2. i + 1 \in InDeferred(j)
      BY <1>3, <3>1 DEF InDeferred
    <3> QED BY <3>1, <3>2
  <2>2. ASSUME NEW i \in InDeferred(j) PROVE deferred[i].prio \in D(j)' \cup (IF j = k THEN {p} ELSE {})
    <3>1. i \in 1 .. Len(deferred) /\ deferred[i].key = j
      BY <1>3 DEF InDeferred
    <3>2. CASE i = 1
      BY <1>3, <1>b, <1>c, <3>1, <3>2
    <3>3. CASE i # 1
      <4>1. i - 1 \in 1 .. Len(deferred) - 1 /\ (i - 1) + 1 = i
        BY <1>3, <3>1, <3>3
      <4>2. deferred'[i - 1] = deferred[i]
        BY <4>1, <1>3
      <4>3. i - 1 \in InDeferred(j)'
        BY <4>1, <4>2, <1>3, <3>1 DEF InDeferred
      <4> QED BY <4>2, <4>3
    <3> QED BY <3>2, <3>3
  <2> QED BY <2>1, <2>2
<1>5. \A j \in Keys : InBatch(j)' = InBatch(j)
  BY <1>1 DEF InBatch, Unresolved
<1>6. FixedOf' = FixedOf
  BY <1>1 DEF FixedOf, KeyOf
<1> DEFINE B(j) == {batch[i].prio : i \in InBatch(j)}
<1>7. \A j \in Keys : /\ Asked(j) = {dedup[j]} \cup B(j) \cup D(j)
                      /\ Asked(j)' = {dedup'[j]} \cup B(j) \cup D(j)'
  BY <1>1, <1>5 DEF Asked
<1>8. p \in Asked(k)
  <2>1. 1 \in InDeferred(k)
    BY <1>3, <1>b DEF InDeferred
  <2> QED BY <2>1, <1>3, <1>c DEF Asked
<1>9. \A j \in Keys : \A x \in Asked(j) \cup Asked(j)' : x \in Nat
  BY <1>0, OutstandingStep
<1> HIDE DEF D, B
<1>10. \A j \in Keys : j # k => dedup'[j] = dedup[j]
  BY <1>0, <1>1, <1>2, PushAsked
<1>11. ASSUME NEW j \in Keys, j # k PROVE Outstanding(j)' = Outstanding(j)
  <2>1. Asked(j)' = Asked(j)
    BY <1>4, <1>7, <1>10, <1>11
  <2> QED BY <2>1, <1>0, SameAsked
<1>12. CASE dedup'[k] = p /\ dedup[k] < p
  <2>1. dedup[k] \in Asked(k) /\ p \in Asked(k)'
    BY <1>2, <1>7, <1>12
  <2>2. \A x \in Asked(k)' : \E y \in Asked(k) : x <= y
    <3>1. \A x \in Asked(k)' : x \in Asked(k)
      BY <1>2, <1>4, <1>7, <1>8, <1>12
    <3> QED BY <3>1, <1>2, <1>9
  <2>3. \A y \in Asked(k) : \E x \in Asked(k)' : y <= x
    <3>1. \A y \in Asked(k) : y = dedup[k] \/ y \in Asked(k)'
      BY <1>2, <1>4, <1>7, <2>1
    <3> QED BY <3>1, <2>1, <1>2, <1>9, <1>12
  <2>4. Outstanding(k)' = Outstanding(k)
    BY <2>2, <2>3, <1>0, <1>2, SameOutstanding
  <2> QED BY <2>4, <1>6, <1>11, StutterStep
<1>13. CASE dedup' = dedup /\ p <= dedup[k]
  <2>1. dedup[k] \in Asked(k)'
    BY <1>2, <1>7, <1>13
  <2>2. \A x \in Asked(k)' : \E y \in Asked(k) : x <= y
    <3>1. \A x \in Asked(k)' : x \in Asked(k)
      BY <1>2, <1>4, <1>7, <1>13
    <3> QED BY <3>1, <1>2, <1>9
  <2>3. \A y \in Asked(k) : \E x \in Asked(k)' : y <= x
    <3>1. \A y \in Asked(k) : y = p \/ y \in Asked(k)'
      BY <1>2, <1>4, <1>7, <1>13
    <3> QED BY <3>1, <2>1, <1>2, <1>9, <1>13
  <2>4. Outstanding(k)' = Outstanding(k)
    BY <2>2, <2>3, <1>0, <1>2, SameOutstanding
  <2> QED BY <2>4, <1>6, <1>11, StutterStep
<1>14. CASE dedup' = dedup /\ dedup[k] = 0 /\ ~ (Cardinality(Queued) < Cap)
  <2>0. \A j \in Keys : /\ Outstanding(j) \in Nat /\ Outstanding(j)' \in Nat
                        /\ Outstanding(j)' \in Asked(j)' /\ \A x \in Asked(j) : x <= Outstanding(j)
    BY <1>0, OutstandingStep
  <2>1. Outstanding(k)' \in 0 .. Outstanding(k)
    <3>1. \A x \in Asked(k)' : x \in Asked(k)
      BY <1>2, <1>4, <1>7, <1>14
    <3> QED BY <3>1, <2>0, <1>2
  <2>2. /\ ReqOf' = [ReqOf EXCEPT ![k] = Outstanding(k)'] /\ ReqOf[k] = Outstanding(k)
    BY <1>2, <1>11 DEF ReqOf
  <2>3. \E q \in 0 .. ReqOf[k] : ReqOf' = [ReqOf EXCEPT ![k] = q]
    BY <2>1, <2>2
  <2>4. Cardinality({j \in Keys : ReqOf[j] # 0}) > Cap
    <3>1. \A j \in Keys : dedup[j] # 0 => Outstanding(j) # 0
      <4> TAKE j \in Keys
      <4>1. dedup[j] \in Asked(j) /\ dedup[j] \in Nat
        BY <1>7, <1>9
      <4> QED BY <4>1, <2>0
    <3>2. Outstanding(k) # 0
      BY <1>2, <1>8, <2>0
    <3>3. Queued \cup {k} \subseteq {j \in Keys : ReqOf[j] # 0} /\ k \notin Queued
      BY <3>1, <3>2, <1>2, <1>14 DEF Queued, ReqOf
    <3>4. IsFiniteSet(Keys) /\ Cap \in Nat
      BY HealAssumption
    <3>5. /\ IsFiniteSet(Queued) /\ Cardinality(Queued) \in Nat
          /\ IsFiniteSet({j \in Keys : ReqOf[j] # 0}) /\ Cardinality({j \in Keys : ReqOf[j] # 0}) \in Nat
      <4>1. Queued \in SUBSET Keys /\ {j \in Keys : ReqOf[j] # 0} \in SUBSET Keys
        BY DEF Queued
      <4> QED BY <4>1, <3>4, FS_Subset, FS_CardinalityType
    <3>6. Cardinality(Queued \cup {k}) = Cardinality(Queued) + 1
      BY <3>3, <3>5, FS_AddElement
    <3>7. Cardinality(Queued \cup {k}) <= Cardinality({j \in Keys : ReqOf[j] # 0})
      BY <3>3, <3>5, FS_Subset
    <3> QED BY <3>4, <3>5, <3>6, <3>7, <1>14
  <2>5. Requests!Lose(k)
    <3>1. Cardinality({j \in Keys : [i \in Keys |-> Outstanding(i)][j] # 0}) > Cap
      BY <2>4, Zenon DEF ReqOf
    <3>2. Requests!Lowered(k)
      BY <2>3 DEF Requests!Lowered, ReqOf
    <3>3. UNCHANGED {KeyOf(w) : w \in {v \in W : wpc[v] = "release" /\ ok[v]}}
      BY <1>6 DEF FixedOf
    <3>4. \A S : Requests!Cardinality(S) = Cardinality(S)
      BY Zenon DEF Requests!Cardinality, Cardinality
    <3> QED BY <3>1, <3>2, <3>3, <3>4, Zenon DEF Requests!Lose
  <2> QED BY <2>5, <1>2 DEF RequestStep
<1> QED BY <1>0, <1>1, <1>2, <1>12, <1>13, <1>14, PushAsked
LEMMA RequestInit == Init => Requests!Init
<1> SUFFICES ASSUME Init PROVE Requests!Init
  OBVIOUS
<1>1. TypeOK
  BY InvInit DEF Inv
<1>2. ASSUME NEW k \in Keys PROVE Outstanding(k) = 0
  <2>1. DOMAIN << >> = {}
    OBVIOUS
  <2>2. Asked(k) = {0}
    BY <2>1 DEF Init, Asked, InBatch, InDeferred
  <2> QED BY <2>2, <1>1, OutstandingIsHighest
<1>3. FixedOf = {}
  BY DEF Init, FixedOf
<1> QED BY <1>2, <1>3 DEF Requests!Init, FixedOf

LEMMA RequestNext == Inv /\ Inv' /\ [Next]_vars => [Requests!Next]_(Requests!vars)
<1> SUFFICES ASSUME Inv, Inv', [Next]_vars PROVE [Requests!Next]_(Requests!vars)
  OBVIOUS
<1>1. RequestStep
  <2>1. ASSUME NEW w \in W, Work(w) PROVE RequestStep
    BY <2>1, WorkRefines, RepairRefines, ResolveRefines DEF Work
  <2>2. CASE Drain
    BY <2>2, QuietRefines, PopRefines, RequeueRefines DEF Drain
  <2> QED BY <2>1, <2>2, AskRefines, QuietRefines DEF Next
<1>2. RequestStep => Requests!Next \/ UNCHANGED Requests!vars
  BY DEF RequestStep, Requests!Next, Requests!vars, ReqOf, FixedOf
<1> QED BY <1>1, <1>2

\* The refinement: with HealQueue, mrf_drain and its requeue in between, a key
\* that was asked for stays asked for at its highest importance until a repair
\* of it has succeeded, or until more than Cap keys are outstanding.
THEOREM RequestsKept == Spec => KeepsRequests
<1>1. Inv /\ Inv' /\ [Next]_vars => [Requests!Next]_(Requests!vars)
  BY RequestNext
<1> QED BY <1>1, InvHolds, RequestInit, PTL DEF Spec, KeepsRequests, Requests!Spec
=============================================================================
