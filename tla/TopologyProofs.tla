--------------------------- MODULE TopologyProofs ---------------------------
(***************************************************************************)
(* Proofs about Topology, HealthFsm and Placement: status changes follow   *)
(* runs of observations, stale placements live for at most one TTL, dead   *)
(* disks stay out, a minority is slow, and a fault moves no other disk.    *)
(***************************************************************************)
EXTENDS Topology, TLAPS, SequenceTheorems, FiniteSetTheorems, WellFoundedInduction

-----------------------------------------------------------------------------
(* Numbers and finite sets: induction over a set a proof can instantiate,  *)
(* and extrema.                                                            *)

\* A non-empty set of natural numbers has a least element.
LEMMA NatLeast ==
  ASSUME NEW S \in SUBSET Nat, S # {}
  PROVE  \E x \in S : \A y \in S : x <= y
<1>1. PICK x \in S : \A y \in S : <<y, x>> \notin OpToRel(<, Nat)
  BY WFMin, NatLessThanWellFounded, Zenon
<1>2. \A y \in S : ~ (y < x)
  <2>1. x \in Nat /\ \A y \in S : y \in Nat
    OBVIOUS
  <2> QED BY <1>1, <2>1, Zenon DEF OpToRel
<1> QED BY <1>2

\* Induction over the natural numbers.
LEMMA NatInd ==
  ASSUME NEW S, 0 \in S, \A n \in Nat : n \in S => n + 1 \in S
  PROVE  \A n \in Nat : n \in S
<1> DEFINE T == Nat \ S
<1> SUFFICES ASSUME T # {} PROVE FALSE
  OBVIOUS
<1>1. PICK m \in T : \A y \in T : m <= y
  BY NatLeast
<1>2. m # 0 /\ m - 1 \in Nat
  BY <1>1
<1>3. m - 1 \in S
  BY <1>1, <1>2
<1> QED BY <1>1, <1>2, <1>3

\* Induction over the subsets of a finite set.
LEMMA FiniteInd ==
  ASSUME NEW U, IsFiniteSet(U), NEW F, {} \in F,
         \A T \in SUBSET U, x \in U : T \in F /\ x \notin T => T \cup {x} \in F
  PROVE  U \in F
<1> DEFINE S == {n \in Nat : \A T \in SUBSET U : Cardinality(T) = n => T \in F}
<1>0. \A T \in SUBSET U : IsFiniteSet(T) /\ Cardinality(T) \in Nat
  BY FS_Subset, FS_CardinalityType
<1>1. 0 \in S
  BY <1>0, FS_EmptySet
<1>2. ASSUME NEW n \in Nat, n \in S PROVE n + 1 \in S
  <2> SUFFICES ASSUME NEW T \in SUBSET U, Cardinality(T) = n + 1 PROVE T \in F
    OBVIOUS
  <2>0. Cardinality({}) = 0
    BY FS_EmptySet
  <2>1. T # {}
    BY <2>0
  <2>2. PICK x \in T : TRUE
    BY <2>1
  <2>a. Cardinality(T \ {x}) = Cardinality(T) - 1
    BY <1>0, FS_RemoveElement
  <2>3. Cardinality(T \ {x}) = n
    BY <2>a
  <2>4. T \ {x} \in F
    BY <1>2, <2>3
  <2>5. (T \ {x}) \cup {x} = T
    OBVIOUS
  <2> QED BY <2>4, <2>5
<1>3. \A n \in Nat : n \in S
  <2> HIDE DEF S
  <2> QED BY <1>1, <1>2, NatInd
<1> QED BY <1>0, <1>3

\* Min of a set of natural numbers.
LEMMA MinIsLeast ==
  ASSUME NEW S \in SUBSET Nat, S # {}
  PROVE  Min(S) \in S /\ \A y \in S : Min(S) <= y
BY NatLeast DEF Min

\* Max of a bounded set of natural numbers.
LEMMA MaxIsGreatest ==
  ASSUME NEW S \in SUBSET Nat, S # {}, NEW m \in Nat, \A x \in S : x <= m
  PROVE  Max(S) \in S /\ \A y \in S : Max(S) >= y
<1> DEFINE T == {n \in Nat : m - n \in S}
<1>0. \A x \in S : m - x \in T
  BY \A x \in S : m - (m - x) = x /\ m - x \in Nat
<1>1. T \in SUBSET Nat /\ T # {}
  BY <1>0
<1>2. PICK t \in T : \A y \in T : t <= y
  BY <1>1, NatLeast
<1>3. \A y \in S : m - t >= y
  <2> TAKE y \in S
  <2>1. t <= m - y
    BY <1>0, <1>2
  <2> QED BY <2>1
<1> QED BY <1>2, <1>3 DEF Max

-----------------------------------------------------------------------------
(* Counting: one element enters or leaves the counted set. *)

LEMMA CountUp ==
  ASSUME NEW S, IsFiniteSet(S), NEW T, NEW x, x \notin S, T = S \cup {x}
  PROVE  IsFiniteSet(T) /\ Cardinality(T) = Cardinality(S) + 1
BY FS_AddElement

LEMMA CountDown ==
  ASSUME NEW S, IsFiniteSet(S), NEW T, NEW x \in S, T = S \ {x}
  PROVE  IsFiniteSet(T) /\ Cardinality(T) = Cardinality(S) - 1
BY FS_RemoveElement

-----------------------------------------------------------------------------
(* Sorting.  An order is given as the set of its pairs. *)

Earlier(S, B, x) == {y \in S : <<y, x>> \in B}

Orders(S, B) ==
  /\ \A x \in S : <<x, x>> \notin B
  /\ \A x, y \in S : x # y => <<x, y>> \in B \/ <<y, x>> \in B
  /\ \A x, y, z \in S : <<x, y>> \in B /\ <<y, z>> \in B => <<x, z>> \in B

\* Whoever comes later has more before it.
LEMMA EarlierCounts ==
  ASSUME NEW S, IsFiniteSet(S), NEW B, Orders(S, B)
  PROVE  /\ \A x \in S : Cardinality(Earlier(S, B, x)) \in 0 .. Cardinality(S) - 1
         /\ \A x, y \in S : <<x, y>> \in B => Cardinality(Earlier(S, B, x)) < Cardinality(Earlier(S, B, y))
         /\ Cardinality(S) \in Nat
<1>1. ASSUME NEW T \in SUBSET S
      PROVE  IsFiniteSet(T) /\ Cardinality(T) \in Nat
  BY FS_Subset, FS_CardinalityType
<1>2. ASSUME NEW x \in S, NEW T \in SUBSET S, Earlier(S, B, x) \subseteq T, x \in T
      PROVE  Cardinality(Earlier(S, B, x)) < Cardinality(T)
  <2>1. /\ Earlier(S, B, x) \in SUBSET S /\ x \notin Earlier(S, B, x)
        /\ Earlier(S, B, x) \cup {x} \in SUBSET T
    BY <1>2 DEF Earlier, Orders
  <2>2. IsFiniteSet(Earlier(S, B, x)) /\ IsFiniteSet(T)
    BY <1>1, <2>1
  <2>3. Cardinality(Earlier(S, B, x) \cup {x}) = Cardinality(Earlier(S, B, x)) + 1
    BY <2>1, <2>2, CountUp
  <2>4. Cardinality(Earlier(S, B, x) \cup {x}) <= Cardinality(T)
    BY <2>1, <2>2, FS_Subset
  <2> QED BY <2>1, <2>3, <2>4, <1>1
<1>3. ASSUME NEW x \in S PROVE Earlier(S, B, x) \in SUBSET S
  BY DEF Earlier
<1>4. ASSUME NEW x \in S PROVE Cardinality(Earlier(S, B, x)) \in 0 .. Cardinality(S) - 1
  <2>1. Cardinality(Earlier(S, B, x)) < Cardinality(S)
    BY <1>2, <1>3
  <2> QED BY <2>1, <1>1, <1>3
<1>5. ASSUME NEW x \in S, NEW y \in S, <<x, y>> \in B
      PROVE  Cardinality(Earlier(S, B, x)) < Cardinality(Earlier(S, B, y))
  <2>1. Earlier(S, B, x) \subseteq Earlier(S, B, y) /\ x \in Earlier(S, B, y) /\ Earlier(S, B, y) \in SUBSET S
    BY <1>5 DEF Earlier, Orders
  <2> QED BY <2>1, <1>2
<1> QED BY <1>1, <1>4, <1>5

\* Every place is taken, by one element.
LEMMA PlacesTaken ==
  ASSUME NEW S, IsFiniteSet(S), NEW B, Orders(S, B)
  PROVE  /\ \A i \in 1 .. Cardinality(S) : \E x \in S : Cardinality(Earlier(S, B, x)) = i - 1
         /\ \A x, y \in S : Cardinality(Earlier(S, B, x)) = Cardinality(Earlier(S, B, y)) => x = y
<1> DEFINE n == Cardinality(S)
           r == [x \in S |-> Cardinality(Earlier(S, B, x))]
<1>1. n \in Nat /\ (\A x \in S : r[x] \in 0 .. n - 1) /\ (\A x, y \in S : <<x, y>> \in B => r[x] < r[y])
  BY EarlierCounts
<1>2. \A x, y \in S : r[x] = r[y] => x = y
  <2> SUFFICES ASSUME NEW x \in S, NEW y \in S, r[x] = r[y], x # y PROVE FALSE
    OBVIOUS
  <2>1. r[x] < r[y] \/ r[y] < r[x]
    BY <1>1 DEF Orders
  <2>2. r[x] \in Nat /\ r[y] \in Nat
    BY <1>1
  <2> HIDE DEF r
  <2> QED BY <2>1, <2>2
<1>3. r \in Injection(S, 0 .. n - 1)
  <2>1. r \in [S -> 0 .. n - 1]
    BY <1>1
  <2> HIDE DEF r
  <2> QED BY <2>1, <1>2 DEF Injection, IsInjective
<1>4. IsFiniteSet(0 .. n - 1) /\ Cardinality(0 .. n - 1) = n
  BY <1>1, FS_Interval
<1>5. r \in Surjection(S, 0 .. n - 1)
  <2> HIDE DEF r
  <2> QED BY <1>3, <1>4, FS_Injection
<1>6. ASSUME NEW i \in 1 .. n PROVE \E x \in S : r[x] = i - 1
  <2>1. i - 1 \in 0 .. n - 1
    BY <1>1
  <2> QED BY <1>5, <2>1 DEF Surjection
<1> QED BY <1>2, <1>6

\* The i-th element of q has i - 1 elements before it.
AtPlaces(q, S, B) ==
  /\ q \in [1 .. Cardinality(S) -> S]
  /\ \A i \in 1 .. Cardinality(S) : Cardinality(Earlier(S, B, q[i])) = i - 1

\* Then q lists all elements of the set, each once and in order, and it is the
\* only such list.
OrderedList(q, S, B) ==
  /\ q \in Seq(S) /\ Len(q) = Cardinality(S) /\ Cardinality(S) \in Nat
  /\ \A x \in S : \E i \in 1 .. Cardinality(S) : q[i] = x
  /\ \A i, j \in 1 .. Cardinality(S) : <<q[i], q[j]>> \in B <=> i < j
  /\ \A i, j \in 1 .. Cardinality(S) : q[i] = q[j] => i = j

LEMMA PlacesGiveOrder ==
  ASSUME NEW S, IsFiniteSet(S), NEW B, Orders(S, B), NEW q, AtPlaces(q, S, B)
  PROVE  OrderedList(q, S, B)
<1>0. Cardinality(S) \in Nat
  BY EarlierCounts
<1> USE DEF AtPlaces
<1>1. q \in Seq(S) /\ Len(q) = Cardinality(S)
  BY <1>0
<1>2. ASSUME NEW x \in S PROVE \E i \in 1 .. Cardinality(S) : q[i] = x
  <2>1. PICK c \in 0 .. Cardinality(S) - 1 : Cardinality(Earlier(S, B, x)) = c
    BY EarlierCounts
  <2>2. c + 1 \in 1 .. Cardinality(S) /\ (c + 1) - 1 = c
    BY <1>0
  <2>3. Cardinality(Earlier(S, B, q[c + 1])) = c /\ q[c + 1] \in S
    BY <2>2
  <2> QED BY <2>1, <2>2, <2>3, PlacesTaken
<1>3. ASSUME NEW i \in 1 .. Cardinality(S), NEW j \in 1 .. Cardinality(S)
      PROVE  /\ <<q[i], q[j]>> \in B <=> i < j
             /\ q[i] = q[j] => i = j
  <2>1. /\ Cardinality(Earlier(S, B, q[i])) = i - 1 /\ Cardinality(Earlier(S, B, q[j])) = j - 1
        /\ q[i] \in S /\ q[j] \in S
    OBVIOUS
  <2>2. q[i] = q[j] => i = j
    BY <2>1, <1>0
  <2>3. <<q[i], q[j]>> \in B => i - 1 < j - 1
    BY <2>1, EarlierCounts
  <2>4. <<q[j], q[i]>> \in B => j - 1 < i - 1
    BY <2>1, EarlierCounts
  <2>5. q[i] = q[j] \/ <<q[i], q[j]>> \in B \/ <<q[j], q[i]>> \in B
    BY <2>1 DEF Orders
  <2> QED BY <2>2, <2>3, <2>4, <2>5, <1>0
<1> QED BY <1>0, <1>1, <1>2, <1>3 DEF OrderedList

LEMMA PlacesGiveOne ==
  ASSUME NEW S, IsFiniteSet(S), NEW B, Orders(S, B), NEW q, AtPlaces(q, S, B), NEW w, AtPlaces(w, S, B)
  PROVE  q = w
<1>1. q \in [1 .. Cardinality(S) -> S] /\ w \in [1 .. Cardinality(S) -> S]
  BY DEF AtPlaces
<1>2. ASSUME NEW i \in 1 .. Cardinality(S) PROVE q[i] = w[i]
  <2>1. q[i] \in S /\ w[i] \in S /\ Cardinality(Earlier(S, B, q[i])) = Cardinality(Earlier(S, B, w[i]))
    BY DEF AtPlaces
  <2> QED BY <2>1, PlacesTaken
<1>3. PICK D : D = 1 .. Cardinality(S)
  OBVIOUS
<1>4. q \in [D -> S] /\ w \in [D -> S] /\ \A i \in D : q[i] = w[i]
  BY <1>1, <1>2, <1>3
<1> QED BY ONLY <1>4

-----------------------------------------------------------------------------
(* The invariant. *)

Cap == [total : Int, free : Int]
Views == [Shards -> [total : Int, free : Int, status : Statuses]]
Busy == {"caps", "slow", "store"}

MonType ==
  /\ zfsm \in [Shards -> Fsm] /\ sfsm \in [Shards -> Fsm] /\ \A s \in Shards : sfsm[s].st \in {"Online", "Suspect"}
  /\ status \in [Shards -> Statuses] /\ slow \in [Shards -> BOOLEAN]
  /\ mon \in [at : Shards, pc : {"look", "clear", "cap"}, cap : Cap]
  /\ dsk \in [at : 0 .. N, pc : {"wait", "flag", "clear"}, slow : SUBSET Shards]
  /\ dsk.pc # "wait" => dsk.at \in Shards
  /\ good \in [Shards -> 0 .. RecoverAfter] /\ downs \in [Shards -> 0 .. SuspectAfter] /\ bad \in [Shards -> 0 .. SuspectAfter]

IoType ==
  /\ ewma \in [Shards -> 0 .. Max(Lats)] /\ count \in [Shards -> Nat]
  /\ io \in [Recorders -> [s : 0 .. N, v : 0 .. Max(Lats)]]

\* A call under way: what it has read so far.
ProcRec ==
  [pc : {"idle", "have"} \cup Busy, status : {<< >>} \cup [Shards -> Statuses], caps : {<< >>} \cup [Shards -> Cap],
   slow : {<< >>} \cup [Shards -> BOOLEAN], view : {<< >>} \cup Views, late : SUBSET Shards]
ProcType(q) ==
  /\ q \in ProcRec
  /\ q.pc \in Busy => q.status \in [Shards -> Statuses]
  /\ q.pc \in {"slow", "store"} => q.caps \in [Shards -> Cap]
  /\ q.pc = "store" => q.slow \in [Shards -> BOOLEAN]
  /\ q.pc = "have" => q.view \in Views
  /\ q.pc \notin Busy => q.late = {}

TopoType ==
  /\ free \in [Shards -> Int] /\ null \subseteq Shards /\ caps \in [Shards -> Cap] /\ left \in [Events -> Nat]
  /\ topo # NoTopo => topo \in [view : Views, age : 0 .. TTL]
  /\ proc \in [Callers -> ProcRec]
  /\ \A p \in Callers : ProcType(proc[p])
  /\ calm \in [Shards -> 0 .. TTL]

\* The counters of the machine are backed by observations.
Runs(f, g, d, b) ==
  /\ f.st = "Online" => f.fails <= b
  /\ f.st = "Suspect" => f.fails <= d /\ f.oks <= g
  /\ f.st = "Returning" => f.oks <= g

\* A reading that is out of date belongs to a change that has not been
\* announced yet, or the call is known to be late.
Statused(q, s) == q.pc \in Busy => q.status[s] = status[s] \/ (mon.pc = "clear" /\ mon.at = s) \/ s \in q.late
Slowed(q, s) == q.pc = "store" => q.slow[s] = slow[s] \/ (dsk.pc = "clear" /\ dsk.at = s) \/ s \in q.late
\* A cached status that is out of date was stored no earlier than the shard has
\* been calm.
Cached(s) == topo # NoTopo => topo.view[s].status = Current(s) \/ Changing(s) \/ calm[s] <= topo.age
LateNow(q, s) == s \in q.late => calm[s] = 0

\* A disk without engine and without zpool is Faulted wherever it is noted.
Dead == null \ ZfsShards
DeadOut ==
  \A s \in Dead :
    /\ status[s] = "Faulted" /\ (topo # NoTopo => topo.view[s].status = "Faulted")
    /\ \A p \in Callers : /\ proc[p].pc \in Busy => proc[p].status[s] = "Faulted"
                          /\ proc[p].pc = "have" => proc[p].view[s].status = "Faulted"

Types == MonType /\ IoType /\ TopoType
RunsInv == \A s \in Shards : Runs(zfsm[s], good[s], downs[s], bad[s])
StaleInv ==
  /\ \A s \in Shards : Cached(s)
  /\ \A p \in Callers, s \in Shards : Statused(proc[p], s) /\ Slowed(proc[p], s) /\ LateNow(proc[p], s)
Inv == Types /\ RunsInv /\ StaleInv /\ DeadOut

-----------------------------------------------------------------------------
(* The health machine. *)

LEMMA Thresholds == SuspectAfter \in Nat /\ RecoverAfter \in Nat /\ SuspectAfter > 0 /\ RecoverAfter > 0
BY ThresholdAssumption


\* What an observation does to the machine and to the runs counted beside it:
\* the type is kept, and a change of state has its run behind it.
LEMMA ObserveRuns ==
  ASSUME NEW f \in Fsm, NEW obs \in Observations,
         NEW g \in 0 .. RecoverAfter, NEW d \in 0 .. SuspectAfter, NEW b \in 0 .. SuspectAfter, Runs(f, g, d, b),
         NEW g2, g2 = (IF obs = "Healthy" THEN IF g < RecoverAfter THEN g + 1 ELSE g ELSE 0),
         NEW d2, d2 = (IF obs = "Healthy" THEN 0 ELSE IF obs = "Down" /\ d < SuspectAfter THEN d + 1 ELSE d),
         NEW b2, b2 = (IF obs = "Healthy" THEN 0 ELSE IF b < SuspectAfter THEN b + 1 ELSE b)
  PROVE  /\ Observe(f, obs) \in Fsm
         /\ g2 \in 0 .. RecoverAfter /\ d2 \in 0 .. SuspectAfter /\ b2 \in 0 .. SuspectAfter
         /\ Runs(Observe(f, obs), g2, d2, b2)
         /\ Observe(f, obs).st # f.st =>
              /\ Observe(f, obs).st = "Online" => g2 >= RecoverAfter
              /\ f.st = "Online" => b2 >= SuspectAfter \/ d2 > 0
              /\ f.st = "Suspect" /\ Observe(f, obs).st = "Faulted" => d2 >= SuspectAfter
<1> USE Thresholds
<1>1. PICK st \in FsmStates, fails \in 0 .. SuspectAfter - 1, oks \in 0 .. RecoverAfter :
        f = [st |-> st, fails |-> fails, oks |-> oks]
  BY DEF Fsm
<1>2. f.st = st /\ f.fails = fails /\ f.oks = oks
  BY <1>1
<1>3. g2 \in 0 .. RecoverAfter /\ d2 \in 0 .. SuspectAfter /\ b2 \in 0 .. SuspectAfter
  OBVIOUS
<1> DEFINE Mach(x, y, z) == [st |-> x, fails |-> y, oks |-> z]
<1>4. ASSUME NEW x \in FsmStates, NEW y \in 0 .. SuspectAfter - 1, NEW z \in 0 .. RecoverAfter
      PROVE  /\ Mach(x, y, z) \in Fsm /\ Mach(x, y, z).st = x /\ Mach(x, y, z).fails = y /\ Mach(x, y, z).oks = z
             /\ [Mach(x, y, z) EXCEPT !.fails = 0] = Mach(x, 0, z) /\ [Mach(x, y, z) EXCEPT !.oks = 0] = Mach(x, y, 0)
             /\ [Mach(x, y, z) EXCEPT !.oks = 1] = Mach(x, y, 1)
             /\ [Mach(x, y, z) EXCEPT !.fails = @ + 1] = Mach(x, y + 1, z) /\ [Mach(x, y, z) EXCEPT !.oks = @ + 1] = Mach(x, y, z + 1)
             /\ Reset(x) = Mach(x, 0, 0) /\ NewFsm = Mach("Online", 0, 0)
  BY DEF Fsm, Reset, NewFsm
<1>5. ASSUME NEW x \in FsmStates, NEW y \in 0 .. SuspectAfter - 1, NEW z \in 0 .. RecoverAfter, NEW next \in FsmStates
      PROVE  Failed(Mach(x, y, z), next) = IF y + 1 >= SuspectAfter THEN Mach(next, 0, 0) ELSE Mach(x, y + 1, z)
  BY <1>4 DEF Failed, Reset
<1>6. ASSUME NEW x \in FsmStates, NEW y \in 0 .. SuspectAfter - 1, NEW z \in 0 .. RecoverAfter
      PROVE  Succeeded(Mach(x, y, z)) = IF z + 1 >= RecoverAfter THEN Mach("Online", 0, 0) ELSE Mach(x, y, z + 1)
  <2>1. Mach(x, y, z).oks = z /\ [Mach(x, y, z) EXCEPT !.oks = @ + 1] = Mach(x, y, z + 1) /\ NewFsm = Mach("Online", 0, 0)
    BY DEF NewFsm, Reset
  <2> HIDE DEF Mach
  <2> QED BY <2>1 DEF Succeeded
<1>7. f = Mach(st, fails, oks)
  BY <1>1
<1>8. /\ st = "Online" => fails <= b
      /\ st = "Suspect" => fails <= d /\ oks <= g
      /\ st = "Returning" => oks <= g
  BY <1>2 DEF Runs
<1>9. ASSUME NEW x \in FsmStates, NEW y \in 0 .. SuspectAfter - 1, NEW z \in 0 .. RecoverAfter,
             Observe(f, obs) = Mach(x, y, z),
             x = "Online" => y <= b2,
             x = "Suspect" => y <= d2 /\ z <= g2,
             x = "Returning" => z <= g2,
             x # st /\ x = "Online" => g2 >= RecoverAfter,
             x # st /\ st = "Online" => b2 >= SuspectAfter \/ d2 > 0,
             st = "Suspect" /\ x = "Faulted" => d2 >= SuspectAfter
      PROVE  /\ Observe(f, obs) \in Fsm
             /\ g2 \in 0 .. RecoverAfter /\ d2 \in 0 .. SuspectAfter /\ b2 \in 0 .. SuspectAfter
             /\ Runs(Observe(f, obs), g2, d2, b2)
             /\ Observe(f, obs).st # f.st =>
                  /\ Observe(f, obs).st = "Online" => g2 >= RecoverAfter
                  /\ f.st = "Online" => b2 >= SuspectAfter \/ d2 > 0
                  /\ f.st = "Suspect" /\ Observe(f, obs).st = "Faulted" => d2 >= SuspectAfter
  <2>1. Mach(x, y, z) \in Fsm /\ Mach(x, y, z).st = x /\ Mach(x, y, z).fails = y /\ Mach(x, y, z).oks = z
    BY <1>4
  <2> HIDE DEF Mach
  <2> QED BY <2>1, <1>9, <1>2, <1>3 DEF Runs
<1>10. "Online" \in FsmStates /\ "Suspect" \in FsmStates /\ "Faulted" \in FsmStates /\ "Returning" \in FsmStates
       /\ 0 \in 0 .. SuspectAfter - 1 /\ 0 \in 0 .. RecoverAfter /\ 1 \in 0 .. RecoverAfter
       /\ (fails + 1 < SuspectAfter => fails + 1 \in 0 .. SuspectAfter - 1) /\ (oks + 1 < RecoverAfter => oks + 1 \in 0 .. RecoverAfter)
  BY DEF FsmStates
<1>11. CASE st = "Online" /\ obs = "Healthy"
  <2>1. Observe(f, obs) = Mach("Online", 0, oks)
    BY <1>11, <1>2, <1>4, <1>7 DEF Observe
  <2> HIDE DEF Mach
  <2> QED BY <2>1, <1>9, <1>10, <1>11
<1>12. CASE st = "Online" /\ obs = "Degraded"
  <2>1. Observe(f, obs) = Failed(f, "Suspect")
    BY <1>12, <1>2 DEF Observe
  <2>2. Observe(f, obs) = IF fails + 1 >= SuspectAfter THEN Mach("Suspect", 0, 0) ELSE Mach(st, fails + 1, oks)
    BY <2>1, <1>5, <1>7, <1>10
  <2> HIDE DEF Mach
  <2>3. CASE fails + 1 >= SuspectAfter
    BY <2>2, <2>3, <1>8, <1>9, <1>10, <1>12
  <2>4. CASE fails + 1 < SuspectAfter
    BY <2>2, <2>4, <1>8, <1>9, <1>10, <1>12
  <2> QED BY <2>3, <2>4
<1>13. CASE st = "Online" /\ obs = "Down"
  <2>1. Observe(f, obs) = Mach("Suspect", 0, 0)
    BY <1>13, <1>2 DEF Observe, Reset
  <2>2. d2 > 0
    BY <1>13
  <2> HIDE DEF Mach
  <2> QED BY <2>1, <2>2, <1>3, <1>9, <1>10, <1>13
<1>14. CASE st = "Suspect" /\ obs = "Healthy"
  <2>1. Observe(f, obs) = Succeeded([f EXCEPT !.fails = 0])
    BY <1>14, <1>2 DEF Observe
  <2>2. [f EXCEPT !.fails = 0] = Mach(st, 0, oks)
    BY <1>4, <1>7
  <2>3. Observe(f, obs) = IF oks + 1 >= RecoverAfter THEN Mach("Online", 0, 0) ELSE Mach(st, 0, oks + 1)
    BY <2>1, <2>2, <1>6, <1>10
  <2> HIDE DEF Mach
  <2>4. CASE oks + 1 >= RecoverAfter
    BY <2>3, <2>4, <1>3, <1>8, <1>9, <1>10, <1>14
  <2>5. CASE oks + 1 < RecoverAfter
    BY <2>3, <2>5, <1>3, <1>8, <1>9, <1>10, <1>14
  <2> QED BY <2>4, <2>5
<1>15. CASE st = "Suspect" /\ obs = "Degraded"
  <2>1. Observe(f, obs) = Mach(st, fails, 0)
    BY <1>15, <1>2, <1>4, <1>7 DEF Observe
  <2> HIDE DEF Mach
  <2> QED BY <2>1, <1>3, <1>8, <1>9, <1>10, <1>15
<1>16. CASE st = "Suspect" /\ obs = "Down"
  <2>1. Observe(f, obs) = Failed([f EXCEPT !.oks = 0], "Faulted")
    BY <1>16, <1>2 DEF Observe
  <2>2. [f EXCEPT !.oks = 0] = Mach(st, fails, 0)
    BY <1>4, <1>7
  <2>3. Observe(f, obs) = IF fails + 1 >= SuspectAfter THEN Mach("Faulted", 0, 0) ELSE Mach(st, fails + 1, 0)
    BY <2>1, <2>2, <1>5, <1>10
  <2> HIDE DEF Mach
  <2>4. CASE fails + 1 >= SuspectAfter
    BY <2>3, <2>4, <1>3, <1>8, <1>9, <1>10, <1>16
  <2>5. CASE fails + 1 < SuspectAfter
    BY <2>3, <2>5, <1>3, <1>8, <1>9, <1>10, <1>16
  <2> QED BY <2>4, <2>5
<1>17. CASE st = "Faulted" /\ obs = "Healthy"
  <2>1. Observe(f, obs) = [Mach("Returning", 0, 0) EXCEPT !.oks = 1]
    BY <1>17, <1>2 DEF Observe, Reset
  <2>2. Observe(f, obs) = Mach("Returning", 0, 1)
    BY <2>1, <1>4, <1>10
  <2> HIDE DEF Mach
  <2> QED BY <2>2, <1>3, <1>9, <1>10, <1>17
<1>18. CASE st = "Faulted" /\ obs # "Healthy"
  <2>1. Observe(f, obs) = Mach(st, fails, oks)
    BY <1>18, <1>2, <1>7 DEF Observe
  <2> HIDE DEF Mach
  <2> QED BY <2>1, <1>9, <1>10, <1>18
<1>19. CASE st = "Returning" /\ obs = "Healthy"
  <2>1. Observe(f, obs) = Succeeded(f)
    BY <1>19, <1>2 DEF Observe
  <2>3. Observe(f, obs) = IF oks + 1 >= RecoverAfter THEN Mach("Online", 0, 0) ELSE Mach(st, fails, oks + 1)
    BY <2>1, <1>6, <1>7
  <2> HIDE DEF Mach
  <2>4. CASE oks + 1 >= RecoverAfter
    BY <2>3, <2>4, <1>3, <1>8, <1>9, <1>10, <1>19
  <2>5. CASE oks + 1 < RecoverAfter
    BY <2>3, <2>5, <1>3, <1>8, <1>9, <1>10, <1>19
  <2> QED BY <2>4, <2>5
<1>20. CASE st = "Returning" /\ obs # "Healthy"
  <2>1. Observe(f, obs) = Mach("Faulted", 0, 0)
    BY <1>20, <1>2 DEF Observe, Reset
  <2> HIDE DEF Mach
  <2> QED BY <2>1, <1>9, <1>10, <1>20
<1>21. st \in {"Online", "Suspect", "Faulted", "Returning"} /\ obs \in {"Healthy", "Degraded", "Down"}
  BY DEF FsmStates, Observations
<1> HIDE DEF Mach
<1> QED BY <1>11, <1>12, <1>13, <1>14, <1>15, <1>16, <1>17, <1>18, <1>19, <1>20, <1>21

-----------------------------------------------------------------------------
(* The constants and the initial state. *)

\* A finite set of numbers has a bound.
LEMMA Bounded ==
  ASSUME NEW U \in SUBSET Nat, IsFiniteSet(U)
  PROVE  \E m \in Nat : \A x \in U : x <= m
<1> DEFINE F == {T \in SUBSET U : \E m \in Nat : \A x \in T : x <= m}
<1>1. {} \in F
  OBVIOUS
<1>2. ASSUME NEW T \in SUBSET U, NEW x \in U, T \in F, x \notin T PROVE T \cup {x} \in F
  <2>1. PICK m \in Nat : \A y \in T : y <= m
    BY <1>2
  <2>2. CASE x <= m
    BY <2>1, <2>2
  <2>3. CASE ~ (x <= m)
    <3>1. \A y \in T \cup {x} : y <= x
      BY <2>1, <2>3
    <3> QED BY <3>1
  <2> QED BY <2>2, <2>3
<1> HIDE DEF F
<1>3. U \in F
  BY <1>1, <1>2, FiniteInd
<1> QED BY <1>3 DEF F

LEMMA Consts ==
  /\ N \in Nat /\ N > 0 /\ TTL \in Nat /\ TTL > 0 /\ ZfsShards \subseteq Shards /\ Total \in Int
  /\ Max(Frees) \in Int /\ Frees \subseteq Int
  /\ Max(Lats) \in Nat /\ \A l \in Lats : l \in Nat /\ l <= Max(Lats)
  /\ \A b \in Budgets : b \in [Events -> Nat]
<1> USE TopologyAssumption, PlacementAssumption
<1>1. \A x \in Frees : x <= Total
  OBVIOUS
<1>2. Max(Frees) \in Frees
  <2>1. Frees \in SUBSET Nat /\ Frees # {} /\ Total \in Nat
    OBVIOUS
  <2> QED BY ONLY <2>1, <1>1, MaxIsGreatest
<1>3. PICK m \in Nat : \A x \in Lats : x <= m
  BY Bounded
<1>4. Max(Lats) \in Lats /\ \A y \in Lats : Max(Lats) >= y
  BY <1>3, MaxIsGreatest
<1>5. Max(Frees) \in Int /\ Frees \subseteq Int /\ Total \in Int
  <2>1. Frees \subseteq 0 .. Total /\ Total \in Nat
    OBVIOUS
  <2>2. Frees \subseteq Int /\ Total \in Int
    BY ONLY <2>1
  <2>3. Max(Frees) \in Int
    BY ONLY <2>2, <1>2
  <2> QED BY ONLY <2>2, <2>3
<1>6. Max(Lats) \in Nat /\ \A l \in Lats : l \in Nat /\ l <= Max(Lats)
  <2>1. Lats \in SUBSET Nat
    OBVIOUS
  <2> QED BY ONLY <2>1, <1>4
<1>7. N \in Nat /\ N > 0 /\ TTL \in Nat /\ TTL > 0 /\ ZfsShards \subseteq Shards /\ \A b \in Budgets : b \in [Events -> Nat]
  OBVIOUS
<1> QED BY ONLY <1>5, <1>6, <1>7

LEMMA IdleType == Idle.pc = "idle" /\ ProcType(Idle)
BY DEF Idle, ProcType, ProcRec, Busy

LEMMA NoneType == None \in Cap
BY DEF None, Cap

LEMMA NewFsmType == NewFsm \in Fsm /\ NewFsm.st = "Online" /\ NewFsm.fails = 0 /\ NewFsm.oks = 0
BY Thresholds DEF NewFsm, Reset, Fsm, FsmStates

LEMMA TypesInit == ASSUME Init PROVE Types
<1> USE Consts, Thresholds DEF Init
<1>1. MonType
  BY NewFsmType, NoneType DEF MonType, Statuses, Shards
<1>2. IoType
  BY DEF IoType
<1>3. TopoType
  <2>1. free \in [Shards -> Int] /\ caps \in [Shards -> Cap] /\ left \in [Events -> Nat] /\ null \subseteq Shards
    BY NoneType, TopologyAssumption
  <2>2. topo = NoTopo /\ calm \in [Shards -> 0 .. TTL]
    OBVIOUS
  <2>3. \A p \in Callers : ProcType(proc[p])
    BY IdleType
  <2>4. proc \in [Callers -> ProcRec]
    BY IdleType DEF ProcType, ProcRec
  <2> QED BY <2>1, <2>2, <2>3, <2>4 DEF TopoType
<1> QED BY <1>1, <1>2, <1>3 DEF Types

LEMMA InvInit == ASSUME Init PROVE Inv
<1>1. Types
  BY TypesInit
<1>2. RunsInv
  BY NewFsmType, Thresholds DEF Init, RunsInv, Runs
<1>3. StaleInv
  BY IdleType DEF Init, StaleInv, Cached, Statused, Slowed, LateNow, Busy, ProcType, ProcRec
<1>4. DeadOut
  <2>1. \A p \in Callers : proc[p].pc = "idle"
    BY IdleType DEF Init
  <2>2. topo = NoTopo /\ \A s \in Dead : status[s] = "Faulted"
    <3>1. null \subseteq Shards
      BY TopologyAssumption DEF Init
    <3> QED BY <3>1 DEF Init, Dead
  <2> QED BY <2>1, <2>2 DEF DeadOut, Busy
<1> QED BY <1>1, <1>2, <1>3, <1>4 DEF Inv

-----------------------------------------------------------------------------
(* The steps keep the types. *)

LEMMA UseType ==
  ASSUME left \in [Events -> Nat], NEW e \in Events, Use(e)
  PROVE  left' \in [Events -> Nat]
BY DEF Use

\* Dropping the cache: every call under way is late for the shard.
LEMMA ForgetIs ==
  ASSUME TopoType, NEW s \in Shards, Forget(s)
  PROVE  /\ topo' = NoTopo /\ calm' \in [Shards -> 0 .. TTL] /\ calm'[s] = 0 /\ (\A t \in Shards \ {s} : calm'[t] = calm[t])
         /\ proc' \in [Callers -> ProcRec]
         /\ \A p \in Callers :
              /\ ProcType(proc'[p])
              /\ proc'[p].pc = proc[p].pc /\ proc'[p].status = proc[p].status /\ proc'[p].caps = proc[p].caps
              /\ proc'[p].slow = proc[p].slow /\ proc'[p].view = proc[p].view
              /\ proc'[p].late = IF proc[p].pc \in Busy THEN proc[p].late \cup {s} ELSE {}
<1>1. topo' = NoTopo /\ calm' \in [Shards -> 0 .. TTL] /\ calm'[s] = 0 /\ \A t \in Shards \ {s} : calm'[t] = calm[t]
  BY Consts DEF Forget, TopoType
<1>2. ASSUME NEW p \in Callers
      PROVE  /\ proc'[p] \in ProcRec
             /\ ProcType(proc'[p])
             /\ proc'[p].pc = proc[p].pc /\ proc'[p].status = proc[p].status /\ proc'[p].caps = proc[p].caps
             /\ proc'[p].slow = proc[p].slow /\ proc'[p].view = proc[p].view
             /\ proc'[p].late = IF proc[p].pc \in Busy THEN proc[p].late \cup {s} ELSE {}
  <2>0. proc'[p] = IF proc[p].pc \in Busy THEN [proc[p] EXCEPT !.late = proc[p].late \cup {s}] ELSE proc[p]
    BY DEF Forget, Busy
  <2>1. ProcType(proc[p])
    BY DEF TopoType
  <2>2. PICK q : q = proc[p]
    OBVIOUS
  <2>3. ProcType(q) /\ proc'[p] = IF q.pc \in Busy THEN [q EXCEPT !.late = q.late \cup {s}] ELSE q
    BY <2>0, <2>1, <2>2
  <2>4. CASE q.pc \in Busy
    <3>1. PICK r : r = [q EXCEPT !.late = q.late \cup {s}]
      OBVIOUS
    <3>2. /\ r \in ProcRec
          /\ r.pc = q.pc /\ r.status = q.status /\ r.caps = q.caps /\ r.slow = q.slow /\ r.view = q.view /\ r.late = q.late \cup {s}
      BY <2>3, <3>1 DEF ProcType, ProcRec
    <3>3. ProcType(r)
      BY <2>3, <2>4, <3>2 DEF ProcType, ProcRec
    <3> QED BY <2>2, <2>3, <2>4, <3>1, <3>2, <3>3
  <2>5. CASE q.pc \notin Busy
    BY <2>2, <2>3, <2>5 DEF ProcType, ProcRec
  <2> QED BY <2>4, <2>5
<1>3. proc' = [p \in Callers |-> proc'[p]]
  BY DEF Forget
<1>4. proc' \in [Callers -> ProcRec]
  BY <1>2, <1>3
<1> QED BY <1>1, <1>2, <1>4

\* What an observation of shard s changes in the monitor.
LEMMA JudgeIs ==
  ASSUME MonType, RunsInv, NEW s \in Shards, mon.at = s, NEW obs \in Observations, NEW cap \in Cap, Judge(s, obs, cap)
  PROVE  /\ MonType' /\ RunsInv'
         /\ \A t \in Shards \ {s} : zfsm'[t] = zfsm[t] /\ status'[t] = status[t]
         /\ zfsm'[s].st # zfsm[s].st =>
              /\ zfsm'[s].st = "Online" => good'[s] >= RecoverAfter
              /\ zfsm[s].st = "Online" => bad'[s] >= SuspectAfter \/ downs'[s] > 0
              /\ zfsm[s].st = "Suspect" /\ zfsm'[s].st = "Faulted" => downs'[s] >= SuspectAfter
         /\ mon'.at = s /\ mon.pc # "clear" => (status'[s] # status[s] => mon'.pc = "clear")
<1> DEFINE f2 == Observe(zfsm[s], obs)
           g2 == IF obs = "Healthy" THEN IF good[s] < RecoverAfter THEN good[s] + 1 ELSE good[s] ELSE 0
           d2 == IF obs = "Healthy" THEN 0 ELSE IF obs = "Down" /\ downs[s] < SuspectAfter THEN downs[s] + 1 ELSE downs[s]
           b2 == IF obs = "Healthy" THEN 0 ELSE IF bad[s] < SuspectAfter THEN bad[s] + 1 ELSE bad[s]
<1>1. /\ f2 \in Fsm /\ g2 \in 0 .. RecoverAfter /\ d2 \in 0 .. SuspectAfter /\ b2 \in 0 .. SuspectAfter
      /\ Runs(f2, g2, d2, b2)
      /\ f2.st # zfsm[s].st =>
           /\ f2.st = "Online" => g2 >= RecoverAfter
           /\ zfsm[s].st = "Online" => b2 >= SuspectAfter \/ d2 > 0
           /\ zfsm[s].st = "Suspect" /\ f2.st = "Faulted" => d2 >= SuspectAfter
  <2>1. zfsm[s] \in Fsm /\ good[s] \in 0 .. RecoverAfter /\ downs[s] \in 0 .. SuspectAfter /\ bad[s] \in 0 .. SuspectAfter
        /\ Runs(zfsm[s], good[s], downs[s], bad[s])
    BY DEF MonType, RunsInv
  <2> QED BY ONLY <2>1, obs \in Observations, ObserveRuns
<1>2. /\ zfsm' = [zfsm EXCEPT ![s] = f2] /\ status' = [status EXCEPT ![s] = StatusOf(f2)]
      /\ good' = [good EXCEPT ![s] = g2] /\ downs' = [downs EXCEPT ![s] = d2] /\ bad' = [bad EXCEPT ![s] = b2]
      /\ UNCHANGED <<sfsm, dsk, slow>>
  BY DEF Judge
<1>3. mon' = [mon EXCEPT !.pc = IF status[s] # StatusOf(f2) THEN "clear" ELSE "cap", !.cap = cap]
  BY DEF Judge
<1> HIDE DEF f2, g2, d2, b2
<1>4. StatusOf(f2) \in Statuses
  BY <1>1 DEF StatusOf, Fsm, FsmStates, Statuses
<1>5. mon' \in [at : Shards, pc : {"look", "clear", "cap"}, cap : Cap] /\ mon'.at = s
      /\ (status[s] # StatusOf(f2) => mon'.pc = "clear")
  <2>1. PICK m : m \in [at : Shards, pc : {"look", "clear", "cap"}, cap : Cap] /\ m = mon /\ m.at = s
    BY DEF MonType
  <2>2. PICK c \in {"clear", "cap"} : mon' = [m EXCEPT !.pc = c, !.cap = cap] /\ (status[s] # StatusOf(f2) => c = "clear")
    BY <1>3, <2>1
  <2> QED BY <2>1, <2>2
<1>6. MonType'
  BY <1>1, <1>2, <1>4, <1>5 DEF MonType
<1>7. \A t \in Shards : /\ t # s => zfsm'[t] = zfsm[t] /\ good'[t] = good[t] /\ downs'[t] = downs[t] /\ bad'[t] = bad[t]
                        /\ t = s => zfsm'[t] = f2 /\ good'[t] = g2 /\ downs'[t] = d2 /\ bad'[t] = b2
  BY <1>2 DEF MonType
<1>8. RunsInv'
  BY <1>1, <1>7 DEF RunsInv
<1>9. status'[s] = StatusOf(f2) /\ \A t \in Shards \ {s} : status'[t] = status[t]
  BY <1>2 DEF MonType
<1> QED BY <1>1, <1>5, <1>6, <1>7, <1>8, <1>9

LEMMA ObservationType == \A z : Observation(z) \in Observations /\ "Down" \in Observations
BY DEF Observation, Observations

\* A slow disk is suspected, never given up.
LEMMA SlowMachine ==
  ASSUME NEW f \in Fsm, f.st \in {"Online", "Suspect"}, NEW obs \in {"Degraded", "Healthy"}
  PROVE  Observe(f, obs) \in Fsm /\ Observe(f, obs).st \in {"Online", "Suspect"}
<1> USE Thresholds
<1>1. PICK st \in {"Online", "Suspect"}, fails \in 0 .. SuspectAfter - 1, oks \in 0 .. RecoverAfter :
        f = [st |-> st, fails |-> fails, oks |-> oks]
  BY DEF Fsm
<1>2. /\ [f EXCEPT !.fails = 0] = [st |-> st, fails |-> 0, oks |-> oks]
      /\ [f EXCEPT !.oks = 0] = [st |-> st, fails |-> fails, oks |-> 0]
      /\ [f EXCEPT !.fails = f.fails + 1] = [st |-> st, fails |-> fails + 1, oks |-> oks]
      /\ f.st = st /\ f.fails = fails
  BY <1>1
<1>3. CASE st = "Online" /\ obs = "Healthy"
  <2>1. Observe(f, obs) = [st |-> st, fails |-> 0, oks |-> oks]
    BY <1>3, <1>2 DEF Observe
  <2> QED BY <2>1, <1>3 DEF Fsm, FsmStates
<1>4. CASE st = "Online" /\ obs = "Degraded"
  <2>1. Observe(f, obs) = IF fails + 1 >= SuspectAfter THEN Reset("Suspect") ELSE [st |-> st, fails |-> fails + 1, oks |-> oks]
    BY <1>4, <1>2 DEF Observe, Failed
  <2> QED BY <2>1, <1>4 DEF Fsm, FsmStates, Reset
<1>5. CASE st = "Suspect" /\ obs = "Healthy"
  <2>1. PICK h : h = [st |-> st, fails |-> 0, oks |-> oks]
    OBVIOUS
  <2>2. Observe(f, obs) = Succeeded(h)
    BY <1>5, <1>2, <2>1 DEF Observe
  <2>3. [h EXCEPT !.oks = h.oks + 1] = [st |-> st, fails |-> 0, oks |-> oks + 1] /\ h.oks = oks
    BY <2>1
  <2>4. Observe(f, obs) = IF oks + 1 >= RecoverAfter THEN NewFsm ELSE [st |-> st, fails |-> 0, oks |-> oks + 1]
    BY <2>2, <2>3 DEF Succeeded
  <2> QED BY <2>4, <1>5, NewFsmType DEF Fsm, FsmStates
<1>6. CASE st = "Suspect" /\ obs = "Degraded"
  <2>1. Observe(f, obs) = [st |-> st, fails |-> fails, oks |-> 0]
    BY <1>6, <1>2 DEF Observe
  <2> QED BY <2>1, <1>6 DEF Fsm, FsmStates
<1> QED BY <1>3, <1>4, <1>5, <1>6

LEMMA NextType == \A s \in Shards : NextShard(s) \in Shards
<1> SUFFICES ASSUME NEW s \in Nat, s \in Shards PROVE NextShard(s) \in Shards
  BY DEF Shards
<1>1. s % N \in 0 .. N - 1
  BY Consts
<1> QED BY <1>1, Consts DEF NextShard, Shards

\* The steps of the monitors: types, runs, and what a change of state rests on.
LEMMA MonStep ==
  ASSUME Types, RunsInv, [Next]_vars
  PROVE  /\ MonType' /\ RunsInv'
         /\ \A s \in Shards : zfsm'[s].st # zfsm[s].st =>
              /\ zfsm'[s].st = "Online" => good'[s] >= RecoverAfter
              /\ zfsm[s].st = "Online" => bad'[s] >= SuspectAfter \/ downs'[s] > 0
              /\ zfsm[s].st = "Suspect" /\ zfsm'[s].st = "Faulted" => downs'[s] >= SuspectAfter
<1> DEFINE Goal == /\ MonType' /\ RunsInv'
                   /\ \A s \in Shards : zfsm'[s].st # zfsm[s].st =>
                        /\ zfsm'[s].st = "Online" => good'[s] >= RecoverAfter
                        /\ zfsm[s].st = "Online" => bad'[s] >= SuspectAfter \/ downs'[s] > 0
                        /\ zfsm[s].st = "Suspect" /\ zfsm'[s].st = "Faulted" => downs'[s] >= SuspectAfter
<1>0. MonType
  BY DEF Types
<1>1. ASSUME UNCHANGED <<zfsm, history>>, MonType' PROVE Goal
  BY <1>1 DEF RunsInv, history
<1>2. ASSUME UNCHANGED <<zfsm, sfsm, mon, dsk, status, slow, history>> PROVE Goal
  <2>1. MonType'
    BY <1>0, <1>2 DEF MonType, history
  <2> QED BY <2>1, <1>1, <1>2
<1>3. ASSUME NEW obs \in Observations, NEW cap \in Cap, Judge(mon.at, obs, cap) PROVE Goal
  <2>1. mon.at \in Shards
    BY <1>0 DEF MonType
  <2> QED BY <1>0, <1>3, <2>1, JudgeIs
<1>4. ASSUME Skip PROVE Goal
  <2>1. mon.at \in Shards /\ NextShard(mon.at) \in Shards
    BY <1>0, NextType DEF MonType
  <2>2. MonType'
    BY <1>0, <1>4, <2>1 DEF MonType, Skip, history
  <2> QED BY <2>2, <1>1, <1>4 DEF Skip
<1>5. ASSUME Look PROVE Goal
  <2>1. [total |-> Total, free |-> free[mon.at]] \in Cap
    BY <1>0, Consts DEF Cap, Types, TopoType, MonType
  <2> QED BY <1>3, <1>5, <2>1, ObservationType DEF Look
<1>6. ASSUME Hang PROVE Goal
  BY <1>3, <1>6, NoneType, ObservationType DEF Hang
<1>7. ASSUME Clear PROVE Goal
  <2>1. MonType'
    BY <1>0, <1>7 DEF MonType, Clear, history
  <2> QED BY <2>1, <1>1, <1>7 DEF Clear
<1>8. ASSUME SetCap PROVE Goal
  <2>1. mon.at \in Shards /\ NextShard(mon.at) \in Shards
    BY <1>0, NextType DEF MonType
  <2>2. MonType'
    BY <1>0, <1>8, <2>1, NoneType DEF MonType, SetCap, history
  <2> QED BY <2>2, <1>1, <1>8 DEF SetCap
<1>9. ASSUME Measure PROVE Goal
  <2>1. 1 \in Shards /\ Slow \subseteq Shards
    BY Consts DEF Shards, Slow, Taking
  <2>2. MonType'
    BY <1>0, <1>9, <2>1 DEF MonType, Measure, history, Shards
  <2> QED BY <2>2, <1>1, <1>9 DEF Measure
<1>10. DskNext \in [at : 0 .. N, pc : {"wait", "flag", "clear"}, slow : SUBSET Shards]
       /\ (dsk.pc # "wait" /\ DskNext.pc # "wait" => DskNext.at \in Shards)
  <2>1. PICK d : d = dsk /\ d \in [at : 0 .. N, pc : {"wait", "flag", "clear"}, slow : SUBSET Shards]
                 /\ (d.pc # "wait" => d.at \in Shards)
    BY <1>0 DEF MonType
  <2>2. CASE d.at = N
    BY <2>1, <2>2, Consts DEF DskNext, Shards
  <2>3. CASE d.at # N
    <3>0. d.at \in 0 .. N
      BY <2>1
    <3>1. DskNext = [d EXCEPT !.at = d.at + 1, !.pc = "flag"] /\ d.at + 1 \in Shards /\ d.at + 1 \in 0 .. N
      BY <3>0, <2>1, <2>3, Consts DEF DskNext, Shards
    <3>2. PICK e : e = DskNext
      OBVIOUS
    <3>3. e.at = d.at + 1 /\ e.pc = "flag" /\ e \in [at : 0 .. N, pc : {"wait", "flag", "clear"}, slow : SUBSET Shards]
      BY <3>1, <3>2, <2>1
    <3> QED BY <3>1, <3>2, <3>3
  <2> QED BY <2>2, <2>3
<1>11. ASSUME Flag PROVE Goal
  <2>1. dsk.pc = "flag" /\ dsk.at \in Shards
    BY <1>0, <1>11 DEF Flag, MonType
  <2>2. PICK f \in Fsm, b \in BOOLEAN :
          /\ f.st \in {"Online", "Suspect"}
          /\ sfsm' = [sfsm EXCEPT ![dsk.at] = f] /\ slow' = [slow EXCEPT ![dsk.at] = b]
          /\ dsk' = IF slow[dsk.at] # b THEN [dsk EXCEPT !.pc = "clear"] ELSE DskNext
    <3>1. PICK obs \in {"Degraded", "Healthy"} : obs = IF dsk.at \in dsk.slow THEN "Degraded" ELSE "Healthy"
      OBVIOUS
    <3>2. PICK f : f = Observe(sfsm[dsk.at], obs)
      OBVIOUS
    <3>3. f \in Fsm /\ f.st \in {"Online", "Suspect"}
      <4>1. sfsm[dsk.at] \in Fsm /\ sfsm[dsk.at].st \in {"Online", "Suspect"}
        BY <1>0, <2>1 DEF MonType
      <4> QED BY <4>1, <3>2, SlowMachine
    <3>4. PICK b \in BOOLEAN : b = (StatusOf(f) # "Online")
      OBVIOUS
    <3>5. /\ sfsm' = [sfsm EXCEPT ![dsk.at] = f] /\ slow' = [slow EXCEPT ![dsk.at] = b]
          /\ dsk' = IF slow[dsk.at] # b THEN [dsk EXCEPT !.pc = "clear"] ELSE DskNext
      BY <1>11, <3>1, <3>2, <3>4 DEF Flag
    <3> QED BY <3>3, <3>5
  <2>3. dsk' \in [at : 0 .. N, pc : {"wait", "flag", "clear"}, slow : SUBSET Shards] /\ (dsk'.pc # "wait" => dsk'.at \in Shards)
    <3>1. CASE slow[dsk.at] # b
      BY <1>0, <2>1, <2>2, <3>1 DEF MonType
    <3>2. CASE slow[dsk.at] = b
      BY <1>10, <2>1, <2>2, <3>2
    <3> QED BY <3>1, <3>2
  <2>4. UNCHANGED <<zfsm, mon, status, history>>
    BY <1>11 DEF Flag
  <2>5. MonType'
    BY <1>0, <2>1, <2>2, <2>3, <2>4 DEF MonType, history
  <2> QED BY <2>4, <2>5, <1>1
<1>12. ASSUME ClearSlow PROVE Goal
  <2>1. MonType'
    BY <1>0, <1>10, <1>12 DEF MonType, ClearSlow, history
  <2> QED BY <2>1, <1>1, <1>12 DEF ClearSlow
<1>13. ASSUME NEW r \in Recorders, Record(r) \/ Recorded(r) PROVE Goal
  BY <1>2, <1>13 DEF Record, Recorded
<1>14. ASSUME NEW p \in Callers, Call(p) \/ ReadCaps(p) \/ ReadSlow(p) \/ StoreTopo(p) \/ Placed(p) PROVE Goal
  BY <1>2, <1>14 DEF Call, ReadCaps, ReadSlow, StoreTopo, Placed
<1>15. ASSUME NEW s \in Shards, Fault(s) \/ Fill(s) PROVE Goal
  BY <1>2, <1>15 DEF Fault, Fill
<1>16. ASSUME Tick PROVE Goal
  BY <1>2, <1>16 DEF Tick
<1>17. ASSUME UNCHANGED vars PROVE Goal
  BY <1>2, <1>17 DEF vars, history
<1> HIDE DEF Goal
<1>18. Goal
  BY <1>4, <1>5, <1>6, <1>7, <1>8, <1>9, <1>11, <1>12, <1>13, <1>14, <1>15, <1>16, <1>17, Consts DEF Next, Monitor, DiskSlow
<1> QED BY <1>18 DEF Goal

-----------------------------------------------------------------------------
(* Latencies. *)

LEMMA IoStep == ASSUME Types, [Next]_vars PROVE IoType'
<1>0. IoType
  BY DEF Types
<1>1. CASE UNCHANGED <<ewma, count, io>>
  BY <1>0, <1>1 DEF IoType
<1>2. ASSUME NEW r \in Recorders, Record(r) PROVE IoType'
  <2>1. PICK s \in Shards, l \in Lats :
          /\ count' = [count EXCEPT ![s] = IF count[s] < MinSamples THEN count[s] + 1 ELSE count[s]]
          /\ io' = [io EXCEPT ![r] = [s |-> s, v |-> IF count[s] = 0 THEN l ELSE (7 * ewma[s] + l) \div 8]]
          /\ ewma' = ewma
    BY <1>2 DEF Record
  <2>2. count[s] \in Nat /\ ewma[s] \in 0 .. Max(Lats) /\ l \in 0 .. Max(Lats) /\ s \in 0 .. N /\ Max(Lats) \in Nat
    BY <1>0, Consts DEF IoType, Shards
  <2>3. PICK v : v = IF count[s] = 0 THEN l ELSE (7 * ewma[s] + l) \div 8
    OBVIOUS
  <2>4. v \in 0 .. Max(Lats)
    BY <2>2, <2>3
  <2>5. count' \in [Shards -> Nat]
    BY <1>0, <2>1, <2>2 DEF IoType
  <2>6. io' \in [Recorders -> [s : 0 .. N, v : 0 .. Max(Lats)]]
    BY <1>0, <2>1, <2>2, <2>3, <2>4 DEF IoType
  <2> QED BY <1>0, <2>1, <2>5, <2>6 DEF IoType
<1>3. ASSUME NEW r \in Recorders, Recorded(r) PROVE IoType'
  <2>1. io[r].s \in 0 .. N /\ io[r].v \in 0 .. Max(Lats)
    BY <1>0 DEF IoType
  <2>2. ewma' \in [Shards -> 0 .. Max(Lats)]
    BY <1>0, <1>3, <2>1 DEF IoType, Recorded
  <2>3. PICK e : e = [s |-> 0, v |-> 0]
    OBVIOUS
  <2>4. e \in [s : 0 .. N, v : 0 .. Max(Lats)] /\ io' = [io EXCEPT ![r] = e] /\ count' = count
    BY <1>3, <2>3, Consts DEF Recorded
  <2>5. io' \in [Recorders -> [s : 0 .. N, v : 0 .. Max(Lats)]]
    BY <1>0, <2>4 DEF IoType
  <2> QED BY <1>0, <2>2, <2>4, <2>5 DEF IoType
<1>4. Monitor \/ Hang \/ DiskSlow \/ (\E p \in Callers : Call(p) \/ ReadCaps(p) \/ ReadSlow(p) \/ StoreTopo(p) \/ Placed(p))
      \/ (\E s \in Shards : Fault(s) \/ Fill(s)) \/ Tick \/ UNCHANGED vars \/ (\E r \in Recorders : Record(r) \/ Recorded(r))
  BY Consts DEF Next
<1>5. ASSUME Monitor \/ Hang \/ DiskSlow \/ Tick \/ UNCHANGED vars PROVE UNCHANGED <<ewma, count, io>>
  BY <1>5 DEF Monitor, Skip, Look, Clear, SetCap, Hang, Judge, DiskSlow, Measure, Flag, ClearSlow, Tick, vars, samples
<1>6. ASSUME NEW p \in Callers, Call(p) \/ ReadCaps(p) \/ ReadSlow(p) \/ StoreTopo(p) \/ Placed(p) PROVE UNCHANGED <<ewma, count, io>>
  BY <1>6 DEF Call, ReadCaps, ReadSlow, StoreTopo, Placed, samples
<1>7. ASSUME NEW s \in Shards, Fault(s) \/ Fill(s) PROVE UNCHANGED <<ewma, count, io>>
  BY <1>7 DEF Fault, Fill, samples
<1> QED BY <1>1, <1>2, <1>3, <1>4, <1>5, <1>6, <1>7

-----------------------------------------------------------------------------
(* The calls of topology(). *)

\* A call that changes nothing but its own record.
LEMMA ProcMoves ==
  ASSUME TopoType, NEW p \in Callers, NEW r, r \in ProcRec, ProcType(r), proc' = [proc EXCEPT ![p] = r]
  PROVE  /\ proc' \in [Callers -> ProcRec] /\ (\A t \in Callers : ProcType(proc'[t]))
         /\ proc'[p] = r /\ \A t \in Callers \ {p} : proc'[t] = proc[t]
BY DEF TopoType

\* Viewed: every disk with its capacity and its status.
LEMMA ViewType ==
  ASSUME TopoType, NEW q, ProcType(q), q.pc = "store"
  PROVE  /\ View(q) \in Views
         /\ \A s \in Shards : View(q)[s].status = StatusView(q.status[s], q.slow[s])
<1>1. ASSUME NEW s \in Shards
      PROVE  /\ View(q)[s] \in [total : Int, free : Int, status : Statuses]
             /\ View(q)[s].status = StatusView(q.status[s], q.slow[s])
  <2>1. q.caps[s] \in Cap /\ q.status[s] \in Statuses /\ q.slow[s] \in BOOLEAN
    BY DEF ProcType, Busy
  <2>2. Usage(s) \in Cap
    BY Consts DEF Usage, Cap, TopoType
  <2>3. PICK c \in Cap : c = IF q.caps[s] # None THEN q.caps[s] ELSE Usage(s)
    BY <2>1, <2>2
  <2>4. View(q)[s] = [total |-> c.total, free |-> c.free, status |-> StatusView(q.status[s], q.slow[s])]
    BY <2>3 DEF View
  <2>5. StatusView(q.status[s], q.slow[s]) \in Statuses
    BY <2>1 DEF StatusView, Statuses
  <2> QED BY <2>4, <2>5, <2>3 DEF Cap
<1>2. View(q) = [s \in Shards |-> View(q)[s]]
  BY DEF View
<1> QED BY <1>1, <1>2 DEF Views

\* What each step of a call makes of its record.
LEMMA CallIs ==
  ASSUME TopoType, MonType, NEW p \in Callers, Call(p)
  PROVE  \E r \in ProcRec :
           /\ ProcType(r) /\ proc' = [proc EXCEPT ![p] = r] /\ r.late = {}
           /\ \/ topo # NoTopo /\ topo.age < TTL /\ r.pc = "have" /\ r.view = topo.view
              \/ r.pc = "caps" /\ r.status = status
<1>1. proc' = [proc EXCEPT ![p] = IF topo # NoTopo /\ topo.age < TTL THEN [Idle EXCEPT !.pc = "have", !.view = topo.view]
                                 ELSE [Idle EXCEPT !.pc = "caps", !.status = status]]
  BY DEF Call
<1>2. CASE topo # NoTopo /\ topo.age < TTL
  <2>1. topo.view \in Views
    BY <1>2 DEF TopoType
  <2>2. PICK r : r = [Idle EXCEPT !.pc = "have", !.view = topo.view]
    OBVIOUS
  <2>3. r = [pc |-> "have", status |-> << >>, caps |-> << >>, slow |-> << >>, view |-> topo.view, late |-> {}]
    BY <2>2 DEF Idle
  <2>4. r \in ProcRec /\ ProcType(r) /\ r.late = {} /\ r.pc = "have" /\ r.view = topo.view
    BY <2>1, <2>3 DEF ProcRec, ProcType, Busy
  <2>5. proc' = [proc EXCEPT ![p] = r]
    BY <1>1, <1>2, <2>2
  <2> QED BY <1>2, <2>4, <2>5
<1>3. CASE ~ (topo # NoTopo /\ topo.age < TTL)
  <2>1. status \in [Shards -> Statuses]
    BY DEF MonType
  <2>2. PICK r : r = [Idle EXCEPT !.pc = "caps", !.status = status]
    OBVIOUS
  <2>3. r = [pc |-> "caps", status |-> status, caps |-> << >>, slow |-> << >>, view |-> << >>, late |-> {}]
    BY <2>2 DEF Idle
  <2>4. r \in ProcRec /\ ProcType(r) /\ r.late = {} /\ r.pc = "caps" /\ r.status = status
    BY <2>1, <2>3 DEF ProcRec, ProcType, Busy
  <2>5. proc' = [proc EXCEPT ![p] = r]
    BY <1>1, <1>3, <2>2
  <2> QED BY <2>4, <2>5
<1> QED BY <1>2, <1>3

LEMMA ReadIs ==
  ASSUME TopoType, MonType, NEW p \in Callers, ReadCaps(p) \/ ReadSlow(p)
  PROVE  \E r \in ProcRec :
           /\ ProcType(r) /\ proc' = [proc EXCEPT ![p] = r] /\ r.late = proc[p].late /\ r.status = proc[p].status
           /\ proc[p].pc \in Busy /\ r.pc \in Busy /\ (r.pc = "store" => r.slow = slow)
<1>1. PICK q : q = proc[p] /\ q \in ProcRec /\ ProcType(q)
  BY DEF TopoType
<1>2. CASE ReadCaps(p)
  <2>1. PICK r : r = [q EXCEPT !.pc = "slow", !.caps = caps]
    OBVIOUS
  <2>2. q.pc = "caps" /\ proc' = [proc EXCEPT ![p] = r]
    BY <1>1, <1>2, <2>1 DEF ReadCaps
  <2>3. /\ r.pc = "slow" /\ r.caps = caps /\ r.status = q.status /\ r.slow = q.slow /\ r.view = q.view /\ r.late = q.late
        /\ r \in ProcRec
    BY <1>1, <2>1 DEF TopoType, ProcRec, Busy
  <2>4. ProcType(r)
    BY <1>1, <2>2, <2>3 DEF ProcType, TopoType, Busy
  <2> QED BY <1>1, <2>2, <2>3, <2>4 DEF Busy
<1>3. CASE ReadSlow(p)
  <2>1. PICK r : r = [q EXCEPT !.pc = "store", !.slow = slow]
    OBVIOUS
  <2>2. q.pc = "slow" /\ proc' = [proc EXCEPT ![p] = r]
    BY <1>1, <1>3, <2>1 DEF ReadSlow
  <2>3. /\ r.pc = "store" /\ r.slow = slow /\ r.status = q.status /\ r.caps = q.caps /\ r.view = q.view /\ r.late = q.late
        /\ r \in ProcRec
    BY <1>1, <2>1 DEF MonType, ProcRec, Busy
  <2>4. ProcType(r)
    BY <1>1, <2>2, <2>3 DEF ProcType, MonType, Busy
  <2> QED BY <1>1, <2>2, <2>3, <2>4 DEF Busy
<1> QED BY <1>2, <1>3

LEMMA StoreIs ==
  ASSUME TopoType, NEW p \in Callers, StoreTopo(p)
  PROVE  \E r \in ProcRec, v \in Views :
           /\ ProcType(r) /\ proc' = [proc EXCEPT ![p] = r] /\ r.late = {} /\ r.pc = "have" /\ r.view = v
           /\ topo' = [view |-> v, age |-> 0] /\ proc[p].pc = "store"
           /\ \A s \in Shards : v[s].status = StatusView(proc[p].status[s], proc[p].slow[s])
<1>1. PICK q : q = proc[p] /\ ProcType(q)
  BY DEF TopoType
<1>2. PICK v : v = View(q)
  OBVIOUS
<1>3. q.pc = "store" /\ topo' = [view |-> v, age |-> 0] /\ proc' = [proc EXCEPT ![p] = [Idle EXCEPT !.pc = "have", !.view = v]]
  BY <1>1, <1>2 DEF StoreTopo
<1>4. v \in Views /\ \A s \in Shards : v[s].status = StatusView(q.status[s], q.slow[s])
  BY <1>1, <1>2, <1>3, ViewType
<1>5. PICK r : r = [Idle EXCEPT !.pc = "have", !.view = v]
  OBVIOUS
<1>6. r = [pc |-> "have", status |-> << >>, caps |-> << >>, slow |-> << >>, view |-> v, late |-> {}]
  BY <1>5 DEF Idle
<1>7. r \in ProcRec /\ ProcType(r) /\ r.late = {} /\ r.pc = "have" /\ r.view = v
  BY <1>4, <1>6 DEF ProcRec, ProcType, Busy
<1> QED BY <1>1, <1>3, <1>4, <1>5, <1>7

LEMMA TopoStep == ASSUME Types, [Next]_vars PROVE TopoType'
<1>0. TopoType /\ MonType /\ proc \in [Callers -> ProcRec]
  BY DEF Types, TopoType
<1>1. ASSUME UNCHANGED <<free, null, topo, proc, calm>>, caps' \in [Shards -> Cap], left' \in [Events -> Nat] PROVE TopoType'
  BY <1>0, <1>1 DEF TopoType
<1>2. \A e \in {"fault", "fill", "hang", "call", "tick", "io"} : Use(e) => left' \in [Events -> Nat]
  BY <1>0, UseType, TopologyAssumption DEF TopoType
<1>3. ASSUME Skip \/ Look \/ SetCap \/ Hang \/ Measure \/ Flag \/ UNCHANGED vars PROVE TopoType'
  <2>1. UNCHANGED <<free, null, topo, proc, calm>>
    BY <1>3 DEF Skip, Look, SetCap, Hang, Judge, Measure, Flag, vars, disks
  <2>2. caps' \in [Shards -> Cap]
    <3>1. CASE SetCap
      BY <1>0, <3>1 DEF SetCap, TopoType, MonType
    <3>2. CASE ~ SetCap
      <4>1. caps' = caps
        BY <1>3, <3>2 DEF Skip, Look, Hang, Judge, Measure, Flag, vars
      <4> QED BY <1>0, <4>1 DEF TopoType
    <3> QED BY <3>1, <3>2
  <2>3. left' \in [Events -> Nat]
    <3>1. CASE Hang
      BY <1>2, <3>1 DEF Hang
    <3>2. CASE ~ Hang
      <4>1. left' = left
        BY <1>3, <3>2 DEF Skip, Look, SetCap, Measure, Flag, vars
      <4> QED BY <1>0, <4>1 DEF TopoType
    <3> QED BY <3>1, <3>2
  <2> QED BY <1>1, <2>1, <2>2, <2>3
<1>4. ASSUME Clear \/ ClearSlow PROVE TopoType'
  <2>1. PICK s \in Shards : Forget(s) /\ UNCHANGED <<free, null, caps, left>>
    BY <1>0, <1>4 DEF Clear, ClearSlow, MonType, disks
  <2> QED BY <1>0, <2>1, ForgetIs DEF TopoType
<1>5. ASSUME NEW r \in Recorders, Record(r) \/ Recorded(r) PROVE TopoType'
  <2>1. UNCHANGED <<free, null, caps, topo, proc, calm>> /\ left' \in [Events -> Nat]
    BY <1>0, <1>2, <1>5 DEF Record, Recorded, disks, TopoType
  <2> QED BY <1>0, <1>1, <2>1 DEF TopoType
<1>6. ASSUME NEW p \in Callers, NEW r \in ProcRec, ProcType(r), proc' = [proc EXCEPT ![p] = r], UNCHANGED <<free, null, caps, topo, calm>>,
             left' \in [Events -> Nat] PROVE TopoType'
  BY <1>0, <1>6, ProcMoves DEF TopoType
<1>7. ASSUME NEW p \in Callers, Call(p) PROVE TopoType'
  <2>1. UNCHANGED <<free, null, caps, topo, calm>> /\ left' \in [Events -> Nat]
    BY <1>2, <1>7 DEF Call, disks
  <2> QED BY <1>0, <1>6, <1>7, <2>1, CallIs
<1>8. ASSUME NEW p \in Callers, ReadCaps(p) \/ ReadSlow(p) PROVE TopoType'
  <2>1. UNCHANGED <<free, null, caps, topo, calm>> /\ left' \in [Events -> Nat]
    BY <1>0, <1>8 DEF ReadCaps, ReadSlow, disks, TopoType
  <2> QED BY <1>0, <1>6, <1>8, <2>1, ReadIs
<1>9. ASSUME NEW p \in Callers, StoreTopo(p) PROVE TopoType'
  <2>1. PICK r \in ProcRec, v \in Views : ProcType(r) /\ proc' = [proc EXCEPT ![p] = r] /\ topo' = [view |-> v, age |-> 0]
    BY <1>0, <1>9, StoreIs
  <2>2. proc' \in [Callers -> ProcRec] /\ \A t \in Callers : ProcType(proc'[t])
    BY <1>0, <2>1, ProcMoves
  <2>3. calm' \in [Shards -> 0 .. TTL]
    BY <1>0, <1>9, Consts DEF StoreTopo, TopoType
  <2>4. topo' \in [view : Views, age : 0 .. TTL]
    BY <2>1, Consts
  <2> QED BY <1>0, <1>9, <2>2, <2>3, <2>4 DEF StoreTopo, TopoType, disks
<1>10. ASSUME NEW p \in Callers, Placed(p) PROVE TopoType'
  <2>1. Idle \in ProcRec /\ ProcType(Idle)
    BY IdleType DEF ProcType
  <2>2. UNCHANGED <<free, null, caps, topo, calm>> /\ left' \in [Events -> Nat] /\ proc' = [proc EXCEPT ![p] = Idle]
    BY <1>0, <1>10 DEF Placed, disks, TopoType
  <2> QED BY <1>6, <2>1, <2>2
<1>11. ASSUME NEW s \in Shards, Fault(s) \/ Fill(s) PROVE TopoType'
  <2>1. UNCHANGED <<null, caps, topo, proc, calm>> /\ left' \in [Events -> Nat]
    BY <1>2, <1>11 DEF Fault, Fill
  <2>2. free' \in [Shards -> Int]
    BY <1>0, <1>11, Consts DEF Fault, Fill, TopoType
  <2> QED BY <1>0, <2>1, <2>2 DEF TopoType
<1>12. ASSUME Tick PROVE TopoType'
  <2>1. UNCHANGED <<free, null, caps, proc>> /\ left' \in [Events -> Nat]
    BY <1>2, <1>12 DEF Tick, disks
  <2>2. calm' \in [Shards -> 0 .. TTL]
    BY <1>0, <1>12, Consts DEF Tick, TopoType
  <2>3. topo' # NoTopo => topo' \in [view : Views, age : 0 .. TTL]
    <3>1. CASE topo = NoTopo \/ topo.age = TTL
      BY <1>0, <1>12, <3>1 DEF Tick, TopoType
    <3>2. CASE ~ (topo = NoTopo \/ topo.age = TTL)
      <4>1. PICK t : t = topo /\ t \in [view : Views, age : 0 .. TTL] /\ t.age # TTL
        BY <1>0, <3>2 DEF TopoType
      <4>2. topo' = [t EXCEPT !.age = t.age + 1]
        BY <1>12, <3>2, <4>1 DEF Tick
      <4>3. t.age + 1 \in 0 .. TTL
        BY <4>1, Consts
      <4> QED BY <4>1, <4>2, <4>3
    <3> QED BY <3>1, <3>2
  <2> QED BY <1>0, <2>1, <2>2, <2>3 DEF TopoType
<1> QED BY <1>3, <1>4, <1>5, <1>7, <1>8, <1>9, <1>10, <1>11, <1>12, Consts DEF Next, Monitor, DiskSlow

-----------------------------------------------------------------------------
(* Stale placements. *)

\* A monitor's step that writes no status and no flag.
LEMMA QuietKeepsStale ==
  ASSUME StaleInv, UNCHANGED <<status, slow, topo, proc, calm>>,
         mon.pc = "clear" => mon'.pc = "clear" /\ mon'.at = mon.at,
         dsk.pc = "clear" => dsk'.pc = "clear" /\ dsk'.at = dsk.at
  PROVE  StaleInv'
BY DEF StaleInv, Cached, Statused, Slowed, LateNow, Current, Changing

\* A status or a flag of one disk is written, and its announcement is to come.
LEMMA WriteKeepsStale ==
  ASSUME StaleInv, NEW s \in Shards, UNCHANGED <<topo, proc, calm>>,
         \A t \in Shards \ {s} : status'[t] = status[t] /\ slow'[t] = slow[t],
         \/ /\ UNCHANGED <<slow, dsk>> /\ mon.pc # "clear" /\ (status'[s] # status[s] => mon'.pc = "clear" /\ mon'.at = s)
         \/ /\ UNCHANGED <<status, mon>> /\ dsk.pc # "clear" /\ (slow'[s] # slow[s] => dsk'.pc = "clear" /\ dsk'.at = s)
  PROVE  StaleInv'
<1>1. ASSUME NEW t \in Shards PROVE /\ Cached(t)'
                                   /\ \A p \in Callers : Statused(proc[p], t)' /\ Slowed(proc[p], t)' /\ LateNow(proc[p], t)'
  <2>1. Cached(t)'
    <3>1. CASE t = s /\ (status'[s] # status[s] \/ slow'[s] # slow[s])
      BY <3>1 DEF Cached, Changing
    <3>2. CASE status'[t] = status[t] /\ slow'[t] = slow[t]
      <4>1. Changing(t) => Changing(t)'
        BY DEF Changing
      <4> QED BY <3>2, <4>1 DEF StaleInv, Cached, Current
    <3> QED BY <3>1, <3>2
  <2>2. ASSUME NEW p \in Callers PROVE Statused(proc[p], t)' /\ Slowed(proc[p], t)' /\ LateNow(proc[p], t)'
    <3>1. Statused(proc[p], t) /\ Slowed(proc[p], t) /\ LateNow(proc[p], t)
      BY DEF StaleInv
    <3> QED BY <3>1 DEF Statused, Slowed, LateNow
  <2> QED BY <2>1, <2>2
<1> QED BY <1>1 DEF StaleInv

\* The announcement: the cache is gone, and calls under way are late.
LEMMA ForgetKeepsStale ==
  ASSUME TopoType, StaleInv, NEW s \in Shards, Forget(s), UNCHANGED <<status, slow>>,
         \/ UNCHANGED dsk /\ (mon.pc = "clear" => mon.at = s)
         \/ UNCHANGED mon /\ (dsk.pc = "clear" => dsk.at = s)
  PROVE  StaleInv'
<1>1. topo' = NoTopo
  BY ForgetIs
<1>2. ASSUME NEW p \in Callers, NEW t \in Shards
      PROVE  Statused(proc[p], t)' /\ Slowed(proc[p], t)' /\ LateNow(proc[p], t)'
  <2>1. /\ proc'[p].pc = proc[p].pc /\ proc'[p].status = proc[p].status /\ proc'[p].slow = proc[p].slow
        /\ proc'[p].late = IF proc[p].pc \in Busy THEN proc[p].late \cup {s} ELSE {}
        /\ calm'[s] = 0 /\ (t # s => calm'[t] = calm[t])
    BY ForgetIs
  <2>2. Statused(proc[p], t) /\ Slowed(proc[p], t) /\ LateNow(proc[p], t)
    BY DEF StaleInv
  <2> QED BY <2>1, <2>2 DEF Statused, Slowed, LateNow, Busy
<1> QED BY <1>1, <1>2 DEF StaleInv, Cached

\* A step of one call.
LEMMA CallKeepsStale ==
  ASSUME TopoType, StaleInv, NEW p \in Callers, NEW r \in ProcRec, ProcType(r), proc' = [proc EXCEPT ![p] = r],
         UNCHANGED <<mon, dsk, status, slow, topo, calm>>,
         r.late \subseteq proc[p].late,
         r.pc \in Busy => \/ r.status = status
                          \/ proc[p].pc \in Busy /\ r.status = proc[p].status /\ r.late = proc[p].late,
         r.pc = "store" => r.slow = slow
  PROVE  StaleInv'
<1>1. proc'[p] = r /\ \A t \in Callers \ {p} : proc'[t] = proc[t]
  BY ProcMoves
<1>2. \A s \in Shards : Statused(proc[p], s) /\ LateNow(proc[p], s)
  BY DEF StaleInv
<1>3. \A s \in Shards : Statused(r, s) /\ Slowed(r, s) /\ LateNow(r, s)
  BY <1>2 DEF Statused, Slowed, LateNow
<1>4. ASSUME NEW t \in Callers, NEW s \in Shards PROVE Statused(proc[t], s)' /\ Slowed(proc[t], s)' /\ LateNow(proc[t], s)'
  <2>1. Statused(proc'[t], s) /\ Slowed(proc'[t], s) /\ LateNow(proc'[t], s)
    BY <1>1, <1>3 DEF StaleInv
  <2> QED BY <2>1 DEF Statused, Slowed, LateNow
<1>5. ASSUME NEW s \in Shards PROVE Cached(s)'
  BY DEF StaleInv, Cached, Current, Changing
<1> QED BY <1>4, <1>5 DEF StaleInv

\* A call stores what it has read.
LEMMA StoreKeepsStale ==
  ASSUME TopoType, StaleInv, NEW p \in Callers, StoreTopo(p)
  PROVE  StaleInv'
<1>1. PICK r \in ProcRec, v \in Views :
        /\ ProcType(r) /\ proc' = [proc EXCEPT ![p] = r] /\ r.late = {} /\ r.pc = "have"
        /\ topo' = [view |-> v, age |-> 0] /\ proc[p].pc = "store"
        /\ \A s \in Shards : v[s].status = StatusView(proc[p].status[s], proc[p].slow[s])
  BY StoreIs
<1>2. proc'[p] = r /\ \A t \in Callers \ {p} : proc'[t] = proc[t]
  BY <1>1, ProcMoves
<1>3. UNCHANGED <<mon, dsk, status, slow>> /\ calm' = [s \in Shards |-> IF s \in proc[p].late THEN 0 ELSE calm[s]]
  BY DEF StoreTopo
<1>4. topo'.view = v /\ topo'.age = 0
  BY <1>1
<1>5. ASSUME NEW s \in Shards PROVE Cached(s)'
  <2>1. Statused(proc[p], s) /\ Slowed(proc[p], s) /\ LateNow(proc[p], s)
    BY DEF StaleInv
  <2>2. CASE s \in proc[p].late
    <3>1. calm'[s] = 0
      BY <1>3, <2>2
    <3> QED BY <1>4, <3>1 DEF Cached
  <2>3. CASE s \notin proc[p].late
    <3>1. (proc[p].status[s] = status[s] /\ proc[p].slow[s] = slow[s]) \/ Changing(s)
      BY <1>1, <2>1, <2>3 DEF Statused, Slowed, Changing, Busy
    <3>2. topo'.view[s].status = Current(s) \/ Changing(s)
      BY <1>1, <1>4, <3>1 DEF Current
    <3>3. Current(s)' = Current(s) /\ (Changing(s)' <=> Changing(s))
      BY <1>3 DEF Current, Changing
    <3> QED BY <3>2, <3>3 DEF Cached
  <2> QED BY <2>2, <2>3
<1>6. ASSUME NEW t \in Callers, NEW s \in Shards PROVE Statused(proc[t], s)' /\ Slowed(proc[t], s)' /\ LateNow(proc[t], s)'
  <2>1. CASE t = p
    BY <1>1, <1>2, <2>1 DEF Statused, Slowed, LateNow, Busy
  <2>2. CASE t # p
    <3>1. Statused(proc[t], s) /\ Slowed(proc[t], s) /\ LateNow(proc[t], s)
      BY DEF StaleInv
    <3> QED BY <1>2, <1>3, <2>2, <3>1 DEF Statused, Slowed, LateNow
  <2> QED BY <2>1, <2>2
<1> QED BY <1>5, <1>6 DEF StaleInv

LEMMA StaleStep ==
  ASSUME Types, RunsInv, StaleInv, [Next]_vars
  PROVE  StaleInv'
<1>0. TopoType /\ MonType /\ mon.at \in Shards
  BY DEF Types, MonType
<1>1. ASSUME NEW obs \in Observations, NEW cap \in Cap, mon.pc = "look", Judge(mon.at, obs, cap) PROVE StaleInv'
  <2>1. /\ \A t \in Shards \ {mon.at} : status'[t] = status[t]
        /\ mon'.at = mon.at /\ (status'[mon.at] # status[mon.at] => mon'.pc = "clear")
    <3>1. \A t \in Shards \ {mon.at} : status'[t] = status[t]
      BY <1>0, <1>1, JudgeIs
    <3>2. mon'.at = mon.at
      BY <1>0, <1>1 DEF Judge, MonType
    <3>3. status'[mon.at] # status[mon.at] => mon'.pc = "clear"
      BY <1>0, <1>1, <3>2, JudgeIs
    <3> QED BY <3>1, <3>2, <3>3
  <2>2. UNCHANGED <<topo, proc, calm, slow, dsk>>
    BY <1>1 DEF Judge
  <2> QED BY <1>0, <1>1, <2>1, <2>2, WriteKeepsStale
<1>2. CASE Look
  <2>1. [total |-> Total, free |-> free[mon.at]] \in Cap
    BY <1>0, Consts DEF Cap, TopoType
  <2> QED BY <1>1, <1>2, <2>1, ObservationType DEF Look
<1>3. CASE Hang
  BY <1>1, <1>3, NoneType, ObservationType DEF Hang
<1>4. CASE Skip \/ SetCap
  <2>1. mon.pc # "clear" /\ UNCHANGED <<status, slow, topo, proc, calm, dsk>>
    BY <1>4 DEF Skip, SetCap
  <2> QED BY <2>1, QuietKeepsStale
<1>5. CASE Clear
  <2>1. Forget(mon.at) /\ UNCHANGED <<status, slow, dsk>>
    BY <1>5 DEF Clear
  <2> QED BY <1>0, <2>1, ForgetKeepsStale
<1>6. CASE Measure
  <2>1. dsk.pc # "clear" /\ UNCHANGED <<status, slow, topo, proc, calm, mon>>
    BY <1>6 DEF Measure
  <2> QED BY <2>1, QuietKeepsStale
<1>7. CASE Flag
  <2>1. dsk.pc = "flag" /\ dsk.at \in Shards /\ UNCHANGED <<status, mon, topo, proc, calm>>
    BY <1>0, <1>7 DEF Flag, MonType
  <2>2. PICK b \in BOOLEAN : slow' = [slow EXCEPT ![dsk.at] = b] /\ (slow[dsk.at] # b => dsk' = [dsk EXCEPT !.pc = "clear"])
    <3>1. PICK b \in BOOLEAN : b = (StatusOf(Observe(sfsm[dsk.at], IF dsk.at \in dsk.slow THEN "Degraded" ELSE "Healthy")) # "Online")
      OBVIOUS
    <3> QED BY <1>7, <3>1 DEF Flag
  <2>3. slow'[dsk.at] = b /\ \A t \in Shards \ {dsk.at} : slow'[t] = slow[t]
    BY <1>0, <2>1, <2>2 DEF MonType
  <2>4. slow'[dsk.at] # slow[dsk.at] => dsk'.pc = "clear" /\ dsk'.at = dsk.at
    BY <1>0, <2>2, <2>3 DEF MonType
  <2> QED BY <2>1, <2>3, <2>4, WriteKeepsStale
<1>8. CASE ClearSlow
  <2>1. dsk.at \in Shards /\ Forget(dsk.at) /\ UNCHANGED <<status, slow, mon>>
    BY <1>0, <1>8 DEF ClearSlow, MonType
  <2> QED BY <1>0, <2>1, ForgetKeepsStale
<1>9. ASSUME NEW r \in Recorders, Record(r) \/ Recorded(r) PROVE StaleInv'
  BY <1>9, QuietKeepsStale DEF Record, Recorded
<1>10. ASSUME NEW p \in Callers, Call(p) PROVE StaleInv'
  <2>1. PICK r \in ProcRec : /\ ProcType(r) /\ proc' = [proc EXCEPT ![p] = r] /\ r.late = {}
                             /\ r.pc = "have" \/ (r.pc = "caps" /\ r.status = status)
    BY <1>0, <1>10, CallIs
  <2>2. UNCHANGED <<mon, dsk, status, slow, topo, calm>>
    BY <1>10 DEF Call
  <2>3. r.pc # "store" /\ (r.pc \in Busy => r.status = status)
    BY <2>1 DEF Busy
  <2> QED BY <1>0, <2>1, <2>2, <2>3, CallKeepsStale
<1>11. ASSUME NEW p \in Callers, ReadCaps(p) \/ ReadSlow(p) PROVE StaleInv'
  <2>1. PICK r \in ProcRec : /\ ProcType(r) /\ proc' = [proc EXCEPT ![p] = r] /\ r.late = proc[p].late /\ r.status = proc[p].status
                             /\ proc[p].pc \in Busy /\ (r.pc = "store" => r.slow = slow)
    BY <1>0, <1>11, ReadIs
  <2>2. UNCHANGED <<mon, dsk, status, slow, topo, calm>>
    BY <1>11 DEF ReadCaps, ReadSlow
  <2> QED BY <1>0, <2>1, <2>2, CallKeepsStale
<1>12. ASSUME NEW p \in Callers, StoreTopo(p) PROVE StaleInv'
  BY <1>0, <1>12, StoreKeepsStale
<1>13. ASSUME NEW p \in Callers, Placed(p) PROVE StaleInv'
  <2>1. Idle \in ProcRec /\ ProcType(Idle) /\ Idle.late = {} /\ Idle.pc \notin Busy /\ Idle.pc # "store"
    BY IdleType DEF ProcType, Busy
  <2>2. UNCHANGED <<mon, dsk, status, slow, topo, calm>> /\ proc' = [proc EXCEPT ![p] = Idle]
    BY <1>13 DEF Placed
  <2> QED BY <1>0, <2>1, <2>2, CallKeepsStale
<1>14. ASSUME NEW s \in Shards, Fault(s) \/ Fill(s) PROVE StaleInv'
  BY <1>14, QuietKeepsStale DEF Fault, Fill
<1>15. CASE Tick
  <2>1. UNCHANGED <<mon, dsk, status, slow, proc>>
    BY <1>15 DEF Tick
  <2>2. ASSUME NEW s \in Shards PROVE /\ calm[s] \in 0 .. TTL /\ calm'[s] \in {calm[s], calm[s] + 1} /\ calm'[s] <= TTL
                                      /\ (\E p \in Callers : s \in proc[p].late) => calm'[s] = calm[s]
    BY <1>0, <1>15, Consts DEF Tick, TopoType
  <2>3. ASSUME NEW s \in Shards PROVE Cached(s)'
    <3>0. Cached(s) /\ Current(s)' = Current(s) /\ (Changing(s)' <=> Changing(s))
      BY <2>1 DEF StaleInv, Current, Changing
    <3>1. CASE topo = NoTopo
      BY <1>15, <3>1 DEF Tick, Cached
    <3>2. CASE topo # NoTopo
      <4>1. PICK t : t = topo /\ t \in [view : Views, age : 0 .. TTL]
        BY <1>0, <3>2 DEF TopoType
      <4>2. topo' = IF t.age = TTL THEN t ELSE [t EXCEPT !.age = t.age + 1]
        BY <1>15, <3>2, <4>1 DEF Tick
      <4>3. topo'.view = t.view /\ (IF t.age = TTL THEN topo'.age = TTL ELSE topo'.age = t.age + 1)
        BY <4>1, <4>2
      <4>4. t.view[s].status = Current(s) \/ Changing(s) \/ calm[s] <= t.age
        BY <3>0, <3>2, <4>1 DEF Cached
      <4>5. calm[s] <= t.age => calm'[s] <= topo'.age
        BY <2>2, <4>1, <4>3, Consts
      <4> QED BY <3>0, <4>3, <4>4, <4>5 DEF Cached
    <3> QED BY <3>1, <3>2
  <2>4. ASSUME NEW p \in Callers, NEW s \in Shards PROVE Statused(proc[p], s)' /\ Slowed(proc[p], s)' /\ LateNow(proc[p], s)'
    <3>1. Statused(proc[p], s) /\ Slowed(proc[p], s) /\ LateNow(proc[p], s)
      BY DEF StaleInv
    <3> QED BY <2>1, <2>2, <3>1 DEF Statused, Slowed, LateNow
  <2> QED BY <2>3, <2>4 DEF StaleInv
<1>16. CASE UNCHANGED vars
  BY <1>16, QuietKeepsStale DEF vars
<1> QED BY <1>2, <1>3, <1>4, <1>5, <1>6, <1>7, <1>8, <1>9, <1>10, <1>11, <1>12, <1>13, <1>14, <1>15, <1>16, Consts
        DEF Next, Monitor, DiskSlow

-----------------------------------------------------------------------------
(* Dead disks. *)

\* A step of one call, whose record takes only what is noted already.
LEMMA CallKeepsDead ==
  ASSUME TopoType, DeadOut, NEW p \in Callers, NEW r \in ProcRec, ProcType(r), proc' = [proc EXCEPT ![p] = r],
         UNCHANGED <<null, status>>,
         \A s \in Dead : /\ topo' # NoTopo => topo'.view[s].status = "Faulted"
                         /\ r.pc \in Busy => r.status[s] = "Faulted"
                         /\ r.pc = "have" => r.view[s].status = "Faulted"
  PROVE  DeadOut'
<1>1. proc'[p] = r /\ \A t \in Callers \ {p} : proc'[t] = proc[t]
  BY ProcMoves
<1> QED BY <1>1 DEF DeadOut, Dead

LEMMA QuietKeepsDead ==
  ASSUME DeadOut, UNCHANGED null, \A s \in Dead : status'[s] = status[s],
         topo' # NoTopo => topo # NoTopo /\ topo'.view = topo.view,
         \A p \in Callers : proc'[p].pc = proc[p].pc /\ proc'[p].status = proc[p].status /\ proc'[p].view = proc[p].view
  PROVE  DeadOut'
BY DEF DeadOut, Dead

LEMMA DeadStep ==
  ASSUME Types, RunsInv, DeadOut, [Next]_vars
  PROVE  DeadOut'
<1>0. TopoType /\ MonType /\ mon.at \in Shards /\ \A s \in Dead : s \in Shards \ ZfsShards
  BY DEF Types, MonType, TopoType, Dead
<1>1. ASSUME UNCHANGED <<null, status, topo, proc>> PROVE DeadOut'
  BY <1>1, QuietKeepsDead
<1>2. ASSUME Look \/ Hang PROVE DeadOut'
  <2>1. mon.at \in ZfsShards /\ UNCHANGED <<null, topo, proc>>
    BY <1>2 DEF Look, Hang, Judge, disks
  <2>2. \E f : status' = [status EXCEPT ![mon.at] = f]
    BY <1>2 DEF Look, Hang, Judge
  <2>3. \A s \in Dead : status'[s] = status[s]
    BY <1>0, <2>1, <2>2 DEF MonType
  <2> QED BY <2>1, <2>3, QuietKeepsDead
<1>3. ASSUME Clear \/ ClearSlow PROVE DeadOut'
  <2>1. PICK s \in Shards : Forget(s) /\ UNCHANGED <<null, status>>
    BY <1>0, <1>3 DEF Clear, ClearSlow, MonType, disks
  <2>2. /\ topo' = NoTopo
        /\ \A p \in Callers : proc'[p].pc = proc[p].pc /\ proc'[p].status = proc[p].status /\ proc'[p].view = proc[p].view
    BY <1>0, <2>1, ForgetIs
  <2> QED BY <2>1, <2>2, QuietKeepsDead
<1>4. ASSUME Skip \/ SetCap \/ Measure \/ Flag \/ UNCHANGED vars PROVE DeadOut'
  BY <1>1, <1>4 DEF Skip, SetCap, Measure, Flag, vars, disks
<1>5. ASSUME NEW r \in Recorders, Record(r) \/ Recorded(r) PROVE DeadOut'
  BY <1>1, <1>5 DEF Record, Recorded, disks
<1>6. ASSUME NEW s \in Shards, Fault(s) \/ Fill(s) PROVE DeadOut'
  BY <1>1, <1>6 DEF Fault, Fill
<1>7. ASSUME NEW p \in Callers, Call(p) PROVE DeadOut'
  <2>1. PICK r \in ProcRec :
           /\ ProcType(r) /\ proc' = [proc EXCEPT ![p] = r]
           /\ \/ topo # NoTopo /\ r.pc = "have" /\ r.view = topo.view
              \/ r.pc = "caps" /\ r.status = status
    BY <1>0, <1>7, CallIs
  <2>2. UNCHANGED <<null, status, topo>>
    BY <1>7 DEF Call, disks
  <2>3. \A s \in Dead : /\ topo' # NoTopo => topo'.view[s].status = "Faulted"
                        /\ r.pc \in Busy => r.status[s] = "Faulted"
                        /\ r.pc = "have" => r.view[s].status = "Faulted"
    BY <2>1, <2>2 DEF DeadOut, Busy
  <2> QED BY <1>0, <2>1, <2>2, <2>3, CallKeepsDead
<1>8. ASSUME NEW p \in Callers, ReadCaps(p) \/ ReadSlow(p) PROVE DeadOut'
  <2>1. PICK r \in ProcRec : /\ ProcType(r) /\ proc' = [proc EXCEPT ![p] = r] /\ r.status = proc[p].status
                             /\ proc[p].pc \in Busy /\ r.pc \in Busy
    BY <1>0, <1>8, ReadIs
  <2>2. UNCHANGED <<null, status, topo>>
    BY <1>8 DEF ReadCaps, ReadSlow, disks
  <2>3. \A s \in Dead : /\ topo' # NoTopo => topo'.view[s].status = "Faulted"
                        /\ r.pc \in Busy => r.status[s] = "Faulted"
                        /\ r.pc = "have" => r.view[s].status = "Faulted"
    BY <2>1, <2>2 DEF DeadOut, Busy
  <2> QED BY <1>0, <2>1, <2>2, <2>3, CallKeepsDead
<1>9. ASSUME NEW p \in Callers, StoreTopo(p) PROVE DeadOut'
  <2>1. PICK r \in ProcRec, v \in Views :
           /\ ProcType(r) /\ proc' = [proc EXCEPT ![p] = r] /\ r.pc = "have" /\ r.view = v
           /\ topo' = [view |-> v, age |-> 0] /\ proc[p].pc = "store"
           /\ \A s \in Shards : v[s].status = StatusView(proc[p].status[s], proc[p].slow[s])
    BY <1>0, <1>9, StoreIs
  <2>2. UNCHANGED <<null, status>>
    BY <1>9 DEF StoreTopo, disks
  <2>3. \A s \in Dead : v[s].status = "Faulted"
    BY <1>0, <2>1 DEF DeadOut, Busy, StatusView
  <2>4. topo'.view = v
    BY <2>1
  <2>5. \A s \in Dead : /\ topo' # NoTopo => topo'.view[s].status = "Faulted"
                        /\ r.pc \in Busy => r.status[s] = "Faulted"
                        /\ r.pc = "have" => r.view[s].status = "Faulted"
    BY <2>1, <2>3, <2>4 DEF Busy
  <2> QED BY <1>0, <2>1, <2>2, <2>5, CallKeepsDead
<1>10. ASSUME NEW p \in Callers, Placed(p) PROVE DeadOut'
  <2>1. Idle \in ProcRec /\ ProcType(Idle) /\ Idle.pc \notin Busy /\ Idle.pc # "have"
    BY IdleType DEF ProcType, Busy
  <2>2. UNCHANGED <<null, status, topo>> /\ proc' = [proc EXCEPT ![p] = Idle]
    BY <1>10 DEF Placed, disks
  <2>3. \A s \in Dead : topo' # NoTopo => topo'.view[s].status = "Faulted"
    BY <2>2 DEF DeadOut
  <2> QED BY <1>0, <2>1, <2>2, <2>3, CallKeepsDead
<1>11. ASSUME Tick PROVE DeadOut'
  <2>1. UNCHANGED <<null, status, proc>>
    BY <1>11 DEF Tick, disks
  <2>2. topo' # NoTopo => topo # NoTopo /\ topo'.view = topo.view
    <3>1. CASE topo = NoTopo
      BY <1>11, <3>1 DEF Tick
    <3>2. CASE topo # NoTopo
      <4>1. PICK t : t = topo /\ t \in [view : Views, age : 0 .. TTL]
        BY <1>0, <3>2 DEF TopoType
      <4>2. topo' = IF t.age = TTL THEN t ELSE [t EXCEPT !.age = t.age + 1]
        BY <1>11, <3>2, <4>1 DEF Tick
      <4> QED BY <3>2, <4>1, <4>2
    <3> QED BY <3>1, <3>2
  <2> QED BY <2>1, <2>2, QuietKeepsDead
<1> QED BY <1>2, <1>3, <1>4, <1>5, <1>6, <1>7, <1>8, <1>9, <1>10, <1>11, Consts DEF Next, Monitor, DiskSlow

-----------------------------------------------------------------------------
(* Results. *)

LEMMA InvStep == ASSUME Inv, [Next]_vars PROVE Inv'
<1>1. Types'
  BY MonStep, IoStep, TopoStep DEF Inv, Types
<1> QED BY <1>1, MonStep, StaleStep, DeadStep DEF Inv

\* The monitors, the recorders and the callers of topology() keep the
\* invariant, for any number of disks and calls and any thresholds.
THEOREM InvHolds == Spec => []Inv
BY InvInit, InvStep, PTL DEF Spec

\* HealthFsm: a disk changes its state only after the run of observations the
\* thresholds ask for, whatever hangs and comes back in between.
THEOREM RunsDecide == Spec => Hysteresis
<1>1. Inv /\ [Next]_vars =>
        [\A s \in Shards : zfsm'[s].st # zfsm[s].st =>
           /\ zfsm'[s].st = "Online" => good'[s] >= RecoverAfter
           /\ zfsm[s].st = "Online" => bad'[s] >= SuspectAfter \/ downs'[s] > 0
           /\ zfsm[s].st = "Suspect" /\ zfsm'[s].st = "Faulted" => downs'[s] >= SuspectAfter]_vars
  BY MonStep DEF Inv
<1> QED BY <1>1, InvHolds, PTL DEF Spec, Hysteresis

\* set_shard_status writes the status, then drops the cache: once the calls
\* that overlapped a change are through, no placement uses the old status for
\* longer than one TTL.
THEOREM StaleForOneTtl == Spec => StaleAtMostTtl
<1>1. ASSUME Inv, [Next]_vars, NEW p \in Callers, NEW s \in Shards, proc[p].pc # "have", proc'[p].pc = "have",
             calm[s] >= TTL, ~ Changing(s)
      PROVE  proc'[p].view[s].status = Current(s)
  <2>0. TopoType /\ MonType /\ calm[s] \in 0 .. TTL
    BY <1>1 DEF Inv, Types, TopoType
  <2>1. Cached(s) /\ Statused(proc[p], s) /\ Slowed(proc[p], s) /\ LateNow(proc[p], s)
    BY <1>1 DEF Inv, StaleInv
  <2>2. s \notin proc[p].late
    BY <1>1, <2>0, <2>1, Consts DEF LateNow
  <2>3. ASSUME NEW q \in Callers, NEW r \in ProcRec, ProcType(r), proc' = [proc EXCEPT ![q] = r]
        PROVE  q = p /\ proc'[p] = r
    <3>1. proc'[q] = r /\ \A t \in Callers \ {q} : proc'[t] = proc[t]
      BY <2>0, <2>3, ProcMoves
    <3> QED BY <1>1, <3>1
  <2>4. CASE \E q \in Callers : Call(q)
    <3>1. PICK q \in Callers : Call(q)
      BY <2>4
    <3>2. PICK r \in ProcRec : /\ ProcType(r) /\ proc' = [proc EXCEPT ![q] = r]
                               /\ \/ topo # NoTopo /\ topo.age < TTL /\ r.pc = "have" /\ r.view = topo.view
                                  \/ r.pc = "caps"
      BY <2>0, <3>1, CallIs
    <3>3. proc'[p] = r
      BY <2>3, <3>2
    <3>4. topo # NoTopo /\ topo.age < TTL /\ r.view = topo.view
      BY <1>1, <3>2, <3>3
    <3>5. topo.age \in 0 .. TTL
      BY <2>0, <3>4 DEF TopoType
    <3>6. topo.view[s].status = Current(s)
      BY <1>1, <2>0, <2>1, <3>4, <3>5, Consts DEF Cached
    <3> QED BY <3>3, <3>4, <3>6
  <2>5. CASE \E q \in Callers : StoreTopo(q)
    <3>1. PICK q \in Callers : StoreTopo(q)
      BY <2>5
    <3>2. PICK r \in ProcRec, v \in Views :
           /\ ProcType(r) /\ proc' = [proc EXCEPT ![q] = r] /\ r.view = v /\ proc[q].pc = "store"
           /\ \A t \in Shards : v[t].status = StatusView(proc[q].status[t], proc[q].slow[t])
      BY <2>0, <3>1, StoreIs
    <3>3. q = p /\ proc'[p] = r
      BY <2>3, <3>2
    <3>4. proc[p].status[s] = status[s] /\ proc[p].slow[s] = slow[s]
      BY <1>1, <2>1, <2>2, <3>2, <3>3 DEF Statused, Slowed, Changing, Busy
    <3> QED BY <3>2, <3>3, <3>4 DEF Current
  <2>6. CASE \E q \in Callers : ReadCaps(q) \/ ReadSlow(q)
    <3>1. PICK q \in Callers : ReadCaps(q) \/ ReadSlow(q)
      BY <2>6
    <3>2. PICK r \in ProcRec : ProcType(r) /\ proc' = [proc EXCEPT ![q] = r] /\ r.pc \in Busy
      BY <2>0, <3>1, ReadIs
    <3> QED BY <1>1, <2>3, <3>2 DEF Busy
  <2>7. CASE \E q \in Callers : Placed(q)
    <3>1. PICK q \in Callers : Placed(q)
      BY <2>7
    <3>2. Idle \in ProcRec /\ ProcType(Idle) /\ Idle.pc # "have"
      BY IdleType DEF ProcType
    <3> QED BY <1>1, <2>3, <3>1, <3>2 DEF Placed
  <2>8. CASE Clear \/ ClearSlow
    <3>1. PICK t \in Shards : Forget(t)
      BY <2>0, <2>8 DEF Clear, ClearSlow, MonType
    <3> QED BY <1>1, <2>0, <3>1, ForgetIs
  <2>9. CASE UNCHANGED proc
    BY <1>1, <2>9
  <2>10. \/ Clear \/ ClearSlow \/ UNCHANGED proc
         \/ \E q \in Callers : Call(q) \/ ReadCaps(q) \/ ReadSlow(q) \/ StoreTopo(q) \/ Placed(q)
    <3>1. ASSUME Skip \/ Look \/ SetCap \/ Hang \/ Measure \/ Flag \/ Tick \/ UNCHANGED vars PROVE UNCHANGED proc
      BY <3>1 DEF Skip, Look, SetCap, Hang, Judge, Measure, Flag, Tick, vars
    <3>2. ASSUME NEW r \in Recorders, Record(r) \/ Recorded(r) PROVE UNCHANGED proc
      BY <3>2 DEF Record, Recorded
    <3>3. ASSUME NEW t \in Shards, Fault(t) \/ Fill(t) PROVE UNCHANGED proc
      BY <3>3 DEF Fault, Fill
    <3> QED BY <1>1, <3>1, <3>2, <3>3, Consts DEF Next, Monitor, DiskSlow
  <2> QED BY <2>4, <2>5, <2>6, <2>7, <2>8, <2>9, <2>10
<1>2. Inv /\ [Next]_vars =>
        [\A p \in Callers, s \in Shards :
           proc[p].pc # "have" /\ proc'[p].pc = "have" /\ calm[s] >= TTL /\ ~ Changing(s)
             => proc'[p].view[s].status = Current(s)]_vars
  BY <1>1
<1> QED BY <1>2, InvHolds, PTL DEF Spec, StaleAtMostTtl

-----------------------------------------------------------------------------
(* Rankings and the median. *)

ByScore(v) == {b \in Shards \X Shards : Before(v, b[1], b[2])}

LEMMA ScoresCompare ==
  ASSUME NEW v \in Views
  PROVE  \A s \in Shards : Score(v, s) \in Int
<1>1. ASSUME NEW a \in Int, NEW b \in Int PROVE a * b \in Int
  OBVIOUS
<1>2. ASSUME NEW s \in Shards PROVE Score(v, s) \in Int
  <2>1. v[s].free \in Int /\ Lot[s] \in Int
    BY PlacementAssumption DEF Views
  <2>2. PICK a \in Int : a = IF v[s].free > 0 THEN v[s].free ELSE 1
    BY <2>1
  <2>3. PICK b \in Int : b = IF v[s].status = "Suspect" THEN 1 ELSE 100
    OBVIOUS
  <2>4. Score(v, s) = (a * b) * Lot[s]
    BY <2>2, <2>3 DEF Score, Weight
  <2>5. a * b \in Int
    BY <2>2, <2>3, <1>1
  <2> QED BY <2>1, <2>4, <2>5, <1>1
<1> QED BY <1>2

\* The scores, with the lower shard first among equal ones, are a total order.
LEMMA ScoresOrder ==
  ASSUME NEW v \in Views, NEW S \in SUBSET Shards
  PROVE  /\ IsFiniteSet(S) /\ Orders(S, ByScore(v))
         /\ \A x, y \in S : <<x, y>> \in ByScore(v) <=> Before(v, x, y)
<1>1. IsFiniteSet(S)
  <2>1. IsFiniteSet(1 .. N)
    BY Consts, FS_Interval
  <2> QED BY <2>1, FS_Subset DEF Shards
<1>2. \A x, y \in S : <<x, y>> \in ByScore(v) <=> Before(v, x, y)
  BY DEF ByScore
<1>3. PICK c \in [Shards -> Int] : \A s \in Shards : c[s] = Score(v, s)
  <2>1. [s \in Shards |-> Score(v, s)] \in [Shards -> Int]
    BY ScoresCompare
  <2> QED BY <2>1
<1>4. \A x, y \in S : <<x, y>> \in ByScore(v) <=> c[x] > c[y] \/ (c[x] = c[y] /\ x < y)
  BY <1>2, <1>3 DEF Before
<1>5. \A x \in S : x \in Int /\ c[x] \in Int
  BY <1>3, Consts DEF Shards
<1>6. Orders(S, ByScore(v))
  BY ONLY <1>4, <1>5 DEF Orders
<1> QED BY <1>1, <1>2, <1>6

\* A list made by Sorted has the i-th element at place i.
LEMMA RankingIs ==
  ASSUME NEW v \in Views
  PROVE  AtPlaces(Ranking(v), Eligible(v), ByScore(v))
<1> DEFINE E == Eligible(v)
           B == ByScore(v)
<1>1. E \in SUBSET Shards
  BY DEF Eligible
<1>2. IsFiniteSet(E) /\ Orders(E, B) /\ \A x, y \in E : <<x, y>> \in B <=> Before(v, x, y)
  BY <1>1, ScoresOrder
<1>3. \A x \in E : Earlier(E, B, x) = {y \in E : Before(v, y, x)}
  BY <1>2 DEF Earlier
<1>4. Ranking(v) = [i \in 1 .. Cardinality(E) |-> CHOOSE x \in E : Cardinality({y \in E : Before(v, y, x)}) = i - 1]
  BY Zenon DEF Ranking, Sorted
<1>5. \A i \in 1 .. Cardinality(E) : \E x \in E : Cardinality({y \in E : Before(v, y, x)}) = i - 1
  BY <1>2, <1>3, PlacesTaken
<1>6. ASSUME NEW i \in 1 .. Cardinality(E)
      PROVE  Ranking(v)[i] \in E /\ Cardinality(Earlier(E, B, Ranking(v)[i])) = i - 1
  <2>1. PICK x : x = Ranking(v)[i]
    OBVIOUS
  <2>2. x = CHOOSE z \in E : Cardinality({y \in E : Before(v, y, z)}) = i - 1
    BY <1>4, <2>1, Zenon
  <2>3. x \in E /\ Cardinality({y \in E : Before(v, y, x)}) = i - 1
    BY <1>5, <2>2, Zenon
  <2> QED BY <2>1, <2>3, <1>3
<1>7. DOMAIN Ranking(v) = 1 .. Cardinality(E) /\ Ranking(v) = [i \in 1 .. Cardinality(E) |-> Ranking(v)[i]]
  BY <1>4
<1> HIDE DEF E, B
<1>8. Ranking(v) \in [1 .. Cardinality(E) -> E]
  BY <1>6, <1>7
<1>9. AtPlaces(Ranking(v), E, B)
  BY <1>6, <1>8 DEF AtPlaces
<1> QED BY <1>9 DEF E, B

LEMMA RankingOrder ==
  ASSUME NEW v \in Views
  PROVE  /\ IsFiniteSet(Eligible(v)) /\ Orders(Eligible(v), ByScore(v))
         /\ OrderedList(Ranking(v), Eligible(v), ByScore(v))
         /\ \A w : AtPlaces(w, Eligible(v), ByScore(v)) => Ranking(v) = w
<1>1. Eligible(v) \in SUBSET Shards
  BY DEF Eligible
<1>2. IsFiniteSet(Eligible(v)) /\ Orders(Eligible(v), ByScore(v))
  BY <1>1, ScoresOrder
<1> QED BY <1>2, RankingIs, PlacesGiveOrder, PlacesGiveOne

-----------------------------------------------------------------------------
(* A fault moves no other disk. *)

\* w is q without its k-th element.
LEMMA FirstRemoved ==
  ASSUME NEW S, NEW q \in Seq(S), NEW k \in 1 .. Len(q), \A i \in 1 .. Len(q) : q[i] = q[k] => i = k
  PROVE  /\ RemoveFirst(q, q[k]) \in Seq(S) /\ Len(RemoveFirst(q, q[k])) = Len(q) - 1
         /\ \A i \in 1 .. Len(q) - 1 : RemoveFirst(q, q[k])[i] = q[IF i < k THEN i ELSE i + 1]
<1> DEFINE d == SelectInSeq(q, LAMBDA t : t = q[k])
           I == {i \in 1 .. Len(q) : q[i] = q[k]}
<1>1. d = IF I # {} THEN Min(I) ELSE 0
  BY Zenon DEF SelectInSeq
<1>2. I = {k} /\ I \in SUBSET Nat /\ I # {}
  OBVIOUS
<1>3. d = k
  BY <1>1, <1>2, MinIsLeast
<1>4. RemoveFirst(q, q[k]) = RemoveAt(q, d)
  <2>1. \E i \in 1 .. Len(q) : q[i] = q[k]
    OBVIOUS
  <2> QED BY <2>1, Zenon DEF RemoveFirst
<1>5. RemoveFirst(q, q[k]) = SubSeq(q, 1, k - 1) \o SubSeq(q, k + 1, Len(q))
  BY <1>3, <1>4 DEF RemoveAt
<1> HIDE DEF d, I
<1>6. PICK a : a = SubSeq(q, 1, k - 1)
  OBVIOUS
<1>7. PICK c : c = SubSeq(q, k + 1, Len(q))
  OBVIOUS
<1>8. a \in Seq(S) /\ Len(a) = k - 1 /\ \A i \in 1 .. k - 1 : a[i] = q[i]
  BY <1>6
<1>9. c \in Seq(S) /\ Len(c) = Len(q) - k /\ \A i \in 1 .. Len(q) - k : c[i] = q[k + i]
  BY <1>7
<1>10. a \o c \in Seq(S) /\ Len(a \o c) = Len(q) - 1
  BY <1>8, <1>9
<1>11. ASSUME NEW i \in 1 .. Len(q) - 1 PROVE (a \o c)[i] = q[IF i < k THEN i ELSE i + 1]
  <2>1. CASE i < k
    BY <2>1, <1>8, <1>9
  <2>2. CASE i >= k
    <3>1. (a \o c)[i] = c[i - (k - 1)] /\ i - (k - 1) \in 1 .. Len(q) - k
      BY <2>2, <1>8, <1>9
    <3>2. c[i - (k - 1)] = q[k + (i - (k - 1))] /\ k + (i - (k - 1)) = i + 1
      BY <3>1, <1>9
    <3>3. (IF i < k THEN i ELSE i + 1) = i + 1
      BY <2>2
    <3> QED BY ONLY <3>1, <3>2, <3>3
  <2>3. i < k \/ i >= k
    OBVIOUS
  <2> QED BY <2>1, <2>2, <2>3
<1> QED BY <1>5, <1>6, <1>7, <1>10, <1>11

\* A Faulted disk is not eligible; the scores of the others are what they were.
LEMMA FaultKeepsScores ==
  ASSUME NEW v \in Views, NEW s \in Shards, NEW u, u = [v EXCEPT ![s].status = "Faulted"]
  PROVE  /\ u \in Views /\ Eligible(u) = Eligible(v) \ {s}
         /\ \A x, y \in Eligible(u) : <<x, y>> \in ByScore(u) <=> <<x, y>> \in ByScore(v)
<1>1. u \in Views
  BY DEF Views, Statuses
<1>2. \A x \in Shards \ {s} : u[x] = v[x]
  BY DEF Views
<1>3. u[s].status = "Faulted"
  BY DEF Views
<1>4. Eligible(u) = Eligible(v) \ {s}
  BY <1>2, <1>3 DEF Eligible
<1>5. ASSUME NEW x \in Eligible(u) PROVE Score(u, x) = Score(v, x)
  BY <1>2, <1>3 DEF Score, Eligible
<1>6. \A x, y \in Eligible(u) : <<x, y>> \in ByScore(u) <=> <<x, y>> \in ByScore(v)
  <2>1. Eligible(u) \in SUBSET Shards
    BY DEF Eligible
  <2>2. \A x, y \in Eligible(u) : Before(u, x, y) <=> Before(v, x, y)
    BY <1>5 DEF Before
  <2> QED BY <2>1, <2>2, <1>1, ScoresOrder
<1> QED BY <1>1, <1>4, <1>6

\* q lists S; w, which leaves its k-th element out, lists the rest.
LEMMA RestAtPlaces ==
  ASSUME NEW S, IsFiniteSet(S), NEW B, Orders(S, B), NEW q, AtPlaces(q, S, B), OrderedList(q, S, B), NEW k \in 1 .. Len(q),
         NEW C, \A x, y \in S \ {q[k]} : <<x, y>> \in C <=> <<x, y>> \in B,
         NEW w, w \in Seq(S), Len(w) = Len(q) - 1, \A i \in 1 .. Len(q) - 1 : w[i] = q[IF i < k THEN i ELSE i + 1]
  PROVE  AtPlaces(w, S \ {q[k]}, C)
<1> DEFINE T == S \ {q[k]}
<1>1. PICK n \in Nat : n = Len(q) /\ n = Cardinality(S) /\ q \in Seq(S)
  BY DEF OrderedList
<1>2. k \in 1 .. n /\ q[k] \in S
  BY <1>1, ElementOfSeq
<1>3. IsFiniteSet(T) /\ Cardinality(T) = n - 1
  BY <1>1, <1>2, CountDown
<1>4. ASSUME NEW i \in 1 .. n - 1
      PROVE  w[i] \in T /\ Cardinality(Earlier(T, C, w[i])) = i - 1
  <2>1. PICK j \in 1 .. n : j = (IF i < k THEN i ELSE i + 1) /\ w[i] = q[j]
    BY <1>1
  <2>2. j # k /\ q[j] \in S
    BY <1>1, <2>1
  <2>3. q[j] # q[k]
    BY <1>1, <2>2 DEF OrderedList
  <2>4. <<q[k], q[j]>> \in B <=> k < j
    BY <1>1, <1>2 DEF OrderedList
  <2>5. Earlier(T, C, q[j]) = Earlier(S, B, q[j]) \ {q[k]}
    BY <2>2, <2>3 DEF Earlier
  <2>6. Cardinality(Earlier(S, B, q[j])) = j - 1
    BY <1>1 DEF AtPlaces
  <2>7. IsFiniteSet(Earlier(S, B, q[j]))
    <3>1. Earlier(S, B, q[j]) \in SUBSET S
      BY DEF Earlier
    <3> QED BY <3>1, FS_Subset
  <2>8. CASE i < k
    <3>0. <<q[k], q[j]>> \notin B
      BY <2>1, <2>4, <2>8, <1>2
    <3>1. Earlier(T, C, q[j]) = Earlier(S, B, q[j])
      BY <2>5, <3>0 DEF Earlier
    <3> QED BY <2>1, <2>2, <2>3, <2>6, <2>8, <3>1
  <2>9. CASE i >= k
    <3>0. <<q[k], q[j]>> \in B
      BY <2>1, <2>4, <2>9, <1>2
    <3>1. q[k] \in Earlier(S, B, q[j])
      BY <1>2, <3>0 DEF Earlier
    <3>2. Cardinality(Earlier(T, C, q[j])) = (j - 1) - 1
      BY <2>5, <2>6, <2>7, <3>1, CountDown
    <3> QED BY <2>1, <2>2, <2>3, <2>9, <3>2
  <2> QED BY <2>8, <2>9, <1>1
<1>5. w \in [1 .. n - 1 -> T]
  <2>1. DOMAIN w = 1 .. n - 1 /\ w = [i \in 1 .. n - 1 |-> w[i]]
    BY <1>1
  <2> HIDE DEF T
  <2> QED BY <2>1, <1>4
<1> HIDE DEF T
<1>6. AtPlaces(w, T, C)
  BY <1>3, <1>4, <1>5 DEF AtPlaces
<1> QED BY <1>6 DEF T

LEMMA FaultRemoves ==
  ASSUME NEW v \in Views, NEW s \in Shards
  PROVE  Ranking([v EXCEPT ![s].status = "Faulted"]) = RemoveFirst(Ranking(v), s)
<1>1. PICK u : u = [v EXCEPT ![s].status = "Faulted"]
  OBVIOUS
<1>2. /\ u \in Views /\ Eligible(u) = Eligible(v) \ {s}
      /\ \A x, y \in Eligible(u) : <<x, y>> \in ByScore(u) <=> <<x, y>> \in ByScore(v)
  <2> HIDE <1>1
  <2>1. \A t : t = [v EXCEPT ![s].status = "Faulted"] =>
           /\ t \in Views /\ Eligible(t) = Eligible(v) \ {s}
           /\ \A x, y \in Eligible(t) : <<x, y>> \in ByScore(t) <=> <<x, y>> \in ByScore(v)
    BY FaultKeepsScores
  <2> QED BY <1>1, <2>1, Zenon
<1>3. PICK q : q = Ranking(v)
  OBVIOUS
<1>4. PICK E : E = Eligible(v)
  OBVIOUS
<1>5. PICK B : B = ByScore(v)
  OBVIOUS
<1>6. PICK C : C = ByScore(u)
  OBVIOUS
<1>7. IsFiniteSet(E) /\ Orders(E, B) /\ OrderedList(q, E, B) /\ AtPlaces(q, E, B)
  BY <1>3, <1>4, <1>5, RankingOrder, RankingIs
<1>8. \A w : AtPlaces(w, E \ {s}, C) => Ranking(u) = w
  BY <1>2, <1>4, <1>6, RankingOrder
<1>9. \A x, y \in E \ {s} : <<x, y>> \in C <=> <<x, y>> \in B
  BY <1>2, <1>4, <1>5, <1>6
<1>10. q \in Seq(E) /\ Len(q) = Cardinality(E)
  BY <1>7 DEF OrderedList
<1>11. CASE s \in E
  <2>1. PICK k \in 1 .. Len(q) : q[k] = s
    BY <1>7, <1>10, <1>11 DEF OrderedList
  <2>2. \A i \in 1 .. Len(q) : q[i] = q[k] => i = k
    BY <1>7, <1>10 DEF OrderedList
  <2>3. PICK w : w = RemoveFirst(q, q[k])
    OBVIOUS
  <2>4. w \in Seq(E) /\ Len(w) = Len(q) - 1 /\ \A i \in 1 .. Len(q) - 1 : w[i] = q[IF i < k THEN i ELSE i + 1]
    BY <1>10, <2>2, <2>3, FirstRemoved
  <2>5. AtPlaces(w, E \ {q[k]}, C)
    <3>1. \A x, y \in E \ {q[k]} : <<x, y>> \in C <=> <<x, y>> \in B
      BY <1>9, <2>1
    <3> QED BY ONLY <1>7, <2>4, <3>1, k \in 1 .. Len(q), RestAtPlaces
  <2>6. Ranking(u) = w
    BY <1>8, <2>1, <2>5
  <2> QED BY <1>1, <1>3, <2>1, <2>3, <2>6
<1>12. CASE s \notin E
  <2>1. \A i \in 1 .. Len(q) : q[i] # s
    BY <1>10, <1>12
  <2>2. RemoveFirst(q, s) = q
    BY <2>1, Zenon DEF RemoveFirst
  <2>3. E \ {s} = E
    BY <1>12
  <2>4. AtPlaces(q, E, C)
    <3>1. \A x \in E : Earlier(E, C, x) = Earlier(E, B, x)
      BY <1>9, <2>3 DEF Earlier
    <3> QED BY <1>7, <3>1 DEF AtPlaces
  <2> QED BY <1>1, <1>3, <1>8, <2>2, <2>3, <2>4
<1> QED BY <1>11, <1>12

-----------------------------------------------------------------------------
(* The median latency singles out a minority. *)

ByLatency == {b \in Shards \X Shards : ewma[b[1]] < ewma[b[2]] \/ (ewma[b[1]] = ewma[b[2]] /\ b[1] < b[2])}
Lined == Sorted(Taking, LAMBDA a, b : ewma[a] < ewma[b] \/ (ewma[a] = ewma[b] /\ a < b))

LEMMA LatencyOrder ==
  ASSUME IoType
  PROVE  /\ IsFiniteSet(Taking) /\ Orders(Taking, ByLatency) /\ Taking \in SUBSET Shards
         /\ \A x, y \in Taking : <<x, y>> \in ByLatency <=> ewma[x] < ewma[y] \/ (ewma[x] = ewma[y] /\ x < y)
<1>1. IsFiniteSet(Taking) /\ Taking \in SUBSET Shards
  <2>1. IsFiniteSet(1 .. N)
    BY Consts, FS_Interval
  <2>2. Taking \in SUBSET (1 .. N)
    BY DEF Taking, Shards
  <2> QED BY <2>1, <2>2, FS_Subset DEF Shards
<1>2. \A x, y \in Taking : <<x, y>> \in ByLatency <=> ewma[x] < ewma[y] \/ (ewma[x] = ewma[y] /\ x < y)
  BY <1>1 DEF ByLatency
<1>3. \A x \in Taking : x \in Int /\ ewma[x] \in Int
  BY <1>1, Consts DEF Shards, IoType
<1>4. Orders(Taking, ByLatency)
  BY ONLY <1>2, <1>3 DEF Orders
<1> QED BY <1>1, <1>2, <1>4

\* What comes before x among those that take part.
Faster(x) == {y \in Taking : ewma[y] < ewma[x] \/ (ewma[y] = ewma[x] /\ y < x)}

LEMMA LinedIs == ASSUME IoType PROVE OrderedList(Lined, Taking, ByLatency)
<1>1. PICK T : T = Taking
  OBVIOUS
<1>2. PICK B : B = ByLatency
  OBVIOUS
<1>4. IsFiniteSet(T) /\ Orders(T, B) /\ \A x, y \in T : <<x, y>> \in B <=> ewma[x] < ewma[y] \/ (ewma[x] = ewma[y] /\ x < y)
  BY <1>1, <1>2, LatencyOrder
<1>5. \A x \in T : Earlier(T, B, x) = Faster(x)
  BY <1>1, <1>4 DEF Earlier, Faster
<1>6. PICK q : q = Lined
  OBVIOUS
<1>7. q = [i \in 1 .. Cardinality(Taking) |-> CHOOSE x \in Taking : Cardinality(Faster(x)) = i - 1]
  BY <1>6, Zenon DEF Lined, Sorted, Faster
<1>8. \A i \in 1 .. Cardinality(T) : \E x \in T : Cardinality(Earlier(T, B, x)) = i - 1
  BY <1>4, PlacesTaken
<1>9. ASSUME NEW i \in 1 .. Cardinality(T)
      PROVE  q[i] \in T /\ Cardinality(Earlier(T, B, q[i])) = i - 1
  <2>1. q[i] = CHOOSE z \in T : Cardinality(Faster(z)) = i - 1
    BY <1>1, <1>7, Zenon
  <2>2. \E z \in T : Cardinality(Faster(z)) = i - 1
    BY <1>5, <1>8
  <2>3. q[i] \in T /\ Cardinality(Faster(q[i])) = i - 1
    BY <2>1, <2>2, Zenon
  <2> QED BY <2>3, <1>5
<1>10. DOMAIN q = 1 .. Cardinality(T) /\ q = [i \in DOMAIN q |-> q[i]]
  BY ONLY <1>1, <1>7
<1>11. q \in [1 .. Cardinality(T) -> T]
  BY ONLY <1>9, <1>10
<1>12. AtPlaces(q, T, B)
  BY ONLY <1>9, <1>11 DEF AtPlaces
<1>13. OrderedList(q, T, B)
  BY <1>4, <1>12, PlacesGiveOrder
<1> QED BY <1>1, <1>2, <1>6, <1>13

\* Slow disks are slower than the median one, so they come behind it.
LEMMA SlowBehind ==
  ASSUME IoType
  PROVE  MinoritySlow
<1>1. PICK q : q = Lined
  OBVIOUS
<1>2. PICK n \in Nat : n = Len(q) /\ n = Cardinality(Taking) /\ q \in Seq(Taking)
  BY <1>1, LinedIs DEF OrderedList
<1>3. /\ \A x \in Taking : \E i \in 1 .. n : q[i] = x
      /\ \A i, j \in 1 .. n : <<q[i], q[j]>> \in ByLatency <=> i < j
      /\ \A i, j \in 1 .. n : q[i] = q[j] => i = j
  BY <1>1, <1>2, LinedIs DEF OrderedList
<1>4. CASE n = 0
  <2>1. Slow = {}
    BY <1>3, <1>4 DEF Slow
  <2> QED BY <2>1 DEF MinoritySlow
<1>5. CASE n > 0
  <2>1. PICK m \in 1 .. n : m = (n \div 2) + 1
    BY <1>5
  <2>2. q[m] \in Taking
    BY <1>2, <2>1, ElementOfSeq
  <2>3. PICK med \in Nat : med = ewma[q[m]]
    BY <2>2, Consts, LatencyOrder DEF IoType
  <2>4. Median = med
    <3>1. Median = IF q = << >> THEN 0 ELSE ewma[q[(Len(q) \div 2) + 1]]
      BY <1>1, Zenon DEF Median, Lined
    <3>2. q # << >>
      <4>1. SUFFICES ASSUME q = << >> PROVE FALSE
        OBVIOUS
      <4>2. Len(q) = 0
        BY ONLY <4>1
      <4>3. n = 0
        BY <1>2, <4>2
      <4> QED BY <1>5, <4>3
    <3> QED BY <3>1, <3>2, <1>2, <2>1, <2>3
  <2>5. Max({Floor, Factor * Median}) >= med
    <3>1. ASSUME NEW a \in Nat, NEW b \in Nat \ {0} PROVE b * a \in Nat /\ b * a >= a
      OBVIOUS
    <3>2. Factor * med \in Nat /\ Factor * med >= med /\ Floor \in Nat
      BY <3>1, TopologyAssumption
    <3>3. PICK c \in Nat : c = Factor * med
      BY <3>2
    <3>4. \E x \in {Floor, c} : \A y \in {Floor, c} : x >= y
      BY <3>2
    <3>5. Max({Floor, c}) >= c /\ Max({Floor, c}) \in Nat
      BY <3>2, <3>4 DEF Max
    <3> QED BY <2>4, <3>2, <3>3, <3>5
  <2>6. \A x \in Slow : x \in Taking /\ ewma[x] > med
    <3>1. ASSUME NEW x \in Slow PROVE x \in Taking /\ ewma[x] > med
      <4>1. x \in Taking /\ ewma[x] > Max({Floor, Factor * Median})
        BY DEF Slow
      <4>2. ewma[x] \in Nat
        BY <4>1, Consts, LatencyOrder DEF IoType
      <4>3. Max({Floor, Factor * Median}) \in Int
        <5>1. Factor * med \in Nat /\ Floor \in Nat
          BY TopologyAssumption
        <5>2. Factor * Median \in Nat /\ Floor \in Nat
          BY <5>1, <2>4
        <5> QED BY <5>2 DEF Max
      <4> QED BY <4>1, <4>2, <4>3, <2>5
    <3> QED BY <3>1
  <2>7. PICK f : f = [x \in Slow |-> CHOOSE i \in 1 .. n : q[i] = x]
    OBVIOUS
  <2>8. \A x \in Slow : f[x] \in 1 .. n /\ q[f[x]] = x
    BY <1>3, <2>6, <2>7
  <2>9. ASSUME NEW x \in Slow PROVE f[x] \in m + 1 .. n
    <3>1. PICK i \in 1 .. n : i = f[x] /\ q[i] = x
      BY <2>8
    <3>2. i # m
      BY <2>3, <2>6, <3>1
    <3>3. ~ i < m
      <4>1. i < m => <<x, q[m]>> \in ByLatency
        BY <1>3, <3>1
      <4>2. <<x, q[m]>> \in ByLatency => ewma[x] < ewma[q[m]] \/ ewma[x] = ewma[q[m]]
        BY <2>2, <2>6, LatencyOrder
      <4>3. ewma[x] \in Nat /\ ewma[x] > med
        BY <2>6, Consts, LatencyOrder DEF IoType
      <4> QED BY <4>1, <4>2, <4>3, <2>3
    <3> QED BY <3>1, <3>2, <3>3
  <2>10. f \in Injection(Slow, m + 1 .. n)
    <3>1. f \in [Slow -> m + 1 .. n]
      BY <2>7, <2>9
    <3>2. \A x, y \in Slow : f[x] = f[y] => x = y
      BY <2>8
    <3> QED BY <3>1, <3>2 DEF Injection, IsInjective
  <2>11. IsFiniteSet(m + 1 .. n) /\ Cardinality(m + 1 .. n) = n - m
    BY FS_Interval
  <2>12. Cardinality(Slow) <= n - m
    BY <2>10, <2>11, FS_Injection
  <2>13. Cardinality(Slow) \in Nat
    BY <2>10, <2>11, FS_Injection, FS_CardinalityType
  <2>14. 2 * (n - m) < n
    BY <2>1
  <2>15. 2 * Cardinality(Slow) < n
    BY <2>12, <2>13, <2>14
  <2> QED BY <2>15, <1>2 DEF MinoritySlow
<1> QED BY <1>2, <1>4, <1>5

-----------------------------------------------------------------------------
(* Types and dead disks. *)

LEMMA OutOfSelect ==
  ASSUME NEW v \in Views, NEW s, v[s].status = "Faulted"
  PROVE  s \notin Range(select(v, R))
<1>1. PICK q : q = Ranking(v)
  OBVIOUS
<1>2. q \in Seq(Eligible(v)) /\ s \notin Eligible(v)
  BY <1>1, RankingOrder DEF OrderedList, Eligible
<1>3. R \in Nat
  BY TopologyAssumption, Consts DEF Shards
<1>4. PICK m \in Nat : m = (IF R < Len(q) THEN R ELSE Len(q)) /\ m <= Len(q)
  BY <1>2, <1>3
<1>5. select(v, R) = SubSeq(q, 1, m)
  BY <1>1, <1>4 DEF select
<1>6. SubSeq(q, 1, m) = [i \in 1 .. m |-> q[i]]
  BY <1>2, <1>4
<1>7. \A i \in 1 .. m : q[i] \in Eligible(v)
  BY <1>2, <1>4, ElementOfSeq
<1> QED BY <1>2, <1>5, <1>6, <1>7 DEF Range

LEMMA InvSound == ASSUME Inv PROVE TopologySound
<1>0. MonType /\ IoType /\ TopoType /\ DeadOut
  BY DEF Inv, Types
<1>1. TypeOK
  BY <1>0 DEF TypeOK, MonType, IoType, TopoType
<1>2. ASSUME NEW p \in Callers, proc[p].pc = "have" PROVE proc[p].view \in Views
  BY <1>0, <1>2 DEF TopoType, ProcType
<1>3. DeadShardStaysOut
  <2>1. ASSUME NEW p \in Callers, proc[p].pc = "have", NEW s \in null \ ZfsShards
        PROVE  s \notin Range(select(proc[p].view, R))
    <3>1. proc[p].view[s].status = "Faulted"
      BY <1>0, <2>1 DEF DeadOut, Dead
    <3> QED BY <1>2, <2>1, <3>1, OutOfSelect
  <2> QED BY <2>1 DEF DeadShardStaysOut
<1>4. MinoritySlow
  BY <1>0, SlowBehind
<1>5. FaultOnlyRemoves
  BY <1>2, FaultRemoves DEF FaultOnlyRemoves
<1> QED BY <1>1, <1>3, <1>4, <1>5 DEF TopologySound

\* What placement rests on, for any number of disks, lots and thresholds: a
\* disk that did not open is no target, fewer than half of the disks are slow,
\* and a fault leaves the ranking of the others alone (select, verdicts).
THEOREM PlacementStaysSound == Spec => []TopologySound
BY InvSound, InvHolds, PTL

=============================================================================
