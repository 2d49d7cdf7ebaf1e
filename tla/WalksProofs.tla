---------------------------- MODULE WalksProofs -----------------------------
(***************************************************************************)
(* Proofs about Walks and CarImport: a pass over the pool misses no key    *)
(* that stayed and lists none twice, a saved cursor never runs ahead of    *)
(* the work, and the report of an import adds up.                          *)
(***************************************************************************)
EXTENDS CarImport, Integers, TLAPS, SequenceTheorems, FiniteSetTheorems, WellFoundedInduction

-----------------------------------------------------------------------------
(* Numbers and finite sets: induction over a set a proof can instantiate,  *)
(* and extrema.                                                            *)

\* A non-empty set of natural numbers has a least element.
LEMMA NatLeast ==
  ASSUME NEW S \in SUBSET Nat, S # {}
  PROVE  \E x \in S : \A y \in S : x <= y
<1>1. PICK x \in S : \A y \in S : <<y, x>> \notin OpToRel(<, Nat)
  BY WFMin, NatLessThanWellFounded, Zenon
<1>2. \A y \in S : ~ (y < x)
  <2>1. x \in Nat /\ \A y \in S : y \in Nat
    OBVIOUS
  <2> QED BY <1>1, <2>1, Zenon DEF OpToRel
<1> QED BY <1>2

\* Min of a set of natural numbers.
LEMMA MinIsLeast ==
  ASSUME NEW S \in SUBSET Nat, S # {}
  PROVE  Min(S) \in S /\ \A y \in S : Min(S) <= y
BY NatLeast DEF Min

-----------------------------------------------------------------------------
(* Counting: one element enters or leaves the counted set. *)

LEMMA CountUp ==
  ASSUME NEW S, IsFiniteSet(S), NEW T, NEW x, x \notin S, T = S \cup {x}
  PROVE  IsFiniteSet(T) /\ Cardinality(T) = Cardinality(S) + 1
BY FS_AddElement

-----------------------------------------------------------------------------
(* Sorting.  An order is given as the set of its pairs. *)

Earlier(S, B, x) == {y \in S : <<y, x>> \in B}

Orders(S, B) ==
  /\ \A x \in S : <<x, x>> \notin B
  /\ \A x, y \in S : x # y => <<x, y>> \in B \/ <<y, x>> \in B
  /\ \A x, y, z \in S : <<x, y>> \in B /\ <<y, z>> \in B => <<x, z>> \in B

\* Whoever comes later has more before it.
LEMMA EarlierCounts ==
  ASSUME NEW S, IsFiniteSet(S), NEW B, Orders(S, B)
  PROVE  /\ \A x \in S : Cardinality(Earlier(S, B, x)) \in 0 .. Cardinality(S) - 1
         /\ \A x, y \in S : <<x, y>> \in B => Cardinality(Earlier(S, B, x)) < Cardinality(Earlier(S, B, y))
         /\ Cardinality(S) \in Nat
<1>1. ASSUME NEW T \in SUBSET S
      PROVE  IsFiniteSet(T) /\ Cardinality(T) \in Nat
  BY FS_Subset, FS_CardinalityType
<1>2. ASSUME NEW x \in S, NEW T \in SUBSET S, Earlier(S, B, x) \subseteq T, x \in T
      PROVE  Cardinality(Earlier(S, B, x)) < Cardinality(T)
  <2>1. /\ Earlier(S, B, x) \in SUBSET S /\ x \notin Earlier(S, B, x)
        /\ Earlier(S, B, x) \cup {x} \in SUBSET T
    BY <1>2 DEF Earlier, Orders
  <2>2. IsFiniteSet(Earlier(S, B, x)) /\ IsFiniteSet(T)
    BY <1>1, <2>1
  <2>3. Cardinality(Earlier(S, B, x) \cup {x}) = Cardinality(Earlier(S, B, x)) + 1
    BY <2>1, <2>2, CountUp
  <2>4. Cardinality(Earlier(S, B, x) \cup {x}) <= Cardinality(T)
    BY <2>1, <2>2, FS_Subset
  <2> QED BY <2>1, <2>3, <2>4, <1>1
<1>3. ASSUME NEW x \in S PROVE Earlier(S, B, x) \in SUBSET S
  BY DEF Earlier
<1>4. ASSUME NEW x \in S PROVE Cardinality(Earlier(S, B, x)) \in 0 .. Cardinality(S) - 1
  <2>1. Cardinality(Earlier(S, B, x)) < Cardinality(S)
    BY <1>2, <1>3
  <2> QED BY <2>1, <1>1, <1>3
<1>5. ASSUME NEW x \in S, NEW y \in S, <<x, y>> \in B
      PROVE  Cardinality(Earlier(S, B, x)) < Cardinality(Earlier(S, B, y))
  <2>1. Earlier(S, B, x) \subseteq Earlier(S, B, y) /\ x \in Earlier(S, B, y) /\ Earlier(S, B, y) \in SUBSET S
    BY <1>5 DEF Earlier, Orders
  <2> QED BY <2>1, <1>2
<1> QED BY <1>1, <1>4, <1>5

\* Every place is taken, by one element.
LEMMA PlacesTaken ==
  ASSUME NEW S, IsFiniteSet(S), NEW B, Orders(S, B)
  PROVE  /\ \A i \in 1 .. Cardinality(S) : \E x \in S : Cardinality(Earlier(S, B, x)) = i - 1
         /\ \A x, y \in S : Cardinality(Earlier(S, B, x)) = Cardinality(Earlier(S, B, y)) => x = y
<1> DEFINE n == Cardinality(S)
           r == [x \in S |-> Cardinality(Earlier(S, B, x))]
<1>1. n \in Nat /\ (\A x \in S : r[x] \in 0 .. n - 1) /\ (\A x, y \in S : <<x, y>> \in B => r[x] < r[y])
  BY EarlierCounts
<1>2. \A x, y \in S : r[x] = r[y] => x = y
  <2> SUFFICES ASSUME NEW x \in S, NEW y \in S, r[x] = r[y], x # y PROVE FALSE
    OBVIOUS
  <2>1. r[x] < r[y] \/ r[y] < r[x]
    BY <1>1 DEF Orders
  <2>2. r[x] \in Nat /\ r[y] \in Nat
    BY <1>1
  <2> HIDE DEF r
  <2> QED BY <2>1, <2>2
<1>3. r \in Injection(S, 0 .. n - 1)
  <2>1. r \in [S -> 0 .. n - 1]
    BY <1>1
  <2> HIDE DEF r
  <2> QED BY <2>1, <1>2 DEF Injection, IsInjective
<1>4. IsFiniteSet(0 .. n - 1) /\ Cardinality(0 .. n - 1) = n
  BY <1>1, FS_Interval
<1>5. r \in Surjection(S, 0 .. n - 1)
  <2> HIDE DEF r
  <2> QED BY <1>3, <1>4, FS_Injection
<1>6. ASSUME NEW i \in 1 .. n PROVE \E x \in S : r[x] = i - 1
  <2>1. i - 1 \in 0 .. n - 1
    BY <1>1
  <2> QED BY <1>5, <2>1 DEF Surjection
<1> QED BY <1>2, <1>6

\* The i-th element of q has i - 1 elements before it.
AtPlaces(q, S, B) ==
  /\ q \in [1 .. Cardinality(S) -> S]
  /\ \A i \in 1 .. Cardinality(S) : Cardinality(Earlier(S, B, q[i])) = i - 1

\* Then q lists all elements of the set, each once and in order, and it is the
\* only such list.
OrderedList(q, S, B) ==
  /\ q \in Seq(S) /\ Len(q) = Cardinality(S) /\ Cardinality(S) \in Nat
  /\ \A x \in S : \E i \in 1 .. Cardinality(S) : q[i] = x
  /\ \A i, j \in 1 .. Cardinality(S) : <<q[i], q[j]>> \in B <=> i < j
  /\ \A i, j \in 1 .. Cardinality(S) : q[i] = q[j] => i = j

LEMMA PlacesGiveOrder ==
  ASSUME NEW S, IsFiniteSet(S), NEW B, Orders(S, B), NEW q, AtPlaces(q, S, B)
  PROVE  OrderedList(q, S, B)
<1>0. Cardinality(S) \in Nat
  BY EarlierCounts
<1> USE DEF AtPlaces
<1>1. q \in Seq(S) /\ Len(q) = Cardinality(S)
  BY <1>0
<1>2. ASSUME NEW x \in S PROVE \E i \in 1 .. Cardinality(S) : q[i] = x
  <2>1. PICK c \in 0 .. Cardinality(S) - 1 : Cardinality(Earlier(S, B, x)) = c
    BY EarlierCounts
  <2>2. c + 1 \in 1 .. Cardinality(S) /\ (c + 1) - 1 = c
    BY <1>0
  <2>3. Cardinality(Earlier(S, B, q[c + 1])) = c /\ q[c + 1] \in S
    BY <2>2
  <2> QED BY <2>1, <2>2, <2>3, PlacesTaken
<1>3. ASSUME NEW i \in 1 .. Cardinality(S), NEW j \in 1 .. Cardinality(S)
      PROVE  /\ <<q[i], q[j]>> \in B <=> i < j
             /\ q[i] = q[j] => i = j
  <2>1. /\ Cardinality(Earlier(S, B, q[i])) = i - 1 /\ Cardinality(Earlier(S, B, q[j])) = j - 1
        /\ q[i] \in S /\ q[j] \in S
    OBVIOUS
  <2>2. q[i] = q[j] => i = j
    BY <2>1, <1>0
  <2>3. <<q[i], q[j]>> \in B => i - 1 < j - 1
    BY <2>1, EarlierCounts
  <2>4. <<q[j], q[i]>> \in B => j - 1 < i - 1
    BY <2>1, EarlierCounts
  <2>5. q[i] = q[j] \/ <<q[i], q[j]>> \in B \/ <<q[j], q[i]>> \in B
    BY <2>1 DEF Orders
  <2> QED BY <2>2, <2>3, <2>4, <2>5, <1>0
<1> QED BY <1>0, <1>1, <1>2, <1>3 DEF OrderedList

-----------------------------------------------------------------------------
(* The smallest keys of a set.  M covers k up to n keys when it has k, or n  *)
(* keys before it: a page of n keys from M then does not run past k.         *)

Less == {b \in Keys \X Keys : b[1] < b[2]}
Under(S, k) == {j \in S : j < k}
Covers(M, k, n) == k \in M \/ Cardinality(Under(M, k)) >= n

LEMMA Consts ==
  /\ NK \in Nat /\ N \in Nat /\ N > 0 /\ Batch \in Nat /\ Batch > 0 /\ Lo \in Keys /\ Hi \in Keys /\ Lo <= Hi
  /\ 1 \in Shards /\ Keys \in SUBSET Nat /\ \A k \in Keys : k > 0 /\ k <= NK
<1> USE WalksAssumption DEF Keys, Shards
<1>1. NK \in Nat /\ N \in Nat \ {0} /\ Batch \in Nat \ {0} /\ Lo \in 1 .. NK /\ Hi \in Lo .. NK
  OBVIOUS
<1> QED BY ONLY <1>1 DEF Keys, Shards

LEMMA KeySets ==
  ASSUME NEW S \in SUBSET Keys
  PROVE  IsFiniteSet(S) /\ Cardinality(S) \in Nat /\ Orders(S, Less) /\ \A k \in Keys : Under(S, k) = Earlier(S, Less, k)
<1>1. IsFiniteSet(Keys)
  BY Consts, FS_Interval DEF Keys
<1>2. IsFiniteSet(S) /\ Cardinality(S) \in Nat
  BY <1>1, FS_Subset, FS_CardinalityType
<1>3. \A x, y \in Keys : <<x, y>> \in Less <=> x < y
  BY DEF Less
<1>4. \A x \in S : x \in Nat /\ x \in Keys
  BY Consts
<1>5. Orders(S, Less)
  BY <1>3, <1>4 DEF Orders
<1>6. \A k \in Keys : Under(S, k) = Earlier(S, Less, k)
  BY <1>3, <1>4 DEF Under, Earlier
<1> QED BY <1>2, <1>5, <1>6

\* A subset of keys is counted, and counted once more with more in it.
LEMMA Counted ==
  ASSUME NEW T \in SUBSET Keys, NEW S \in SUBSET T
  PROVE  /\ Cardinality(S) \in Nat /\ Cardinality(T) \in Nat /\ Cardinality(S) <= Cardinality(T)
         /\ Cardinality(S) = Cardinality(T) => S = T
<1>1. IsFiniteSet(T) /\ S \in SUBSET Keys
  BY KeySets
<1>2. Cardinality(S) \in Nat /\ Cardinality(T) \in Nat
  BY <1>1, KeySets
<1> QED BY <1>1, <1>2, FS_Subset

LEMMA SmallestIs ==
  ASSUME NEW S \in SUBSET Keys, NEW n \in Nat
  PROVE  /\ Smallest(S, n) \in SUBSET S
         /\ \A k \in S : k \in Smallest(S, n) <=> Cardinality(Under(S, k)) < n
         /\ Cardinality(Smallest(S, n)) <= n /\ Cardinality(Smallest(S, n)) \in Nat
         /\ \A k \in S \ Smallest(S, n) :
              Cardinality(Smallest(S, n)) = n /\ \A x \in Smallest(S, n) : x < k
<1> DEFINE L == Smallest(S, n)
           r == [k \in L |-> Cardinality(Under(S, k))]
<1>1. L \in SUBSET S /\ \A k \in S : k \in L <=> Cardinality(Under(S, k)) < n
  BY DEF Smallest, Under
<1>2. IsFiniteSet(S) /\ Orders(S, Less) /\ Cardinality(S) \in Nat /\ \A k \in S : Under(S, k) = Earlier(S, Less, k)
  BY KeySets
<1>3. \A k \in S : Cardinality(Under(S, k)) \in 0 .. Cardinality(S) - 1
  BY <1>2, EarlierCounts
<1>4. /\ \A i \in 1 .. Cardinality(S) : \E x \in S : Cardinality(Under(S, x)) = i - 1
      /\ \A x, y \in S : Cardinality(Under(S, x)) = Cardinality(Under(S, y)) => x = y
  BY <1>2, PlacesTaken
<1> HIDE DEF L
<1>5. r \in Injection(L, 0 .. n - 1)
  <2>1. \A k \in L : r[k] \in 0 .. n - 1
    BY <1>1, <1>2, <1>3
  <2>2. \A x, y \in L : r[x] = r[y] => x = y
    BY <1>1, <1>4
  <2>3. r \in [L -> 0 .. n - 1]
    BY <2>1
  <2> HIDE DEF r
  <2> QED BY <2>2, <2>3 DEF Injection, IsInjective
<1>6. IsFiniteSet(0 .. n - 1) /\ Cardinality(0 .. n - 1) = n
  BY FS_Interval
<1>7. Cardinality(L) <= n /\ (Cardinality(L) = n <=> r \in Surjection(L, 0 .. n - 1))
  <2> HIDE DEF r
  <2> QED BY <1>5, <1>6, FS_Injection
<1>8. ASSUME NEW k \in S \ L PROVE Cardinality(L) = n /\ \A x \in L : x < k
  <2>1. Cardinality(Under(S, k)) >= n /\ n < Cardinality(S) + 1 /\ n <= Cardinality(S)
    BY <1>1, <1>2, <1>3
  <2>2. ASSUME NEW i \in 0 .. n - 1 PROVE \E x \in L : r[x] = i
    <3>1. i + 1 \in 1 .. Cardinality(S) /\ (i + 1) - 1 = i
      BY <2>1, <1>2
    <3>2. PICK x \in S : Cardinality(Under(S, x)) = i
      BY <1>4, <3>1
    <3>3. x \in L
      BY <1>1, <3>2
    <3> QED BY <3>2, <3>3
  <2>3. r \in [L -> 0 .. n - 1]
    BY <1>5 DEF Injection
  <2>4. r \in Surjection(L, 0 .. n - 1)
    <3> HIDE DEF r
    <3> QED BY <2>2, <2>3 DEF Surjection
  <2>5. ASSUME NEW x \in L PROVE x < k
    <3>1. x \in S /\ x \in Nat /\ k \in Nat
      BY <1>1, Consts
    <3>2. SUFFICES ASSUME k <= x PROVE FALSE
      BY <3>1
    <3>3. Under(S, k) \in SUBSET Under(S, x) /\ Under(S, x) \in SUBSET Keys
      <4>1. \A j \in S : j \in Nat /\ j \in Keys
        BY Consts
      <4>2. ASSUME NEW j \in S, j < k PROVE j < x
        BY <3>1, <3>2, <4>1, <4>2
      <4> QED BY <4>1, <4>2 DEF Under
    <3>4. Cardinality(Under(S, k)) <= Cardinality(Under(S, x)) /\ Cardinality(Under(S, k)) \in Nat /\ Cardinality(Under(S, x)) \in Nat
      BY <3>3, Counted
    <3>5. Cardinality(Under(S, x)) < n
      BY <1>1, <3>1
    <3> QED BY <2>1, <3>4, <3>5
  <2> QED BY <1>7, <2>4, <2>5
<1>9. Cardinality(L) \in Nat
  BY <1>1, KeySets
<1> QED BY <1>1, <1>7, <1>8, <1>9 DEF L

LEMMA CoverMore ==
  ASSUME NEW T \in SUBSET Keys, NEW S \in SUBSET T, NEW n \in Nat, NEW k, Covers(S, k, n)
  PROVE  Covers(T, k, n)
<1>1. CASE k \in S
  BY <1>1 DEF Covers
<1>2. CASE Cardinality(Under(S, k)) >= n
  <2>1. Under(S, k) \in SUBSET Under(T, k) /\ Under(T, k) \in SUBSET Keys
    BY DEF Under
  <2>2. Cardinality(Under(S, k)) <= Cardinality(Under(T, k)) /\ Cardinality(Under(S, k)) \in Nat /\ Cardinality(Under(T, k)) \in Nat
    BY <2>1, Counted
  <2> QED BY <1>2, <2>2 DEF Covers
<1> QED BY <1>1, <1>2 DEF Covers

LEMMA CoverSmallest ==
  ASSUME NEW S \in SUBSET Keys, NEW n \in Nat, NEW k \in Keys, Covers(S, k, n)
  PROVE  Covers(Smallest(S, n), k, n)
<1> DEFINE L == Smallest(S, n)
<1>1. /\ L \in SUBSET S /\ \A x \in S : x \in L <=> Cardinality(Under(S, x)) < n
      /\ \A x \in S \ L : Cardinality(L) = n /\ \A y \in L : y < x
  BY SmallestIs
<1> HIDE DEF L
<1>2. CASE k \in L
  BY <1>2 DEF Covers, L
<1>3. CASE k \in S \ L
  <2>1. Cardinality(L) = n /\ Under(L, k) = L
    BY <1>1, <1>3 DEF Under
  <2> QED BY <2>1 DEF Covers, L
<1>4. CASE Cardinality(Under(S, k)) >= n
  <2>1. CASE \E x \in S \ L : x <= k
    <3>1. PICK x \in S \ L : x <= k
      BY <2>1
    <3>2. \A y \in L : y < k
      <4>1. ASSUME NEW y \in L PROVE y < k
        <5>1. y < x /\ y \in Nat /\ x \in Nat /\ k \in Nat
          BY <1>1, <3>1, Consts
        <5> QED BY <3>1, <5>1
      <4> QED BY <4>1
    <3>3. Cardinality(L) = n /\ Under(L, k) = L
      BY <1>1, <3>1, <3>2 DEF Under
    <3> QED BY <3>3 DEF Covers, L
  <2>2. CASE \A x \in S \ L : ~ (x <= k)
    <3>1. Under(L, k) = Under(S, k)
      <4>1. ASSUME NEW x \in S, x < k PROVE x \in L
        <5>1. x \in Nat /\ k \in Nat
          BY Consts
        <5> QED BY <2>2, <4>1, <5>1
      <4> QED BY <4>1, <1>1 DEF Under
    <3> QED BY <1>4, <3>1 DEF Covers, L
  <2> QED BY <2>1, <2>2
<1> QED BY <1>2, <1>3, <1>4 DEF Covers

-----------------------------------------------------------------------------
(* What a disk lists, and what a page of it has. *)

LEMMA PrefixIs ==
  ASSUME NEW job
  PROVE  Prefix(job) \in SUBSET Keys /\ (job \notin {"export", "s3"} => Prefix(job) = Keys)
         /\ (job \in {"export", "s3"} => Prefix(job) = Lo .. Hi) /\ Limit(job) \in Nat /\ Limit(job) >= Batch
         /\ (job = "s3" => Limit(job) = Batch + 1) /\ (job # "s3" => Limit(job) = Batch)
<1>1. Lo .. Hi \in SUBSET Keys
  BY Consts DEF Keys
<1> QED BY <1>1, Consts DEF Prefix, Limit, All, Prefixed

\* A list from after a cursor has only keys of the table behind it; none of
\* them is left out that has the prefix, as long as the cursor does not lie
\* before the prefix.
LEMMA FromIs ==
  ASSUME NEW T \in SUBSET Keys, NEW job, NEW a \in 0 .. NK
  PROVE  /\ From(T, Prefix(job), a) \in SUBSET {k \in Prefix(job) : k > a}
         /\ (job \in {"export", "s3"} /\ a # 0 => a + 1 >= Lo) =>
              \A k \in T : k \in Prefix(job) /\ k > a => k \in From(T, Prefix(job), a)
<1> DEFINE P == Prefix(job)
<1>1. PICK lo \in Nat, hi \in Nat : P = lo .. hi /\ lo <= hi /\ lo > 0 /\ (job \notin {"export", "s3"} => lo = 1)
                                     /\ (job \in {"export", "s3"} => lo = Lo)
  <2>1. CASE job \in {"export", "s3"}
    BY <2>1, PrefixIs, Consts
  <2>2. CASE job \notin {"export", "s3"}
    <3>1. P = 1 .. NK /\ 1 <= NK
      BY <2>2, PrefixIs, Consts DEF Keys
    <3> QED BY <2>2, <3>1, Consts
  <2> QED BY <2>1, <2>2
<1> HIDE DEF P
<1>2. Min(P) = lo
  <2>1. lo \in P /\ \A y \in P : lo <= y
    BY <1>1
  <2>2. P \in SUBSET Nat /\ P # {}
    <3>0. P = lo .. hi
      BY <1>1
    <3>1. P \subseteq Nat
      BY ONLY <3>0, lo \in Nat, hi \in Nat
    <3> QED BY <2>1, <3>1
  <2>3. Min(P) \in P /\ \A y \in P : Min(P) <= y
    BY <2>2, MinIsLeast
  <2>4. PICK m \in Nat : m = Min(P)
    BY <2>2, <2>3
  <2>5. m <= lo /\ lo <= m
    BY <2>1, <2>3, <2>4
  <2> QED BY <2>4, <2>5
<1>3. PICK start \in Nat : start = IF a = 0 THEN lo ELSE a + 1
  BY Consts
<1>4. From(T, P, a) = {k \in T : k >= start /\ \A j \in T : start <= j /\ j <= k => j \in P}
  BY <1>2, <1>3 DEF From
<1>5. \A k \in T : k \in Nat /\ k \in Keys /\ k > 0
  BY Consts
<1>6. ASSUME NEW k \in From(T, P, a) PROVE k \in P /\ k > a
  BY <1>1, <1>3, <1>4, <1>5, <1>6
<1>7. ASSUME job \in {"export", "s3"} /\ a # 0 => a + 1 >= Lo, NEW k \in T, k \in P, k > a
      PROVE  k \in From(T, P, a)
  <2>0. lo <= start /\ start <= k /\ k <= hi
    <3>1. k \in Nat /\ lo <= k /\ k <= hi
      BY <1>1, <1>5, <1>7
    <3>2. CASE a = 0
      BY <1>3, <3>1, <3>2
    <3>3. CASE a # 0
      <4>1. lo <= a + 1
        <5>1. CASE job \in {"export", "s3"}
          BY <1>1, <1>7, <3>3, <5>1
        <5>2. CASE job \notin {"export", "s3"}
          BY <1>1, <3>3, <5>2
        <5> QED BY <5>1, <5>2
      <4> QED BY <1>3, <1>7, <3>1, <3>3, <4>1
    <3> QED BY <3>2, <3>3
  <2>1. ASSUME NEW j \in T, start <= j, j <= k PROVE j \in P
    BY <1>1, <1>5, <2>0, <2>1
  <2> QED BY <1>4, <2>0, <2>1
<1> QED BY <1>6, <1>7 DEF P

LEMMA ListIs ==
  ASSUME NEW s \in Shards, addr \in [Shards -> SUBSET Keys], inline \in [Shards -> SUBSET Keys],
         NEW job, NEW a \in 0 .. NK
  PROVE  /\ List(s, Prefix(job), a, Limit(job)) \in SUBSET {k \in Prefix(job) : k > a}
         /\ (job \in {"export", "s3"} /\ a # 0 => a + 1 >= Lo) =>
              \A k \in Has(s) : k \in Prefix(job) /\ k > a => Covers(List(s, Prefix(job), a, Limit(job)), k, Limit(job))
<1> DEFINE n == Limit(job)
           A == From(addr[s], Prefix(job), a)
           I == From(inline[s], Prefix(job), a)
           W == {k \in Prefix(job) : k > a}
           M == Smallest(A, n) \cup I
<1>1. addr[s] \in SUBSET Keys /\ inline[s] \in SUBSET Keys /\ n \in Nat /\ W \in SUBSET Keys
  BY PrefixIs
<1>2. A \in SUBSET W /\ I \in SUBSET W
  BY <1>1, FromIs
<1> HIDE DEF A, I, W, n
<1>3. Smallest(A, n) \in SUBSET A /\ Smallest(A, n) \in SUBSET W
  BY <1>1, <1>2, SmallestIs
<1>4. M \in SUBSET W /\ M \in SUBSET Keys
  BY <1>1, <1>2, <1>3
<1>5. List(s, Prefix(job), a, Limit(job)) = Smallest(M, n)
  BY DEF List, A, I, n
<1>6. ASSUME job \in {"export", "s3"} /\ a # 0 => a + 1 >= Lo, NEW k \in Has(s), k \in Prefix(job), k > a
      PROVE  Covers(Smallest(M, n), k, n)
  <2>1. k \in A \/ k \in I
    BY <1>1, <1>6, FromIs DEF A, I, Has
  <2>2. k \in Keys
    BY <1>6, PrefixIs
  <2>3. Covers(M, k, n)
    <3>1. CASE k \in A
      <4>1. Covers(Smallest(A, n), k, n)
        BY <1>1, <1>2, <2>2, <3>1, CoverSmallest DEF Covers
      <4> QED BY <1>4, <4>1, CoverMore, <1>1
    <3>2. CASE k \in I
      BY <3>2 DEF Covers
    <3> QED BY <2>1, <3>1, <3>2
  <2> HIDE DEF M
  <2> QED BY <1>1, <1>4, <2>2, <2>3, CoverSmallest
<1>7. Smallest(M, n) \in SUBSET W
  <2> HIDE DEF M
  <2> QED BY <1>1, <1>4, SmallestIs
<1> HIDE DEF M
<1> QED BY <1>5, <1>6, <1>7 DEF n, W

LEMMA SortedKeys ==
  ASSUME NEW K \in SUBSET Keys
  PROVE  OrderedList(Sorted(K, <), K, Less)
<1>1. PICK q : q = Sorted(K, <)
  OBVIOUS
<1>2. q = [i \in 1 .. Cardinality(K) |-> CHOOSE x \in K : Cardinality(Under(K, x)) = i - 1]
  BY <1>1, Zenon DEF Sorted, Under
<1>3. IsFiniteSet(K) /\ Orders(K, Less) /\ \A x \in K : Under(K, x) = Earlier(K, Less, x)
  BY KeySets
<1>4. \A i \in 1 .. Cardinality(K) : \E x \in K : Cardinality(Under(K, x)) = i - 1
  BY <1>3, PlacesTaken
<1>5. ASSUME NEW i \in 1 .. Cardinality(K)
      PROVE  q[i] \in K /\ Cardinality(Earlier(K, Less, q[i])) = i - 1
  <2>1. q[i] = CHOOSE x \in K : Cardinality(Under(K, x)) = i - 1
    BY <1>2, Zenon
  <2>2. q[i] \in K /\ Cardinality(Under(K, q[i])) = i - 1
    BY <1>4, <2>1, Zenon
  <2> QED BY <2>2, <1>3
<1>6. DOMAIN q = 1 .. Cardinality(K) /\ q = [i \in DOMAIN q |-> q[i]]
  BY ONLY <1>2
<1>7. q \in [1 .. Cardinality(K) -> K]
  BY ONLY <1>5, <1>6
<1>8. AtPlaces(q, K, Less)
  BY ONLY <1>5, <1>7 DEF AtPlaces
<1> QED BY <1>1, <1>3, <1>8, PlacesGiveOrder

\* The pages: in order, at most Batch keys, and no key that was covered lies
\* between them and the last one; a page that is the last one has all of them.
LEMMA PagedIs ==
  ASSUME NEW job, NEW M \in SUBSET Keys, NEW got, got = Smallest(M, Limit(job)),
         NEW K, K = (IF job = "s3" THEN Smallest(got, Batch) ELSE got),
         NEW keys, OrderedList(keys, K, Less),
         NEW last, last = (IF keys = << >> THEN 0 ELSE Last(keys)), NEW done \in BOOLEAN, done <=> Cardinality(got) < Limit(job)
  PROVE  /\ keys \in Seq(Keys) /\ Len(keys) <= Batch /\ K \in SUBSET M
         /\ \A i \in 1 .. Len(keys) : keys[i] \in M /\ keys[i] <= last
         /\ \A i, j \in 1 .. Len(keys) : i < j => keys[i] < keys[j]
         /\ last \in 0 .. NK /\ (~ done => last \in M) /\ done \in BOOLEAN
         /\ \A k \in Keys : Covers(M, k, Limit(job)) =>
              (\E i \in 1 .. Len(keys) : keys[i] = k) \/ (~ done /\ k > last)
<1>1. PICK n \in Nat : n = Limit(job) /\ n >= Batch /\ (job = "s3" => n = Batch + 1) /\ (job # "s3" => n = Batch)
  BY PrefixIs
<1>2. /\ got \in SUBSET M /\ Cardinality(got) <= n /\ Cardinality(got) \in Nat
      /\ \A x \in M \ got : Cardinality(got) = n /\ \A y \in got : y < x
  BY <1>1, SmallestIs
<1>3. /\ K \in SUBSET got /\ Cardinality(K) <= Batch /\ Cardinality(K) \in Nat
      /\ \A x \in got \ K : Cardinality(K) = Batch /\ \A y \in K : y < x
  <2>1. CASE job = "s3"
    <3>1. got \in SUBSET Keys /\ K = Smallest(got, Batch) /\ Batch \in Nat
      BY <1>2, <2>1, Consts
    <3> QED BY <3>1, SmallestIs
  <2>2. CASE job # "s3"
    BY <1>1, <1>2, <2>2
  <2> QED BY <2>1, <2>2
<1>4. OrderedList(keys, K, Less) /\ IsFiniteSet(K) /\ IsFiniteSet(got)
  <2>1. K \in SUBSET Keys /\ got \in SUBSET Keys
    BY <1>2, <1>3
  <2> QED BY <2>1, SortedKeys, KeySets
<1>5. PICK m \in Nat : m = Len(keys) /\ m = Cardinality(K) /\ keys \in Seq(K)
  BY <1>4 DEF OrderedList
<1>6. /\ \A x \in K : \E i \in 1 .. m : keys[i] = x
      /\ \A i \in 1 .. m : keys[i] \in K /\ keys[i] \in M /\ keys[i] \in Keys /\ keys[i] \in Nat
      /\ keys \in Seq(Keys)
  <2>1. \A i \in 1 .. m : keys[i] \in K
    BY <1>5, ElementOfSeq
  <2>2. K \in SUBSET Keys
    BY <1>2, <1>3
  <2>3. keys \in Seq(Keys)
    BY ONLY <1>5, <2>2
  <2> QED BY <1>2, <1>3, <1>4, <1>5, <2>1, <2>3, Consts DEF OrderedList
<1>7. \A i, j \in 1 .. m : i < j => keys[i] < keys[j]
  <2>1. \A i, j \in 1 .. m : i < j => <<keys[i], keys[j]>> \in Less
    BY <1>4, <1>5 DEF OrderedList
  <2> QED BY <2>1, <1>6 DEF Less
<1>8. CASE m = 0
  <2>1. keys = << >> /\ last = 0
    <3>1. keys = << >>
      BY <1>5, <1>8, EmptySeq
    <3> QED BY <3>1
  <2>2. K = {}
    BY <1>6, <1>8
  <2>3. got = {}
    <3>1. SUFFICES ASSUME NEW x \in got PROVE FALSE
      OBVIOUS
    <3>2. Cardinality(K) = Batch
      BY <1>3, <2>2, <3>1
    <3> QED BY <1>5, <1>8, <3>2, Consts
  <2>4. done
    <3>1. Cardinality(got) = 0
      BY <2>3, FS_EmptySet
    <3> QED BY <3>1, <1>1, Consts
  <2>5. ASSUME NEW k \in Keys, Covers(M, k, Limit(job)) PROVE FALSE
    <3>1. k \notin M
      BY <1>1, <1>2, <2>3, Consts, FS_EmptySet
    <3>2. M = {}
      BY <1>1, <1>2, <2>3, Consts, FS_EmptySet
    <3>3. Under(M, k) = {}
      BY <3>2 DEF Under
    <3> QED BY <2>5, <3>1, <3>3, <1>1, Consts, FS_EmptySet DEF Covers
  <2> QED BY <1>3, <1>5, <1>6, <1>8, <2>1, <2>4, <2>5, <1>2, Consts
<1>9. CASE m > 0
  <2>1. last = keys[m] /\ m \in 1 .. m
    <3>1. keys # << >>
      <4>1. SUFFICES ASSUME keys = << >> PROVE FALSE
        OBVIOUS
      <4>2. Len(keys) = 0
        BY ONLY <4>1, EmptySeq
      <4> QED BY <4>2, <1>5, <1>9
    <3> QED BY <1>5, <1>9, <3>1 DEF Last
  <2>2. last \in K /\ last \in M /\ last \in Keys /\ last \in Nat
    BY <1>6, <2>1
  <2>3. \A i \in 1 .. m : keys[i] <= last
    <3>1. ASSUME NEW i \in 1 .. m PROVE keys[i] <= last
      <4>1. i = m \/ i < m
        BY <2>1
      <4>2. keys[i] \in Nat /\ keys[m] \in Nat /\ (i < m => keys[i] < keys[m])
        BY <1>6, <1>7, <2>1
      <4> QED BY ONLY <2>1, <4>1, <4>2
    <3> QED BY <3>1
  <2>4. ASSUME NEW k \in Keys, Covers(M, k, n), k \notin K PROVE ~ done /\ k > last
    <3>1. Covers(got, k, n)
      BY <1>1, <2>4, CoverSmallest
    <3>2. CASE k \in got
      <4>1. Cardinality(K) = Batch /\ last < k
        BY <1>3, <2>2, <2>4, <3>2
      <4>2. job = "s3"
        BY <2>4, <3>2
      <4>3. Cardinality(got) > Cardinality(K)
        <5>1. Cardinality(K) <= Cardinality(got) /\ (Cardinality(K) = Cardinality(got) => K = got)
          BY <1>3, <1>4, FS_Subset
        <5> QED BY <5>1, <1>2, <1>3, <2>4, <3>2
      <4>4. k \in Nat /\ last \in Nat
        BY <2>2, Consts
      <4> QED BY <4>1, <4>2, <4>3, <4>4, <1>1, <1>2, Consts
    <3>3. CASE k \notin got
      <4>1. Cardinality(Under(got, k)) >= n /\ Under(got, k) \in SUBSET got
        BY <3>1, <3>3 DEF Covers, Under
      <4>2. Cardinality(Under(got, k)) <= Cardinality(got) /\ (Cardinality(Under(got, k)) = Cardinality(got) => Under(got, k) = got)
            /\ Cardinality(Under(got, k)) \in Nat
        BY <1>4, <4>1, FS_Subset, FS_CardinalityType
      <4>3. Under(got, k) = got /\ Cardinality(got) = n
        BY <4>1, <4>2, <1>1, <1>2
      <4>4. last < k
        BY <4>3, <2>2, <1>3 DEF Under
      <4>5. k \in Nat /\ last \in Nat
        BY <2>2, Consts
      <4> QED BY <4>3, <4>4, <4>5, <1>1
    <3> QED BY <3>2, <3>3
  <2>5. last \in 0 .. NK
    BY <2>2, Consts
  <2>6. Len(keys) <= Batch /\ K \in SUBSET M /\ done \in BOOLEAN
    BY <1>2, <1>3, <1>5
  <2>7. \A k \in Keys : Covers(M, k, Limit(job)) => (\E i \in 1 .. m : keys[i] = k) \/ (~ done /\ k > last)
    BY <2>4, <1>1, <1>6
  <2> QED BY <1>5, <1>6, <1>7, <2>2, <2>3, <2>5, <2>6, <2>7
<1> QED BY <1>8, <1>9

-----------------------------------------------------------------------------
(* The invariant. *)

CursorRec == [at : 0 .. NK, seen : SUBSET Keys, resident : SUBSET (Shards \X Keys)]
WalkRec ==
  [job : Jobs \cup {"scrub", "none"}, pc : {"idle", "list", "visit", "save"}, at : 0 .. NK, next : 0 .. N,
   merged : SUBSET Keys, page : Seq(Keys), last : 0 .. NK, done : BOOLEAN, seen : SUBSET Keys,
   resident : SUBSET (Shards \X Keys), out : Seq(Keys)]

\* The copies a walk is owed are where they were; those up to its cursor have
\* been visited, on the disks D and for the keys P.
Kept(c) == \A d \in Shards, k \in Keys : <<d, k>> \in c.resident => k \in Has(d)
Chained(c, D, P) == \A d \in D, k \in P : <<d, k>> \in c.resident /\ k <= c.at => k \in c.seen

Scope(q) == IF PerShard(q.job) THEN {q.next} ELSE Shards
CursorScope(s, name) == IF name = "scrub" THEN {s} ELSE Shards

\* A listing behind its prefix: the cursor never lies before it.
Started(q) == q.job \in {"export", "s3"} /\ q.at # 0 => q.at + 1 >= Lo \/ q.resident = {}

\* While a page is listed, what was merged covers the disks already asked.
Listing(q) ==
  q.pc = "list" =>
    /\ q.next \in Shards /\ q.page = << >> /\ Started(q) /\ Chained(q, Scope(q), Prefix(q.job))
    /\ q.merged \in SUBSET {k \in Prefix(q.job) : k > q.at} /\ (PerShard(q.job) => q.merged = {})
    /\ ~ PerShard(q.job) => \A d \in Shards, k \in Prefix(q.job) :
         d < q.next /\ <<d, k>> \in q.resident /\ k > q.at => Covers(q.merged, k, Limit(q.job))
    /\ \A i \in 1 .. Len(q.out) : q.out[i] <= q.at

\* While a page is worked off, each key owed has been visited, is on the page
\* or lies behind it.
Visiting(q) ==
  q.pc = "visit" =>
    /\ q.next \in Shards /\ q.merged = {} /\ (~ q.done => q.last \in Prefix(q.job))
    /\ \A d \in Scope(q), k \in Prefix(q.job) : <<d, k>> \in q.resident =>
         k \in q.seen \/ (\E i \in 1 .. Len(q.page) : q.page[i] = k) \/ (~ q.done /\ k > q.last)
    /\ \A i \in 1 .. Len(q.out) :
         (\A j \in 1 .. Len(q.page) : q.out[i] < q.page[j]) /\ (~ q.done => q.out[i] <= q.last)

InPage(q) ==
  /\ Len(q.page) <= Batch /\ \A i \in 1 .. Len(q.page) : q.at < q.page[i] /\ q.page[i] <= q.last
  /\ \A i, j \in 1 .. Len(q.page) : i < j => q.page[i] < q.page[j]
  /\ \A i, j \in 1 .. Len(q.out) : i < j => q.out[i] < q.out[j]

Saving(q) == q.pc = "save" => q.job = "scrub" /\ q.next \in Shards

Walk(q) == q \in WalkRec /\ InPage(q) /\ Listing(q) /\ Visiting(q) /\ Saving(q)

Tables ==
  /\ addr \in [Shards -> SUBSET Keys] /\ inline \in [Shards -> SUBSET Keys]
  /\ \A s \in Shards : addr[s] \cap inline[s] = {}
Marks ==
  /\ cursor \in [Shards -> [Cursors -> CursorRec]] /\ mem \in [Shards -> CursorRec]
  /\ \A s \in Shards, c \in Cursors : Chained(cursor[s][c], CursorScope(s, c), Keys) /\ Kept(cursor[s][c])
  /\ \A s \in Shards : Chained(mem[s], {s}, Keys) /\ Kept(mem[s])
Walks == walker \in [Walkers -> WalkRec] /\ \A w \in Walkers : Walk(walker[w]) /\ Kept(walker[w])
WalksInv == Tables /\ Marks /\ Walks

-----------------------------------------------------------------------------
(* The records. *)

LEMMA PassScope ==
  \A job : (job \in {"export", "s3"} => ~ PerShard(job)) /\ (job \in {"scrub", "run_scrub"} <=> PerShard(job))
BY DEF PerShard

LEMMA IdleIs == Walk(Idle) /\ Kept(Idle) /\ Idle.resident = {} /\ Idle.pc = "idle"
<1>1. Idle \in WalkRec /\ Idle.page = << >> /\ Idle.out = << >> /\ Idle.pc = "idle" /\ Idle.resident = {}
  <2>1. << >> \in Seq(Keys)
    BY EmptySeq
  <2> QED BY <2>1, Consts DEF Idle, WalkRec
<1>2. Len(<< >>) = 0
  BY EmptySeq
<1>3. InPage(Idle)
  BY ONLY <1>1, <1>2, Consts DEF InPage
<1> QED BY <1>1, <1>3 DEF Walk, Kept, Listing, Visiting, Saving

LEMMA NoCursorIs == NoCursor \in CursorRec /\ Kept(NoCursor) /\ \A D, P : Chained(NoCursor, D, P)
<1>1. NoCursor.resident = {} /\ NoCursor \in CursorRec
  BY Consts DEF NoCursor, CursorRec
<1> QED BY <1>1 DEF Kept, Chained

LEMMA FreshIs ==
  ASSUME Tables, NEW a \in 0 .. NK
  PROVE  /\ Fresh(a) \in CursorRec /\ Kept(Fresh(a)) /\ Fresh(a).at = a /\ Fresh(a).seen = {}
         /\ \A D : \A P \in SUBSET Keys : Chained(Fresh(0), D, P)
<1>1. /\ Fresh(a) \in CursorRec /\ Fresh(a).at = a /\ Fresh(a).seen = {}
      /\ Fresh(a).resident = {p \in Shards \X Keys : p[2] \in Has(p[1])}
  BY DEF Fresh, CursorRec
<1>2. Kept(Fresh(a))
  BY <1>1 DEF Kept
<1>3. Fresh(0).at = 0
  BY DEF Fresh
<1>4. ASSUME NEW D, NEW P \in SUBSET Keys PROVE Chained(Fresh(0), D, P)
  <2>1. \A k \in P : k > 0 /\ k \in Nat
    BY Consts
  <2>2. \A k \in P : ~ (k <= 0)
    BY <2>1
  <2> QED BY <1>3, <2>2 DEF Chained
<1> QED BY <1>1, <1>2, <1>4

LEMMA ChainIs ==
  ASSUME Tables, NEW c \in CursorRec, NEW D, Chained(c, D, Keys), Kept(c)
  PROVE  Chain(c) \in CursorRec /\ Chained(Chain(c), D, Keys) /\ Kept(Chain(c))
<1>1. 0 \in 0 .. NK
  BY Consts
<1> QED BY <1>1, FreshIs DEF Chain

\* A walk begins at a cursor, or takes the next disk.
LEMMA BeginIs ==
  ASSUME NEW job \in Jobs \cup {"scrub"}, NEW c \in CursorRec, Kept(c), NEW n \in Shards, ~ PerShard(job) => n = 1,
         Chained(c, IF PerShard(job) THEN {n} ELSE Shards, Prefix(job)),
         job \in {"export", "s3"} /\ c.at # 0 => c.at + 1 >= Lo \/ c.resident = {}
  PROVE  Walk([Begin(job, c) EXCEPT !.next = n]) /\ Kept([Begin(job, c) EXCEPT !.next = n])
<1>1. PICK q : q = [Begin(job, c) EXCEPT !.next = n]
  OBVIOUS
<1>2. /\ q = [job |-> job, pc |-> "list", at |-> c.at, next |-> n, merged |-> {}, page |-> << >>, last |-> 0, done |-> FALSE,
              seen |-> c.seen, resident |-> c.resident, out |-> << >>]
  BY <1>1 DEF Begin, Idle
<1>3. << >> \in Seq(Keys) /\ Len(<< >>) = 0 /\ n \in 0 .. N /\ 0 \in 0 .. NK /\ n \in Nat
  BY EmptySeq, Consts DEF Shards
<1>4. q \in WalkRec
  BY ONLY <1>2, <1>3, c \in CursorRec, n \in Shards, job \in Jobs \cup {"scrub"} DEF WalkRec, CursorRec
<1>5. /\ q.job = job /\ q.pc = "list" /\ q.at = c.at /\ q.next = n /\ q.merged = {} /\ q.page = << >>
      /\ q.seen = c.seen /\ q.resident = c.resident /\ q.out = << >>
  BY ONLY <1>2
<1>6. InPage(q) /\ Visiting(q) /\ Saving(q)
  <2>1. Len(q.page) = 0 /\ Len(q.out) = 0
    BY <1>3, <1>5
  <2> QED BY ONLY <2>1, <1>5, Consts DEF InPage, Visiting, Saving
<1>7. Listing(q)
  <2>1. Chained(q, Scope(q), Prefix(q.job)) /\ Started(q)
    BY <1>5 DEF Chained, Scope, Started
  <2>2. ~ PerShard(q.job) => \A d \in Shards : ~ (d < q.next)
    BY <1>5, Consts DEF Shards
  <2>3. \A i \in 1 .. Len(q.out) : q.out[i] <= q.at
    BY <1>3, <1>5
  <2> QED BY <1>5, <2>1, <2>2, <2>3 DEF Listing
<1>8. Kept(q)
  BY <1>5 DEF Kept
<1> QED BY <1>1, <1>4, <1>6, <1>7, <1>8 DEF Walk

LEMMA BeginFirst ==
  ASSUME NEW job \in Jobs \cup {"scrub"}, NEW c \in CursorRec, Kept(c),
         Chained(c, IF PerShard(job) THEN {1} ELSE Shards, Prefix(job)),
         job \in {"export", "s3"} /\ c.at # 0 => c.at + 1 >= Lo \/ c.resident = {}
  PROVE  Walk(Begin(job, c)) /\ Kept(Begin(job, c))
<1>1. Begin(job, c) = [Begin(job, c) EXCEPT !.next = 1]
  BY DEF Begin, Idle
<1>2. Walk([Begin(job, c) EXCEPT !.next = 1]) /\ Kept([Begin(job, c) EXCEPT !.next = 1])
  BY BeginIs, Consts
<1> QED BY <1>1, <1>2

-----------------------------------------------------------------------------
(* What the steps of a walk make of its record. *)

\* One more disk has answered.
LEMMA MergedIs ==
  ASSUME Tables, NEW q \in WalkRec, Walk(q), Kept(q), q.pc = "list",
         NEW M, M = q.merged \cup List(q.next, Prefix(q.job), q.at, Limit(q.job))
  PROVE  /\ M \in SUBSET {k \in Prefix(q.job) : k > q.at} /\ M \in SUBSET Keys
         /\ \A d \in Shards, k \in Prefix(q.job) :
              /\ <<d, k>> \in q.resident /\ k > q.at
              /\ d = q.next \/ (~ PerShard(q.job) /\ d < q.next)
              => Covers(M, k, Limit(q.job))
<1>1. Listing(q) /\ q.next \in Shards /\ q.at \in 0 .. NK /\ Started(q)
  BY DEF Walk, Listing, WalkRec
<1>2. PICK job : job = q.job
  OBVIOUS
<1>3. PICK L : L = List(q.next, Prefix(job), q.at, Limit(job))
  OBVIOUS
<1>4. /\ L \in SUBSET {k \in Prefix(job) : k > q.at}
      /\ (job \in {"export", "s3"} /\ q.at # 0 => q.at + 1 >= Lo) =>
           \A k \in Has(q.next) : k \in Prefix(job) /\ k > q.at => Covers(L, k, Limit(job))
  BY <1>1, <1>3, ListIs DEF Tables
<1>5. Prefix(job) \in SUBSET Keys /\ Limit(job) \in Nat
  BY PrefixIs
<1>6. M = q.merged \cup L
  BY <1>2, <1>3
<1>7. q.merged \in SUBSET {k \in Prefix(job) : k > q.at} /\ (PerShard(job) => q.merged = {})
      /\ (~ PerShard(job) => \A d \in Shards, k \in Prefix(job) :
            d < q.next /\ <<d, k>> \in q.resident /\ k > q.at => Covers(q.merged, k, Limit(job)))
  BY <1>1, <1>2 DEF Listing
<1>8. M \in SUBSET {k \in Prefix(job) : k > q.at} /\ M \in SUBSET Keys /\ L \in SUBSET M /\ q.merged \in SUBSET M
  BY <1>4, <1>5, <1>6, <1>7
<1>9. ASSUME NEW d \in Shards, NEW k \in Prefix(job), <<d, k>> \in q.resident, k > q.at,
             d = q.next \/ (~ PerShard(job) /\ d < q.next)
      PROVE  Covers(M, k, Limit(job))
  <2>1. CASE d = q.next
    <3>1. k \in Has(q.next)
      BY <1>5, <1>9, <2>1 DEF Kept
    <3>2. job \in {"export", "s3"} /\ q.at # 0 => q.at + 1 >= Lo
      BY <1>1, <1>2, <1>9 DEF Started
    <3>3. Covers(L, k, Limit(job))
      BY <1>4, <1>9, <3>1, <3>2
    <3> QED BY <1>5, <1>8, <3>3, CoverMore
  <2>2. CASE ~ PerShard(job) /\ d < q.next
    <3>1. Covers(q.merged, k, Limit(job))
      BY <1>7, <1>9, <2>2
    <3> QED BY <1>5, <1>8, <3>1, CoverMore
  <2> QED BY <1>9, <2>1, <2>2
<1> QED BY <1>2, <1>8, <1>9

LEMMA NextDiskIs ==
  ASSUME Tables, NEW q \in WalkRec, Walk(q), Kept(q), q.pc = "list", ~ PerShard(q.job), q.next # N,
         NEW M, M = q.merged \cup List(q.next, Prefix(q.job), q.at, Limit(q.job)),
         NEW r, r = [q EXCEPT !.next = @ + 1, !.merged = M]
  PROVE  r \in WalkRec /\ Walk(r) /\ Kept(r)
<1>1. Listing(q) /\ q.next \in Shards /\ InPage(q)
  BY DEF Walk, Listing
<1>2. /\ M \in SUBSET {k \in Prefix(q.job) : k > q.at} /\ M \in SUBSET Keys
      /\ \A d \in Shards, k \in Prefix(q.job) :
           /\ <<d, k>> \in q.resident /\ k > q.at
           /\ d = q.next \/ (~ PerShard(q.job) /\ d < q.next)
           => Covers(M, k, Limit(q.job))
  BY MergedIs
<1>3. q.next + 1 \in Shards /\ q.next + 1 \in 0 .. N /\ q.next \in Nat
  BY <1>1, Consts DEF Shards
<1>4. /\ r.job = q.job /\ r.pc = "list" /\ r.at = q.at /\ r.next = q.next + 1 /\ r.merged = M /\ r.page = q.page /\ r.last = q.last
      /\ r.done = q.done /\ r.seen = q.seen /\ r.resident = q.resident /\ r.out = q.out
  BY DEF WalkRec
<1>5. r \in WalkRec
  BY <1>2, <1>3 DEF WalkRec
<1>6. InPage(r) /\ Visiting(r) /\ Saving(r) /\ Kept(r)
  BY <1>1, <1>4 DEF InPage, Visiting, Saving, Kept
<1>7. Chained(r, Scope(r), Prefix(r.job)) /\ Started(r)
  BY <1>1, <1>4 DEF Listing, Chained, Scope, Started
<1>8. ASSUME NEW d \in Shards, NEW k \in Prefix(r.job), d < r.next, <<d, k>> \in r.resident, k > r.at
      PROVE  Covers(r.merged, k, Limit(r.job))
  <2>1. d = q.next \/ d < q.next
    BY <1>3, <1>4, <1>8, Consts DEF Shards
  <2> QED BY <1>2, <1>4, <1>8, <2>1
<1>9. Listing(r)
  BY <1>1, <1>2, <1>3, <1>4, <1>7, <1>8 DEF Listing
<1> QED BY <1>5, <1>6, <1>9 DEF Walk

LEMMA PageIs ==
  ASSUME Tables, NEW q \in WalkRec, Walk(q), Kept(q), q.pc = "list", PerShard(q.job) \/ q.next = N,
         NEW M, M = q.merged \cup List(q.next, Prefix(q.job), q.at, Limit(q.job))
  PROVE  Paged(q, M) \in WalkRec /\ Walk(Paged(q, M)) /\ Kept(Paged(q, M))
<1>1. /\ Listing(q) /\ q.next \in Shards /\ InPage(q) /\ Chained(q, Scope(q), Prefix(q.job))
      /\ \A i \in 1 .. Len(q.out) : q.out[i] <= q.at
  BY DEF Walk, Listing
<1>2. /\ M \in SUBSET {k \in Prefix(q.job) : k > q.at} /\ M \in SUBSET Keys
      /\ \A d \in Shards, k \in Prefix(q.job) :
           /\ <<d, k>> \in q.resident /\ k > q.at
           /\ d = q.next \/ (~ PerShard(q.job) /\ d < q.next)
           => Covers(M, k, Limit(q.job))
  BY MergedIs
<1>3. PICK got : got = Smallest(M, Limit(q.job))
  OBVIOUS
<1>4. PICK K : K = IF q.job = "s3" THEN Smallest(got, Batch) ELSE got
  OBVIOUS
<1>5. K \in SUBSET Keys
  <2>1. Limit(q.job) \in Nat /\ Batch \in Nat
    BY PrefixIs, Consts
  <2>2. got \in SUBSET Keys
    BY <1>2, <1>3, <2>1, SmallestIs
  <2> QED BY <1>4, <2>1, <2>2, SmallestIs
<1>6. PICK keys : keys = Sorted(K, <)
  OBVIOUS
<1>7. OrderedList(keys, K, Less)
  BY <1>5, <1>6, SortedKeys
<1>8. PICK last : last = IF keys = << >> THEN 0 ELSE Last(keys)
  OBVIOUS
<1>9. PICK done \in BOOLEAN : done <=> Cardinality(got) < Limit(q.job)
  OBVIOUS
<1>10. PICK r : r = [q EXCEPT !.pc = "visit", !.merged = {}, !.page = keys, !.last = last, !.done = done]
  OBVIOUS
<1>11. Paged(q, M) = r
  <2>1. (Cardinality(got) < Limit(q.job)) = done
    BY <1>9
  <2> QED BY <1>3, <1>4, <1>6, <1>8, <1>10, <2>1, Zenon DEF Paged
<1>12. /\ keys \in Seq(Keys) /\ Len(keys) <= Batch
       /\ \A i \in 1 .. Len(keys) : keys[i] \in M /\ keys[i] <= last
       /\ \A i, j \in 1 .. Len(keys) : i < j => keys[i] < keys[j]
       /\ last \in 0 .. NK /\ (~ done => last \in M)
       /\ \A k \in Keys : Covers(M, k, Limit(q.job)) =>
            (\E i \in 1 .. Len(keys) : keys[i] = k) \/ (~ done /\ k > last)
  BY ONLY <1>2, <1>3, <1>4, <1>7, <1>8, <1>9, done \in BOOLEAN, PagedIs
<1>13. /\ r.job = q.job /\ r.pc = "visit" /\ r.at = q.at /\ r.next = q.next /\ r.page = keys /\ r.last = last
       /\ r.merged = {} /\ r.done = done /\ r.seen = q.seen /\ r.resident = q.resident /\ r.out = q.out
  BY <1>10 DEF WalkRec
<1>14. r \in WalkRec
  BY <1>10, <1>12 DEF WalkRec
<1>15. \A i \in 1 .. Len(keys) : keys[i] \in Prefix(q.job) /\ q.at < keys[i] /\ keys[i] \in Nat /\ q.at \in Nat
  <2>1. \A i \in 1 .. Len(keys) : keys[i] \in M
    BY <1>12
  <2>2. \A k \in M : k \in Prefix(q.job) /\ q.at < k /\ k \in Nat
    BY <1>2, Consts
  <2>3. q.at \in Nat
    BY DEF WalkRec
  <2> QED BY ONLY <2>1, <2>2, <2>3
<1>16. InPage(r)
  BY <1>1, <1>12, <1>13, <1>15 DEF InPage
<1>17. Listing(r) /\ Saving(r) /\ Kept(r)
  BY <1>13 DEF Listing, Saving, Kept
<1>18. ASSUME NEW d \in Scope(r), NEW k \in Prefix(r.job), <<d, k>> \in r.resident
       PROVE  k \in r.seen \/ (\E i \in 1 .. Len(r.page) : r.page[i] = k) \/ (~ r.done /\ k > r.last)
  <2>1. d \in Scope(q) /\ k \in Prefix(q.job) /\ <<d, k>> \in q.resident /\ d \in Shards /\ k \in Keys
    BY <1>1, <1>13, <1>18, PrefixIs DEF Scope
  <2>2. CASE k <= q.at
    BY <1>1, <1>13, <2>1, <2>2 DEF Chained
  <2>3. CASE k > q.at
    <3>1. d = q.next \/ (~ PerShard(q.job) /\ d < q.next)
      BY <2>1, Consts DEF Scope, Shards
    <3>2. Covers(M, k, Limit(q.job))
      BY <1>2, <2>1, <2>3, <3>1
    <3> QED BY <1>12, <1>13, <2>1, <3>2
  <2>4. k \in Nat /\ q.at \in Nat
    BY <2>1, Consts DEF WalkRec
  <2> QED BY <2>2, <2>3, <2>4
<1>19. ASSUME NEW i \in 1 .. Len(r.out)
       PROVE  (\A j \in 1 .. Len(r.page) : r.out[i] < r.page[j]) /\ (~ r.done => r.out[i] <= r.last)
  <2>1. r.out[i] \in Nat /\ r.out[i] <= q.at /\ q.at \in Nat
    <3>1. r.out \in Seq(Keys)
      BY <1>14 DEF WalkRec
    <3>2. r.out[i] \in Keys
      BY <3>1, ElementOfSeq
    <3>3. q.at \in Nat /\ r.out[i] \in Nat
      <4>1. q.at \in 0 .. NK
        BY DEF WalkRec
      <4>2. Keys \in SUBSET Nat
        BY Consts
      <4> QED BY ONLY <3>2, <4>1, <4>2
    <3>4. r.out[i] <= q.at
      BY <1>1, <1>13
    <3> QED BY <3>3, <3>4
  <2>2. \A j \in 1 .. Len(r.page) : r.out[i] < r.page[j]
    BY <1>13, <1>15, <2>1
  <2>3. ~ r.done => r.last > q.at /\ r.last \in Nat
    BY <1>2, <1>12, <1>13, Consts
  <2> QED BY <2>1, <2>2, <2>3
<1>20. Visiting(r)
  <2>1. ~ r.done => r.last \in Prefix(r.job)
    BY <1>2, <1>12, <1>13
  <2> QED BY ONLY <1>1, <1>13, <1>18, <1>19, <2>1 DEF Visiting
<1> QED BY <1>11, <1>14, <1>16, <1>17, <1>20 DEF Walk

\* A key is visited: it leaves the page, and an export or a listing names it.
LEMMA VisitIs ==
  ASSUME NEW q \in WalkRec, Walk(q), Kept(q), q.pc = "visit", q.page # << >>, NEW named \in BOOLEAN,
         NEW r, r = [q EXCEPT !.page = Tail(@), !.seen = @ \cup {Head(q.page)},
                              !.out = IF named THEN Append(@, Head(q.page)) ELSE @]
  PROVE  r \in WalkRec /\ Walk(r) /\ Kept(r)
<1>1. Visiting(q) /\ InPage(q) /\ q.page \in Seq(Keys) /\ q.out \in Seq(Keys) /\ q.seen \in SUBSET Keys
  BY DEF Walk, WalkRec
<1>2. PICK p \in Seq(Keys) : p = q.page
  BY <1>1
<1>3. PICK o \in Seq(Keys) : o = q.out
  BY <1>1
<1>4. p # << >> /\ Len(p) \in Nat /\ Len(p) > 0 /\ Len(o) \in Nat
  BY <1>2, EmptySeq
<1>5. PICK k : k = Head(p)
  OBVIOUS
<1>6. k = p[1] /\ k \in Keys /\ k \in Nat
  <2>1. k = p[1]
    BY <1>4, <1>5
  <2>2. p[1] \in Keys
    BY <1>4, ElementOfSeq
  <2> QED BY <2>1, <2>2, Consts
<1>7. PICK t \in Seq(Keys) : t = Tail(p)
  <2>1. Tail(p) \in Seq(Keys)
    BY <1>4
  <2> QED BY <2>1
<1>8. Len(t) = Len(p) - 1 /\ \A i \in 1 .. Len(t) : t[i] = p[i + 1]
  BY <1>4, <1>7
<1>9. PICK u \in Seq(Keys) : u = IF named THEN Append(o, k) ELSE o
  <2>1. Append(o, k) \in Seq(Keys)
    BY <1>6
  <2> QED BY <2>1
<1>10. \A i \in 1 .. Len(u) : (i \in 1 .. Len(o) /\ u[i] = o[i]) \/ (named /\ i = Len(o) + 1 /\ u[i] = k)
  <2>1. CASE named
    <3>1. u = Append(o, k)
      BY <1>9, <2>1
    <3>2. Len(u) = Len(o) + 1 /\ u[Len(o) + 1] = k /\ \A i \in 1 .. Len(o) : u[i] = o[i]
      BY <3>1, <1>4
    <3> QED BY <3>2, <1>4, <2>1
  <2>2. CASE ~ named
    BY <1>9, <2>2
  <2> QED BY <2>1, <2>2
<1>11. r = [q EXCEPT !.page = t, !.seen = q.seen \cup {k}, !.out = u]
  BY <1>2, <1>3, <1>5, <1>7, <1>9 DEF WalkRec
<1>12. /\ r.job = q.job /\ r.pc = "visit" /\ r.at = q.at /\ r.next = q.next /\ r.page = t /\ r.last = q.last
       /\ r.done = q.done /\ r.merged = q.merged /\ r.seen = q.seen \cup {k} /\ r.resident = q.resident /\ r.out = u
  BY <1>11 DEF WalkRec
<1>13. r \in WalkRec
  <2>1. q.seen \cup {k} \in SUBSET Keys
    BY <1>1, <1>6
  <2> QED BY <1>11, <2>1 DEF WalkRec
<1>14. /\ \A i \in 1 .. Len(p) : q.at < p[i] /\ p[i] <= q.last /\ p[i] \in Keys /\ p[i] \in Nat
       /\ \A i, j \in 1 .. Len(p) : i < j => p[i] < p[j]
       /\ \A i \in 1 .. Len(o) : o[i] \in Nat
       /\ \A i, j \in 1 .. Len(o) : i < j => o[i] < o[j]
  <2>1. \A i \in 1 .. Len(p) : p[i] \in Keys /\ p[i] \in Nat
    BY ElementOfSeq, Consts
  <2>2. \A i \in 1 .. Len(o) : o[i] \in Nat
    BY ElementOfSeq, Consts
  <2> QED BY <1>1, <1>2, <1>3, <2>1, <2>2 DEF InPage
<1>15. \A i \in 1 .. Len(o) : (\A j \in 1 .. Len(p) : o[i] < p[j]) /\ (~ q.done => o[i] <= q.last)
  BY <1>1, <1>2, <1>3 DEF Visiting
<1>16. \A i \in 1 .. Len(t) : i + 1 \in 1 .. Len(p) /\ 1 \in 1 .. Len(p) /\ 1 < i + 1
  BY <1>4, <1>8
<1>17. InPage(r)
  <2>1. Len(t) <= Batch
    BY <1>1, <1>2, <1>4, <1>8, Consts DEF InPage
  <2>2. \A i \in 1 .. Len(t) : q.at < t[i] /\ t[i] <= q.last
    BY <1>8, <1>14, <1>16
  <2>3. \A i, j \in 1 .. Len(t) : i < j => t[i] < t[j]
    <3>1. ASSUME NEW i \in 1 .. Len(t), NEW j \in 1 .. Len(t), i < j PROVE t[i] < t[j]
      <4>1. i + 1 < j + 1 /\ i + 1 \in 1 .. Len(p) /\ j + 1 \in 1 .. Len(p)
        BY <1>16, <3>1
      <4> QED BY <1>8, <1>14, <4>1
    <3> QED BY <3>1
  <2>4. ASSUME NEW i \in 1 .. Len(u), NEW j \in 1 .. Len(u), i < j PROVE u[i] < u[j]
    <3>1. i \in 1 .. Len(o) /\ u[i] = o[i]
      BY <1>4, <1>10, <2>4
    <3>2. CASE j \in 1 .. Len(o) /\ u[j] = o[j]
      BY <1>14, <2>4, <3>1, <3>2
    <3>3. CASE u[j] = k
      <4>1. o[i] < p[1]
        <5>1. 1 \in 1 .. Len(p)
          BY <1>4
        <5> QED BY <1>15, <3>1, <5>1
      <4> QED BY <1>6, <3>1, <3>3, <4>1
    <3> QED BY <1>10, <3>2, <3>3
  <2> QED BY <1>12, <2>1, <2>2, <2>3, <2>4 DEF InPage
<1>18. ASSUME NEW d \in Scope(r), NEW x \in Prefix(r.job), <<d, x>> \in r.resident
       PROVE  x \in r.seen \/ (\E i \in 1 .. Len(r.page) : r.page[i] = x) \/ (~ r.done /\ x > r.last)
  <2>1. x \in q.seen \/ (\E i \in 1 .. Len(p) : p[i] = x) \/ (~ q.done /\ x > q.last)
    BY <1>1, <1>2, <1>12, <1>18 DEF Visiting, Scope
  <2>2. ASSUME NEW i \in 1 .. Len(p), p[i] = x PROVE x = k \/ \E j \in 1 .. Len(t) : t[j] = x
    <3>1. CASE i = 1
      BY <1>6, <2>2, <3>1
    <3>2. CASE i # 1
      <4>1. i - 1 \in 1 .. Len(t) /\ (i - 1) + 1 = i
        BY <1>4, <1>8, <3>2
      <4> QED BY <1>8, <2>2, <4>1
    <3> QED BY <3>1, <3>2
  <2> QED BY <1>12, <2>1, <2>2
<1>19. ASSUME NEW i \in 1 .. Len(u)
       PROVE  (\A j \in 1 .. Len(t) : u[i] < t[j]) /\ (~ q.done => u[i] <= q.last)
  <2>1. CASE i \in 1 .. Len(o) /\ u[i] = o[i]
    BY <1>8, <1>15, <1>16, <2>1
  <2>2. CASE u[i] = k
    BY <1>4, <1>6, <1>8, <1>14, <1>16, <2>2
  <2> QED BY <1>10, <2>1, <2>2
<1>20. Visiting(r)
  BY <1>1, <1>12, <1>18, <1>19 DEF Visiting
<1>21. Listing(r) /\ Saving(r) /\ Kept(r)
  BY <1>12 DEF Listing, Saving, Kept
<1> QED BY <1>13, <1>17, <1>20, <1>21 DEF Walk

\* A page is worked off: everything up to its last key has been visited.
LEMMA OverIs ==
  ASSUME NEW q \in WalkRec, Walk(q), Kept(q), PageOver(q)
  PROVE  /\ \A d \in Scope(q), k \in Prefix(q.job) : <<d, k>> \in q.resident => k \in q.seen \/ (~ q.done /\ k > q.last)
         /\ ~ q.done => Chained([at |-> q.last, seen |-> q.seen, resident |-> q.resident], Scope(q), Prefix(q.job))
         /\ q.next \in Shards
<1>1. Visiting(q) /\ q.pc = "visit" /\ q.page = << >> /\ Len(q.page) = 0
  BY EmptySeq DEF Walk, PageOver
<1>2. \A d \in Scope(q), k \in Prefix(q.job) : <<d, k>> \in q.resident => k \in q.seen \/ (~ q.done /\ k > q.last)
  BY <1>1 DEF Visiting
<1>3. ASSUME ~ q.done PROVE Chained([at |-> q.last, seen |-> q.seen, resident |-> q.resident], Scope(q), Prefix(q.job))
  <2>1. PICK c : c = [at |-> q.last, seen |-> q.seen, resident |-> q.resident]
    OBVIOUS
  <2>2. c.at = q.last /\ c.seen = q.seen /\ c.resident = q.resident
    BY <2>1
  <2>3. \A k \in Prefix(q.job) : k <= q.last => ~ (k > q.last)
    <3>1. ASSUME NEW k \in Prefix(q.job) PROVE k \in Nat
      BY PrefixIs, Consts
    <3>2. q.last \in Nat
      BY DEF WalkRec
    <3> QED BY <3>1, <3>2
  <2>4. Chained(c, Scope(q), Prefix(q.job))
    BY <1>2, <2>2, <2>3 DEF Chained
  <2> QED BY <2>1, <2>4
<1> QED BY <1>1, <1>2, <1>3 DEF Visiting

LEMMA MarkIs ==
  ASSUME NEW q \in WalkRec, Walk(q), Kept(q), PageOver(q), q.job \notin {"export", "s3"}
  PROVE  Mark(q) \in CursorRec /\ Chained(Mark(q), Scope(q), Keys) /\ Kept(Mark(q))
<1>1. CASE q.done
  BY <1>1, NoCursorIs DEF Mark
<1>2. CASE ~ q.done
  <2>1. PICK c : c = [at |-> q.last, seen |-> q.seen, resident |-> q.resident]
    OBVIOUS
  <2>2. Mark(q) = c /\ c \in CursorRec /\ c.resident = q.resident
    BY <1>2, <2>1 DEF Mark, WalkRec, CursorRec
  <2>3. Chained(c, Scope(q), Keys)
    BY <1>2, <2>1, OverIs, PrefixIs
  <2>4. Kept(c)
    BY <2>2 DEF Kept
  <2> QED BY <2>2, <2>3, <2>4
<1> QED BY <1>1, <1>2

LEMMA NextPageIs ==
  ASSUME NEW q \in WalkRec, Walk(q), Kept(q), PageOver(q), ~ q.done, ~ PerShard(q.job)
  PROVE  NextPage(q) \in WalkRec /\ Walk(NextPage(q)) /\ Kept(NextPage(q))
<1>1. PICK r : r = NextPage(q)
  OBVIOUS
<1>2. r = [q EXCEPT !.pc = "list", !.at = q.last, !.next = 1, !.page = << >>]
  BY <1>1 DEF NextPage
<1>3. << >> \in Seq(Keys) /\ Len(<< >>) = 0 /\ 1 \in 0 .. N /\ 1 \in Shards
  BY EmptySeq, Consts
<1>4. r \in WalkRec
  BY <1>2, <1>3 DEF WalkRec
<1>5. /\ r.job = q.job /\ r.pc = "list" /\ r.at = q.last /\ r.next = 1 /\ r.merged = q.merged /\ r.page = << >>
      /\ r.seen = q.seen /\ r.resident = q.resident /\ r.out = q.out
  BY <1>2 DEF WalkRec
<1>6. Visiting(q) /\ InPage(q) /\ q.pc = "visit" /\ q.last \in Prefix(q.job) /\ q.merged = {}
  BY DEF Walk, Visiting, PageOver
<1>7. InPage(r) /\ Visiting(r) /\ Saving(r) /\ Kept(r)
  <2>1. Len(r.page) = 0
    BY <1>3, <1>5
  <2> QED BY <1>5, <1>6, <2>1, Consts DEF InPage, Visiting, Saving, Kept
<1>8. Chained(r, Scope(r), Prefix(r.job))
  <2>1. PICK c : c = [at |-> q.last, seen |-> q.seen, resident |-> q.resident]
    OBVIOUS
  <2>2. Chained(c, Scope(q), Prefix(q.job)) /\ c.at = r.at /\ c.seen = r.seen /\ c.resident = r.resident
    BY <1>5, <2>1, OverIs
  <2>3. Scope(r) = Scope(q)
    BY <1>5 DEF Scope
  <2> QED BY <1>5, <2>2, <2>3 DEF Chained
<1>9. Started(r)
  <2>1. q.job \in {"export", "s3"} => q.last + 1 >= Lo
    <3>1. q.job \in {"export", "s3"} => q.last \in Lo .. Hi
      BY <1>6, PrefixIs
    <3>2. Lo \in Nat /\ Hi \in Nat
      BY Consts
    <3> QED BY <3>1, <3>2
  <2> QED BY <1>5, <2>1 DEF Started
<1>10. Listing(r)
  <2>1. ~ PerShard(r.job) /\ \A d \in Shards : ~ (d < r.next)
    BY <1>5, Consts DEF Shards
  <2>2. \A i \in 1 .. Len(r.out) : r.out[i] <= r.at
    BY <1>5, <1>6 DEF Visiting
  <2> QED BY <1>3, <1>5, <1>6, <1>8, <1>9, <2>1, <2>2 DEF Listing
<1> QED BY <1>1, <1>4, <1>7, <1>10 DEF Walk

-----------------------------------------------------------------------------
(* The steps of a walk. *)

LEMMA WalkMoves ==
  ASSUME Walks, UNCHANGED <<addr, inline>>, NEW w \in Walkers, NEW r \in WalkRec, Walk(r), Kept(r),
         walker' = [walker EXCEPT ![w] = r]
  PROVE  Walks'
<1>1. walker' \in [Walkers -> WalkRec] /\ \A v \in Walkers : walker'[v] = IF v = w THEN r ELSE walker[v]
  BY DEF Walks
<1>2. \A s : Has(s)' = Has(s)
  BY DEF Has
<1>3. ASSUME NEW v \in Walkers PROVE Walk(walker[v])' /\ Kept(walker[v])'
  <2>1. PICK x : x = walker'[v]
    OBVIOUS
  <2>2. Walk(x) /\ Kept(x)
    BY <1>1, <2>1 DEF Walks
  <2> QED BY <1>2, <2>1, <2>2 DEF Kept
<1> QED BY <1>1, <1>3 DEF Walks

LEMMA TablesStay == ASSUME Tables, UNCHANGED <<addr, inline>> PROVE Tables'
BY DEF Tables

LEMMA MarksStay == ASSUME Marks, UNCHANGED <<addr, inline, cursor, mem>> PROVE Marks'
BY DEF Marks, Kept, Has, Chained, CursorScope

\* save_cursor: a cursor is replaced by one that is kept and chained, or not.
LEMMA SaveIs ==
  ASSUME Marks, UNCHANGED <<addr, inline, mem>>, NEW s \in Shards, NEW name \in Cursors, NEW c \in CursorRec,
         Chained(c, CursorScope(s, name), Keys), Kept(c), Save(s, name, c)
  PROVE  Marks'
<1>1. cursor' = cursor \/ cursor' = [cursor EXCEPT ![s][name] = c]
  BY DEF Save
<1>2. CASE cursor' = cursor
  BY <1>2, MarksStay
<1>3. CASE cursor' = [cursor EXCEPT ![s][name] = c]
  <2>1. cursor \in [Shards -> [Cursors -> CursorRec]]
    BY DEF Marks
  <2>2. /\ cursor' \in [Shards -> [Cursors -> CursorRec]]
        /\ \A t \in Shards, n \in Cursors : cursor'[t][n] = IF t = s /\ n = name THEN c ELSE cursor[t][n]
    BY <1>3, <2>1
  <2>3. ASSUME NEW t \in Shards, NEW n \in Cursors
        PROVE  Chained(cursor'[t][n], CursorScope(t, n), Keys) /\ Kept(cursor'[t][n])
    <3>1. CASE t = s /\ n = name
      BY <2>2, <3>1
    <3>2. CASE ~ (t = s /\ n = name)
      <4>1. cursor'[t][n] = cursor[t][n]
        BY <2>2, <3>2
      <4> QED BY <4>1 DEF Marks
    <3> QED BY <3>1, <3>2
  <2>4. \A t : Has(t)' = Has(t)
    BY DEF Has
  <2>5. \A t \in Shards, n \in Cursors : Chained(cursor[t][n], CursorScope(t, n), Keys)' /\ Kept(cursor[t][n])'
    BY <2>3, <2>4 DEF Kept, CursorScope
  <2>6. /\ mem' \in [Shards -> CursorRec]
        /\ \A t \in Shards : Chained(mem[t], {t}, Keys)' /\ Kept(mem[t])'
    BY <2>4 DEF Marks, Kept
  <2> QED BY <2>2, <2>5, <2>6 DEF Marks
<1> QED BY <1>1, <1>2, <1>3

LEMMA ScrubIs ==
  ASSUME Tables, Marks, NEW s \in Shards
  PROVE  Chain(mem[s]) \in CursorRec /\ Chained(Chain(mem[s]), {s}, Keys) /\ Kept(Chain(mem[s]))
<1>1. mem[s] \in CursorRec /\ Chained(mem[s], {s}, Keys) /\ Kept(mem[s])
  BY DEF Marks
<1> QED BY <1>1, ChainIs

LEMMA FreshStart ==
  ASSUME Tables, NEW D
  PROVE  Fresh(0) \in CursorRec /\ Fresh(0).at = 0 /\ Kept(Fresh(0)) /\ \A job : Chained(Fresh(0), D, Prefix(job))
<1>1. 0 \in 0 .. NK /\ \A job : Prefix(job) \in SUBSET Keys
  BY Consts, PrefixIs
<1> QED BY <1>1, FreshIs

LEMMA NextScrubIs ==
  ASSUME Tables, Marks, NEW q \in WalkRec, q.next \in Shards, PerShard(q.job)
  PROVE  NextScrub(q) \in WalkRec /\ Walk(NextScrub(q)) /\ Kept(NextScrub(q))
<1>1. CASE q.next = N
  BY <1>1, IdleIs DEF NextScrub, Walk
<1>2. CASE q.next # N
  <2>1. PICK n \in Shards : n = q.next + 1
    BY <1>2, Consts DEF Shards
  <2>2. PICK c : c = IF q.job = "scrub" THEN Chain(mem[n]) ELSE Fresh(0)
    OBVIOUS
  <2>3. NextScrub(q) = [Begin(q.job, c) EXCEPT !.next = n]
    BY <1>2, <2>1, <2>2, Zenon DEF NextScrub
  <2>4. c \in CursorRec /\ Chained(c, {n}, Keys) /\ Kept(c)
    <3>1. Prefix("scrub") = Keys
      BY PrefixIs
    <3> QED BY <2>2, <3>1, ScrubIs, FreshStart
  <2>5. Prefix(q.job) = Keys /\ q.job \in Jobs \cup {"scrub"}
    BY PrefixIs, PassScope DEF Jobs
  <2>6. Walk([Begin(q.job, c) EXCEPT !.next = n]) /\ Kept([Begin(q.job, c) EXCEPT !.next = n])
    BY <2>4, <2>5, BeginIs, PassScope
  <2> QED BY <2>3, <2>6 DEF Walk
<1> QED BY <1>1, <1>2

\* What each step makes of the walk that takes it.
Becomes(w, r) == r \in WalkRec /\ Walk(r) /\ Kept(r) /\ walker' = [walker EXCEPT ![w] = r]

LEMMA StartsAt ==
  ASSUME Tables, Marks, NEW w \in Walkers,
         StartResilver(w) \/ StartMigrate(w) \/ StartRunScrub(w) \/ StartExport(w) \/ StartS3(w)
         \/ (StartScrubLoop /\ w = "scrub_loop")
  PROVE  \E r : Becomes(w, r)
<1> DEFINE B(job, c) == walker' = [walker EXCEPT ![w] = Begin(job, c)]
<1>1. ASSUME NEW job \in Jobs \cup {"scrub"}, NEW c \in CursorRec, Kept(c),
             Chained(c, IF PerShard(job) THEN {1} ELSE Shards, Prefix(job)),
             job \in {"export", "s3"} /\ c.at # 0 => c.at + 1 >= Lo \/ c.resident = {}, B(job, c)
      PROVE  \E r : Becomes(w, r)
  <2>1. Walk(Begin(job, c)) /\ Kept(Begin(job, c))
    BY <1>1, BeginFirst
  <2>2. Becomes(w, Begin(job, c))
    BY <1>1, <2>1 DEF Becomes, Walk
  <2> QED BY <2>2
<1>2. ASSUME NEW job \in Jobs \cup {"scrub"}, B(job, Fresh(0))
      PROVE  \E r : Becomes(w, r)
  <2>1. Fresh(0) \in CursorRec /\ Fresh(0).at = 0 /\ Kept(Fresh(0)) /\ Chained(Fresh(0), IF PerShard(job) THEN {1} ELSE Shards, Prefix(job))
    BY FreshStart
  <2> QED BY <1>1, <1>2, <2>1
<1>3. ASSUME NEW job \in {"resilver", "migrate"}, B(job, Chain(cursor[1][job]))
      PROVE  \E r : Becomes(w, r)
  <2>1. cursor[1][job] \in CursorRec /\ Chained(cursor[1][job], Shards, Keys) /\ Kept(cursor[1][job])
    BY <1>3, Consts DEF Marks, CursorScope, Cursors
  <2>2. Chain(cursor[1][job]) \in CursorRec /\ Chained(Chain(cursor[1][job]), Shards, Keys) /\ Kept(Chain(cursor[1][job]))
    BY <2>1, ChainIs
  <2>3. ~ PerShard(job) /\ Prefix(job) = Keys /\ job \in Jobs
    BY PrefixIs, PassScope DEF Jobs
  <2> QED BY <1>1, <1>3, <2>2, <2>3
<1>4. CASE StartResilver(w)
  BY <1>3, <1>4 DEF StartResilver
<1>5. CASE StartMigrate(w)
  <2>1. B("migrate", Chain(cursor[1]["migrate"])) \/ B("migrate", Fresh(0))
    BY <1>5, Zenon DEF StartMigrate
  <2> QED BY <2>1, <1>2, <1>3 DEF Jobs
<1>6. CASE StartRunScrub(w)
  BY <1>2, <1>6 DEF StartRunScrub, Jobs
<1>7. CASE StartExport(w)
  BY <1>2, <1>7 DEF StartExport, Jobs
<1>8. CASE StartS3(w)
  <2>1. PICK a \in 0 .. NK : B("s3", FromToken(a))
    BY <1>8 DEF StartS3
  <2>2. PICK f \in CursorRec : f = Fresh(a) /\ f.at = a /\ f.seen = {} /\ Kept(f)
    BY FreshIs
  <2>3. PICK c : c = FromToken(a)
    OBVIOUS
  <2>4. c = [f EXCEPT !.resident = {p \in f.resident : p[2] > a /\ (a = 0 \/ a + 1 >= Lo)}]
    BY <2>2, <2>3 DEF FromToken, CursorRec
  <2>5. c \in CursorRec /\ c.at = a /\ c.resident = {p \in f.resident : p[2] > a /\ (a = 0 \/ a + 1 >= Lo)}
    BY <2>2, <2>4 DEF CursorRec
  <2>6. Kept(c)
    BY <2>2, <2>5 DEF Kept
  <2>7. Chained(c, Shards, Prefix("s3"))
    <3>1. ASSUME NEW d \in Shards, NEW k \in Prefix("s3"), <<d, k>> \in c.resident, k <= c.at PROVE FALSE
      <4>1. k > a /\ k <= a
        BY <2>5, <3>1
      <4>2. k \in Nat /\ a \in Nat
        BY PrefixIs, Consts
      <4> QED BY <4>1, <4>2
    <3> QED BY <3>1 DEF Chained
  <2>8. c.at # 0 => c.at + 1 >= Lo \/ c.resident = {}
    BY <2>5
  <2> QED BY <1>1, <2>1, <2>3, <2>5, <2>6, <2>7, <2>8, PassScope DEF Jobs
<1>9. CASE StartScrubLoop /\ w = "scrub_loop"
  <2>1. B("scrub", Chain(mem[1]))
    BY <1>9 DEF StartScrubLoop
  <2>2. PerShard("scrub") /\ Prefix("scrub") = Keys
    BY PrefixIs, PassScope
  <2>3. Chain(mem[1]) \in CursorRec /\ Chained(Chain(mem[1]), {1}, Keys) /\ Kept(Chain(mem[1]))
    BY ScrubIs, Consts
  <2> QED BY <1>1, <2>1, <2>2, <2>3
<1> QED BY <1>4, <1>5, <1>6, <1>7, <1>8, <1>9

LEMMA GoesOn ==
  ASSUME Tables, Marks, Walks, NEW w \in Walkers,
         ListShard(w) \/ ListFails(w) \/ Visit(w) \/ ReadFails(w) \/ EndPage(w)
  PROVE  \E r : Becomes(w, r)
<1>1. PICK q : q = walker[w]
  OBVIOUS
<1>2. q \in WalkRec /\ Walk(q) /\ Kept(q)
  BY <1>1 DEF Walks
<1>3. Idle \in WalkRec /\ Walk(Idle) /\ Kept(Idle)
  BY IdleIs DEF Walk
<1>4. CASE ListShard(w)
  <2>1. PICK M : M = q.merged \cup List(q.next, Prefix(q.job), q.at, Limit(q.job))
    OBVIOUS
  <2>2. /\ q.pc = "list"
        /\ walker' = [walker EXCEPT ![w] =
             IF PerShard(q.job) \/ q.next = N THEN Paged(q, M) ELSE [q EXCEPT !.next = @ + 1, !.merged = M]]
    BY <1>1, <1>4, <2>1, Zenon DEF ListShard
  <2>3. CASE PerShard(q.job) \/ q.next = N
    <3>1. Paged(q, M) \in WalkRec /\ Walk(Paged(q, M)) /\ Kept(Paged(q, M))
      BY <1>2, <2>1, <2>2, <2>3, PageIs
    <3>2. walker' = [walker EXCEPT ![w] = Paged(q, M)]
      BY <2>2, <2>3
    <3> QED BY <3>1, <3>2, Zenon DEF Becomes
  <2>4. CASE ~ (PerShard(q.job) \/ q.next = N)
    <3>1. PICK r : r = [q EXCEPT !.next = @ + 1, !.merged = M]
      OBVIOUS
    <3>2. r \in WalkRec /\ Walk(r) /\ Kept(r)
      BY <1>2, <2>1, <2>2, <2>4, <3>1, NextDiskIs
    <3>3. walker' = [walker EXCEPT ![w] = r]
      BY <2>2, <2>4, <3>1
    <3> QED BY <3>2, <3>3, Zenon DEF Becomes
  <2> QED BY <2>3, <2>4
<1>5. CASE ListFails(w)
  <2>1. q.pc = "list" /\ walker' = [walker EXCEPT ![w] = After(q)]
    BY <1>1, <1>5 DEF ListFails
  <2>2. q.next \in Shards
    BY <1>2, <2>1 DEF Walk, Listing
  <2>3. After(q) \in WalkRec /\ Walk(After(q)) /\ Kept(After(q))
    BY <1>2, <1>3, <2>2, NextScrubIs DEF After
  <2> QED BY <2>1, <2>3, Zenon DEF Becomes
<1>6. CASE Visit(w)
  <2>1. PICK named \in BOOLEAN :
          named <=> (q.job = "s3" \/ (q.job = "export" /\ \E s \in Shards : Head(q.page) \in Has(s)))
    OBVIOUS
  <2>2. PICK r : r = [q EXCEPT !.page = Tail(@), !.seen = @ \cup {Head(q.page)},
                               !.out = IF named THEN Append(@, Head(q.page)) ELSE @]
    OBVIOUS
  <2>3. q.pc = "visit" /\ q.page # << >> /\ walker' = [walker EXCEPT ![w] = r]
    BY <1>1, <1>6, <2>1, <2>2 DEF Visit
  <2>4. r \in WalkRec /\ Walk(r) /\ Kept(r)
    BY <1>2, <2>2, <2>3, VisitIs
  <2> QED BY <2>3, <2>4, Zenon DEF Becomes
<1>7. CASE ReadFails(w)
  BY <1>3, <1>7, Zenon DEF ReadFails, Becomes
<1>8. CASE EndPage(w)
  <2>1. /\ PageOver(q) /\ q.job \in {"run_scrub", "export", "s3"}
        /\ walker' = [walker EXCEPT ![w] = IF q.job = "run_scrub" THEN NextScrub(q) ELSE IF q.done THEN Idle ELSE NextPage(q)]
    BY <1>1, <1>8 DEF EndPage
  <2>2. CASE q.job = "run_scrub"
    <3>1. PerShard(q.job) /\ q.next \in Shards
      BY <1>2, <2>1, <2>2, OverIs, PassScope
    <3>2. NextScrub(q) \in WalkRec /\ Walk(NextScrub(q)) /\ Kept(NextScrub(q))
      BY <1>2, <3>1, NextScrubIs
    <3>3. walker' = [walker EXCEPT ![w] = NextScrub(q)]
      BY <2>1, <2>2
    <3> QED BY <3>2, <3>3, Zenon DEF Becomes
  <2>3. CASE q.job # "run_scrub" /\ q.done
    <3>1. walker' = [walker EXCEPT ![w] = Idle]
      BY <2>1, <2>3
    <3> QED BY <1>3, <3>1, Zenon DEF Becomes
  <2>4. CASE q.job # "run_scrub" /\ ~ q.done
    <3>1. ~ PerShard(q.job)
      BY <2>1, <2>4, PassScope
    <3>2. NextPage(q) \in WalkRec /\ Walk(NextPage(q)) /\ Kept(NextPage(q))
      BY <1>2, <2>1, <2>4, <3>1, NextPageIs
    <3>3. walker' = [walker EXCEPT ![w] = NextPage(q)]
      BY <2>1, <2>4
    <3> QED BY <3>2, <3>3, Zenon DEF Becomes
  <2> QED BY <2>2, <2>3, <2>4
<1> QED BY <1>4, <1>5, <1>6, <1>7, <1>8

\* A page of a walk with a cursor is closed.
LEMMA ClosesPage ==
  ASSUME Tables, Marks, Walks, NEW w \in Walkers,
         EndResilverPage(w) \/ EndMigrateStep(w) \/ EndScrubPage(w) \/ SaveScrub(w)
  PROVE  Marks' /\ \E r : Becomes(w, r)
<1>1. PICK q : q = walker[w]
  OBVIOUS
<1>2. q \in WalkRec /\ Walk(q) /\ Kept(q)
  BY <1>1 DEF Walks
<1>3. Idle \in WalkRec /\ Walk(Idle) /\ Kept(Idle)
  BY IdleIs DEF Walk
<1>4. ASSUME NEW job \in {"resilver", "migrate"}, PageOver(q), q.job = job
      PROVE  Mark(q) \in CursorRec /\ Chained(Mark(q), CursorScope(1, job), Keys) /\ Kept(Mark(q))
  <2>1. Scope(q) = CursorScope(1, job)
    BY <1>4, PassScope DEF Scope, CursorScope
  <2> QED BY <1>2, <1>4, <2>1, MarkIs
<1>5. CASE EndResilverPage(w)
  <2>1. /\ PageOver(q) /\ q.job = "resilver" /\ Save(1, "resilver", Mark(q)) /\ UNCHANGED <<addr, inline, mem>>
        /\ walker' = [walker EXCEPT ![w] = IF q.done THEN Idle ELSE NextPage(q)]
    BY <1>1, <1>5 DEF EndResilverPage
  <2>2. Marks'
    BY <1>4, <2>1, SaveIs, Consts DEF Cursors
  <2>3. CASE q.done
    <3>1. walker' = [walker EXCEPT ![w] = Idle]
      BY <2>1, <2>3
    <3>2. Becomes(w, Idle)
      BY <1>3, <3>1, Zenon DEF Becomes
    <3> QED BY <2>2, <3>2
  <2>4. CASE ~ q.done
    <3>1. ~ PerShard(q.job)
      BY <2>1, PassScope
    <3>2. NextPage(q) \in WalkRec /\ Walk(NextPage(q)) /\ Kept(NextPage(q))
      BY <1>2, <2>1, <2>4, <3>1, NextPageIs
    <3>3. walker' = [walker EXCEPT ![w] = NextPage(q)]
      BY <2>1, <2>4
    <3>4. Becomes(w, NextPage(q))
      BY <3>2, <3>3, Zenon DEF Becomes
    <3> QED BY <2>2, <3>4
  <2> QED BY <2>3, <2>4
<1>6. CASE EndMigrateStep(w)
  <2>1. /\ PageOver(q) /\ q.job = "migrate" /\ Save(1, "migrate", Mark(q)) /\ UNCHANGED <<addr, inline, mem>>
        /\ walker' = [walker EXCEPT ![w] = Idle]
    BY <1>1, <1>6 DEF EndMigrateStep
  <2>2. Marks'
    BY <1>4, <2>1, SaveIs, Consts DEF Cursors
  <2>3. Becomes(w, Idle)
    BY <1>3, <2>1, Zenon DEF Becomes
  <2> QED BY <2>2, <2>3
<1>7. CASE EndScrubPage(w)
  <2>1. /\ PageOver(q) /\ q.job = "scrub" /\ mem' = [mem EXCEPT ![q.next] = Mark(q)] /\ UNCHANGED <<addr, inline, cursor>>
        /\ walker' = [walker EXCEPT ![w].pc = "save"]
    BY <1>1, <1>7 DEF EndScrubPage
  <2>2. q.next \in Shards /\ Scope(q) = {q.next}
    BY <1>2, <2>1, OverIs, PassScope DEF Scope
  <2>3. PICK c \in CursorRec : c = Mark(q) /\ Chained(c, {q.next}, Keys) /\ Kept(c)
    BY <1>2, <2>1, <2>2, MarkIs
  <2>4. \A s : Has(s)' = Has(s)
    BY <2>1 DEF Has
  <2>5. Marks'
    <3>1. mem' \in [Shards -> CursorRec] /\ \A s \in Shards : mem'[s] = IF s = q.next THEN c ELSE mem[s]
      BY <2>1, <2>2, <2>3 DEF Marks
    <3>2. ASSUME NEW s \in Shards PROVE Chained(mem'[s], {s}, Keys) /\ Kept(mem'[s])
      BY <2>2, <2>3, <3>1 DEF Marks
    <3>3. \A s \in Shards : Chained(mem[s], {s}, Keys)' /\ Kept(mem[s])'
      BY <2>4, <3>2 DEF Kept
    <3>4. /\ cursor' \in [Shards -> [Cursors -> CursorRec]]
          /\ \A s \in Shards, n \in Cursors : Chained(cursor[s][n], CursorScope(s, n), Keys)' /\ Kept(cursor[s][n])'
      BY <2>1, <2>4 DEF Marks, Kept, CursorScope
    <3> QED BY <3>1, <3>3, <3>4 DEF Marks
  <2>6. PICK r : r = [q EXCEPT !.pc = "save"]
    OBVIOUS
  <2>7. /\ r.job = q.job /\ r.pc = "save" /\ r.at = q.at /\ r.next = q.next /\ r.page = q.page /\ r.last = q.last
        /\ r.out = q.out /\ r.resident = q.resident /\ r \in WalkRec
    BY <1>2, <2>6 DEF WalkRec
  <2>8. Walk(r) /\ Kept(r)
    BY <1>2, <2>1, <2>2, <2>7 DEF Walk, InPage, Listing, Visiting, Saving, Kept
  <2>9. walker' = [walker EXCEPT ![w] = r]
    BY <1>1, <2>1, <2>6
  <2>10. Becomes(w, r)
    BY <2>7, <2>8, <2>9 DEF Becomes
  <2> QED BY <2>5, <2>10
<1>8. CASE SaveScrub(w)
  <2>1. /\ q.pc = "save" /\ Save(q.next, "scrub", mem[q.next]) /\ UNCHANGED <<addr, inline, mem>>
        /\ walker' = [walker EXCEPT ![w] = NextScrub(q)]
    BY <1>1, <1>8 DEF SaveScrub
  <2>2. q.job = "scrub" /\ q.next \in Shards /\ PerShard(q.job)
    BY <1>2, <2>1, PassScope DEF Walk, Saving
  <2>3. mem[q.next] \in CursorRec /\ Chained(mem[q.next], {q.next}, Keys) /\ Kept(mem[q.next])
    BY <2>2 DEF Marks
  <2>4. CursorScope(q.next, "scrub") = {q.next} /\ "scrub" \in Cursors
    BY DEF CursorScope, Cursors
  <2>5. Marks'
    BY <2>1, <2>2, <2>3, <2>4, SaveIs
  <2>6. NextScrub(q) \in WalkRec /\ Walk(NextScrub(q)) /\ Kept(NextScrub(q))
    BY <1>2, <2>2, NextScrubIs
  <2>7. Becomes(w, NextScrub(q))
    BY <2>1, <2>6, Zenon DEF Becomes
  <2> QED BY <2>5, <2>7
<1> QED BY <1>5, <1>6, <1>7, <1>8

-----------------------------------------------------------------------------
(* The tables change under the walks. *)

Grows == \A d \in Shards : Has(d) \subseteq Has(d)'

LEMMA MarksGrow == ASSUME Marks, Grows, UNCHANGED <<cursor, mem>> PROVE Marks'
<1>1. \A c : Kept(c) => \A d \in Shards, k \in Keys : <<d, k>> \in c.resident => k \in Has(d)'
  BY DEF Kept, Grows
<1>2. \A s \in Shards, c \in Cursors : Chained(cursor[s][c], CursorScope(s, c), Keys)' /\ Kept(cursor[s][c])'
  BY <1>1 DEF Marks, Kept, CursorScope, Chained
<1>3. \A s \in Shards : Chained(mem[s], {s}, Keys)' /\ Kept(mem[s])'
  BY <1>1 DEF Marks, Kept, Chained
<1> QED BY <1>2, <1>3 DEF Marks

LEMMA WalksGrow == ASSUME Walks, Grows, UNCHANGED walker PROVE Walks'
<1>1. \A c : Kept(c) => \A d \in Shards, k \in Keys : <<d, k>> \in c.resident => k \in Has(d)'
  BY DEF Kept, Grows
<1>2. ASSUME NEW w \in Walkers PROVE Walk(walker[w])' /\ Kept(walker[w])'
  <2>1. PICK q : q = walker[w] /\ q = walker'[w]
    OBVIOUS
  <2>2. Walk(q) /\ Kept(q)
    BY <2>1 DEF Walks
  <2> QED BY <1>1, <2>1, <2>2 DEF Kept
<1> QED BY <1>2 DEF Walks

\* A key is put on a disk that does not have it, in either table.
LEMMA Grown ==
  ASSUME Tables, NEW s \in Shards, NEW K \in SUBSET Keys, K \cap Has(s) = {},
         \/ addr' = [addr EXCEPT ![s] = @ \cup K] /\ UNCHANGED inline
         \/ inline' = [inline EXCEPT ![s] = @ \cup K] /\ UNCHANGED addr
  PROVE  Tables' /\ Grows
<1>1. addr' \in [Shards -> SUBSET Keys] /\ inline' \in [Shards -> SUBSET Keys]
  BY DEF Tables
<1>2. ASSUME NEW d \in Shards
      PROVE  addr'[d] \cap inline'[d] = {} /\ addr[d] \subseteq addr'[d] /\ inline[d] \subseteq inline'[d]
  <2>1. addr[d] \cap inline[d] = {} /\ (d = s => K \cap addr[d] = {} /\ K \cap inline[d] = {})
    BY DEF Tables, Has
  <2>2. CASE addr' = [addr EXCEPT ![s] = @ \cup K] /\ UNCHANGED inline
    <3>1. addr'[d] = (IF d = s THEN addr[d] \cup K ELSE addr[d]) /\ inline'[d] = inline[d]
      BY <2>2 DEF Tables
    <3> QED BY <2>1, <3>1
  <2>3. CASE inline' = [inline EXCEPT ![s] = @ \cup K] /\ UNCHANGED addr
    <3>1. inline'[d] = (IF d = s THEN inline[d] \cup K ELSE inline[d]) /\ addr'[d] = addr[d]
      BY <2>3 DEF Tables
    <3> QED BY <2>1, <3>1
  <2> QED BY <2>2, <2>3
<1>3. \A d \in Shards : Has(d)' = addr'[d] \cup inline'[d]
  BY DEF Has
<1> QED BY <1>1, <1>2, <1>3 DEF Tables, Grows, Has

LEMMA AddKeeps ==
  ASSUME WalksInv, NEW s \in Shards, NEW k \in Keys, Add(s, k)
  PROVE  WalksInv'
<1>1. \/ addr' = [addr EXCEPT ![s] = @ \cup {k}] /\ UNCHANGED inline
      \/ inline' = [inline EXCEPT ![s] = @ \cup {k}] /\ UNCHANGED addr
  BY DEF Add
<1>2. {k} \cap Has(s) = {} /\ {k} \in SUBSET Keys /\ UNCHANGED <<cursor, mem, walker>>
  BY DEF Add
<1>3. Tables' /\ Grows
  BY ONLY <1>1, <1>2, WalksInv, s \in Shards, Grown DEF WalksInv
<1> QED BY <1>2, <1>3, MarksGrow, WalksGrow DEF WalksInv

\* A key is removed from a disk: nobody is owed that copy any more.
Shrinks(s, k) == \A d \in Shards, x \in Keys : x \in Has(d) /\ <<d, x>> # <<s, k>> => x \in Has(d)'

LEMMA DroppedCursor ==
  ASSUME NEW c \in CursorRec, Kept(c), NEW s, NEW k, Shrinks(s, k), NEW r, r = Without(c, s, k)
  PROVE  /\ r \in CursorRec /\ \A D : \A P \in SUBSET Keys : Chained(c, D, P) => Chained(r, D, P)
         /\ \A d \in Shards, x \in Keys : <<d, x>> \in r.resident => x \in Has(d)'
<1>1. r \in CursorRec /\ r.at = c.at /\ r.seen = c.seen /\ r.resident = c.resident \ {<<s, k>>}
  BY DEF Without, CursorRec
<1>2. \A D : \A P \in SUBSET Keys : Chained(c, D, P) => Chained(r, D, P)
  BY <1>1 DEF Chained
<1>3. \A d \in Shards, x \in Keys : <<d, x>> \in r.resident => x \in Has(d)'
  BY <1>1 DEF Kept, Shrinks
<1> QED BY <1>1, <1>2, <1>3

LEMMA DroppedWalk ==
  ASSUME NEW q \in WalkRec, Walk(q), Kept(q), NEW s, NEW k, Shrinks(s, k), NEW r, r = Without(q, s, k)
  PROVE  /\ r \in WalkRec /\ Walk(r)
         /\ \A d \in Shards, x \in Keys : <<d, x>> \in r.resident => x \in Has(d)'
<1>1. /\ r.job = q.job /\ r.pc = q.pc /\ r.at = q.at /\ r.next = q.next /\ r.merged = q.merged /\ r.page = q.page
      /\ r.last = q.last /\ r.done = q.done /\ r.seen = q.seen /\ r.out = q.out
      /\ r.resident = q.resident \ {<<s, k>>} /\ r \in WalkRec
  BY DEF Without, WalkRec
<1>2. \A d, x : <<d, x>> \in r.resident => <<d, x>> \in q.resident
  BY <1>1
<1>3. InPage(r) /\ Saving(r)
  BY <1>1 DEF Walk, InPage, Saving
<1>4. Listing(r)
  <2> SUFFICES ASSUME q.pc = "list" PROVE Listing(r)
    BY <1>1 DEF Listing
  <2>1. Listing(q)
    BY DEF Walk
  <2>2. Scope(r) = Scope(q)
    BY <1>1 DEF Scope
  <2>3. Started(r)
    BY <1>1, <2>1 DEF Listing, Started
  <2>4. Chained(r, Scope(r), Prefix(r.job))
    BY <1>1, <1>2, <2>1, <2>2 DEF Listing, Chained
  <2>5. ~ PerShard(r.job) => \A d \in Shards, x \in Prefix(r.job) :
          d < r.next /\ <<d, x>> \in r.resident /\ x > r.at => Covers(r.merged, x, Limit(r.job))
    BY <1>1, <1>2, <2>1 DEF Listing
  <2> QED BY <1>1, <2>1, <2>3, <2>4, <2>5 DEF Listing
<1>5. Visiting(r)
  <2> SUFFICES ASSUME q.pc = "visit" PROVE Visiting(r)
    BY <1>1 DEF Visiting
  <2>1. Visiting(q)
    BY DEF Walk
  <2>2. Scope(r) = Scope(q)
    BY <1>1 DEF Scope
  <2> QED BY <1>1, <1>2, <2>1, <2>2 DEF Visiting
<1>6. \A d \in Shards, x \in Keys : <<d, x>> \in r.resident => x \in Has(d)'
  BY <1>1 DEF Kept, Shrinks
<1> QED BY <1>1, <1>3, <1>4, <1>5, <1>6 DEF Walk

LEMMA DropKeeps ==
  ASSUME WalksInv, NEW s \in Shards, NEW k \in Keys, Drop(s, k)
  PROVE  WalksInv'
<1>1. /\ addr' = [addr EXCEPT ![s] = @ \ {k}] /\ inline' = [inline EXCEPT ![s] = @ \ {k}]
      /\ cursor' = [t \in Shards |-> [c \in Cursors |-> Without(cursor[t][c], s, k)]]
      /\ mem' = [t \in Shards |-> Without(mem[t], s, k)]
      /\ walker' = [w \in Walkers |-> Without(walker[w], s, k)]
  BY DEF Drop
<1>2. Tables' /\ Shrinks(s, k)
  <2>1. addr' \in [Shards -> SUBSET Keys] /\ inline' \in [Shards -> SUBSET Keys]
    BY <1>1 DEF WalksInv, Tables
  <2>2. \A d \in Shards : /\ addr'[d] = IF d = s THEN addr[d] \ {k} ELSE addr[d]
                          /\ inline'[d] = IF d = s THEN inline[d] \ {k} ELSE inline[d]
    BY <1>1 DEF WalksInv, Tables
  <2>3. \A d \in Shards : addr'[d] \cap inline'[d] = {}
    BY <2>2 DEF WalksInv, Tables
  <2>4. \A d \in Shards, x \in Keys : x \in Has(d) /\ <<d, x>> # <<s, k>> => x \in addr'[d] \cup inline'[d]
    BY <2>2 DEF Has
  <2>5. \A d : Has(d)' = addr'[d] \cup inline'[d]
    BY DEF Has
  <2> QED BY <2>1, <2>3, <2>4, <2>5 DEF Tables, Shrinks
<1>3. Marks'
  <2>1. ASSUME NEW t \in Shards, NEW c \in Cursors
        PROVE  cursor'[t][c] \in CursorRec /\ Chained(cursor[t][c], CursorScope(t, c), Keys)' /\ Kept(cursor[t][c])'
    <3>1. PICK o : o = cursor[t][c]
      OBVIOUS
    <3>2. o \in CursorRec /\ Kept(o) /\ Chained(o, CursorScope(t, c), Keys)
      BY <3>1 DEF WalksInv, Marks
    <3>3. PICK r : r = Without(o, s, k)
      OBVIOUS
    <3>4. cursor'[t][c] = r
      BY <1>1, <3>1, <3>3
    <3>5. /\ r \in CursorRec /\ Chained(r, CursorScope(t, c), Keys)
          /\ \A d \in Shards, x \in Keys : <<d, x>> \in r.resident => x \in Has(d)'
      BY <1>2, <3>2, <3>3, DroppedCursor
    <3> QED BY <3>4, <3>5 DEF Kept, Chained, CursorScope
  <2>2. ASSUME NEW t \in Shards
        PROVE  mem'[t] \in CursorRec /\ Chained(mem[t], {t}, Keys)' /\ Kept(mem[t])'
    <3>1. PICK o : o = mem[t]
      OBVIOUS
    <3>2. o \in CursorRec /\ Kept(o) /\ Chained(o, {t}, Keys)
      BY <3>1 DEF WalksInv, Marks
    <3>3. PICK r : r = Without(o, s, k)
      OBVIOUS
    <3>4. mem'[t] = r
      BY <1>1, <3>1, <3>3
    <3>5. /\ r \in CursorRec /\ Chained(r, {t}, Keys)
          /\ \A d \in Shards, x \in Keys : <<d, x>> \in r.resident => x \in Has(d)'
      BY <1>2, <3>2, <3>3, DroppedCursor
    <3> QED BY <3>4, <3>5 DEF Kept, Chained
  <2>3. cursor' \in [Shards -> [Cursors -> CursorRec]] /\ mem' \in [Shards -> CursorRec]
    <3>1. cursor' = [t \in Shards |-> [c \in Cursors |-> cursor'[t][c]]] /\ mem' = [t \in Shards |-> mem'[t]]
      BY <1>1
    <3> QED BY ONLY <2>1, <2>2, <3>1
  <2> QED BY <2>1, <2>2, <2>3 DEF Marks
<1>4. Walks'
  <2>1. ASSUME NEW w \in Walkers
        PROVE  walker'[w] \in WalkRec /\ Walk(walker[w])' /\ Kept(walker[w])'
    <3>1. PICK o : o = walker[w]
      OBVIOUS
    <3>2. o \in WalkRec /\ Kept(o) /\ Walk(o)
      BY <3>1 DEF WalksInv, Walks
    <3>3. PICK r : r = Without(o, s, k)
      OBVIOUS
    <3>4. walker'[w] = r
      BY <1>1, <3>1, <3>3
    <3>5. /\ r \in WalkRec /\ Walk(r)
          /\ \A d \in Shards, x \in Keys : <<d, x>> \in r.resident => x \in Has(d)'
      BY <1>2, <3>2, <3>3, DroppedWalk
    <3> QED BY <3>4, <3>5 DEF Kept
  <2>2. walker' \in [Walkers -> WalkRec]
    <3>1. walker' = [w \in Walkers |-> walker'[w]]
      BY <1>1
    <3> QED BY ONLY <2>1, <3>1
  <2> QED BY <2>1, <2>2 DEF Walks
<1> QED BY <1>2, <1>3, <1>4 DEF WalksInv

\* A restart: no walk is under way, and the scrub loop reads the disks' cursors.
LEMMA CrashKeeps == ASSUME WalksInv, Crash PROVE WalksInv'
<1>1. UNCHANGED <<addr, inline, cursor>> /\ walker' = [w \in Walkers |-> Idle] /\ mem' = [s \in Shards |-> cursor[s]["scrub"]]
  BY DEF Crash
<1>2. \A d : Has(d)' = Has(d)
  BY <1>1 DEF Has
<1>3. \A s \in Shards : cursor[s]["scrub"] \in CursorRec /\ Chained(cursor[s]["scrub"], {s}, Keys) /\ Kept(cursor[s]["scrub"])
  BY DEF WalksInv, Marks, CursorScope, Cursors
<1>4. Marks'
  <2>1. mem' \in [Shards -> CursorRec] /\ cursor' \in [Shards -> [Cursors -> CursorRec]]
    BY <1>1, <1>3 DEF WalksInv, Marks
  <2>2. \A s \in Shards : Chained(mem[s], {s}, Keys)' /\ Kept(mem[s])'
    BY <1>1, <1>2, <1>3 DEF Chained, Kept
  <2>3. \A s \in Shards, c \in Cursors : Chained(cursor[s][c], CursorScope(s, c), Keys)' /\ Kept(cursor[s][c])'
    BY <1>1, <1>2 DEF WalksInv, Marks, Chained, Kept, CursorScope
  <2> QED BY <2>1, <2>2, <2>3 DEF Marks
<1>5. Walks'
  <2>1. Idle \in WalkRec /\ Walk(Idle) /\ Idle.resident = {}
    BY IdleIs DEF Walk
  <2>2. \A w \in Walkers : walker'[w] = Idle
    BY <1>1
  <2>3. walker' \in [Walkers -> WalkRec]
    BY <1>1, <2>1
  <2>4. \A w \in Walkers : Walk(walker[w])' /\ Kept(walker[w])'
    BY <2>1, <2>2 DEF Kept
  <2> QED BY <2>3, <2>4 DEF Walks
<1>6. Tables'
  BY <1>1, TablesStay DEF WalksInv
<1> QED BY <1>4, <1>5, <1>6 DEF WalksInv

-----------------------------------------------------------------------------
(* The import, as far as the walks see it: what it puts is a key.            *)

ImportRec ==
  [pc : {"idle", "read", "send", "join", "abort", "done", "failed"}, archive : Seq(Frames),
   pos : Nat, frame : Frames \cup {NoFrame}, chan : Seq(Frames), open : BOOLEAN, verify : BOOLEAN,
   blocks : Nat, skipped : Nat, corrupt : Nat, errors : Nat, put : SUBSET Frames]
WorkRec == [pc : {"none", "recv", "has", "put", "end"}, frame : Frames \cup {NoFrame}]
Busy(x) == x.pc \in {"has", "put"}

Import ==
  /\ imp \in ImportRec /\ imp.pos <= Len(imp.archive) /\ (imp.pc = "send" => imp.frame \in Frames)
  /\ work \in [Workers -> WorkRec] /\ \A t \in Workers : Busy(work[t]) => work[t].frame \in Frames

LEMMA NoImportIs == NoImport \in ImportRec /\ NoWork \in WorkRec /\ NoImport.pc = "idle" /\ NoWork.pc = "none"
<1>1. << >> \in Seq(Frames)
  BY EmptySeq
<1> QED BY <1>1 DEF NoImport, ImportRec, NoWork, WorkRec

LEMMA ImportStarts == ASSUME imp = NoImport, work = [t \in Workers |-> NoWork] PROVE Import
<1>1. /\ NoImport.archive = << >> /\ NoImport.pos = 0 /\ NoImport.pc = "idle" /\ Len(<< >>) = 0
  BY EmptySeq DEF NoImport
<1>2. \A t \in Workers : work[t] = NoWork
  OBVIOUS
<1> QED BY <1>1, <1>2, NoImportIs DEF Import, Busy

\* One worker goes on with a record of its own.
LEMMA WorkMoves ==
  ASSUME work \in [Workers -> WorkRec], \A u \in Workers : Busy(work[u]) => work[u].frame \in Frames,
         NEW t \in Workers, NEW x \in WorkRec, Busy(x) => x.frame \in Frames, work' = [work EXCEPT ![t] = x]
  PROVE  /\ work' \in [Workers -> WorkRec] /\ \A u \in Workers : Busy(work'[u]) => work'[u].frame \in Frames
         /\ \A u \in Workers : work'[u] = IF u = t THEN x ELSE work[u]
<1>1. /\ work' \in [Workers -> WorkRec]
      /\ \A u \in Workers : work'[u] = IF u = t THEN x ELSE work[u]
  OBVIOUS
<1> QED BY <1>1 DEF Busy

\* The reader's step, as it is for a frame of each kind.
LEMMA ReadIs ==
  ASSUME Import, Read
  PROVE  \/ imp.pos = Len(imp.archive) /\ imp' = [imp EXCEPT !.pc = "join", !.open = FALSE]
         \/ /\ imp.pos < Len(imp.archive) /\ imp.pos + 1 \in 1 .. Len(imp.archive) /\ Frame \in Frames
            /\ \/ ~ Good(Frame) /\ imp' = [imp EXCEPT !.pc = "abort", !.open = FALSE]
               \/ ~ Good(Frame) /\ imp' = [imp EXCEPT !.pos = @ + 1, !.corrupt = @ + 1]
               \/ Good(Frame) /\ imp' = [imp EXCEPT !.pos = @ + 1, !.pc = "send", !.frame = Frame]
<1>1. CASE imp.pos = Len(imp.archive)
  BY <1>1 DEF Read
<1>2. CASE imp.pos # Len(imp.archive)
  <2>1. imp.pos \in Nat /\ imp.pos <= Len(imp.archive) /\ imp.archive \in Seq(Frames)
    BY DEF Import, ImportRec
  <2>2. Len(imp.archive) \in Nat
    BY <2>1
  <2>3. imp.pos < Len(imp.archive) /\ imp.pos + 1 \in 1 .. Len(imp.archive)
    BY <1>2, <2>1, <2>2
  <2>4. Frame \in Frames
    BY <2>1, <2>3, ElementOfSeq DEF Frame
  <2>5. CASE Frame.fault \in {"bad_len", "cut"}
    <3>1. ~ Good(Frame) /\ imp' = [imp EXCEPT !.pc = "abort", !.open = FALSE]
      BY <1>2, <2>5 DEF Read, Good
    <3> QED BY <2>3, <2>4, <3>1
  <2>6. CASE Frame.fault \notin {"bad_len", "cut"} /\ Spoilt(Frame)
    <3>1. ~ Good(Frame) /\ imp' = [imp EXCEPT !.pos = @ + 1, !.corrupt = @ + 1]
      BY <1>2, <2>6 DEF Read, Good, Spoilt
    <3> QED BY <2>3, <2>4, <3>1
  <2>7. CASE Frame.fault \notin {"bad_len", "cut"} /\ ~ Spoilt(Frame)
    <3>1. Good(Frame) /\ imp' = [imp EXCEPT !.pos = @ + 1, !.pc = "send", !.frame = Frame]
      BY <1>2, <2>4, <2>7 DEF Read, Good, Spoilt, Frames, Faults
    <3> QED BY <2>3, <2>4, <3>1
  <2> QED BY <2>5, <2>6, <2>7
<1> QED BY <1>1, <1>2

LEMMA ImportStays == ASSUME Import, UNCHANGED <<imp, work>> PROVE Import'
BY DEF Import, Busy

LEMMA StartImportKeeps == ASSUME Import, StartImport PROVE Import'
<1>1. PICK a \in Archives, v \in BOOLEAN :
        IF a.header = "ok"
        THEN /\ imp' = [NoImport EXCEPT !.pc = "read", !.archive = a.frames, !.open = TRUE, !.verify = v]
             /\ work' = [t \in Workers |-> [NoWork EXCEPT !.pc = "recv"]]
        ELSE imp' = [NoImport EXCEPT !.pc = "failed"] /\ UNCHANGED work
  BY DEF StartImport
<1>2. CASE a.header = "ok"
  <2>1. imp' = [NoImport EXCEPT !.pc = "read", !.archive = a.frames, !.open = TRUE, !.verify = v]
    BY <1>1, <1>2
  <2>2. a.frames \in Seq(Frames)
    BY CarAssumption
  <2>3. imp' \in ImportRec /\ imp'.pos = 0 /\ imp'.archive = a.frames /\ imp'.pc = "read"
    BY <2>1, <2>2, NoImportIs DEF ImportRec, NoImport
  <2>4. [NoWork EXCEPT !.pc = "recv"] \in WorkRec /\ ~ Busy([NoWork EXCEPT !.pc = "recv"])
    BY NoImportIs DEF WorkRec, Busy, NoWork
  <2>5. Len(a.frames) \in Nat
    BY <2>2
  <2>6. work' = [t \in Workers |-> [NoWork EXCEPT !.pc = "recv"]]
    BY <1>1, <1>2
  <2>7. work' \in [Workers -> WorkRec] /\ \A t \in Workers : ~ Busy(work'[t])
    BY <2>4, <2>6
  <2> QED BY <2>3, <2>5, <2>7 DEF Import, Busy
<1>3. CASE a.header # "ok"
  <2>1. imp' = [NoImport EXCEPT !.pc = "failed"] /\ UNCHANGED work
    BY <1>1, <1>3
  <2>2. imp' \in ImportRec /\ imp'.pos = 0 /\ imp'.archive = << >> /\ imp'.pc = "failed" /\ Len(<< >>) = 0
    BY <2>1, NoImportIs, EmptySeq DEF ImportRec, NoImport
  <2> QED BY <2>1, <2>2 DEF Import, Busy
<1> QED BY <1>2, <1>3

LEMMA ReadKeeps == ASSUME Import, Read PROVE Import'
<1>1. UNCHANGED work /\ imp \in ImportRec /\ imp.pos <= Len(imp.archive) /\ imp.pc = "read"
      /\ imp.pos \in Nat /\ Len(imp.archive) \in Nat
  <2>1. imp.archive \in Seq(Frames)
    BY DEF Import, ImportRec
  <2>2. Len(imp.archive) \in Nat
    BY <2>1
  <2> QED BY <2>2 DEF Read, Import, ImportRec
<1>2. imp' \in ImportRec /\ imp'.pos <= Len(imp'.archive) /\ (imp'.pc = "send" => imp'.frame \in Frames)
  <2>1. CASE imp' = [imp EXCEPT !.pc = "join", !.open = FALSE] \/ imp' = [imp EXCEPT !.pc = "abort", !.open = FALSE]
    BY <1>1, <2>1 DEF ImportRec
  <2>2. CASE imp.pos < Len(imp.archive) /\ imp' = [imp EXCEPT !.pos = @ + 1, !.corrupt = @ + 1]
    <3>0. PICK p \in Nat, n \in Nat : p = imp.pos + 1 /\ n = imp.corrupt + 1
      BY <1>1 DEF ImportRec
    <3>1. imp' \in ImportRec
      <4>1. imp' = [imp EXCEPT !.pos = p, !.corrupt = n]
        BY <2>2, <3>0
      <4> QED BY ONLY <1>1, <3>0, <4>1 DEF ImportRec
    <3>2. imp'.pos = imp.pos + 1 /\ imp'.archive = imp.archive /\ imp'.pc = "read"
      BY ONLY <1>1, <2>2 DEF ImportRec
    <3> QED BY ONLY <1>1, <2>2, <3>1, <3>2
  <2>3. CASE /\ imp.pos < Len(imp.archive) /\ Frame \in Frames
             /\ imp' = [imp EXCEPT !.pos = @ + 1, !.pc = "send", !.frame = Frame]
    <3>1. PICK k \in Frames : k = Frame
      BY <2>3
    <3>0. PICK p \in Nat : p = imp.pos + 1
      BY <1>1
    <3>2. imp' = [imp EXCEPT !.pos = p, !.pc = "send", !.frame = k]
      BY <2>3, <3>0, <3>1
    <3>3. imp' \in ImportRec
      BY ONLY <1>1, <3>0, <3>1, <3>2 DEF ImportRec
    <3>4. imp'.pos = imp.pos + 1 /\ imp'.archive = imp.archive /\ imp'.frame = k
      BY ONLY <1>1, <3>0, <3>1, <3>2 DEF ImportRec
    <3> QED BY ONLY <1>1, <2>3, <3>1, <3>3, <3>4
  <2> QED BY <2>1, <2>2, <2>3, ReadIs
<1>3. work' \in [Workers -> WorkRec] /\ \A t \in Workers : Busy(work'[t]) => work'[t].frame \in Frames
  BY <1>1 DEF Import
<1> QED BY <1>2, <1>3 DEF Import, Busy

LEMMA SendKeeps == ASSUME Import, Send PROVE Import'
<1>1. UNCHANGED work /\ imp \in ImportRec /\ imp.pos <= Len(imp.archive) /\ imp.pc = "send" /\ imp.frame \in Frames
      /\ imp' = [imp EXCEPT !.pc = "read", !.chan = Append(@, imp.frame), !.frame = NoFrame]
  BY DEF Send, Import
<1>2. imp' \in ImportRec /\ imp'.pos = imp.pos /\ imp'.archive = imp.archive /\ imp'.pc = "read"
  <2>1. imp.chan \in Seq(Frames)
    BY <1>1 DEF ImportRec
  <2>2. Append(imp.chan, imp.frame) \in Seq(Frames)
    BY <1>1, <2>1
  <2> QED BY <1>1, <2>2 DEF ImportRec
<1>3. work' \in [Workers -> WorkRec] /\ \A t \in Workers : Busy(work'[t]) => work'[t].frame \in Frames
  BY <1>1 DEF Import
<1> QED BY <1>1, <1>2, <1>3 DEF Import, Busy

LEMMA WorkFields ==
  ASSUME NEW x \in WorkRec
  PROVE  /\ \A c \in {"put", "end"} : [x EXCEPT !.pc = c] = [pc |-> c, frame |-> x.frame]
         /\ [[x EXCEPT !.pc = "recv"] EXCEPT !.frame = NoFrame] = [pc |-> "recv", frame |-> NoFrame]
<1>1. ASSUME NEW c PROVE [x EXCEPT !.pc = c] = [pc |-> c, frame |-> x.frame]
  BY DEF WorkRec
<1>2. PICK y \in WorkRec : y = [x EXCEPT !.pc = "recv"]
  BY DEF WorkRec
<1>3. [y EXCEPT !.frame = NoFrame] = [pc |-> y.pc, frame |-> NoFrame]
  BY DEF WorkRec
<1>4. y.pc = "recv"
  BY <1>2 DEF WorkRec
<1>5. [y EXCEPT !.frame = NoFrame] = [[x EXCEPT !.pc = "recv"] EXCEPT !.frame = NoFrame]
  BY ONLY <1>2, Zenon
<1> QED BY <1>1, <1>3, <1>4, <1>5

\* What the steps of a worker make of it and of the import.
LEMMA RecvIs ==
  ASSUME Import, NEW t \in Workers, Recv(t)
  PROVE  \/ /\ imp.chan # << >> /\ work' = [work EXCEPT ![t] = [pc |-> "has", frame |-> Head(imp.chan)]]
            /\ imp' = [imp EXCEPT !.chan = Tail(@)] /\ Tail(imp.chan) \in Seq(Frames) /\ Head(imp.chan) \in Frames
            /\ Head(imp.chan) = imp.chan[1]
         \/ /\ imp.chan = << >> /\ ~ imp.open /\ UNCHANGED imp
            /\ work' = [work EXCEPT ![t] = [pc |-> "end", frame |-> work[t].frame]]
<1>1. CASE imp.chan # << >>
  <2>1. imp.chan \in Seq(Frames)
    BY DEF Import, ImportRec
  <2>2. Len(imp.chan) > 0 /\ Tail(imp.chan) \in Seq(Frames) /\ Head(imp.chan) = imp.chan[1]
    BY <1>1, <2>1, EmptySeq
  <2>3. Head(imp.chan) \in Frames
    BY <2>1, <2>2, ElementOfSeq
  <2> QED BY <1>1, <2>2, <2>3 DEF Recv
<1>2. CASE imp.chan = << >>
  <2>1. work[t] \in WorkRec
    BY DEF Import
  <2>2. [work[t] EXCEPT !.pc = "end"] = [pc |-> "end", frame |-> work[t].frame]
    BY <2>1 DEF WorkRec
  <2>3. ~ imp.open /\ UNCHANGED imp /\ work' = [work EXCEPT ![t].pc = "end"]
    BY <1>2 DEF Recv
  <2>4. work' = [work EXCEPT ![t] = [work[t] EXCEPT !.pc = "end"]]
    BY <2>3
  <2> QED BY <1>2, <2>2, <2>3, <2>4
<1> QED BY <1>1, <1>2

LEMMA AskStoreIs ==
  ASSUME Import, NEW t \in Workers, AskStore(t)
  PROVE  /\ work[t].pc = "has" /\ UNCHANGED <<addr, inline, null, cursor, mem, walker>>
         /\ \/ /\ \E s \in Shards : work[t].frame.key \in Has(s)
               /\ work' = [work EXCEPT ![t] = [pc |-> "recv", frame |-> NoFrame]] /\ imp' = [imp EXCEPT !.skipped = @ + 1]
            \/ work' = [work EXCEPT ![t] = [pc |-> "put", frame |-> work[t].frame]] /\ UNCHANGED imp
         /\ UNCHANGED left \/ Use("error")
<1>1. work[t] \in WorkRec /\ work \in [Workers -> WorkRec]
  BY DEF Import
<1>2. /\ [work EXCEPT ![t].pc = "put"] = [work EXCEPT ![t] = [work[t] EXCEPT !.pc = "put"]]
      /\ [work EXCEPT ![t].pc = "recv", ![t].frame = NoFrame] = [work EXCEPT ![t] = [[work[t] EXCEPT !.pc = "recv"] EXCEPT !.frame = NoFrame]]
  BY <1>1
<1>3. /\ [work[t] EXCEPT !.pc = "put"] = [pc |-> "put", frame |-> work[t].frame]
      /\ [[work[t] EXCEPT !.pc = "recv"] EXCEPT !.frame = NoFrame] = [pc |-> "recv", frame |-> NoFrame]
  BY <1>1, WorkFields
<1> QED BY <1>2, <1>3 DEF AskStore

LEMMA PutBlockIs ==
  ASSUME Import, NEW t \in Workers, PutBlock(t)
  PROVE  /\ work[t].pc = "put" /\ UNCHANGED <<inline, null, cursor, mem, walker>>
         /\ work' = [work EXCEPT ![t] = [pc |-> "recv", frame |-> NoFrame]]
         /\ \/ /\ \E s \in Shards \ null : addr' = [addr EXCEPT ![s] = @ \cup ({work[t].frame.key} \ inline[s])]
               /\ imp' = [imp EXCEPT !.blocks = @ + 1, !.put = @ \cup {work[t].frame}] /\ UNCHANGED left
            \/ Use("error") /\ imp' = [imp EXCEPT !.errors = @ + 1] /\ UNCHANGED addr
<1>1. work[t] \in WorkRec /\ work \in [Workers -> WorkRec]
  BY DEF Import
<1>2. [work EXCEPT ![t].pc = "recv", ![t].frame = NoFrame] = [work EXCEPT ![t] = [[work[t] EXCEPT !.pc = "recv"] EXCEPT !.frame = NoFrame]]
  BY <1>1
<1>3. [[work[t] EXCEPT !.pc = "recv"] EXCEPT !.frame = NoFrame] = [pc |-> "recv", frame |-> NoFrame]
  BY <1>1, WorkFields
<1> QED BY <1>2, <1>3 DEF PutBlock

LEMMA WorkerKeeps ==
  ASSUME Import, NEW t \in Workers, Recv(t) \/ AskStore(t) \/ PutBlock(t)
  PROVE  Import'
<1> DEFINE Good1 == imp' \in ImportRec /\ imp'.pos = imp.pos /\ imp'.archive = imp.archive /\ imp'.pc = imp.pc /\ imp'.frame = imp.frame
<1>1. /\ imp \in ImportRec /\ imp.pos <= Len(imp.archive) /\ (imp.pc = "send" => imp.frame \in Frames)
      /\ work \in [Workers -> WorkRec] /\ (\A u \in Workers : Busy(work[u]) => work[u].frame \in Frames)
      /\ work[t] \in WorkRec
  BY DEF Import
<1>2. ASSUME NEW x \in WorkRec, Busy(x) => x.frame \in Frames, work' = [work EXCEPT ![t] = x], Good1
      PROVE  Import'
  <2>1. work' \in [Workers -> WorkRec] /\ \A u \in Workers : Busy(work'[u]) => work'[u].frame \in Frames
    BY <1>1, <1>2, WorkMoves
  <2> QED BY <1>1, <1>2, <2>1 DEF Import, Busy
<1>3. NoFrame \in Frames \cup {NoFrame} /\ \A k \in Frames : k \in Frames \cup {NoFrame}
  OBVIOUS
<1>4. [pc |-> "recv", frame |-> NoFrame] \in WorkRec /\ ~ Busy([pc |-> "recv", frame |-> NoFrame])
  BY <1>3 DEF WorkRec, Busy
<1>5. CASE Recv(t)
  <2>1. CASE /\ imp.chan # << >> /\ work' = [work EXCEPT ![t] = [pc |-> "has", frame |-> Head(imp.chan)]]
             /\ imp' = [imp EXCEPT !.chan = Tail(@)] /\ Tail(imp.chan) \in Seq(Frames) /\ Head(imp.chan) \in Frames
    <3>1. PICK k \in Frames : k = Head(imp.chan)
      BY <2>1
    <3>2. [pc |-> "has", frame |-> k] \in WorkRec /\ [pc |-> "has", frame |-> k].frame = k
      BY <1>3 DEF WorkRec
    <3>3. Good1
      BY <1>1, <2>1 DEF ImportRec
    <3>4. work' = [work EXCEPT ![t] = [pc |-> "has", frame |-> k]]
      BY <2>1, <3>1
    <3> HIDE DEF Good1
    <3> QED BY <1>2, <3>2, <3>3, <3>4
  <2>2. CASE UNCHANGED imp /\ work' = [work EXCEPT ![t] = [pc |-> "end", frame |-> work[t].frame]]
    <3>1. [pc |-> "end", frame |-> work[t].frame] \in WorkRec /\ ~ Busy([pc |-> "end", frame |-> work[t].frame])
      BY <1>1 DEF WorkRec, Busy
    <3>2. Good1
      BY <1>1, <2>2
    <3> HIDE DEF Good1
    <3> QED BY <1>2, <2>2, <3>1, <3>2
  <2> QED BY <1>5, <2>1, <2>2, RecvIs
<1>6. CASE AskStore(t)
  <2>1. CASE work' = [work EXCEPT ![t] = [pc |-> "recv", frame |-> NoFrame]] /\ imp' = [imp EXCEPT !.skipped = @ + 1]
    <3>1. Good1
      BY <1>1, <2>1, SMTT(30) DEF ImportRec
    <3> HIDE DEF Good1
    <3> QED BY <1>2, <1>4, <2>1, <3>1
  <2>2. CASE work' = [work EXCEPT ![t] = [pc |-> "put", frame |-> work[t].frame]] /\ UNCHANGED imp
    <3>1. PICK k \in Frames : k = work[t].frame
      BY <1>1, <1>6 DEF AskStore, Busy
    <3>2. [pc |-> "put", frame |-> k] \in WorkRec /\ [pc |-> "put", frame |-> k].frame = k
      BY <1>3 DEF WorkRec
    <3>3. Good1
      BY <1>1, <2>2
    <3>4. work' = [work EXCEPT ![t] = [pc |-> "put", frame |-> k]]
      BY <2>2, <3>1
    <3> HIDE DEF Good1
    <3> QED BY <1>2, <3>2, <3>3, <3>4
  <2> QED BY <1>6, <2>1, <2>2, AskStoreIs
<1>7. CASE PutBlock(t)
  <2>1. /\ work' = [work EXCEPT ![t] = [pc |-> "recv", frame |-> NoFrame]]
        /\ imp' = [imp EXCEPT !.blocks = @ + 1, !.put = @ \cup {work[t].frame}] \/ imp' = [imp EXCEPT !.errors = @ + 1]
    BY <1>7, PutBlockIs
  <2>2. Good1
    <3>1. CASE imp' = [imp EXCEPT !.blocks = @ + 1, !.put = @ \cup {work[t].frame}]
      <4>1. PICK n \in Nat : n = imp.blocks + 1
        BY <1>1 DEF ImportRec
      <4>2. PICK P \in SUBSET Frames : P = imp.put \cup {work[t].frame}
        BY <1>1, <1>7 DEF ImportRec, PutBlock, Busy
      <4>3. imp' = [imp EXCEPT !.blocks = n, !.put = P]
        BY <3>1, <4>1, <4>2
      <4> QED BY ONLY <1>1, <4>1, <4>2, <4>3 DEF ImportRec
    <3>2. CASE imp' = [imp EXCEPT !.errors = @ + 1]
      <4>1. PICK n \in Nat : n = imp.errors + 1
        BY <1>1 DEF ImportRec
      <4>2. imp' = [imp EXCEPT !.errors = n]
        BY <3>2, <4>1
      <4> QED BY ONLY <1>1, <4>1, <4>2 DEF ImportRec
    <3> HIDE DEF Good1
    <3> QED BY <2>1, <3>1, <3>2
  <2> HIDE DEF Good1
  <2> QED BY <1>2, <1>4, <2>1, <2>2
<1> QED BY <1>5, <1>6, <1>7

LEMMA JoinKeeps == ASSUME Import, Join PROVE Import'
<1>1. imp \in ImportRec /\ imp.pos <= Len(imp.archive)
      /\ (imp' = [imp EXCEPT !.pc = "done"] \/ imp' = [imp EXCEPT !.pc = "failed"])
      /\ work' = [t \in Workers |-> NoWork]
  BY DEF Join, Import
<1>2. imp' \in ImportRec /\ imp'.pos = imp.pos /\ imp'.archive = imp.archive /\ imp'.pc \in {"done", "failed"}
  BY <1>1 DEF ImportRec
<1>3. work' \in [Workers -> WorkRec] /\ \A t \in Workers : ~ Busy(work'[t])
  BY <1>1, NoImportIs DEF Busy
<1> QED BY <1>1, <1>2, <1>3 DEF Import, Busy

-----------------------------------------------------------------------------
(* Every step keeps both invariants. *)

LEMMA InitKeeps == ASSUME Init PROVE WalksInv
<1>1. PICK st \in Stores :
        /\ addr = [s \in Shards |-> IF s \in null THEN {} ELSE st.addr[s]]
        /\ inline = [s \in Shards |-> IF s \in null THEN {} ELSE st.inline[s]]
  BY DEF Init
<1>2. st.addr \in [Shards -> SUBSET Keys] /\ st.inline \in [Shards -> SUBSET Keys] /\ \A s \in Shards : st.addr[s] \cap st.inline[s] = {}
  BY WalksAssumption
<1>3. Tables
  BY <1>1, <1>2 DEF Tables
<1>4. Marks
  <2>1. cursor = [s \in Shards |-> [c \in Cursors |-> NoCursor]] /\ mem = [s \in Shards |-> NoCursor]
    BY DEF Init
  <2>2. cursor \in [Shards -> [Cursors -> CursorRec]] /\ mem \in [Shards -> CursorRec]
    BY <2>1, NoCursorIs
  <2>3. \A s \in Shards, c \in Cursors : cursor[s][c] = NoCursor /\ mem[s] = NoCursor
    BY <2>1
  <2>4. \A s \in Shards : mem[s] = NoCursor
    BY <2>1
  <2> QED BY <2>2, <2>3, <2>4, NoCursorIs DEF Marks
<1>5. Walks
  <2>1. walker = [w \in Walkers |-> Idle]
    BY DEF Init
  <2>2. Idle \in WalkRec /\ Walk(Idle) /\ Kept(Idle)
    BY IdleIs DEF Walk
  <2> QED BY <2>1, <2>2 DEF Walks
<1> QED BY <1>3, <1>4, <1>5 DEF WalksInv

\* A walk's own step: the tables stay, and so do the cursors unless it saves one.
LEMMA WalkKeeps ==
  ASSUME WalksInv, NEW w \in Walkers, UNCHANGED <<addr, inline>>, Marks', \E r : Becomes(w, r)
  PROVE  WalksInv'
<1>1. PICK r : Becomes(w, r)
  OBVIOUS
<1>2. Walks'
  BY <1>1, WalkMoves DEF WalksInv, Becomes
<1> QED BY <1>2, TablesStay DEF WalksInv

LEMMA RunningKeeps == ASSUME WalksInv, Running PROVE WalksInv'
<1>1. ASSUME NEW w \in Walkers,
             StartResilver(w) \/ StartMigrate(w) \/ StartRunScrub(w) \/ StartExport(w) \/ StartS3(w)
             \/ (StartScrubLoop /\ w = "scrub_loop")
      PROVE  WalksInv'
  <2>1. UNCHANGED <<addr, inline, cursor, mem>>
    BY <1>1, Zenon DEF StartResilver, StartMigrate, StartRunScrub, StartExport, StartS3, StartScrubLoop
  <2>2. \E r : Becomes(w, r)
    BY <1>1, StartsAt DEF WalksInv
  <2> QED BY <2>1, <2>2, MarksStay, WalkKeeps DEF WalksInv
<1>2. ASSUME NEW w \in Walkers, ListShard(w) \/ ListFails(w) \/ Visit(w) \/ ReadFails(w) \/ EndPage(w)
      PROVE  WalksInv'
  <2>1. UNCHANGED <<addr, inline, cursor, mem>>
    BY <1>2, Zenon DEF ListShard, ListFails, Visit, ReadFails, EndPage
  <2>2. \E r : Becomes(w, r)
    BY <1>2, GoesOn DEF WalksInv
  <2> QED BY <2>1, <2>2, MarksStay, WalkKeeps DEF WalksInv
<1>3. ASSUME NEW w \in Walkers, EndResilverPage(w) \/ EndMigrateStep(w) \/ EndScrubPage(w) \/ SaveScrub(w)
      PROVE  WalksInv'
  <2>1. UNCHANGED <<addr, inline>>
    BY <1>3, Zenon DEF EndResilverPage, EndMigrateStep, EndScrubPage, SaveScrub
  <2>2. Marks' /\ \E r : Becomes(w, r)
    BY <1>3, ClosesPage DEF WalksInv
  <2> QED BY <2>1, <2>2, WalkKeeps
<1>4. \A w \in Admins : w \in Walkers
  BY DEF Walkers
<1>5. "migrate_loop" \in Walkers /\ "scrub_loop" \in Walkers
  BY DEF Walkers, Loops
<1>6. ASSUME NEW w \in Admins, Request(w) \/ ReadFails(w) PROVE WalksInv'
  BY <1>1, <1>2, <1>3, <1>4, <1>6, Zenon DEF Request
<1>7. CASE MigrateLoop
  BY <1>1, <1>2, <1>3, <1>5, <1>7, Zenon DEF MigrateLoop
<1>8. CASE ScrubLoop
  BY <1>1, <1>2, <1>3, <1>5, <1>8, Zenon DEF ScrubLoop
<1>9. ASSUME NEW s \in Shards, NEW k \in Keys, Add(s, k) \/ Drop(s, k) PROVE WalksInv'
  BY <1>9, AddKeeps, DropKeeps
<1> QED BY <1>2, <1>6, <1>7, <1>8, <1>9 DEF Running

\* The tables grow by what a worker puts, or stay.
LEMMA PutKeeps == ASSUME WalksInv, Import, NEW t \in Workers, PutBlock(t) PROVE WalksInv'
<1>1. work[t].pc = "put" /\ work[t].frame \in Frames /\ work[t].frame.key \in Keys /\ UNCHANGED <<inline, cursor, mem, walker>>
  BY PutBlockIs DEF Import, Busy, Frames
<1>2. CASE UNCHANGED addr
  <2>1. Tables' /\ Marks'
    BY <1>1, <1>2, TablesStay, MarksStay DEF WalksInv
  <2>2. Grows
    BY <1>1, <1>2 DEF Grows, Has
  <2> QED BY <1>1, <2>1, <2>2, WalksGrow DEF WalksInv
<1>3. ASSUME NEW s \in Shards, addr' = [addr EXCEPT ![s] = @ \cup ({work[t].frame.key} \ inline[s])]
      PROVE  WalksInv'
  <2>1. PICK K \in SUBSET Keys : K = ({work[t].frame.key} \ inline[s]) \ addr[s]
    BY <1>1
  <2>2. addr' = [addr EXCEPT ![s] = @ \cup K]
    <3>1. addr[s] \cup ({work[t].frame.key} \ inline[s]) = addr[s] \cup K
      BY <2>1
    <3> QED BY <1>3, <3>1
  <2>3. K \cap Has(s) = {}
    BY <2>1 DEF Has
  <2>4. Tables' /\ Grows
    BY ONLY WalksInv, s \in Shards, K \in SUBSET Keys, <1>1, <2>2, <2>3, Grown DEF WalksInv
  <2> QED BY <1>1, <2>4, MarksGrow, WalksGrow DEF WalksInv
<1> QED BY <1>2, <1>3, PutBlockIs

Inv == WalksInv /\ Import

LEMMA Starts == ASSUME CarInit PROVE Inv
BY InitKeeps, ImportStarts DEF CarInit, Inv

LEMMA Steps == ASSUME Inv, [CarNext]_carVars PROVE Inv'
<1> USE DEF Inv
<1>1. ASSUME UNCHANGED <<addr, inline, cursor, mem, walker>> PROVE WalksInv'
  <2>1. Tables' /\ Marks' /\ Grows
    BY <1>1, TablesStay, MarksStay DEF WalksInv, Grows, Has
  <2> QED BY <1>1, <2>1, WalksGrow DEF WalksInv
<1>2. CASE Running /\ UNCHANGED <<imp, work>>
  BY <1>2, RunningKeeps, ImportStays
<1>3. CASE Crash /\ imp' = NoImport /\ work' = [t \in Workers |-> NoWork]
  <2>1. Import'
    <3>1. /\ NoImport.archive = << >> /\ NoImport.pos = 0 /\ NoImport.pc = "idle" /\ Len(<< >>) = 0
      BY EmptySeq DEF NoImport
    <3>2. \A t \in Workers : work'[t] = NoWork
      BY <1>3
    <3>3. work' \in [Workers -> WorkRec]
      BY <1>3, NoImportIs
    <3> QED BY <1>3, <3>1, <3>2, <3>3, NoImportIs DEF Import, Busy
  <2> QED BY <1>3, <2>1, CrashKeeps
<1>4. CASE StartImport
  <2>1. UNCHANGED <<addr, inline, cursor, mem, walker>>
    BY <1>4 DEF StartImport
  <2> QED BY <1>1, <1>4, <2>1, StartImportKeeps
<1>5. CASE Read
  <2>1. UNCHANGED <<addr, inline, cursor, mem, walker>>
    BY <1>5, Zenon DEF Read
  <2> QED BY <1>1, <1>5, <2>1, ReadKeeps
<1>6. CASE Send
  <2>1. UNCHANGED <<addr, inline, cursor, mem, walker>>
    BY <1>6 DEF Send
  <2> QED BY <1>1, <1>6, <2>1, SendKeeps
<1>7. CASE Join
  <2>1. UNCHANGED <<addr, inline, cursor, mem, walker>>
    BY <1>7 DEF Join
  <2> QED BY <1>1, <1>7, <2>1, JoinKeeps
<1>8. ASSUME NEW t \in Workers, Recv(t) \/ AskStore(t) PROVE Inv'
  <2>1. UNCHANGED <<addr, inline, cursor, mem, walker>>
    BY <1>8, Zenon DEF Recv, AskStore
  <2>2. Import'
    BY <1>8, WorkerKeeps
  <2> QED BY <1>1, <2>1, <2>2
<1>9. ASSUME NEW t \in Workers, PutBlock(t) PROVE Inv'
  BY <1>9, PutKeeps, WorkerKeeps
<1>10. CASE UNCHANGED carVars
  BY <1>1, <1>10, ImportStays DEF carVars
<1> QED BY <1>2, <1>3, <1>4, <1>5, <1>6, <1>7, <1>8, <1>9, <1>10 DEF CarNext, Importing

\* Walks and import keep their domains and what the walks owe (Walks, Marks,
\* Import), whatever comes and goes: pool.rs, car.rs, and the list of the engine.
THEOREM InvHolds == CarSpec => []Inv
<1>1. CarInit => Inv
  BY Starts
<1>2. Inv /\ [CarNext]_carVars => Inv'
  BY Steps
<1> QED BY <1>1, <1>2, PTL DEF CarSpec

-----------------------------------------------------------------------------
(* What the runs check. *)

LEMMA OwedIs ==
  ASSUME WalksInv, NEW w \in Walkers, PageOver(walker[w]), walker[w].done
  PROVE  Owed(walker[w]) \subseteq walker[w].seen
<1>1. PICK q : q = walker[w]
  OBVIOUS
<1>2. q \in WalkRec /\ Walk(q) /\ Kept(q)
  BY <1>1 DEF WalksInv, Walks
<1>3. \A d \in Scope(q), k \in Prefix(q.job) : <<d, k>> \in q.resident => k \in q.seen
  BY <1>1, <1>2, OverIs
<1>4. Owed(q) \subseteq q.seen
  BY <1>3 DEF Owed, Scope
<1> QED BY <1>1, <1>4

\* PassExact: no pass of resilver_full, migrate_step, the scrub, an export or a
\* listing misses a key that stayed, and no archive or listing names one twice.
THEOREM PassesAreExact == CarSpec => []PassExact
<1>1. Inv => PassExact
  <2> SUFFICES ASSUME Inv PROVE PassExact
    OBVIOUS
  <2>1. TypeOK
    <3>1. Tables
      BY DEF Inv, WalksInv
    <3>2. ASSUME NEW w \in Walkers
          PROVE  LET q == walker[w] IN
                 /\ q.job \in Jobs \cup {"scrub", "none"} /\ q.pc \in {"idle", "list", "visit", "save"}
                 /\ q.at \in 0 .. NK /\ q.next \in 0 .. N /\ Len(q.page) <= Batch
                 /\ \A i \in 1 .. Len(q.page) : q.at < q.page[i] /\ q.page[i] <= q.last
      <4>1. PICK q : q = walker[w]
        OBVIOUS
      <4>2. q \in WalkRec /\ InPage(q)
        BY <4>1 DEF Inv, WalksInv, Walks, Walk
      <4> QED BY <4>1, <4>2 DEF WalkRec, InPage
    <3> QED BY <3>1, <3>2 DEF TypeOK, Tables
  <2>2. PassComplete
    BY OwedIs DEF Inv, PassComplete
  <2>3. Ordered
    <3>1. ASSUME NEW w \in Walkers
          PROVE  \A i, j \in 1 .. Len(walker[w].out) : i < j => walker[w].out[i] < walker[w].out[j]
      BY DEF Inv, WalksInv, Walks, Walk, InPage
    <3> QED BY <3>1 DEF Ordered
  <2> QED BY <2>1, <2>2, <2>3 DEF PassExact
<1> QED BY <1>1, InvHolds, PTL

\* CursorTrailsWork: no cursor in T_CURSOR is ahead of the keys its chain of
\* pages has worked off (save_cursor after the page, pool.rs and main.rs).
THEOREM CursorsTrailWork == CarSpec => []CursorTrailsWork
<1>1. Inv => CursorTrailsWork
  <2> SUFFICES ASSUME Inv, NEW s \in Shards, NEW c \in Cursors, NEW saved, saved = cursor[s][c],
                      NEW d \in CursorScope(s, c), NEW k \in 1 .. saved.at, <<d, k>> \in saved.resident
               PROVE  k \in saved.seen
    BY DEF CursorTrailsWork, CursorScope
  <2>1. saved \in CursorRec /\ Chained(saved, CursorScope(s, c), Keys)
    BY DEF Inv, WalksInv, Marks
  <2>2. saved.at \in 0 .. NK
    BY <2>1 DEF CursorRec
  <2>3. k \in Keys /\ k <= saved.at
    BY <2>2, Consts DEF Keys
  <2> QED BY <2>1, <2>3 DEF Chained
<1> QED BY <1>1, InvHolds, PTL

-----------------------------------------------------------------------------
(* The report of an import.  Each frame read so far has been counted, or is  *)
(* with the sender, in the channel or with a worker.                         *)

Returned == imp.pc \in {"idle", "failed"}
Undone(i, w) == Len(i.chan) + Cardinality({t \in Workers : Busy(w[t])}) + (IF i.pc = "send" THEN 1 ELSE 0)
Reported(i) == i.blocks + i.skipped + i.corrupt + i.errors
Underway(k) ==
  \/ \E j \in 1 .. Len(imp.chan) : imp.chan[j].key = k
  \/ \E t \in Workers : Busy(work[t]) /\ work[t].frame.key = k
  \/ imp.pc = "send" /\ imp.frame.key = k
Placed(k) == \E s \in Shards : k \in Has(s)

Counts ==
  /\ imp.open <=> imp.pc \in {"read", "send"}
  /\ \A t \in Workers : work[t].pc = "end" => ~ imp.open /\ imp.chan = << >>
  /\ imp.pc \in {"join", "done"} => imp.pos = Len(imp.archive)
  /\ imp.pc = "done" => imp.chan = << >> /\ \A t \in Workers : ~ Busy(work[t])
  /\ ~ Returned => Reported(imp) + Undone(imp, work) = imp.pos

\* Until a put fails: a sound frame that was read is under way or in the store.
Stored ==
  ~ Returned /\ imp.errors = 0 =>
    \A i \in 1 .. imp.pos : Good(imp.archive[i]) => Underway(imp.archive[i].key) \/ Placed(imp.archive[i].key)

\* In the scenarios with an import nothing is deleted.
NoDeletes ==
  /\ left \in [Events -> Nat] /\ (left["import"] = 0 \/ left["remove"] = 0)
  /\ imp.pc # "idle" => left["remove"] = 0

LEMMA NoneBusy ==
  ASSUME NEW w, \A t \in Workers : ~ Busy(w[t])
  PROVE  Cardinality({t \in Workers : Busy(w[t])}) = 0
<1>1. {t \in Workers : Busy(w[t])} = {}
  OBVIOUS
<1> QED BY <1>1, FS_EmptySet

\* A worker gets busy, or is done with its block.
LEMMA BusyIs ==
  ASSUME work \in [Workers -> WorkRec], NEW t \in Workers, NEW x \in WorkRec, work' = [work EXCEPT ![t] = x],
         NEW a, a = Cardinality({u \in Workers : Busy(work[u])}),
         NEW b, b = Cardinality({u \in Workers : Busy(work'[u])})
  PROVE  /\ a \in Nat /\ b \in Nat
         /\ ~ Busy(work[t]) /\ Busy(x) => b = a + 1
         /\ Busy(work[t]) /\ ~ Busy(x) => a = b + 1
         /\ (Busy(work[t]) <=> Busy(x)) => b = a
<1> DEFINE A == {u \in Workers : Busy(work[u])}
           B == {u \in Workers : Busy(work'[u])}
<1>1. \A u \in Workers : work'[u] = IF u = t THEN x ELSE work[u]
  OBVIOUS
<1>2. IsFiniteSet(A) /\ IsFiniteSet(B) /\ a = Cardinality(A) /\ b = Cardinality(B)
  BY CarAssumption, FS_Subset
<1>3. a \in Nat /\ b \in Nat
  BY <1>2, FS_CardinalityType
<1>4. \A u \in Workers : (u \in A <=> Busy(work[u])) /\ (u \in B <=> IF u = t THEN Busy(x) ELSE Busy(work[u]))
  BY <1>1
<1>5. A \in SUBSET Workers /\ B \in SUBSET Workers
  OBVIOUS
<1> HIDE DEF A, B
<1>6. ASSUME ~ Busy(work[t]), Busy(x) PROVE b = a + 1
  <2>1. t \notin A /\ B = A \cup {t}
    BY <1>4, <1>5, <1>6
  <2> QED BY <2>1, <1>2, CountUp
<1>7. ASSUME Busy(work[t]), ~ Busy(x) PROVE a = b + 1
  <2>1. t \notin B /\ A = B \cup {t}
    BY <1>4, <1>5, <1>7
  <2> QED BY <2>1, <1>2, CountUp
<1>8. ASSUME Busy(work[t]) <=> Busy(x) PROVE b = a
  <2>1. A = B
    BY <1>4, <1>5, <1>8
  <2> QED BY <2>1, <1>2
<1> QED BY <1>3, <1>6, <1>7, <1>8

LEMMA CountsStart == ASSUME imp = NoImport, work = [t \in Workers |-> NoWork] PROVE Counts
<1>1. imp.pc = "idle" /\ ~ imp.open /\ \A t \in Workers : work[t].pc = "none"
  BY NoImportIs DEF NoImport
<1> QED BY <1>1 DEF Counts, Returned

LEMMA CountsRead == ASSUME Import, Counts, Read PROVE Counts'
<1>1. /\ imp.pc = "read" /\ imp.open /\ UNCHANGED work /\ Reported(imp) + Undone(imp, work) = imp.pos
      /\ \A t \in Workers : work[t].pc # "end"
  BY DEF Read, Counts, Returned
<1>2. imp \in ImportRec
  BY DEF Import
<1>3. PICK c \in Nat : c = Len(imp.chan)
  BY <1>2 DEF ImportRec
<1>4. PICK b : b = Cardinality({t \in Workers : Busy(work[t])}) /\ b \in Nat
  BY CarAssumption, FS_Subset, FS_CardinalityType
<1>5. imp.blocks + imp.skipped + imp.corrupt + imp.errors + (c + b + 0) = imp.pos
  BY <1>1, <1>3, <1>4 DEF Reported, Undone
<1>6. PICK bl \in Nat, sk \in Nat, co \in Nat, er \in Nat, po \in Nat :
        imp.blocks = bl /\ imp.skipped = sk /\ imp.corrupt = co /\ imp.errors = er /\ imp.pos = po
  BY <1>2 DEF ImportRec
<1>12. bl + sk + co + er + (c + b + 0) = po
  BY ONLY <1>5, <1>6
<1>13. bl + sk + (co + 1) + er + (c + b + 0) = po + 1 /\ bl + sk + co + er + (c + b + 1) = po + 1
  BY ONLY <1>12, <1>3, <1>4, <1>6
<1>7. ASSUME NEW i, i = imp', i.chan = imp.chan, i.pc # "send",
             i.blocks + i.skipped + i.corrupt + i.errors + (c + b + 0) = i.pos
      PROVE  Reported(imp') + Undone(imp', work') = imp'.pos
  BY <1>1, <1>3, <1>4, <1>7 DEF Reported, Undone
<1>8. CASE imp.pos = Len(imp.archive) /\ imp' = [imp EXCEPT !.pc = "join", !.open = FALSE]
  <2>1. /\ imp'.pc = "join" /\ ~ imp'.open /\ imp'.chan = imp.chan /\ imp'.pos = imp.pos /\ imp'.archive = imp.archive
        /\ imp'.blocks = imp.blocks /\ imp'.skipped = imp.skipped /\ imp'.corrupt = imp.corrupt /\ imp'.errors = imp.errors
    BY <1>2, <1>8 DEF ImportRec
  <2>2. Reported(imp') + Undone(imp', work') = imp'.pos
    BY <1>5, <1>7, <2>1
  <2> QED BY <1>1, <1>8, <2>1, <2>2 DEF Counts
<1>9. CASE imp' = [imp EXCEPT !.pc = "abort", !.open = FALSE]
  <2>1. /\ imp'.pc = "abort" /\ ~ imp'.open /\ imp'.chan = imp.chan /\ imp'.pos = imp.pos
        /\ imp'.blocks = imp.blocks /\ imp'.skipped = imp.skipped /\ imp'.corrupt = imp.corrupt /\ imp'.errors = imp.errors
    BY <1>2, <1>9 DEF ImportRec
  <2>2. Reported(imp') + Undone(imp', work') = imp'.pos
    BY <1>5, <1>7, <2>1
  <2> QED BY <1>1, <2>1, <2>2 DEF Counts
<1>10. CASE imp' = [imp EXCEPT !.pos = @ + 1, !.corrupt = @ + 1]
  <2>1. /\ imp'.pc = "read" /\ imp'.open = imp.open /\ imp'.chan = imp.chan /\ imp'.pos = imp.pos + 1
        /\ imp'.blocks = imp.blocks /\ imp'.skipped = imp.skipped /\ imp'.corrupt = imp.corrupt + 1 /\ imp'.errors = imp.errors
    BY <1>1, <1>2, <1>10 DEF ImportRec
  <2>2. imp'.blocks + imp'.skipped + imp'.corrupt + imp'.errors + (c + b + 0) = imp'.pos
    BY ONLY <1>6, <1>13, <2>1
  <2>3. Reported(imp') + Undone(imp', work') = imp'.pos
    BY <1>7, <2>1, <2>2
  <2> QED BY <1>1, <2>1, <2>3 DEF Counts
<1>11. CASE imp' = [imp EXCEPT !.pos = @ + 1, !.pc = "send", !.frame = Frame]
  <2>1. /\ imp'.pc = "send" /\ imp'.open = imp.open /\ imp'.chan = imp.chan /\ imp'.pos = imp.pos + 1
        /\ imp'.blocks = imp.blocks /\ imp'.skipped = imp.skipped /\ imp'.corrupt = imp.corrupt /\ imp'.errors = imp.errors
    BY <1>2, <1>11 DEF ImportRec
  <2>2. imp'.blocks + imp'.skipped + imp'.corrupt + imp'.errors + (c + b + 1) = imp'.pos
    BY ONLY <1>6, <1>13, <2>1
  <2>3. Reported(imp') + Undone(imp', work') = imp'.pos
    BY <1>1, <1>3, <1>4, <2>1, <2>2 DEF Reported, Undone
  <2> QED BY <1>1, <2>1, <2>3 DEF Counts
<1> QED BY <1>8, <1>9, <1>10, <1>11, ReadIs

LEMMA CountsSend == ASSUME Import, Counts, Send PROVE Counts'
<1>1. /\ imp.pc = "send" /\ imp.open /\ UNCHANGED work /\ Reported(imp) + Undone(imp, work) = imp.pos
      /\ (\A t \in Workers : work[t].pc # "end") /\ imp.frame \in Frames
      /\ imp' = [imp EXCEPT !.pc = "read", !.chan = Append(@, imp.frame), !.frame = NoFrame]
  BY DEF Send, Counts, Returned, Import
<1>2. imp \in ImportRec
  BY DEF Import
<1>3. PICK c \in Nat : c = Len(imp.chan)
  BY <1>2 DEF ImportRec
<1>4. PICK b : b = Cardinality({t \in Workers : Busy(work[t])}) /\ b \in Nat
  BY CarAssumption, FS_Subset, FS_CardinalityType
<1>5. imp.blocks + imp.skipped + imp.corrupt + imp.errors + (c + b + 1) = imp.pos
  BY <1>1, <1>3, <1>4 DEF Reported, Undone
<1>6. /\ imp.blocks \in Nat /\ imp.skipped \in Nat /\ imp.corrupt \in Nat /\ imp.errors \in Nat /\ imp.pos \in Nat
      /\ imp.chan \in Seq(Frames)
  BY <1>2 DEF ImportRec
<1>7. /\ imp'.pc = "read" /\ imp'.open = imp.open /\ imp'.chan = Append(imp.chan, imp.frame) /\ imp'.pos = imp.pos
      /\ imp'.blocks = imp.blocks /\ imp'.skipped = imp.skipped /\ imp'.corrupt = imp.corrupt /\ imp'.errors = imp.errors
  BY <1>1, <1>2 DEF ImportRec
<1>8. Len(imp'.chan) = c + 1
  BY <1>1, <1>3, <1>6, <1>7
<1>9. imp'.blocks + imp'.skipped + imp'.corrupt + imp'.errors + ((c + 1) + b + 0) = imp'.pos
  BY ONLY <1>3, <1>4, <1>5, <1>6, <1>7
<1>10. Reported(imp') + Undone(imp', work') = imp'.pos
  BY <1>1, <1>4, <1>7, <1>8, <1>9 DEF Reported, Undone
<1> QED BY <1>1, <1>7, <1>10 DEF Counts

\* A worker takes a block, asks for it, puts it.
LEMMA CountsWork ==
  ASSUME Import, Counts, NEW t \in Workers, Recv(t) \/ AskStore(t) \/ PutBlock(t)
  PROVE  Counts'
<1>1. imp \in ImportRec /\ work \in [Workers -> WorkRec] /\ work[t] \in WorkRec /\ imp.chan \in Seq(Frames)
  BY DEF Import, ImportRec
<1>2. PICK c \in Nat : c = Len(imp.chan)
  BY <1>1
<1>3. PICK s \in 0 .. 1 : s = IF imp.pc = "send" THEN 1 ELSE 0
  OBVIOUS
<1>4. PICK b \in Nat : b = Cardinality({u \in Workers : Busy(work[u])})
  BY CarAssumption, FS_Subset, FS_CardinalityType
<1>5. PICK b2 \in Nat : b2 = Cardinality({u \in Workers : Busy(work'[u])})
  BY CarAssumption, FS_Subset, FS_CardinalityType
<1>6. PICK bl \in Nat, sk \in Nat, co \in Nat, er \in Nat, po \in Nat :
        imp.blocks = bl /\ imp.skipped = sk /\ imp.corrupt = co /\ imp.errors = er /\ imp.pos = po
  BY <1>1 DEF ImportRec
<1>7. ~ Returned => bl + sk + co + er + (c + b + s) = po
  BY <1>2, <1>3, <1>4, <1>6 DEF Counts, Reported, Undone
\* What is common to all of them.
<1>8. ASSUME NEW x \in WorkRec, work' = [work EXCEPT ![t] = x], imp'.pc = imp.pc, imp'.open = imp.open, imp'.pos = imp.pos,
             imp'.archive = imp.archive, x.pc = "end" => ~ imp.open /\ imp.chan = << >>,
             imp.chan = << >> => imp'.chan = << >>, imp.pc = "done" => ~ Busy(x),
             ~ Returned => imp'.blocks + imp'.skipped + imp'.corrupt + imp'.errors + (Len(imp'.chan) + b2 + s) = po
      PROVE  Counts'
  <2>1. \A u \in Workers : work'[u] = IF u = t THEN x ELSE work[u]
    BY <1>1, <1>8
  <2>2. Returned' <=> Returned
    BY <1>8 DEF Returned
  <2>3. ~ Returned => Reported(imp') + Undone(imp', work') = imp'.pos
    BY <1>3, <1>5, <1>6, <1>8 DEF Reported, Undone
  <2>4. \A u \in Workers : work'[u].pc = "end" => ~ imp'.open /\ imp'.chan = << >>
    BY <1>8, <2>1 DEF Counts
  <2>5. imp'.pc = "done" => imp'.chan = << >> /\ \A u \in Workers : ~ Busy(work'[u])
    BY <1>8, <2>1 DEF Counts
  <2> QED BY <1>8, <2>2, <2>3, <2>4, <2>5 DEF Counts
<1>9. NoFrame \in Frames \cup {NoFrame} /\ \A k \in Frames : k \in Frames \cup {NoFrame}
  OBVIOUS
<1>13. [pc |-> "recv", frame |-> NoFrame] \in WorkRec
  BY <1>9 DEF WorkRec
<1>10. CASE Recv(t)
  <2>1. CASE /\ imp.chan # << >> /\ work' = [work EXCEPT ![t] = [pc |-> "has", frame |-> Head(imp.chan)]]
             /\ imp' = [imp EXCEPT !.chan = Tail(@)] /\ Tail(imp.chan) \in Seq(Frames) /\ Head(imp.chan) \in Frames
    <3>1. PICK x \in WorkRec : x = [pc |-> "has", frame |-> Head(imp.chan)] /\ x.pc = "has"
      <4>1. [pc |-> "has", frame |-> Head(imp.chan)] \in WorkRec
        BY <2>1, <1>9 DEF WorkRec
      <4> QED BY <4>1
    <3>2. ~ Busy(work[t]) /\ Busy(x) /\ imp.pc # "done"
      BY <1>10, <2>1, <3>1 DEF Recv, Busy, Counts
    <3>8. work' = [work EXCEPT ![t] = x]
      BY <2>1, <3>1
    <3>3. b2 = b + 1 /\ b \in Nat
      BY ONLY <1>1, t \in Workers, x \in WorkRec, <1>4, <1>5, <3>2, <3>8, BusyIs
    <3>4. PICK e \in Nat : e = Len(Tail(imp.chan)) /\ c = e + 1
      BY <1>1, <1>2, <2>1, EmptySeq
    <3>5. /\ imp'.pc = imp.pc /\ imp'.open = imp.open /\ imp'.pos = imp.pos /\ imp'.archive = imp.archive
          /\ imp'.chan = Tail(imp.chan) /\ imp'.blocks = bl /\ imp'.skipped = sk /\ imp'.corrupt = co /\ imp'.errors = er
      BY <1>1, <1>6, <2>1 DEF ImportRec
    <3>6. ~ Returned => bl + sk + co + er + (e + b2 + s) = po
      <4>1. b2 = b + 1 /\ c = e + 1
        BY <3>3, <3>4
      <4>2. c + b + s = e + b2 + s
        BY ONLY <4>1
      <4> QED BY <1>7, <4>2
    <3>7. ~ Returned => imp'.blocks + imp'.skipped + imp'.corrupt + imp'.errors + (Len(imp'.chan) + b2 + s) = po
      BY ONLY <3>4, <3>5, <3>6
    <3> QED BY ONLY <1>8, <2>1, <3>1, <3>2, <3>5, <3>7, <3>8
  <2>2. CASE /\ imp.chan = << >> /\ ~ imp.open /\ UNCHANGED imp
             /\ work' = [work EXCEPT ![t] = [pc |-> "end", frame |-> work[t].frame]]
    <3>1. PICK x \in WorkRec : x = [pc |-> "end", frame |-> work[t].frame]
      BY <1>1 DEF WorkRec
    <3>2. ~ Busy(work[t]) /\ ~ Busy(x)
      BY <1>10, <3>1 DEF Recv, Busy
    <3>3. work' = [work EXCEPT ![t] = x]
      BY <2>2, <3>1
    <3>4. b2 = b /\ b \in Nat
      BY ONLY <1>1, t \in Workers, x \in WorkRec, <1>4, <1>5, <3>3, <3>2, BusyIs
    <3>5. ~ Returned => imp'.blocks + imp'.skipped + imp'.corrupt + imp'.errors + (Len(imp'.chan) + b2 + s) = po
      BY <1>2, <1>6, <1>7, <2>2, <3>4
    <3> QED BY ONLY <1>8, <2>2, <3>1, <3>2, <3>3, <3>5
  <2> QED BY <1>10, <2>1, <2>2, RecvIs
<1>11. CASE AskStore(t)
  <2>1. CASE work' = [work EXCEPT ![t] = [pc |-> "recv", frame |-> NoFrame]] /\ imp' = [imp EXCEPT !.skipped = @ + 1]
    <3>1. PICK x \in WorkRec : x = [pc |-> "recv", frame |-> NoFrame] /\ x.pc = "recv"
      BY <1>13
    <3>2. Busy(work[t]) /\ ~ Busy(x) /\ x.pc # "end"
      BY <1>11, <3>1 DEF AskStore, Busy
    <3>3. work' = [work EXCEPT ![t] = x]
      BY <2>1, <3>1
    <3>4. b = b2 + 1 /\ b2 \in Nat
      BY ONLY <1>1, t \in Workers, x \in WorkRec, <1>4, <1>5, <3>3, <3>2, BusyIs
    <3>5. /\ imp'.pc = imp.pc /\ imp'.open = imp.open /\ imp'.pos = imp.pos /\ imp'.archive = imp.archive
          /\ imp'.chan = imp.chan /\ imp'.blocks = bl /\ imp'.skipped = sk + 1 /\ imp'.corrupt = co /\ imp'.errors = er
      BY <1>1, <1>6, <2>1 DEF ImportRec
    <3>6. ~ Returned => bl + (sk + 1) + co + er + (c + b2 + s) = po
      BY <1>7, <3>4
    <3>7. ~ Returned => imp'.blocks + imp'.skipped + imp'.corrupt + imp'.errors + (Len(imp'.chan) + b2 + s) = po
      BY ONLY <1>2, <3>5, <3>6
    <3> QED BY ONLY <1>8, <3>1, <3>2, <3>3, <3>5, <3>7
  <2>2. CASE work' = [work EXCEPT ![t] = [pc |-> "put", frame |-> work[t].frame]] /\ UNCHANGED imp
    <3>1. PICK x \in WorkRec : x = [pc |-> "put", frame |-> work[t].frame] /\ x.pc = "put"
      <4>1. [pc |-> "put", frame |-> work[t].frame] \in WorkRec
        BY <1>1 DEF WorkRec
      <4> QED BY <4>1
    <3>2. Busy(work[t]) /\ Busy(x) /\ x.pc # "end" /\ imp.pc # "done"
      BY <1>11, <3>1 DEF AskStore, Busy, Counts
    <3>3. work' = [work EXCEPT ![t] = x]
      BY <2>2, <3>1
    <3>4. b2 = b
      BY ONLY <1>1, t \in Workers, x \in WorkRec, <1>4, <1>5, <3>3, <3>2, BusyIs
    <3>5. ~ Returned => imp'.blocks + imp'.skipped + imp'.corrupt + imp'.errors + (Len(imp'.chan) + b2 + s) = po
      BY <1>2, <1>6, <1>7, <2>2, <3>4
    <3> QED BY ONLY <1>8, <2>2, <3>1, <3>2, <3>3, <3>5
  <2> QED BY <1>11, <2>1, <2>2, AskStoreIs
<1>12. CASE PutBlock(t)
  <2>1. PICK x \in WorkRec : x = [pc |-> "recv", frame |-> NoFrame] /\ x.pc = "recv"
    BY <1>13
  <2>2. /\ work[t].pc = "put" /\ work' = [work EXCEPT ![t] = x]
        /\ imp' = [imp EXCEPT !.blocks = @ + 1, !.put = @ \cup {work[t].frame}] \/ imp' = [imp EXCEPT !.errors = @ + 1]
    BY <1>12, <2>1, PutBlockIs
  <2>3. Busy(work[t]) /\ ~ Busy(x) /\ x.pc # "end"
    BY <2>1, <2>2 DEF Busy
  <2>4. b = b2 + 1 /\ b2 \in Nat
    BY ONLY <1>1, t \in Workers, x \in WorkRec, <1>4, <1>5, <2>2, <2>3, BusyIs
  <2>5. CASE imp' = [imp EXCEPT !.blocks = @ + 1, !.put = @ \cup {work[t].frame}]
    <3>1. /\ imp'.pc = imp.pc /\ imp'.open = imp.open /\ imp'.pos = imp.pos /\ imp'.archive = imp.archive
          /\ imp'.chan = imp.chan /\ imp'.blocks = bl + 1 /\ imp'.skipped = sk /\ imp'.corrupt = co /\ imp'.errors = er
      BY <1>1, <1>6, <2>5 DEF ImportRec
    <3>2. ~ Returned => (bl + 1) + sk + co + er + (c + b2 + s) = po
      BY <1>7, <2>4
    <3>3. ~ Returned => imp'.blocks + imp'.skipped + imp'.corrupt + imp'.errors + (Len(imp'.chan) + b2 + s) = po
      BY ONLY <1>2, <3>1, <3>2
    <3> QED BY ONLY <1>8, <2>1, <2>2, <2>3, <3>1, <3>3
  <2>6. CASE imp' = [imp EXCEPT !.errors = @ + 1]
    <3>1. /\ imp'.pc = imp.pc /\ imp'.open = imp.open /\ imp'.pos = imp.pos /\ imp'.archive = imp.archive
          /\ imp'.chan = imp.chan /\ imp'.blocks = bl /\ imp'.skipped = sk /\ imp'.corrupt = co /\ imp'.errors = er + 1
      BY <1>1, <1>6, <2>6 DEF ImportRec
    <3>2. ~ Returned => bl + sk + co + (er + 1) + (c + b2 + s) = po
      BY <1>7, <2>4
    <3>3. ~ Returned => imp'.blocks + imp'.skipped + imp'.corrupt + imp'.errors + (Len(imp'.chan) + b2 + s) = po
      BY ONLY <1>2, <3>1, <3>2
    <3> QED BY ONLY <1>8, <2>1, <2>2, <2>3, <3>1, <3>3
  <2> QED BY <2>2, <2>5, <2>6
<1> QED BY <1>10, <1>11, <1>12

\* The scope ends: every worker has found the channel closed and empty.
LEMMA CountsJoin == ASSUME Import, Counts, Join PROVE Counts'
<1>1. /\ imp.pc \in {"join", "abort"} /\ (\A t \in Workers : work[t].pc = "end")
      /\ imp' = [imp EXCEPT !.pc = IF imp.pc = "join" THEN "done" ELSE "failed"] /\ work' = [t \in Workers |-> NoWork]
  BY DEF Join
<1>2. ~ imp.open /\ imp.chan = << >> /\ Reported(imp) + Undone(imp, work) = imp.pos /\ (imp.pc = "join" => imp.pos = Len(imp.archive))
  BY <1>1, CarAssumption DEF Counts, Returned
<1>3. imp \in ImportRec
  BY DEF Import
<1>4. /\ imp'.pc = (IF imp.pc = "join" THEN "done" ELSE "failed") /\ imp'.open = imp.open /\ imp'.chan = << >> /\ imp'.pos = imp.pos
      /\ imp'.archive = imp.archive
      /\ imp'.blocks = imp.blocks /\ imp'.skipped = imp.skipped /\ imp'.corrupt = imp.corrupt /\ imp'.errors = imp.errors
  BY <1>1, <1>2, <1>3 DEF ImportRec
<1>5. \A t \in Workers : ~ Busy(work[t]) /\ ~ Busy(work'[t]) /\ work'[t].pc = "none"
  BY <1>1, NoImportIs DEF Busy
<1>6. Cardinality({t \in Workers : Busy(work[t])}) = 0 /\ Cardinality({t \in Workers : Busy(work'[t])}) = 0
  BY <1>5, NoneBusy
<1>7. Undone(imp', work') = Undone(imp, work)
  BY <1>1, <1>2, <1>4, <1>6 DEF Undone
<1>8. Reported(imp') + Undone(imp', work') = imp'.pos
  BY <1>2, <1>4, <1>7 DEF Reported
<1> QED BY <1>1, <1>2, <1>4, <1>5, <1>8 DEF Counts

-----------------------------------------------------------------------------
(* What the scenario may still do, and that nothing is deleted in it. *)

Spends == left' \in [Events -> Nat] /\ \A e \in Events : left'[e] <= left[e]

LEMMA Spent ==
  ASSUME left \in [Events -> Nat], NEW e \in Events, left[e] > 0, left' = [left EXCEPT ![e] = @ - 1]
  PROVE  Spends
<1>1. \A x \in Events : left'[x] = IF x = e THEN left[e] - 1 ELSE left[x]
  OBVIOUS
<1>2. PICK n \in Nat : n = left[e] /\ n > 0
  OBVIOUS
<1>3. n - 1 \in Nat /\ n - 1 <= n
  BY <1>2
<1>4. \A x \in Events : left'[x] \in Nat /\ left'[x] <= left[x]
  BY <1>1, <1>2, <1>3
<1>5. left' = [x \in Events |-> left'[x]]
  OBVIOUS
<1>6. left' \in [Events -> Nat]
  BY ONLY <1>4, <1>5
<1> QED BY <1>4, <1>6 DEF Spends

LEMMA Used == ASSUME left \in [Events -> Nat], NEW e \in Events, Use(e) PROVE Spends
BY Spent DEF Use

LEMMA Unspent == ASSUME left \in [Events -> Nat], UNCHANGED left PROVE Spends
<1>1. \A e \in Events : left[e] <= left[e]
  OBVIOUS
<1> QED BY <1>1 DEF Spends

LEMMA EventsAre == /\ \A e \in {"resilver", "migrate", "run_scrub", "export", "s3", "migrate_loop", "scrub_loop",
                                "import", "add", "remove", "error", "crash"} : e \in Events
BY WalksAssumption DEF Jobs, Loops

LEMMA RunningSpends ==
  ASSUME WalksInv, left \in [Events -> Nat], Running
  PROVE  Spends /\ (left["remove"] = 0 => Grows)
<1>1. UNCHANGED <<addr, inline>> => Grows
  BY DEF Grows, Has
<1>2. Use("resilver") \/ Use("run_scrub") \/ Use("export") \/ Use("s3") \/ Use("error") \/ Use("add") \/ Use("remove")
      \/ UNCHANGED left => Spends
  BY EventsAre, Used, Unspent
<1>3. ASSUME NEW w, StartMigrate(w) PROVE Spends
  <2>1. PICK n \in [Events -> Nat] :
          /\ \A e \in Events : n[e] <= left[e]
          /\ left' = n \/ (left["error"] > 0 /\ left' = [n EXCEPT !["error"] = @ - 1])
          /\ n["error"] = left["error"]
    <3>1. CASE w = "migrate_loop"
      <4>1. left' = left \/ (left["error"] > 0 /\ left' = [left EXCEPT !["error"] = @ - 1])
        BY <1>3, <3>1, Zenon DEF StartMigrate
      <4>2. \A e \in Events : left[e] <= left[e]
        OBVIOUS
      <4> QED BY <4>1, <4>2
    <3>2. CASE w # "migrate_loop"
      <4>1. PICK n : n = [left EXCEPT !["migrate"] = @ - 1]
        OBVIOUS
      <4>2. left["migrate"] > 0 /\ (left' = n \/ (left["error"] > 0 /\ left' = [n EXCEPT !["error"] = @ - 1]))
        BY <1>3, <3>2, <4>1, Zenon DEF StartMigrate
      <4>3. \A e \in Events : n[e] = IF e = "migrate" THEN left[e] - 1 ELSE left[e]
        BY <4>1, EventsAre
      <4>4. left["migrate"] \in Nat
        BY EventsAre
      <4>5. \A e \in Events : n[e] \in Nat /\ n[e] <= left[e]
        BY <4>2, <4>3, <4>4
      <4>6. n = [e \in Events |-> n[e]]
        BY <4>1
      <4>7. n \in [Events -> Nat] /\ n["error"] = left["error"]
        <5>1. n \in [Events -> Nat]
          BY ONLY <4>5, <4>6
        <5> QED BY <5>1, <4>3, EventsAre
      <4> QED BY <4>2, <4>5, <4>7
    <3> QED BY <3>1, <3>2
  <2>2. CASE left' = n
    BY <2>1, <2>2 DEF Spends
  <2>3. CASE left["error"] > 0 /\ left' = [n EXCEPT !["error"] = @ - 1]
    <3>1. \A e \in Events : left'[e] = IF e = "error" THEN n[e] - 1 ELSE n[e]
      BY <2>3
    <3>2. n["error"] \in Nat /\ n["error"] > 0
      BY <2>1, <2>3, EventsAre
    <3>3. \A e \in Events : n[e] \in Nat /\ left[e] \in Nat /\ n[e] <= left[e]
      BY <2>1
    <3>4. \A e \in Events : left'[e] \in Nat /\ left'[e] <= left[e]
      BY <3>1, <3>2, <3>3
    <3>5. left' = [e \in Events |-> left'[e]]
      BY <2>3
    <3>6. left' \in [Events -> Nat]
      BY ONLY <3>4, <3>5
    <3> QED BY <3>4, <3>6 DEF Spends
  <2> QED BY <2>1, <2>2, <2>3
<1>4. ASSUME NEW w, StartResilver(w) \/ StartMigrate(w) \/ StartRunScrub(w) \/ StartExport(w) \/ StartS3(w) \/ StartScrubLoop
                    \/ ListShard(w) \/ ListFails(w) \/ Visit(w) \/ ReadFails(w) \/ EndPage(w)
                    \/ EndResilverPage(w) \/ EndMigrateStep(w) \/ EndScrubPage(w) \/ SaveScrub(w)
      PROVE  Spends /\ Grows
  <2>1. CASE StartResilver(w) \/ StartRunScrub(w) \/ StartExport(w) \/ StartS3(w) \/ ListFails(w) \/ ReadFails(w)
    BY <1>1, <1>2, <2>1, Zenon DEF StartResilver, StartRunScrub, StartExport, StartS3, ListFails, ReadFails
  <2>2. CASE StartMigrate(w)
    BY <1>1, <1>3, <2>2, Zenon DEF StartMigrate
  <2>3. CASE StartScrubLoop \/ ListShard(w) \/ Visit(w) \/ EndPage(w) \/ EndScrubPage(w)
    BY <1>1, <1>2, <2>3, Zenon DEF StartScrubLoop, ListShard, Visit, EndPage, EndScrubPage
  <2>4. CASE EndResilverPage(w) \/ EndMigrateStep(w) \/ SaveScrub(w)
    BY <1>1, <1>2, <2>4, Zenon DEF EndResilverPage, EndMigrateStep, SaveScrub, Save
  <2> QED BY <1>4, <2>1, <2>2, <2>3, <2>4
<1>5. ASSUME NEW s \in Shards, NEW k \in Keys, Add(s, k) PROVE Spends /\ Grows
  <2>1. \/ addr' = [addr EXCEPT ![s] = @ \cup {k}] /\ UNCHANGED inline
        \/ inline' = [inline EXCEPT ![s] = @ \cup {k}] /\ UNCHANGED addr
    BY <1>5 DEF Add
  <2>2. {k} \cap Has(s) = {} /\ {k} \in SUBSET Keys /\ Use("add")
    BY <1>5 DEF Add
  <2>3. Grows
    BY ONLY <2>1, <2>2, WalksInv, s \in Shards, Grown DEF WalksInv
  <2> QED BY <1>2, <2>2, <2>3
<1>6. ASSUME NEW s \in Shards, NEW k \in Keys, Drop(s, k) PROVE Spends /\ left["remove"] # 0
  <2>1. Use("remove") /\ left["remove"] > 0
    BY <1>6 DEF Drop, Use
  <2> QED BY <1>2, <2>1
<1> QED BY <1>4, <1>5, <1>6, Zenon DEF Running, Request, MigrateLoop, ScrubLoop

-----------------------------------------------------------------------------
(* What was read and is sound stays under way until it is in the store. *)

LEMMA StoredGoesOn ==
  ASSUME Stored, Grows, ~ Returned' => ~ Returned, imp'.errors = 0 => imp.errors = 0, imp'.pos = imp.pos,
         imp'.archive = imp.archive, imp'.verify = imp.verify, \A k : Underway(k) => Underway(k)' \/ Placed(k)'
  PROVE  Stored'
<1>1. \A k : Placed(k) => Placed(k)'
  BY DEF Placed, Grows
<1>2. \A f : Good(f)' <=> Good(f)
  BY DEF Good
<1> QED BY <1>1, <1>2 DEF Stored

LEMMA StoredRead == ASSUME Import, Stored, Read PROVE Stored'
<1>1. UNCHANGED <<work, addr, inline>> /\ imp.pc = "read" /\ imp \in ImportRec
  BY DEF Read, Import
<1>2. Grows
  BY <1>1 DEF Grows, Has
<1>3. CASE imp' = [imp EXCEPT !.pc = "join", !.open = FALSE] \/ imp' = [imp EXCEPT !.pc = "abort", !.open = FALSE]
  <2>1. /\ imp'.chan = imp.chan /\ imp'.pos = imp.pos /\ imp'.archive = imp.archive /\ imp'.verify = imp.verify
        /\ imp'.errors = imp.errors
    BY <1>1, <1>3 DEF ImportRec
  <2>2. \A k : Underway(k) => Underway(k)'
    BY <1>1, <2>1 DEF Underway
  <2> QED BY <1>1, <1>2, <2>1, <2>2, StoredGoesOn DEF Returned
<1>4. CASE /\ imp.pos < Len(imp.archive) /\ imp.pos + 1 \in 1 .. Len(imp.archive)
           /\ \/ ~ Good(Frame) /\ imp' = [imp EXCEPT !.pos = @ + 1, !.corrupt = @ + 1]
              \/ imp' = [imp EXCEPT !.pos = @ + 1, !.pc = "send", !.frame = Frame]
  <2>1. PICK p \in Nat : p = imp.pos
    BY <1>1 DEF ImportRec
  <2>2. /\ imp'.chan = imp.chan /\ imp'.pos = p + 1 /\ imp'.archive = imp.archive /\ imp'.verify = imp.verify
        /\ imp'.errors = imp.errors
        /\ ~ Good(Frame) \/ (imp'.pc = "send" /\ imp'.frame = Frame)
    BY <1>1, <1>4, <2>1 DEF ImportRec
  <2>3. \A k : Underway(k) => Underway(k)'
    BY <1>1, <2>2 DEF Underway
  <2>4. \A k : Placed(k) => Placed(k)'
    BY <1>2 DEF Placed, Grows
  <2>5. \A f : Good(f)' <=> Good(f)
    BY <2>2 DEF Good
  <2>6. PICK f : f = Frame
    OBVIOUS
  <2>7. imp.archive[p + 1] = f /\ (~ Good(f) \/ \A k : k = f.key => Underway(k)')
    <3>1. ~ Good(f) \/ (imp'.pc = "send" /\ imp'.frame = f)
      BY <2>2, <2>6
    <3> QED BY <2>1, <2>6, <3>1 DEF Frame, Underway
  <2>8. ASSUME imp.errors = 0, NEW i \in 1 .. p + 1, Good(imp.archive[i])
        PROVE  \A k : k = imp.archive[i].key => Underway(k)' \/ Placed(k)'
    <3>1. CASE i \in 1 .. p
      BY <1>1, <2>1, <2>3, <2>4, <2>8, <3>1 DEF Stored, Returned
    <3>2. CASE i = p + 1
      BY <2>7, <2>8, <3>2
    <3> QED BY <3>1, <3>2
  <2>9. \A i : (\A k : k = imp.archive[i].key => Underway(k)' \/ Placed(k)') => Underway(imp.archive[i].key)' \/ Placed(imp.archive[i].key)'
    BY <2>2 DEF Underway, Placed
  <2> QED BY <2>2, <2>5, <2>8, <2>9 DEF Stored
<1> QED BY <1>3, <1>4, ReadIs

LEMMA StoredSend == ASSUME Import, Stored, Send PROVE Stored'
<1>1. /\ UNCHANGED <<work, addr, inline>> /\ imp.pc = "send" /\ imp \in ImportRec /\ imp.frame \in Frames
      /\ imp' = [imp EXCEPT !.pc = "read", !.chan = Append(@, imp.frame), !.frame = NoFrame]
  BY DEF Send, Import
<1>2. Grows
  BY <1>1 DEF Grows, Has
<1>3. PICK q \in Seq(Frames) : q = imp.chan
  BY <1>1 DEF ImportRec
<1>4. /\ imp'.chan = Append(q, imp.frame) /\ imp'.pos = imp.pos /\ imp'.archive = imp.archive /\ imp'.verify = imp.verify
      /\ imp'.errors = imp.errors
  BY <1>1, <1>3 DEF ImportRec
<1>5. PICK n \in Nat : n = Len(q)
  OBVIOUS
<1>6. Len(imp'.chan) = n + 1 /\ imp'.chan[n + 1] = imp.frame /\ \A j \in 1 .. n : imp'.chan[j] = q[j]
  BY <1>1, <1>3, <1>4, <1>5
<1>7. ASSUME NEW k, Underway(k) PROVE Underway(k)'
  <2>1. CASE \E j \in 1 .. n : q[j].key = k
    <3>1. \E j \in 1 .. n + 1 : imp'.chan[j].key = k
      BY <1>6, <2>1
    <3> QED BY <1>6, <3>1 DEF Underway
  <2>2. CASE imp.frame.key = k
    <3>1. n + 1 \in 1 .. n + 1
      BY <1>5
    <3> QED BY <1>6, <2>2, <3>1 DEF Underway
  <2>3. CASE \E t \in Workers : Busy(work[t]) /\ work[t].frame.key = k
    BY <1>1, <2>3 DEF Underway
  <2> QED BY <1>3, <1>5, <1>7, <2>1, <2>2, <2>3 DEF Underway
<1> QED BY <1>1, <1>2, <1>4, <1>7, StoredGoesOn DEF Returned

LEMMA StoredWork ==
  ASSUME WalksInv, Import, Stored, NEW t \in Workers, Recv(t) \/ AskStore(t) \/ PutBlock(t)
  PROVE  Stored'
<1>1. imp \in ImportRec /\ work \in [Workers -> WorkRec] /\ work[t] \in WorkRec /\ imp.errors \in Nat
  BY DEF Import, ImportRec
<1>2. PICK q \in Seq(Frames) : q = imp.chan
  BY <1>1 DEF ImportRec
\* The worker's own block is the only one that changes hands.
<1>3. ASSUME NEW x, work' = [work EXCEPT ![t] = x], NEW k, \E u \in Workers : Busy(work[u]) /\ work[u].frame.key = k,
             Busy(work[t]) /\ work[t].frame.key = k => (Busy(x) /\ x.frame.key = k) \/ Placed(k)'
      PROVE  Underway(k)' \/ Placed(k)'
  <2>1. PICK u \in Workers : Busy(work[u]) /\ work[u].frame.key = k
    BY <1>3
  <2>2. CASE u = t
    BY <1>1, <1>3, <2>1, <2>2 DEF Underway
  <2>3. CASE u # t
    <3>1. work'[u] = work[u]
      BY <1>1, <1>3, <2>3
    <3> QED BY <2>1, <3>1 DEF Underway
  <2> QED BY <2>2, <2>3
<1>4. CASE Recv(t)
  <2>1. UNCHANGED <<addr, inline>> /\ ~ Busy(work[t])
    BY <1>4, Zenon DEF Recv, Busy
  <2>2. Grows
    BY <2>1 DEF Grows, Has
  <2>3. CASE /\ imp.chan # << >> /\ work' = [work EXCEPT ![t] = [pc |-> "has", frame |-> Head(imp.chan)]]
             /\ imp' = [imp EXCEPT !.chan = Tail(@)] /\ Head(imp.chan) = imp.chan[1]
    <3>1. PICK x : x = [pc |-> "has", frame |-> q[1]]
      OBVIOUS
    <3>2. /\ imp'.chan = Tail(q) /\ imp'.pos = imp.pos /\ imp'.archive = imp.archive /\ imp'.verify = imp.verify
          /\ imp'.errors = imp.errors /\ imp'.pc = imp.pc /\ imp'.frame = imp.frame
      BY <1>1, <1>2, <2>3 DEF ImportRec
    <3>3. work' = [work EXCEPT ![t] = x] /\ Busy(x) /\ x.frame = q[1]
      BY <1>2, <2>3, <3>1 DEF Busy
    <3>4. q # << >> /\ Len(q) \in Nat /\ Len(Tail(q)) = Len(q) - 1 /\ \A j \in 1 .. Len(q) - 1 : Tail(q)[j] = q[j + 1]
      BY <1>2, <2>3, EmptySeq
    <3>5. ASSUME NEW k, Underway(k) PROVE Underway(k)' \/ Placed(k)'
      <4>1. ASSUME NEW j \in 1 .. Len(q), q[j].key = k PROVE Underway(k)'
        <5>1. CASE j = 1
          <6>1. work'[t] = x
            BY <1>1, <3>3
          <6> QED BY <3>3, <4>1, <5>1, <6>1 DEF Underway
        <5>2. CASE j # 1
          <6>1. j - 1 \in 1 .. Len(imp'.chan) /\ imp'.chan[j - 1] = q[j]
            <7>1. PICK m \in Nat : m = j - 1 /\ m \in 1 .. Len(q) - 1 /\ m + 1 = j
              BY <3>4, <5>2
            <7> QED BY <3>2, <3>4, <7>1
          <6> QED BY <4>1, <6>1 DEF Underway
        <5> QED BY <5>1, <5>2
      <4>2. CASE \E u \in Workers : Busy(work[u]) /\ work[u].frame.key = k
        BY <1>3, <2>1, <3>3, <4>2
      <4>3. CASE imp.pc = "send" /\ imp.frame.key = k
        BY <3>2, <4>3 DEF Underway
      <4> QED BY <1>2, <3>5, <4>1, <4>2, <4>3 DEF Underway
    <3> QED BY <2>2, <3>2, <3>5, StoredGoesOn DEF Returned
  <2>4. CASE UNCHANGED imp /\ work' = [work EXCEPT ![t] = [pc |-> "end", frame |-> work[t].frame]]
    <3>1. ASSUME NEW k, Underway(k) PROVE Underway(k)' \/ Placed(k)'
      <4>1. CASE \E u \in Workers : Busy(work[u]) /\ work[u].frame.key = k
        BY <1>3, <2>1, <2>4, <4>1
      <4>2. CASE ~ \E u \in Workers : Busy(work[u]) /\ work[u].frame.key = k
        BY <2>4, <3>1, <4>2 DEF Underway
      <4> QED BY <4>1, <4>2
    <3> QED BY <2>2, <2>4, <3>1, StoredGoesOn DEF Returned
  <2> QED BY <1>4, <2>3, <2>4, RecvIs
<1>5. CASE AskStore(t)
  <2>1. UNCHANGED <<addr, inline>>
    BY <1>5, Zenon DEF AskStore
  <2>2. Grows /\ \A k : Placed(k) => Placed(k)'
    BY <2>1 DEF Grows, Has, Placed
  <2>3. CASE /\ \E s \in Shards : work[t].frame.key \in Has(s) /\ work' = [work EXCEPT ![t] = [pc |-> "recv", frame |-> NoFrame]]
             /\ imp' = [imp EXCEPT !.skipped = @ + 1]
    <3>1. /\ imp'.chan = imp.chan /\ imp'.pos = imp.pos /\ imp'.archive = imp.archive /\ imp'.verify = imp.verify
          /\ imp'.errors = imp.errors /\ imp'.pc = imp.pc /\ imp'.frame = imp.frame
      BY <1>1, <2>3 DEF ImportRec
    <3>2. ASSUME NEW k, Underway(k) PROVE Underway(k)' \/ Placed(k)'
      <4>1. CASE \E u \in Workers : Busy(work[u]) /\ work[u].frame.key = k
        <5>1. work[t].frame.key = k => Placed(k)'
          BY <2>2, <2>3 DEF Placed
        <5> QED BY <1>3, <2>3, <4>1, <5>1
      <4>2. CASE ~ \E u \in Workers : Busy(work[u]) /\ work[u].frame.key = k
        BY <3>1, <3>2, <4>2 DEF Underway
      <4> QED BY <4>1, <4>2
    <3> QED BY <2>2, <3>1, <3>2, StoredGoesOn DEF Returned
  <2>4. CASE UNCHANGED imp /\ work' = [work EXCEPT ![t] = [pc |-> "put", frame |-> work[t].frame]]
    <3>1. ASSUME NEW k, Underway(k) PROVE Underway(k)' \/ Placed(k)'
      <4>1. CASE \E u \in Workers : Busy(work[u]) /\ work[u].frame.key = k
        <5>1. PICK x : x = [pc |-> "put", frame |-> work[t].frame]
          OBVIOUS
        <5>2. Busy(x) /\ x.frame = work[t].frame
          BY <5>1 DEF Busy
        <5> QED BY <1>3, <2>4, <4>1, <5>1, <5>2
      <4>2. CASE ~ \E u \in Workers : Busy(work[u]) /\ work[u].frame.key = k
        BY <2>4, <3>1, <4>2 DEF Underway
      <4> QED BY <4>1, <4>2
    <3> QED BY <2>2, <2>4, <3>1, StoredGoesOn DEF Returned
  <2> QED BY <1>5, <2>3, <2>4, AskStoreIs
<1>6. CASE PutBlock(t)
  <2>1. CASE imp' = [imp EXCEPT !.errors = @ + 1]
    <3>1. PICK n \in Nat : n = imp.errors
      BY <1>1
    <3>2. imp'.errors = n + 1
      BY <1>1, <2>1, <3>1 DEF ImportRec
    <3>3. imp'.errors # 0
      BY <3>1, <3>2
    <3> QED BY <3>3 DEF Stored
  <2>2. CASE /\ \E s \in Shards \ null : addr' = [addr EXCEPT ![s] = @ \cup ({work[t].frame.key} \ inline[s])]
             /\ imp' = [imp EXCEPT !.blocks = @ + 1, !.put = @ \cup {work[t].frame}] /\ UNCHANGED inline
    <3>1. PICK s \in Shards : addr' = [addr EXCEPT ![s] = @ \cup ({work[t].frame.key} \ inline[s])]
      BY <2>2
    <3>2. addr \in [Shards -> SUBSET Keys]
      BY DEF WalksInv, Tables
    <3>3. \A d \in Shards : addr'[d] = IF d = s THEN addr[s] \cup ({work[t].frame.key} \ inline[s]) ELSE addr[d]
      BY <3>1, <3>2
    <3>4. \A d \in Shards : Has(d)' = addr'[d] \cup inline[d]
      BY <2>2 DEF Has
    <3>5. Grows /\ work[t].frame.key \in Has(s)'
      BY <3>3, <3>4 DEF Grows, Has
    <3>6. /\ imp'.chan = imp.chan /\ imp'.pos = imp.pos /\ imp'.archive = imp.archive /\ imp'.verify = imp.verify
          /\ imp'.errors = imp.errors /\ imp'.pc = imp.pc /\ imp'.frame = imp.frame
      BY <1>1, <2>2 DEF ImportRec
    <3>7. work' = [work EXCEPT ![t] = [pc |-> "recv", frame |-> NoFrame]]
      BY <1>6, PutBlockIs
    <3>8. ASSUME NEW k, Underway(k) PROVE Underway(k)' \/ Placed(k)'
      <4>1. CASE \E u \in Workers : Busy(work[u]) /\ work[u].frame.key = k
        <5>1. work[t].frame.key = k => Placed(k)'
          BY <3>5 DEF Placed
        <5> QED BY <1>3, <3>7, <4>1, <5>1
      <4>2. CASE ~ \E u \in Workers : Busy(work[u]) /\ work[u].frame.key = k
        BY <3>6, <3>8, <4>2 DEF Underway
      <4> QED BY <4>1, <4>2
    <3> QED BY <3>5, <3>6, <3>8, StoredGoesOn DEF Returned
  <2> QED BY <1>6, <2>1, <2>2, PutBlockIs
<1> QED BY <1>4, <1>5, <1>6

LEMMA StoredJoin == ASSUME Import, Counts, Stored, Join PROVE Stored'
<1>1. /\ imp.pc \in {"join", "abort"} /\ (\A t \in Workers : work[t].pc = "end") /\ UNCHANGED <<addr, inline>>
      /\ imp' = [imp EXCEPT !.pc = IF imp.pc = "join" THEN "done" ELSE "failed"] /\ imp \in ImportRec
  BY DEF Join, Import
<1>2. imp.chan = << >> /\ Len(imp.chan) = 0
  BY <1>1, CarAssumption, EmptySeq DEF Counts
<1>3. /\ imp'.pos = imp.pos /\ imp'.archive = imp.archive /\ imp'.verify = imp.verify /\ imp'.errors = imp.errors
  BY <1>1 DEF ImportRec
<1>4. \A k : ~ Underway(k)
  BY <1>1, <1>2 DEF Underway, Busy
<1>5. Grows
  BY <1>1 DEF Grows, Has
<1> QED BY <1>1, <1>3, <1>4, <1>5, StoredGoesOn DEF Returned

\* A step of the walks, while nothing is deleted.
LEMMA StoredStays ==
  ASSUME Stored, Grows, UNCHANGED <<imp, work>>
  PROVE  Stored'
<1>1. \A k : Underway(k) => Underway(k)'
  BY DEF Underway
<1> QED BY <1>1, StoredGoesOn DEF Returned

LEMMA CountsStay == ASSUME Counts, UNCHANGED <<imp, work>> PROVE Counts'
BY DEF Counts, Returned, Undone, Reported, Busy

LEMMA CountsImport == ASSUME StartImport PROVE Counts' /\ Stored'
<1>1. PICK a \in Archives, v \in BOOLEAN :
        IF a.header = "ok"
        THEN /\ imp' = [NoImport EXCEPT !.pc = "read", !.archive = a.frames, !.open = TRUE, !.verify = v]
             /\ work' = [t \in Workers |-> [NoWork EXCEPT !.pc = "recv"]]
        ELSE imp' = [NoImport EXCEPT !.pc = "failed"] /\ UNCHANGED work
  BY DEF StartImport
<1>2. CASE a.header = "ok"
  <2>1. /\ imp'.pc = "read" /\ imp'.open /\ imp'.chan = << >> /\ imp'.pos = 0 /\ imp'.blocks = 0 /\ imp'.skipped = 0
        /\ imp'.corrupt = 0 /\ imp'.errors = 0
    BY <1>1, <1>2 DEF NoImport
  <2>2. \A t \in Workers : work'[t] = [NoWork EXCEPT !.pc = "recv"]
    BY <1>1, <1>2
  <2>3. \A t \in Workers : work'[t].pc = "recv"
    BY <2>2 DEF NoWork
  <2>4. Cardinality({t \in Workers : Busy(work'[t])}) = 0
    BY <2>3, NoneBusy DEF Busy
  <2>5. Reported(imp') + Undone(imp', work') = 0
    BY <2>1, <2>4, EmptySeq DEF Reported, Undone
  <2>6. Stored'
    BY <2>1 DEF Stored
  <2> QED BY <2>1, <2>3, <2>5, <2>6 DEF Counts
<1>3. CASE a.header # "ok"
  <2>1. /\ imp'.pc = "failed" /\ ~ imp'.open /\ imp'.chan = << >>
    BY <1>1, <1>3 DEF NoImport
  <2> QED BY <2>1 DEF Counts, Returned, Stored
<1> QED BY <1>2, <1>3

\* Whatever is left of the scenario, nothing is added to it.
LEMMA ScenarioKeeps ==
  ASSUME WalksInv, Import, NoDeletes, [CarNext]_carVars
  PROVE  NoDeletes'
<1>0. left \in [Events -> Nat]
  BY DEF NoDeletes
<1>1. Spends
  <2>1. CASE Running
    BY <1>0, <2>1, RunningSpends
  <2>2. CASE Crash
    BY <1>0, <2>2, Used, EventsAre DEF Crash
  <2>3. CASE StartImport
    BY <1>0, <2>3, Used, EventsAre DEF StartImport
  <2>4. CASE Read \/ Send \/ Join \/ \E t \in Workers : Recv(t)
    BY <1>0, <2>4, Unspent, Zenon DEF Read, Send, Join, Recv
  <2>5. ASSUME NEW t \in Workers, AskStore(t) \/ PutBlock(t) PROVE Spends
    <3>1. UNCHANGED left \/ Use("error")
      BY <2>5, AskStoreIs, PutBlockIs
    <3> QED BY <1>0, <3>1, Used, Unspent, EventsAre
  <2>6. CASE UNCHANGED carVars
    BY <1>0, <2>6, Unspent DEF carVars
  <2> QED BY <2>1, <2>2, <2>3, <2>4, <2>5, <2>6 DEF CarNext, Importing
<1>2. PICK i \in Nat, r \in Nat, j \in Nat, s \in Nat :
        i = left["import"] /\ r = left["remove"] /\ j = left'["import"] /\ s = left'["remove"] /\ j <= i /\ s <= r
  BY <1>0, <1>1, EventsAre DEF Spends
<1>3. i = 0 \/ r = 0
  BY <1>2 DEF NoDeletes
<1>4. imp.pc # "idle" => r = 0
  BY <1>2 DEF NoDeletes
<1>5. CASE StartImport
  <2>1. i > 0
    BY <1>2, <1>5 DEF StartImport, Use
  <2>2. r = 0 /\ s = 0
    BY <1>2, <1>3, <2>1
  <2> QED BY <1>1, <1>2, <2>2 DEF NoDeletes, Spends
<1>6. ASSUME imp'.pc # "idle" => imp.pc # "idle" PROVE NoDeletes'
  <2>1. j = 0 \/ s = 0
    BY <1>2, <1>3
  <2>2. imp'.pc # "idle" => s = 0
    BY <1>2, <1>4, <1>6
  <2> QED BY <1>1, <1>2, <2>1, <2>2 DEF NoDeletes, Spends
<1>7. CASE Crash /\ imp' = NoImport
  BY <1>6, <1>7, NoImportIs
<1>8. CASE UNCHANGED imp
  BY <1>6, <1>8
<1>9. CASE Importing
  <2>1. imp.pc = "idle" => imp'.pc = "idle"
    <3>1. CASE Read \/ Send \/ Join
      BY <3>1, Zenon DEF Read, Send, Join
    <3>2. ASSUME NEW t \in Workers, Recv(t) \/ AskStore(t) \/ PutBlock(t) PROVE imp'.pc = imp.pc
      <4>1. imp \in ImportRec
        BY DEF Import
      <4>2. \/ imp' = [imp EXCEPT !.chan = Tail(@)] \/ UNCHANGED imp \/ imp' = [imp EXCEPT !.skipped = @ + 1]
            \/ imp' = [imp EXCEPT !.blocks = @ + 1, !.put = @ \cup {work[t].frame}] \/ imp' = [imp EXCEPT !.errors = @ + 1]
        BY <3>2, RecvIs, AskStoreIs, PutBlockIs
      <4> QED BY <4>1, <4>2 DEF ImportRec
    <3> QED BY <1>9, <3>1, <3>2 DEF Importing
  <2> QED BY <1>6, <2>1
<1> QED BY <1>5, <1>7, <1>8, <1>9 DEF CarNext, carVars

LEMMA CountsKeep == ASSUME Inv, Counts, [CarNext]_carVars PROVE Counts'
<1> USE DEF Inv
<1>1. CASE UNCHANGED <<imp, work>>
  BY <1>1, CountsStay
<1>2. CASE Crash /\ imp' = NoImport /\ work' = [t \in Workers |-> NoWork]
  <2>1. imp'.pc = "idle" /\ ~ imp'.open /\ \A t \in Workers : work'[t].pc = "none"
    BY <1>2, NoImportIs DEF NoImport
  <2> QED BY <2>1 DEF Counts, Returned
<1>3. CASE Importing
  BY <1>3, CountsRead, CountsSend, CountsJoin, CountsWork DEF Importing
<1> QED BY <1>1, <1>2, <1>3, CountsImport DEF CarNext, carVars

LEMMA StoredKeeps == ASSUME Inv, Counts, Stored, NoDeletes, [CarNext]_carVars PROVE Stored'
<1> USE DEF Inv
<1>1. CASE Running /\ UNCHANGED <<imp, work>>
  <2>1. CASE imp.pc = "idle"
    BY <1>1, <2>1 DEF Stored, Returned
  <2>2. CASE imp.pc # "idle"
    <3>1. Grows
      BY <1>1, <2>2, RunningSpends DEF NoDeletes
    <3> QED BY <1>1, <3>1, StoredStays
  <2> QED BY <2>1, <2>2
<1>2. CASE Crash /\ imp' = NoImport /\ work' = [t \in Workers |-> NoWork]
  BY <1>2, NoImportIs DEF Stored, Returned
<1>3. CASE Importing
  BY <1>3, StoredRead, StoredSend, StoredJoin, StoredWork DEF Importing
<1>4. CASE UNCHANGED carVars
  <2>1. Grows
    BY <1>4 DEF carVars, Grows, Has
  <2> QED BY <1>4, <2>1, StoredStays DEF carVars
<1> QED BY <1>1, <1>2, <1>3, <1>4, CountsImport DEF CarNext

\* A report counts each frame once, in every scenario: what a finished import
\* reports adds up to the frames of its archive (import_car's counters, the
\* channel and the workers of car.rs).
THEOREM CountsAddUp == CarSpec => [](imp.pc = "done" => imp.blocks + imp.skipped + imp.corrupt + imp.errors = Len(imp.archive))
<1>1. CarInit => Inv /\ Counts
  BY Starts, CountsStart DEF CarInit
<1>2. Inv /\ Counts /\ [CarNext]_carVars => Inv' /\ Counts'
  BY Steps, CountsKeep
<1>3. Inv /\ Counts => (imp.pc = "done" => imp.blocks + imp.skipped + imp.corrupt + imp.errors = Len(imp.archive))
  <2> SUFFICES ASSUME Inv, Counts, imp.pc = "done"
               PROVE  imp.blocks + imp.skipped + imp.corrupt + imp.errors = Len(imp.archive)
    OBVIOUS
  <2>1. imp.chan = << >> /\ (\A t \in Workers : ~ Busy(work[t])) /\ imp.pos = Len(imp.archive) /\ Reported(imp) + Undone(imp, work) = imp.pos
    BY DEF Counts, Returned
  <2>2. Undone(imp, work) = 0
    BY <2>1, NoneBusy, EmptySeq DEF Undone
  <2>3. imp.blocks \in Nat /\ imp.skipped \in Nat /\ imp.corrupt \in Nat /\ imp.errors \in Nat
    BY DEF Inv, Import, ImportRec
  <2>4. Reported(imp) \in Nat /\ Reported(imp) = imp.blocks + imp.skipped + imp.corrupt + imp.errors
    BY <2>3 DEF Reported
  <2>5. Reported(imp) + 0 = imp.pos
    BY <2>1, <2>2
  <2> QED BY <2>1, <2>4, <2>5
<1> QED BY <1>1, <1>2, <1>3, PTL DEF CarSpec

\* Until it is in the store a frame stays what the reader found it to be.
Clean ==
  /\ imp.pc = "idle" => \A t \in Workers : work[t].pc = "none"
  /\ imp.pc = "send" => Good(imp.frame)
  /\ \A j \in 1 .. Len(imp.chan) : Good(imp.chan[j])
  /\ \A t \in Workers : Busy(work[t]) => Good(work[t].frame)
  /\ \A f \in imp.put : Good(f)

LEMMA CleanRead == ASSUME Import, Clean, Read PROVE Clean'
<1>1. UNCHANGED work /\ imp \in ImportRec /\ imp.pc = "read"
  BY DEF Read, Import
<1>2. /\ imp'.chan = imp.chan /\ imp'.put = imp.put /\ imp'.verify = imp.verify
      /\ imp'.pc # "idle" /\ (imp'.pc # "send" \/ (imp'.frame = Frame /\ Good(Frame)))
  <2>1. CASE imp' = [imp EXCEPT !.pc = "join", !.open = FALSE]
    BY <1>1, <2>1 DEF ImportRec
  <2>2. CASE imp' = [imp EXCEPT !.pc = "abort", !.open = FALSE]
    BY <1>1, <2>2 DEF ImportRec
  <2>3. CASE imp' = [imp EXCEPT !.pos = @ + 1, !.corrupt = @ + 1]
    BY <1>1, <2>3 DEF ImportRec
  <2>4. CASE Good(Frame) /\ imp' = [imp EXCEPT !.pos = @ + 1, !.pc = "send", !.frame = Frame]
    <3>1. PICK f : f = Frame
      OBVIOUS
    <3>2. imp' = [imp EXCEPT !.pos = @ + 1, !.pc = "send", !.frame = f]
      BY <2>4, <3>1
    <3>3. imp'.chan = imp.chan /\ imp'.put = imp.put /\ imp'.verify = imp.verify /\ imp'.frame = f /\ imp'.pc = "send"
      BY <1>1, <3>2 DEF ImportRec
    <3> QED BY <2>4, <3>1, <3>3
  <2> QED BY <2>1, <2>2, <2>3, <2>4, ReadIs
<1>3. \A f : Good(f)' <=> Good(f)
  BY <1>2 DEF Good
<1>4. imp'.pc = "send" => Good(imp'.frame)
  BY <1>2
<1> QED BY <1>1, <1>2, <1>3, <1>4 DEF Clean, Good

LEMMA CleanSend == ASSUME Import, Clean, Send PROVE Clean'
<1>1. /\ UNCHANGED work /\ imp.pc = "send" /\ imp \in ImportRec /\ imp.frame \in Frames
      /\ imp' = [imp EXCEPT !.pc = "read", !.chan = Append(@, imp.frame), !.frame = NoFrame]
  BY DEF Send, Import
<1>2. PICK q \in Seq(Frames) : q = imp.chan
  BY <1>1 DEF ImportRec
<1>3. imp'.chan = Append(q, imp.frame) /\ imp'.put = imp.put /\ imp'.verify = imp.verify /\ imp'.pc = "read"
  BY <1>1, <1>2 DEF ImportRec
<1>4. \A j \in 1 .. Len(imp'.chan) : (j \in 1 .. Len(q) /\ imp'.chan[j] = q[j]) \/ imp'.chan[j] = imp.frame
  BY <1>1, <1>2, <1>3
<1>5. Good(imp.frame) /\ \A j \in 1 .. Len(q) : Good(q[j])
  BY <1>1, <1>2 DEF Clean
<1>6. \A j \in 1 .. Len(imp'.chan) : Good(imp'.chan[j])
  BY <1>4, <1>5
<1> QED BY <1>1, <1>3, <1>6 DEF Clean, Good

LEMMA CleanWork ==
  ASSUME Import, Clean, NEW t \in Workers, Recv(t) \/ AskStore(t) \/ PutBlock(t)
  PROVE  Clean'
<1>1. imp \in ImportRec /\ work \in [Workers -> WorkRec]
  BY DEF Import
<1>2. PICK q \in Seq(Frames) : q = imp.chan
  BY <1>1 DEF ImportRec
\* What is common to all of them.
<1>3. ASSUME NEW x, work' = [work EXCEPT ![t] = x], Busy(x) => Good(x.frame),
             imp'.pc = imp.pc, imp'.frame = imp.frame, imp'.verify = imp.verify,
             \A j \in 1 .. Len(imp'.chan) : Good(imp'.chan[j]), \A f \in imp'.put : Good(f)
      PROVE  Clean'
  <2>1. \A u \in Workers : work'[u] = IF u = t THEN x ELSE work[u]
    BY <1>1, <1>3
  <2>2. \A f : Good(f)' <=> Good(f)
    BY <1>3 DEF Good
  <2>3. \A u \in Workers : Busy(work'[u]) => Good(work'[u].frame)
    BY <1>3, <2>1 DEF Clean
  <2>4. imp'.pc = "send" => Good(imp'.frame)
    BY <1>3 DEF Clean
  <2>5. imp'.pc # "idle"
    BY <1>3, Zenon DEF Clean, Recv, AskStore, PutBlock
  <2> QED BY <1>3, <2>3, <2>4, <2>5 DEF Clean, Good
<1>4. ~ Busy([pc |-> "recv", frame |-> NoFrame])
  BY DEF Busy
<1>5. (\A j \in 1 .. Len(q) : Good(q[j])) /\ (\A f \in imp.put : Good(f)) /\ (Busy(work[t]) => Good(work[t].frame))
  BY <1>2 DEF Clean
<1>6. CASE Recv(t)
  <2>1. CASE /\ imp.chan # << >> /\ work' = [work EXCEPT ![t] = [pc |-> "has", frame |-> Head(imp.chan)]]
             /\ imp' = [imp EXCEPT !.chan = Tail(@)] /\ Head(imp.chan) = imp.chan[1]
    <3>1. PICK x : x = [pc |-> "has", frame |-> q[1]]
      OBVIOUS
    <3>6. x.frame = q[1]
      BY <3>1
    <3>2. /\ imp'.chan = Tail(q) /\ imp'.put = imp.put /\ imp'.verify = imp.verify /\ imp'.pc = imp.pc /\ imp'.frame = imp.frame
      BY <1>1, <1>2, <2>1 DEF ImportRec
    <3>3. /\ Len(q) \in Nat /\ 1 \in 1 .. Len(q) /\ Len(Tail(q)) = Len(q) - 1
          /\ \A j \in 1 .. Len(q) - 1 : Tail(q)[j] = q[j + 1] /\ j + 1 \in 1 .. Len(q)
      BY <1>2, <2>1, EmptySeq
    <3>4. Good(x.frame) /\ \A j \in 1 .. Len(imp'.chan) : Good(imp'.chan[j])
      BY <1>5, <3>2, <3>3, <3>6
    <3>5. work' = [work EXCEPT ![t] = x]
      BY <1>2, <2>1, <3>1
    <3> QED BY ONLY <1>3, <1>5, <3>2, <3>4, <3>5
  <2>2. CASE UNCHANGED imp /\ work' = [work EXCEPT ![t] = [pc |-> "end", frame |-> work[t].frame]]
    <3>1. ~ Busy([pc |-> "end", frame |-> work[t].frame])
      BY DEF Busy
    <3> QED BY <1>2, <1>3, <1>5, <2>2, <3>1
  <2> QED BY <1>6, <2>1, <2>2, RecvIs
<1>7. CASE AskStore(t)
  <2>1. Good(work[t].frame)
    BY <1>5, <1>7 DEF AskStore, Busy
  <2>2. CASE work' = [work EXCEPT ![t] = [pc |-> "recv", frame |-> NoFrame]] /\ imp' = [imp EXCEPT !.skipped = @ + 1]
    <3>1. /\ imp'.chan = q /\ imp'.put = imp.put /\ imp'.verify = imp.verify /\ imp'.pc = imp.pc /\ imp'.frame = imp.frame
      BY <1>1, <1>2, <2>2 DEF ImportRec
    <3> QED BY <1>3, <1>4, <1>5, <2>2, <3>1
  <2>3. CASE work' = [work EXCEPT ![t] = [pc |-> "put", frame |-> work[t].frame]] /\ UNCHANGED imp
    <3>1. PICK x : x = [pc |-> "put", frame |-> work[t].frame]
      OBVIOUS
    <3>2. x.frame = work[t].frame
      BY <3>1
    <3> QED BY <1>2, <1>3, <1>5, <2>1, <2>3, <3>1, <3>2
  <2> QED BY <1>7, <2>2, <2>3, AskStoreIs
<1>8. CASE PutBlock(t)
  <2>1. Good(work[t].frame) /\ work' = [work EXCEPT ![t] = [pc |-> "recv", frame |-> NoFrame]]
    BY <1>5, <1>8, PutBlockIs DEF Busy
  <2>2. CASE imp' = [imp EXCEPT !.errors = @ + 1]
    <3>1. /\ imp'.chan = q /\ imp'.put = imp.put /\ imp'.verify = imp.verify /\ imp'.pc = imp.pc /\ imp'.frame = imp.frame
      BY <1>1, <1>2, <2>2 DEF ImportRec
    <3> QED BY <1>3, <1>4, <1>5, <2>1, <3>1
  <2>3. CASE imp' = [imp EXCEPT !.blocks = @ + 1, !.put = @ \cup {work[t].frame}]
    <3>1. /\ imp'.chan = q /\ imp'.put = imp.put \cup {work[t].frame} /\ imp'.verify = imp.verify /\ imp'.pc = imp.pc
          /\ imp'.frame = imp.frame
      BY <1>1, <1>2, <2>3 DEF ImportRec
    <3>2. \A f \in imp'.put : Good(f)
      BY <1>5, <2>1, <3>1
    <3> QED BY <1>3, <1>4, <1>5, <2>1, <3>1, <3>2
  <2> QED BY <1>8, <2>2, <2>3, PutBlockIs
<1> QED BY <1>6, <1>7, <1>8

LEMMA CleanKeeps == ASSUME Inv, Clean, [CarNext]_carVars PROVE Clean'
<1> USE DEF Inv
<1>1. CASE UNCHANGED <<imp, work>>
  BY <1>1 DEF Clean, Good, Busy
<1>2. ASSUME imp'.pc # "send", imp'.chan = << >>, imp'.put = {}, \A t \in Workers : ~ Busy(work'[t]),
             imp'.pc = "idle" => \A t \in Workers : work'[t].pc = "none"
      PROVE  Clean'
  <2>1. Len(imp'.chan) = 0
    BY <1>2, EmptySeq
  <2> QED BY <1>2, <2>1 DEF Clean, Busy
<1>3. CASE Crash /\ imp' = NoImport /\ work' = [t \in Workers |-> NoWork]
  <2>1. imp'.pc = "idle" /\ imp'.chan = << >> /\ imp'.put = {}
    BY <1>3 DEF NoImport
  <2>2. \A t \in Workers : ~ Busy(work'[t]) /\ work'[t].pc = "none"
    BY <1>3, NoImportIs DEF Busy
  <2> QED BY <1>2, <2>1, <2>2
<1>4. CASE StartImport
  <2>1. PICK a \in Archives, v \in BOOLEAN :
          IF a.header = "ok"
          THEN /\ imp' = [NoImport EXCEPT !.pc = "read", !.archive = a.frames, !.open = TRUE, !.verify = v]
               /\ work' = [t \in Workers |-> [NoWork EXCEPT !.pc = "recv"]]
          ELSE imp' = [NoImport EXCEPT !.pc = "failed"] /\ UNCHANGED work
    BY <1>4 DEF StartImport
  <2>2. imp'.pc \notin {"idle", "send"} /\ imp'.chan = << >> /\ imp'.put = {}
    BY <2>1 DEF NoImport
  <2>3. CASE a.header = "ok"
    <3>1. \A t \in Workers : work'[t] = [NoWork EXCEPT !.pc = "recv"]
      BY <2>1, <2>3
    <3>2. \A t \in Workers : ~ Busy(work'[t])
      BY <3>1 DEF NoWork, Busy
    <3> QED BY <1>2, <2>2, <3>2
  <2>4. CASE a.header # "ok"
    <3>1. imp.pc = "idle" /\ UNCHANGED work
      BY <1>4, <2>1, <2>4 DEF StartImport
    <3>2. \A t \in Workers : ~ Busy(work'[t])
      BY <3>1 DEF Clean, Busy
    <3> QED BY <1>2, <2>2, <3>2
  <2> QED BY <2>3, <2>4
<1>5. CASE Join
  <2>1. imp \in ImportRec /\ \A t \in Workers : ~ Busy(work'[t])
    BY <1>5, NoImportIs DEF Join, Busy, Import
  <2>2. imp'.pc \notin {"idle", "send"} /\ imp'.chan = imp.chan /\ imp'.put = imp.put /\ imp'.verify = imp.verify
    BY <1>5, <2>1 DEF Join, ImportRec
  <2> QED BY <2>1, <2>2 DEF Clean, Good, Busy
<1>6. CASE Importing
  BY <1>5, <1>6, CleanRead, CleanSend, CleanWork DEF Importing
<1> QED BY <1>1, <1>3, <1>4, <1>6 DEF CarNext, carVars

\* ReportAddsUp: no import of car.rs puts a spoilt frame, and where no scenario
\* has both an import and deletes, one that counts no error has every sound
\* frame of its archive in the store.
THEOREM ReportsAddUp ==
  ASSUME \A b \in Budgets : b["import"] = 0 \/ b["remove"] = 0
  PROVE  CarSpec => []ReportAddsUp
<1> DEFINE All3 == Inv /\ Counts /\ Stored /\ NoDeletes /\ Clean
<1>1. CarInit => All3
  <2> SUFFICES ASSUME CarInit PROVE All3
    OBVIOUS
  <2>1. imp.pc = "idle"
    BY NoImportIs DEF CarInit
  <2>2. Stored
    BY <2>1 DEF Stored, Returned
  <2>3. left \in Budgets
    BY DEF CarInit, Init
  <2>4. NoDeletes
    BY <2>1, <2>3, WalksAssumption DEF NoDeletes
  <2>5. Clean
    <3>1. imp.chan = << >> /\ Len(imp.chan) = 0 /\ imp.put = {}
      BY EmptySeq DEF CarInit, NoImport
    <3>2. \A t \in Workers : work[t].pc = "none"
      BY NoImportIs DEF CarInit
    <3> QED BY <2>1, <3>1, <3>2 DEF Clean, Busy
  <2> QED BY <2>2, <2>4, <2>5, Starts, CountsStart DEF CarInit
<1>2. All3 /\ [CarNext]_carVars => All3'
  BY Steps, CountsKeep, StoredKeeps, ScenarioKeeps, CleanKeeps DEF Inv
<1>3. All3 /\ (imp.pc = "done" => imp.blocks + imp.skipped + imp.corrupt + imp.errors = Len(imp.archive)) => ReportAddsUp
  <2> SUFFICES ASSUME All3,
                      imp.pc = "done" => imp.blocks + imp.skipped + imp.corrupt + imp.errors = Len(imp.archive)
               PROVE  ReportAddsUp
    OBVIOUS
  <2>1. ASSUME imp.pc = "done", imp.errors = 0
        PROVE  \A i \in 1 .. Len(imp.archive) : Good(imp.archive[i]) => Placed(imp.archive[i].key)
    <3>1. imp.chan = << >> /\ (\A t \in Workers : ~ Busy(work[t])) /\ imp.pos = Len(imp.archive)
      BY <2>1 DEF Counts
    <3>2. \A k : ~ Underway(k)
      BY <2>1, <3>1, EmptySeq DEF Underway
    <3> QED BY <2>1, <3>1, <3>2 DEF Stored, Returned
  <2>2. \A f \in imp.put : Good(f)
    BY DEF Clean
  <2> QED BY <2>1, <2>2 DEF ReportAddsUp, Placed
<1> QED BY <1>1, <1>2, <1>3, CountsAddUp, PTL DEF CarSpec

=============================================================================
