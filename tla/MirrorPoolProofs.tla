--------------------------- MODULE MirrorPoolProofs --------------------------
(***************************************************************************)
(* Proofs about MirrorPool for any number of shards, clients, healers and  *)
(* replicas and any rankings: what a lookup may miss, that undisturbed     *)
(* copies agree, and that an acknowledged body survives fewer bad copies   *)
(* than the quorum.                                                        *)
(***************************************************************************)
EXTENDS MirrorPool, TLAPS, SequenceTheorems, FiniteSetTheorems, WellFoundedInduction

-----------------------------------------------------------------------------
(* Numbers and finite sets: induction over a set a proof can instantiate,  *)
(* and extrema.                                                            *)

\* A non-empty set of natural numbers has a least element.
LEMMA NatLeast ==
  ASSUME NEW S \in SUBSET Nat, S # {}
  PROVE  \E x \in S : \A y \in S : x <= y
<1>1. PICK x \in S : \A y \in S : <<y, x>> \notin OpToRel(<, Nat)
  BY WFMin, NatLessThanWellFounded, Zenon
<1>2. \A y \in S : ~ (y < x)
  <2>1. x \in Nat /\ \A y \in S : y \in Nat
    OBVIOUS
  <2> QED BY <1>1, <2>1, Zenon DEF OpToRel
<1> QED BY <1>2

\* Induction over the natural numbers.
LEMMA NatInd ==
  ASSUME NEW S, 0 \in S, \A n \in Nat : n \in S => n + 1 \in S
  PROVE  \A n \in Nat : n \in S
<1> DEFINE T == Nat \ S
<1> SUFFICES ASSUME T # {} PROVE FALSE
  OBVIOUS
<1>1. PICK m \in T : \A y \in T : m <= y
  BY NatLeast
<1>2. m # 0 /\ m - 1 \in Nat
  BY <1>1
<1>3. m - 1 \in S
  BY <1>1, <1>2
<1> QED BY <1>1, <1>2, <1>3

\* f starts with e, and each value is what Step makes of the one before it.
StepsFrom(f, n, e, Step) == f[0] = e /\ \A i \in 1 .. n : f[i] = Step[i][f[i - 1]]

\* A function given by its value at 0 and by what each value makes of the one
\* before it exists.
LEMMA RecExists ==
  ASSUME NEW T, NEW n \in Nat, NEW e \in T, NEW Step \in [1 .. n -> [T -> T]]
  PROVE  \E f \in [0 .. n -> T] : StepsFrom(f, n, e, Step)
<1> DEFINE Upto(m) == \E f \in [0 .. m -> T] : f[0] = e /\ \A i \in 1 .. m : f[i] = Step[i][f[i - 1]]
           S == {m \in Nat : m <= n => Upto(m)}
<1>1. 0 \in S
  <2> DEFINE f == [i \in 0 .. 0 |-> e]
  <2>1. f \in [0 .. 0 -> T] /\ f[0] = e /\ \A i \in 1 .. 0 : f[i] = Step[i][f[i - 1]]
    OBVIOUS
  <2> QED BY <2>1
<1>2. ASSUME NEW m \in Nat, m \in S PROVE m + 1 \in S
  <2> SUFFICES ASSUME m + 1 <= n PROVE Upto(m + 1)
    OBVIOUS
  <2>1. PICK f \in [0 .. m -> T] : f[0] = e /\ \A i \in 1 .. m : f[i] = Step[i][f[i - 1]]
    BY <1>2
  <2> DEFINE g == [i \in 0 .. m + 1 |-> IF i = m + 1 THEN Step[m + 1][f[m]] ELSE f[i]]
  <2>2. Step[m + 1][f[m]] \in T
    OBVIOUS
  <2>3. g \in [0 .. m + 1 -> T] /\ g[0] = e
    BY <2>1, <2>2
  <2>4. ASSUME NEW i \in 1 .. m + 1 PROVE g[i] = Step[i][g[i - 1]]
    <3>1. CASE i = m + 1
      <4>1. g[i - 1] = f[m] /\ g[i] = Step[m + 1][f[m]]
        BY <3>1
      <4> QED BY <3>1, <4>1
    <3>2. CASE i # m + 1
      <4>1. i \in 1 .. m /\ g[i - 1] = f[i - 1] /\ g[i] = f[i]
        BY <3>2
      <4> QED BY <2>1, <4>1
    <3> QED BY <3>1, <3>2
  <2> HIDE DEF g
  <2> QED BY <2>3, <2>4
<1>3. n \in S
  <2> HIDE DEF S
  <2> QED BY <1>1, <1>2, NatInd
<1> QED BY <1>3 DEF StepsFrom

\* Min of a set of natural numbers.
LEMMA MinIsLeast ==
  ASSUME NEW S \in SUBSET Nat, S # {}
  PROVE  Min(S) \in S /\ \A y \in S : Min(S) <= y
BY NatLeast DEF Min

-----------------------------------------------------------------------------
(* Counting: one element enters or leaves the counted set. *)

LEMMA CountUp ==
  ASSUME NEW S, IsFiniteSet(S), NEW T, NEW x, x \notin S, T = S \cup {x}
  PROVE  IsFiniteSet(T) /\ Cardinality(T) = Cardinality(S) + 1
BY FS_AddElement

LEMMA CountDown ==
  ASSUME NEW S, IsFiniteSet(S), NEW T, NEW x \in S, T = S \ {x}
  PROVE  IsFiniteSet(T) /\ Cardinality(T) = Cardinality(S) - 1
BY FS_RemoveElement

-----------------------------------------------------------------------------
(* Orders of shards. *)

\* The values of the recursive function behind Without.
Rests(q, S, f) ==
  /\ f[0] = << >> /\ Without(q, S) = f[Len(q)]
  /\ \A i \in 1 .. Len(q) : f[i] = IF q[i] \in S THEN f[i - 1] ELSE Append(f[i - 1], q[i])

LEMMA WithoutRec ==
  ASSUME NEW T, NEW q \in Seq(T), NEW S
  PROVE  \E f \in [0 .. Len(q) -> Seq(T)] : Rests(q, S, f)
<1> DEFINE n == Len(q)
           Step == [i \in 1 .. n |-> [t \in Seq(T) |-> IF q[i] \in S THEN t ELSE Append(t, q[i])]]
           Eq(g) == [i \in 0 .. n |-> IF i = 0 THEN << >> ELSE IF q[i] \in S THEN g[i - 1] ELSE Append(g[i - 1], q[i])]
<1>0. n \in Nat /\ \A i \in 1 .. n : q[i] \in T
  BY LenProperties, ElementOfSeq
<1>1. Step \in [1 .. n -> [Seq(T) -> Seq(T)]] /\ << >> \in Seq(T)
  BY <1>0
<1>2. PICK f \in [0 .. n -> Seq(T)] : f[0] = << >> /\ \A i \in 1 .. n : f[i] = Step[i][f[i - 1]]
  <2> HIDE DEF Step, n
  <2> PICK M, e : M = Seq(T) /\ e = << >>
    OBVIOUS
  <2>1. e \in M /\ Step \in [1 .. n -> [M -> M]]
    BY <1>1
  <2>2. \E f \in [0 .. n -> M] : StepsFrom(f, n, e, Step)
    BY <1>0, <2>1, RecExists
  <2> QED BY <2>2 DEF StepsFrom
<1>3. \A i \in 1 .. n : f[i] = IF q[i] \in S THEN f[i - 1] ELSE Append(f[i - 1], q[i])
  <2> TAKE i \in 1 .. n
  <2>0. i - 1 \in 0 .. n
    BY <1>0
  <2>1. f[i - 1] \in Seq(T)
    BY <2>0
  <2>2. f[i] = Step[i][f[i - 1]]
    <3> HIDE DEF Step, n
    <3> QED BY <1>2
  <2> PICK t \in Seq(T) : t = f[i - 1]
    BY <2>1
  <2> QED BY <2>2
<1>4. f = Eq(f)
  <2>1. \A i \in 0 .. n : f[i] = Eq(f)[i]
    <3> TAKE i \in 0 .. n
    <3>1. CASE i = 0
      BY <1>2, <3>1
    <3>2. CASE i # 0
      <4>1. i \in 1 .. n
        BY <1>0, <3>2
      <4>2. f[i] = IF q[i] \in S THEN f[i - 1] ELSE Append(f[i - 1], q[i])
        BY <1>3, <4>1
      <4> QED BY <3>2, <4>2
    <3> QED BY <3>1, <3>2
  <2>2. DOMAIN Eq(f) = 0 .. n /\ Eq(f) = [i \in 0 .. n |-> Eq(f)[i]] /\ f = [i \in 0 .. n |-> f[i]]
    OBVIOUS
  <2> HIDE DEF Eq, n
  <2> QED BY <2>1, <2>2
<1> DEFINE rest == CHOOSE g : g = Eq(g)
<1>5. rest = Eq(rest)
  <2> HIDE DEF Eq
  <2> QED BY <1>4
<1>6. Without(q, S) = rest[n]
  BY DEF Without
<1> HIDE DEF rest
<1>7. rest[n] = f[n]
  <2> DEFINE Same == {i \in Nat : i <= n => rest[i] = f[i]}
  <2>1. 0 \in Same
    <3>1. rest[0] = << >>
      BY <1>0, <1>5
    <3> QED BY <1>2, <3>1
  <2>2. ASSUME NEW i \in Nat, i \in Same PROVE i + 1 \in Same
    <3> SUFFICES ASSUME i + 1 <= n PROVE rest[i + 1] = f[i + 1]
      OBVIOUS
    <3>1. rest[i] = f[i] /\ i + 1 \in 1 .. n /\ (i + 1) - 1 = i
      BY <1>0, <2>2
    <3>2. rest[i + 1] = IF q[i + 1] \in S THEN rest[i] ELSE Append(rest[i], q[i + 1])
      <4>1. i + 1 \in 0 .. n /\ i + 1 # 0
        BY <1>0, <3>1
      <4>2. rest[i + 1] = Eq(rest)[i + 1]
        BY <1>5
      <4>3. Eq(rest)[i + 1] = IF q[i + 1] \in S THEN rest[(i + 1) - 1] ELSE Append(rest[(i + 1) - 1], q[i + 1])
        BY <4>1
      <4> QED BY <3>1, <4>2, <4>3
    <3>3. f[i + 1] = IF q[i + 1] \in S THEN f[i] ELSE Append(f[i], q[i + 1])
      BY <1>3, <3>1
    <3> QED BY <3>1, <3>2, <3>3
  <2>3. n \in Same
    <3> HIDE DEF Same
    <3> QED BY <1>0, <2>1, <2>2, NatInd
  <2> QED BY <1>0, <2>3
<1> QED BY <1>2, <1>3, <1>6, <1>7 DEF Rests

\* What Without leaves: the elements outside of the set, each where it was
\* one, and no more of them than before.
LEMMA WithoutProperties ==
  ASSUME NEW T, NEW q \in Seq(T), NEW S
  PROVE  /\ Without(q, S) \in Seq(T) /\ Len(Without(q, S)) <= Len(q)
         /\ Range(Without(q, S)) = Range(q) \ S
         /\ IsInjective(q) => IsInjective(Without(q, S))
<1>a. PICK f \in [0 .. Len(q) -> Seq(T)] : Rests(q, S, f)
  BY WithoutRec
<1>1. /\ f[0] = << >> /\ Without(q, S) = f[Len(q)]
      /\ \A i \in 1 .. Len(q) : f[i] = IF q[i] \in S THEN f[i - 1] ELSE Append(f[i - 1], q[i])
  BY <1>a DEF Rests
<1>0. Len(q) \in Nat /\ DOMAIN q = 1 .. Len(q) /\ \A i \in 1 .. Len(q) : q[i] \in T
  BY LenProperties, ElementOfSeq
<1> DEFINE Good(i) ==
      /\ Len(f[i]) <= i
      /\ \A j \in 1 .. Len(f[i]) : \E m \in 1 .. i : f[i][j] = q[m] /\ q[m] \notin S
      /\ \A m \in 1 .. i : q[m] \notin S => \E j \in 1 .. Len(f[i]) : f[i][j] = q[m]
      /\ IsInjective(q) => \A a, b \in 1 .. Len(f[i]) : f[i][a] = f[i][b] => a = b
    G == {i \in Nat : i <= Len(q) => Good(i)}
<1>2. 0 \in G
  <2>1. Len(f[0]) = 0
    BY <1>1
  <2> QED BY <2>1
<1>3. ASSUME NEW i \in Nat, i \in G PROVE i + 1 \in G
  <2> SUFFICES ASSUME i + 1 <= Len(q) PROVE Good(i + 1)
    OBVIOUS
  <2>0. i <= Len(q) /\ i + 1 \in 1 .. Len(q) /\ i \in 0 .. Len(q) /\ (i + 1) - 1 = i
    BY <1>0
  <2>1. Good(i) /\ i + 1 \in 1 .. Len(q) /\ i \in 0 .. Len(q) /\ (i + 1) - 1 = i
    <3> HIDE DEF Good
    <3> QED BY <1>3, <2>0
  <2> PICK o \in Seq(T) : o = f[i]
    BY <2>1
  <2>2. f[i + 1] = IF q[i + 1] \in S THEN o ELSE Append(o, q[i + 1])
    BY <1>1, <2>1
  <2>t. Len(o) \in Nat /\ q[i + 1] \in T
    BY <1>0, <2>1, LenProperties
  <2>3. CASE q[i + 1] \in S
    <3>1. f[i + 1] = o
      BY <2>2, <2>3
    <3>2. Len(o) <= i + 1
      BY <2>1, <2>t
    <3>3. \A j \in 1 .. Len(o) : \E m \in 1 .. i + 1 : o[j] = q[m] /\ q[m] \notin S
      BY <2>1
    <3>4. \A m \in 1 .. i + 1 : q[m] \notin S => \E j \in 1 .. Len(o) : o[j] = q[m]
      <4> SUFFICES ASSUME NEW m \in 1 .. i + 1, q[m] \notin S PROVE \E j \in 1 .. Len(o) : o[j] = q[m]
        OBVIOUS
      <4>1. m \in 1 .. i
        BY <2>3
      <4> QED BY <2>1, <4>1
    <3> QED BY <2>1, <3>1, <3>2, <3>3, <3>4
  <2>4. CASE q[i + 1] \notin S
    <3> PICK n \in Seq(T) : n = Append(o, q[i + 1])
      BY <2>t
    <3>1. /\ f[i + 1] = n /\ Len(n) = Len(o) + 1 /\ n[Len(o) + 1] = q[i + 1]
          /\ \A j \in 1 .. Len(o) : n[j] = o[j]
      BY <2>2, <2>4, <2>t
    <3>2. Len(n) <= i + 1
      BY <2>1, <2>t, <3>1
    <3>3. ASSUME NEW j \in 1 .. Len(n) PROVE \E m \in 1 .. i + 1 : n[j] = q[m] /\ q[m] \notin S
      <4>1. CASE j = Len(o) + 1
        BY <2>4, <3>1, <4>1
      <4>2. CASE j # Len(o) + 1
        <5>1. j \in 1 .. Len(o) /\ n[j] = o[j]
          BY <2>t, <3>1, <4>2
        <5> QED BY <2>1, <5>1
      <4> QED BY <4>1, <4>2
    <3>4. ASSUME NEW m \in 1 .. i + 1, q[m] \notin S PROVE \E j \in 1 .. Len(n) : n[j] = q[m]
      <4>1. CASE m = i + 1
        <5>1. Len(o) + 1 \in 1 .. Len(n)
          BY <2>t, <3>1
        <5> QED BY <3>1, <4>1, <5>1
      <4>2. CASE m # i + 1
        <5>1. m \in 1 .. i
          BY <4>2
        <5>2. PICK j \in 1 .. Len(o) : o[j] = q[m]
          BY <2>1, <3>4, <5>1
        <5>3. j \in 1 .. Len(n) /\ n[j] = q[m]
          BY <2>t, <3>1, <5>2
        <5> QED BY <5>3
      <4> QED BY <4>1, <4>2
    <3>5. ASSUME IsInjective(q), NEW a \in 1 .. Len(n), NEW b \in 1 .. Len(n), n[a] = n[b] PROVE a = b
      <4>1. \A j \in 1 .. Len(o) : o[j] # q[i + 1]
        <5> SUFFICES ASSUME NEW j \in 1 .. Len(o), o[j] = q[i + 1] PROVE FALSE
          OBVIOUS
        <5>1. PICK m \in 1 .. i : o[j] = q[m]
          BY <2>1
        <5>2. m \in 1 .. Len(q) /\ m # i + 1 /\ q[m] = q[i + 1]
          BY <1>0, <2>1, <5>1
        <5> QED BY <1>0, <2>1, <3>5, <5>2 DEF IsInjective
      <4>2. \A j \in 1 .. Len(n) : j \in 1 .. Len(o) \/ j = Len(o) + 1
        BY <2>t, <3>1
      <4>3. CASE a \in 1 .. Len(o) /\ b \in 1 .. Len(o)
        BY <2>1, <3>1, <3>5, <4>3
      <4>4. CASE a = Len(o) + 1 \/ b = Len(o) + 1
        BY <3>1, <3>5, <4>1, <4>2, <4>4
      <4> QED BY <4>2, <4>3, <4>4
    <3>6. /\ Len(n) <= i + 1
          /\ \A j \in 1 .. Len(n) : \E m \in 1 .. i + 1 : n[j] = q[m] /\ q[m] \notin S
          /\ \A m \in 1 .. i + 1 : q[m] \notin S => \E j \in 1 .. Len(n) : n[j] = q[m]
          /\ IsInjective(q) => \A a, b \in 1 .. Len(n) : n[a] = n[b] => a = b
      BY <3>2, <3>3, <3>4, <3>5
    <3>7. f[i + 1] = n
      BY <3>1
    <3> QED BY ONLY <3>6, <3>7
  <2> QED BY <2>3, <2>4
<1>4. Good(Len(q))
  <2>1. Len(q) \in G
    <3> HIDE DEF G
    <3> QED BY <1>0, <1>2, <1>3, NatInd
  <2> QED BY <1>0, <2>1
<1> PICK w \in Seq(T) : w = f[Len(q)]
  BY <1>0
<1>5. Without(q, S) = w /\ DOMAIN w = 1 .. Len(w)
  BY <1>1, LenProperties
<1>6. Range(w) = Range(q) \ S
  <2>1. ASSUME NEW x \in Range(w) PROVE x \in Range(q) \ S
    <3>1. PICK j \in 1 .. Len(w) : x = w[j]
      BY <1>5, <2>1 DEF Range
    <3>2. PICK m \in 1 .. Len(q) : w[j] = q[m] /\ q[m] \notin S
      BY <1>4, <3>1
    <3> QED BY <1>0, <3>1, <3>2 DEF Range
  <2>2. ASSUME NEW x \in Range(q) \ S PROVE x \in Range(w)
    <3>1. PICK m \in 1 .. Len(q) : x = q[m]
      BY <1>0, <2>2 DEF Range
    <3>2. PICK j \in 1 .. Len(w) : w[j] = q[m]
      BY <1>4, <2>2, <3>1
    <3> QED BY <1>5, <3>1, <3>2 DEF Range
  <2> QED BY <2>1, <2>2
<1> QED BY <1>4, <1>5, <1>6, SMTT(30) DEF IsInjective

\* replicas_for: the first R shards of the ranking, each once.
LEMMA RepsProperties ==
  ASSUME ranking \in Rankings
  PROVE  /\ replicas_for \in Seq(Shards) /\ IsInjective(replicas_for)
         /\ Len(replicas_for) <= R /\ Len(replicas_for) <= Len(ranking)
         /\ Len(replicas_for) = R \/ Len(replicas_for) = Len(ranking)
<1> PICK r \in Seq(Shards) : r = ranking /\ IsInjective(r)
  BY MirrorAssumption
<1>0. Len(r) \in Nat /\ R \in Nat
  BY MirrorAssumption, LenProperties
<1> PICK m : m = Min({R, Len(r)})
  OBVIOUS
<1>1. m \in Nat /\ m <= R /\ m <= Len(r) /\ (m = R \/ m = Len(r))
  <2>1. {R, Len(r)} \in SUBSET Nat /\ {R, Len(r)} # {}
    BY <1>0
  <2> QED BY <1>0, <2>1, MinIsLeast
<1> PICK s : s = SubSeq(r, 1, m)
  OBVIOUS
<1>2. s \in Seq(Shards) /\ Len(s) = m /\ \A i \in 1 .. m : s[i] = r[i]
  <2>1. \A i \in 1 .. m : r[i] \in Shards
    BY <1>0, <1>1, ElementOfSeq
  <2>2. s = [i \in 1 .. m |-> r[i]]
    BY <1>0, <1>1
  <2>3. s \in [1 .. m -> Shards]
    BY <2>1, <2>2
  <2>4. s \in Seq(Shards) /\ Len(s) = m
    BY ONLY <1>1, <2>3
  <2>5. \A i \in 1 .. m : s[i] = r[i]
    BY <2>2
  <2> QED BY <2>4, <2>5
<1>3. IsInjective(s)
  <2>1. DOMAIN s = 1 .. m
    BY <1>2, LenProperties
  <2>2. DOMAIN r = 1 .. Len(r)
    BY LenProperties
  <2>3. \A i \in 1 .. m : i \in 1 .. Len(r)
    BY <1>0, <1>1
  <2>4. ASSUME NEW a \in 1 .. m, NEW b \in 1 .. m, s[a] = s[b] PROVE a = b
    <3>1. r[a] = r[b] /\ a \in DOMAIN r /\ b \in DOMAIN r
      BY <1>2, <2>2, <2>3, <2>4
    <3> QED BY <3>1 DEF IsInjective
  <2> QED BY ONLY <2>1, <2>4 DEF IsInjective
<1>4. s = replicas_for
  BY DEF replicas_for
<1> QED BY <1>1, <1>2, <1>3, <1>4

\* The shards in order are all of them.
LEMMA InOrderProperties ==
  /\ InOrder \in Seq(Shards) /\ Len(InOrder) = N /\ Range(InOrder) = Shards
  /\ IsInjective(InOrder) /\ N \in Nat
<1>1. N \in Nat /\ InOrder \in [1 .. N -> Shards] /\ DOMAIN InOrder = 1 .. N
  BY MirrorAssumption DEF InOrder, Shards
<1>2. InOrder \in Seq(Shards) /\ Len(InOrder) = N
  BY <1>1
<1>3. Range(InOrder) = Shards /\ IsInjective(InOrder)
  BY DEF Range, IsInjective, InOrder
<1> QED BY <1>1, <1>2, <1>3

\* CallOrder asks every shard, and the first replica only once.
LEMMA CallOrderProperties ==
  ASSUME NEW q \in Seq(Shards), IsInjective(q)
  PROVE  /\ CallOrder(q) \in Seq(Shards) /\ Range(CallOrder(q)) = Shards
         /\ Len(q) >= 2 =>
              /\ Len(CallOrder(q)) >= 2 /\ CallOrder(q)[1] = q[1] /\ CallOrder(q)[2] = q[2]
              /\ \A i \in 2 .. Len(CallOrder(q)) : CallOrder(q)[i] # q[1]
<1> PICK w \in Seq(Shards) : w = Without(InOrder, Range(q)) /\ Range(w) = Shards \ Range(q)
  BY InOrderProperties, WithoutProperties
<1> PICK c : c = q \o w
  OBVIOUS
<1>0. Len(q) \in Nat /\ Len(w) \in Nat /\ DOMAIN q = 1 .. Len(q) /\ DOMAIN w = 1 .. Len(w)
  BY LenProperties
<1>1. /\ c \in Seq(Shards) /\ Len(c) = Len(q) + Len(w)
      /\ \A i \in 1 .. Len(q) + Len(w) : c[i] = IF i <= Len(q) THEN q[i] ELSE w[i - Len(q)]
  BY ConcatProperties
<1>2. DOMAIN c = 1 .. Len(q) + Len(w)
  BY <1>1, LenProperties
<1>3. \A i \in 1 .. Len(q) : i \in 1 .. Len(q) + Len(w) /\ c[i] = q[i]
  BY <1>0, <1>1
<1>4. \A i \in 1 .. Len(w) : Len(q) + i \in 1 .. Len(q) + Len(w) /\ c[Len(q) + i] = w[i]
  <2> TAKE i \in 1 .. Len(w)
  <2>1. Len(q) + i \in 1 .. Len(q) + Len(w) /\ ~ (Len(q) + i <= Len(q)) /\ (Len(q) + i) - Len(q) = i
    BY <1>0
  <2> QED BY <1>1, <2>1
<1>5. Range(c) = Shards
  <2>1. Range(q) \subseteq Shards
    BY <1>0, ElementOfSeq DEF Range
  <2>2. ASSUME NEW x \in Range(c) PROVE x \in Shards
    BY <1>1, <1>2, ElementOfSeq DEF Range
  <2>3. ASSUME NEW x \in Shards PROVE x \in Range(c)
    <3>1. CASE x \in Range(q)
      BY <1>0, <1>2, <1>3, <3>1 DEF Range
    <3>2. CASE x \in Range(w)
      BY <1>0, <1>2, <1>4, <3>2 DEF Range
    <3> QED BY <3>1, <3>2
  <2> QED BY <2>2, <2>3
<1>6. ASSUME Len(q) >= 2
      PROVE  /\ Len(c) >= 2 /\ c[1] = q[1] /\ c[2] = q[2]
             /\ \A i \in 2 .. Len(c) : c[i] # q[1]
  <2>1. Len(c) >= 2 /\ c[1] = q[1] /\ c[2] = q[2]
    BY <1>0, <1>1, <1>6
  <2>2. ASSUME NEW i \in 2 .. Len(c), c[i] = q[1] PROVE FALSE
    <3>1. CASE i <= Len(q)
      <4>1. i \in DOMAIN q /\ 1 \in DOMAIN q /\ q[i] = q[1] /\ i # 1
        BY <1>0, <1>3, <1>6, <2>2, <3>1
      <4> QED BY <4>1 DEF IsInjective
    <3>2. CASE ~ (i <= Len(q))
      <4>1. i - Len(q) \in 1 .. Len(w) /\ c[i] = w[i - Len(q)]
        BY <1>0, <1>1, <3>2
      <4>2. q[1] = w[i - Len(q)] /\ i - Len(q) \in DOMAIN w /\ 1 \in DOMAIN q
        BY <1>0, <1>6, <2>2, <4>1
      <4>3. q[1] \in Range(w) /\ q[1] \in Range(q)
        BY <4>2 DEF Range
      <4> QED BY <4>3
    <3> QED BY <3>1, <3>2
  <2> QED BY <2>1, <2>2
<1>7. CallOrder(q) = c
  BY DEF CallOrder
<1> QED BY <1>1, <1>5, <1>6, <1>7

\* The head of an order, and what is left of it.
LEMMA HeadTail ==
  ASSUME NEW T, NEW q \in Seq(T), q # << >>
  PROVE  /\ Head(q) \in T /\ Head(q) = q[1] /\ Tail(q) \in Seq(T) /\ Len(Tail(q)) = Len(q) - 1 /\ Len(q) >= 1 /\ Len(q) \in Nat
         /\ \A i \in 1 .. Len(q) - 1 : Tail(q)[i] = q[i + 1]
         /\ Range(q) = {Head(q)} \cup Range(Tail(q))
         /\ IsInjective(q) => IsInjective(Tail(q)) /\ Head(q) \notin Range(Tail(q))
<1>0. /\ Len(q) \in Nat /\ Len(q) >= 1 /\ DOMAIN q = 1 .. Len(q)
      /\ Tail(q) \in Seq(T) /\ Len(Tail(q)) = Len(q) - 1 /\ DOMAIN Tail(q) = 1 .. Len(q) - 1
      /\ Head(q) = q[1] /\ q[1] \in T
      /\ \A i \in 1 .. Len(q) - 1 : Tail(q)[i] = q[i + 1]
  BY LenProperties, HeadTailProperties, ElementOfSeq, EmptySeq
<1>1. Range(q) = {Head(q)} \cup Range(Tail(q))
  <2>1. ASSUME NEW x \in Range(q) PROVE x \in {Head(q)} \cup Range(Tail(q))
    <3>1. PICK i \in 1 .. Len(q) : x = q[i]
      BY <1>0 DEF Range
    <3>2. CASE i = 1
      BY <1>0, <3>1, <3>2
    <3>3. CASE i # 1
      <4>1. i - 1 \in 1 .. Len(q) - 1 /\ (i - 1) + 1 = i
        BY <1>0, <3>3
      <4>2. Tail(q)[i - 1] = x
        BY <1>0, <3>1, <4>1
      <4> QED BY <1>0, <4>1, <4>2 DEF Range
    <3> QED BY <3>2, <3>3
  <2>2. Head(q) \in Range(q)
    BY <1>0 DEF Range
  <2>3. ASSUME NEW x \in Range(Tail(q)) PROVE x \in Range(q)
    <3>1. PICK i \in 1 .. Len(q) - 1 : x = Tail(q)[i]
      BY <1>0 DEF Range
    <3>2. i + 1 \in 1 .. Len(q) /\ x = q[i + 1]
      BY <1>0, <3>1
    <3> QED BY <1>0, <3>2 DEF Range
  <2> QED BY <2>1, <2>2, <2>3
<1>2. ASSUME IsInjective(q) PROVE IsInjective(Tail(q)) /\ Head(q) \notin Range(Tail(q))
  <2>1. ASSUME NEW a \in 1 .. Len(q) - 1, NEW b \in 1 .. Len(q) - 1, Tail(q)[a] = Tail(q)[b] PROVE a = b
    <3>1. a + 1 \in DOMAIN q /\ b + 1 \in DOMAIN q /\ q[a + 1] = q[b + 1]
      BY <1>0, <2>1
    <3>2. a + 1 = b + 1
      BY <1>2, <3>1 DEF IsInjective
    <3> QED BY <1>0, <3>2
  <2>2. ASSUME NEW a \in 1 .. Len(q) - 1, Tail(q)[a] = q[1] PROVE FALSE
    <3>1. a + 1 \in DOMAIN q /\ 1 \in DOMAIN q /\ q[a + 1] = q[1]
      BY <1>0, <2>2
    <3>2. a + 1 = 1
      BY <1>2, <3>1 DEF IsInjective
    <3> QED BY <1>0, <3>2
  <2> QED BY <1>0, <2>1, <2>2 DEF IsInjective, Range
<1> QED BY <1>0, <1>1, <1>2

\* What is left after the first two.
LEMMA DropTwo ==
  ASSUME NEW T, NEW d \in Seq(T), NEW a, NEW b, Len(d) >= 2, d[1] = a, d[2] = b, \A i \in 2 .. Len(d) : d[i] # a
  PROVE  /\ Tail(Tail(d)) \in Seq(T) /\ Range(d) = {a, b} \cup Range(Tail(Tail(d)))
         /\ \A i \in 1 .. Len(Tail(Tail(d))) : Tail(Tail(d))[i] # a
<1>0. d # << >> /\ Len(d) \in Nat
  BY LenProperties
<1> PICK t : t = Tail(d)
  OBVIOUS
<1>1. t \in Seq(T) /\ Len(t) = Len(d) - 1 /\ (\A i \in 1 .. Len(d) - 1 : t[i] = d[i + 1]) /\ Range(d) = {a} \cup Range(t)
  BY <1>0, HeadTail
<1>2. t # << >> /\ t[1] = b /\ Len(t) \in Nat
  <2>1. Len(t) >= 1 /\ 1 \in 1 .. Len(d) - 1
    BY <1>0, <1>1
  <2> QED BY <1>0, <1>1, <2>1
<1> PICK u : u = Tail(t)
  OBVIOUS
<1>3. u \in Seq(T) /\ Len(u) = Len(t) - 1 /\ (\A i \in 1 .. Len(t) - 1 : u[i] = t[i + 1]) /\ Range(t) = {b} \cup Range(u)
  <2>1. t \in Seq(T) /\ t # << >> /\ t[1] = b /\ u = Tail(t)
    BY <1>1, <1>2
  <2> QED BY ONLY <2>1, HeadTail
<1>4. ASSUME NEW i \in 1 .. Len(u) PROVE u[i] # a
  <2>1. i \in 1 .. Len(t) - 1 /\ i + 1 \in 1 .. Len(d) - 1 /\ (i + 1) + 1 \in 2 .. Len(d)
    BY <1>0, <1>1, <1>2, <1>3
  <2>2. u[i] = d[(i + 1) + 1]
    BY <1>1, <1>3, <2>1
  <2> QED BY <2>1, <2>2
<1>5. Range(d) = {a, b} \cup Range(u)
  BY <1>1, <1>3
<1> QED BY <1>3, <1>4, <1>5

\* There are finitely many shards.
LEMMA ShardsFinite ==
  /\ IsFiniteSet(Shards) /\ Cardinality(Shards) = N /\ N \in Nat
  /\ \A S \in SUBSET Shards : IsFiniteSet(S) /\ Cardinality(S) \in Nat /\ Cardinality(S) <= N
<1>1. N \in Nat
  BY MirrorAssumption
<1>2. IsFiniteSet(Shards) /\ Cardinality(Shards) = N
  <2>1. 1 \in Int /\ N \in Int
    BY <1>1
  <2>2. Cardinality(1 .. N) = IF 1 > N THEN 0 ELSE N - 1 + 1
    BY <2>1, FS_Interval
  <2> QED BY <1>1, <2>1, <2>2, FS_Interval DEF Shards
<1>3. \A S \in SUBSET Shards : IsFiniteSet(S) /\ Cardinality(S) <= Cardinality(Shards)
  BY <1>2, FS_Subset
<1> QED BY <1>1, <1>2, <1>3, FS_CardinalityType

-----------------------------------------------------------------------------
(* Types, and what the fields of a call under way have to do with each other. *)

Call ==
  [op : {"none", "put", "delete"} \cup Lookups \cup Repairs,
   pc : {"idle", "legs", "handoff", "look", "answer", "del", "drop", "has", "source", "copy", "end"},
   body : Bodies \cup {None}, reps : Seq(Shards), legs : SUBSET Shards, todo : Seq(Shards), good : Nat, bad : Nat]

\* A call is at a step of its operation; the first replica comes first in the
\* order of a lookup, or not at all, and the second right behind it; a put or a
\* copy carries a body; no counter exceeds the number of shards.
Shape(q) ==
  /\ q \in Call /\ Len(q.reps) <= R
  /\ q.op = "none" <=> q.pc = "idle"
  /\ q.op = "put" <=> q.pc \in {"legs", "handoff"}
  /\ q.op \in Lookups <=> q.pc \in {"look", "answer"}
  /\ q.op = "delete" <=> q.pc = "del"
  /\ q.op \in Repairs <=> q.pc \in {"drop", "has", "source", "copy", "end"}
  /\ q.op = "none" => q = Idle
  /\ q.op = "put" \/ q.pc = "copy" => q.body \in Bodies
  /\ q.pc = "legs" => q.legs \subseteq Range(q.reps) /\ q.good + q.bad + Cardinality(q.legs) <= N
  /\ q.pc = "handoff" => q.good + q.bad <= N /\ IsInjective(q.todo)
  /\ q.pc \in {"look", "answer", "drop", "has", "source", "end"} => q.good <= 1 /\ q.bad <= 1
  /\ q.pc = "look" => q.good = 0
  /\ q.pc \in {"has", "source"} => q.good = 0 /\ q.bad = 0
  /\ q.pc \in {"del", "copy"} => q.good + q.bad + Len(q.todo) <= N
  /\ q.pc = "drop" => q.todo # << >>
  /\ q.pc = "look" /\ Len(q.reps) >= 2 =>
       /\ \A i \in 2 .. Len(q.todo) : q.todo[i] # q.reps[1]
       /\ q.todo # << >> /\ q.todo[1] = q.reps[1] => Len(q.todo) >= 2 /\ q.todo[2] = q.reps[2]

Types ==
  /\ copy \in [Shards -> Bodies \cup {Bad, None}] /\ down \subseteq Shards /\ ranking \in Rankings
  /\ mrf \in BOOLEAN /\ left \in [Events -> Nat]
  /\ proc \in [Procs -> Call] /\ \A p \in Procs : Shape(proc[p])

LEMMA IdleShape == Shape(Idle)
<1>1. Idle \in Call
  BY DEF Idle, Call
<1> QED BY <1>1, MirrorAssumption DEF Idle, Shape, Lookups, Repairs

LEMMA PutShape ==
  ASSUME ranking \in Rankings, NEW b \in Bodies
  PROVE  Shape([Idle EXCEPT !.op = "put", !.pc = "legs", !.body = b, !.reps = replicas_for, !.legs = Range(replicas_for)])
<1> PICK r \in Seq(Shards) : r = replicas_for /\ Len(r) <= R
  BY RepsProperties
<1>1. Range(r) \subseteq Shards /\ Cardinality(Range(r)) \in Nat /\ Cardinality(Range(r)) <= N
  BY RangeOfSeq, ShardsFinite
<1> PICK q : q = [Idle EXCEPT !.op = "put", !.pc = "legs", !.body = b, !.reps = r, !.legs = Range(r)]
  OBVIOUS
<1>2. q \in Call
  <2> PICK L \in SUBSET Shards : L = Range(r)
    BY <1>1
  <2>e. << >> \in Seq(Shards)
    BY EmptySeq
  <2> PICK e \in Seq(Shards) : e = << >>
    BY <2>e
  <2>1. q = [op |-> "put", pc |-> "legs", body |-> b, reps |-> r, legs |-> L, todo |-> e, good |-> 0, bad |-> 0]
    BY DEF Idle
  <2> QED BY ONLY <2>1, L \in SUBSET Shards, e \in Seq(Shards), r \in Seq(Shards), b \in Bodies DEF Call
<1>3. q.op = "put" /\ q.pc = "legs" /\ q.body = b /\ q.reps = r /\ q.legs = Range(r) /\ q.good = 0 /\ q.bad = 0
  BY DEF Idle
<1> QED BY <1>1, <1>2, <1>3 DEF Shape, Lookups, Repairs

LEMMA LegShape ==
  ASSUME NEW q, Shape(q), q.pc = "legs", NEW s \in q.legs
  PROVE  Shape(Counted([q EXCEPT !.legs = @ \ {s}], s))
<1> PICK x : x = Counted([q EXCEPT !.legs = @ \ {s}], s)
  OBVIOUS
<1>0. q \in Call /\ q.op = "put" /\ q.legs \subseteq Shards /\ q.good \in Nat /\ q.bad \in Nat
  BY DEF Shape, Call
<1>1. /\ x \in Call /\ x.op = "put" /\ x.pc = "legs" /\ x.body = q.body /\ x.reps = q.reps /\ x.legs = q.legs \ {s}
      /\ x.good + x.bad = q.good + q.bad + 1 /\ x.good \in Nat /\ x.bad \in Nat
  <2> PICK L \in SUBSET Shards : L = q.legs \ {s}
    BY <1>0
  <2>1. PICK g \in Nat, b \in Nat : g + b = q.good + q.bad + 1 /\ x = [q EXCEPT !.legs = L, !.good = g, !.bad = b]
    <3>1. CASE s \in down
      <4>1. x = [q EXCEPT !.legs = L, !.good = q.good, !.bad = q.bad + 1]
        BY <1>0, <3>1 DEF Counted, Call
      <4>2. q.bad + 1 \in Nat /\ q.good + (q.bad + 1) = q.good + q.bad + 1
        BY <1>0
      <4> QED BY ONLY <1>0, <4>1, <4>2
    <3>2. CASE s \notin down
      <4>1. x = [q EXCEPT !.legs = L, !.good = q.good + 1, !.bad = q.bad]
        BY <1>0, <3>2 DEF Counted, Call
      <4>2. q.good + 1 \in Nat /\ (q.good + 1) + q.bad = q.good + q.bad + 1
        BY <1>0
      <4> QED BY ONLY <1>0, <4>1, <4>2
    <3> QED BY <3>1, <3>2
  <2>2. /\ x \in Call /\ x.op = "put" /\ x.pc = "legs" /\ x.body = q.body /\ x.reps = q.reps /\ x.legs = L
        /\ x.good = g /\ x.bad = b
    BY <1>0, <2>1 DEF Call
  <2> QED BY <2>1, <2>2
<1>2. Cardinality(q.legs) \in Nat /\ Cardinality(x.legs) = Cardinality(q.legs) - 1
  BY <1>0, <1>1, ShardsFinite, CountDown
<1>3. x.good + x.bad + Cardinality(x.legs) <= N
  <2>1. q.good + q.bad + Cardinality(q.legs) <= N /\ N \in Nat
    BY MirrorAssumption DEF Shape
  <2> QED BY <1>0, <1>1, <1>2, <2>1
<1>4. x.legs \subseteq Range(x.reps)
  BY <1>1 DEF Shape
<1> QED BY <1>0, <1>1, <1>3, <1>4 DEF Shape, Lookups, Repairs

LEMMA HandoffShape ==
  ASSUME ranking \in Rankings, NEW q, Shape(q), q.pc = "legs"
  PROVE  Shape([q EXCEPT !.pc = "handoff", !.todo = Without(ranking, Range(q.reps))])
<1> PICK w \in Seq(Shards) : w = Without(ranking, Range(q.reps)) /\ IsInjective(w)
  BY WithoutProperties, MirrorAssumption
<1> PICK x : x = [q EXCEPT !.pc = "handoff", !.todo = w]
  OBVIOUS
<1>0. q \in Call /\ q.op = "put" /\ q.legs \subseteq Shards /\ q.good \in Nat /\ q.bad \in Nat
  BY DEF Shape, Call
<1>1. x \in Call /\ x.op = "put" /\ x.pc = "handoff" /\ x.body = q.body /\ x.reps = q.reps /\ x.todo = w /\ x.good = q.good /\ x.bad = q.bad
  BY <1>0 DEF Call
<1>2. q.good + q.bad <= N
  <2>1. q.good + q.bad + Cardinality(q.legs) <= N /\ Cardinality(q.legs) \in Nat /\ N \in Nat
    BY <1>0, ShardsFinite DEF Shape
  <2> QED BY <1>0, <2>1
<1> QED BY <1>0, <1>1, <1>2 DEF Shape, Lookups, Repairs

LEMMA SpareShape ==
  ASSUME NEW q, Shape(q), q.pc = "handoff", q.todo # << >>, NEW taken \in {0, 1}, q.bad > 0
  PROVE  Shape([q EXCEPT !.todo = Tail(@), !.good = @ + taken, !.bad = @ - taken])
<1>0. q \in Call /\ q.op = "put" /\ q.todo \in Seq(Shards) /\ q.good \in Nat /\ q.bad \in Nat /\ IsInjective(q.todo)
  BY DEF Shape, Call
<1> PICK t \in Seq(Shards) : t = Tail(q.todo) /\ IsInjective(t)
  BY <1>0, HeadTail
<1> PICK x : x = [q EXCEPT !.todo = Tail(@), !.good = @ + taken, !.bad = @ - taken]
  OBVIOUS
<1>a. PICK g \in Nat, b \in Nat : g = q.good + taken /\ b = q.bad - taken /\ g + b = q.good + q.bad
  BY <1>0, SMTT(30)
<1>b. x = [q EXCEPT !.todo = t, !.good = g, !.bad = b]
  BY <1>0, <1>a DEF Call
<1>1. /\ x \in Call /\ x.op = "put" /\ x.pc = "handoff" /\ x.body = q.body /\ x.reps = q.reps /\ x.todo = t
      /\ x.good + x.bad = q.good + q.bad
  <2>1. /\ x \in Call /\ x.op = "put" /\ x.pc = "handoff" /\ x.body = q.body /\ x.reps = q.reps /\ x.todo = t
        /\ x.good = g /\ x.bad = b
    BY <1>0, <1>b DEF Call
  <2> QED BY <1>a, <2>1
<1> QED BY <1>0, <1>1 DEF Shape, Lookups, Repairs

LEMMA LookupShape ==
  ASSUME ranking \in Rankings, NEW o \in Lookups
  PROVE  Shape([Idle EXCEPT !.op = o, !.pc = "look", !.reps = replicas_for, !.todo = CallOrder(replicas_for)])
<1> PICK r \in Seq(Shards) : r = replicas_for /\ Len(r) <= R /\ IsInjective(r)
  BY RepsProperties
<1> PICK c \in Seq(Shards) :
      /\ c = CallOrder(r) /\ Range(c) = Shards
      /\ Len(r) >= 2 => Len(c) >= 2 /\ c[1] = r[1] /\ c[2] = r[2] /\ \A i \in 2 .. Len(c) : c[i] # r[1]
  BY CallOrderProperties
<1> PICK x : x = [Idle EXCEPT !.op = o, !.pc = "look", !.reps = r, !.todo = c]
  OBVIOUS
<1>1. x \in Call /\ x.op = o /\ x.pc = "look" /\ x.reps = r /\ x.todo = c /\ x.good = 0 /\ x.bad = 0
  BY DEF Idle, Call
<1> QED BY <1>1 DEF Shape, Lookups, Repairs

LEMMA HedgeShape ==
  ASSUME NEW q, Shape(q), q.op = "get", Len(q.reps) >= 2, q.todo # << >>, Head(q.todo) = q.reps[1], q.pc = "look"
  PROVE  /\ Shape([q EXCEPT !.legs = {q.reps[1], q.reps[2]}, !.todo = Tail(Tail(@))])
         /\ Range(q.todo) = {q.reps[1], q.reps[2]} \cup Range(Tail(Tail(q.todo)))
<1>0. q \in Call /\ q.todo \in Seq(Shards) /\ q.reps \in Seq(Shards) /\ Len(q.todo) \in Nat /\ Len(q.reps) \in Nat
  BY LenProperties DEF Shape, Call
<1>1. q.todo[1] = q.reps[1] /\ Len(q.todo) >= 2 /\ q.todo[2] = q.reps[2] /\ \A i \in 2 .. Len(q.todo) : q.todo[i] # q.reps[1]
  BY <1>0, HeadTail DEF Shape
<1>2. q.reps[1] \in Shards /\ q.reps[2] \in Shards
  BY <1>0, ElementOfSeq
<1> PICK u \in Seq(Shards) : /\ u = Tail(Tail(q.todo)) /\ Range(q.todo) = {q.reps[1], q.reps[2]} \cup Range(u)
                             /\ \A i \in 1 .. Len(u) : u[i] # q.reps[1]
  <2> PICK d \in Seq(Shards) : d = q.todo
    BY <1>0
  <2> PICK a, b : a = q.reps[1] /\ b = q.reps[2]
    OBVIOUS
  <2>1. Len(d) >= 2 /\ d[1] = a /\ d[2] = b /\ \A i \in 2 .. Len(d) : d[i] # a
    BY <1>1
  <2>2. /\ Tail(Tail(d)) \in Seq(Shards) /\ Range(d) = {a, b} \cup Range(Tail(Tail(d)))
        /\ \A i \in 1 .. Len(Tail(Tail(d))) : Tail(Tail(d))[i] # a
    BY ONLY <2>1, DropTwo, d \in Seq(Shards)
  <2> QED BY <2>2
<1>4. Len(u) \in Nat
  BY LenProperties
<1> PICK x : x = [q EXCEPT !.legs = {q.reps[1], q.reps[2]}, !.todo = Tail(Tail(@))]
  OBVIOUS
<1>5. x \in Call /\ x.op = q.op /\ x.pc = q.pc /\ x.body = q.body /\ x.reps = q.reps /\ x.todo = u /\ x.good = q.good /\ x.bad = q.bad
  BY <1>0, <1>2 DEF Call
<1>6. u # << >> => u[1] # q.reps[1]
  <2>1. u # << >> => 1 \in 1 .. Len(u)
    BY <1>4, HeadTail
  <2> QED BY <2>1
<1>7. \A i \in 2 .. Len(u) : u[i] # q.reps[1]
  <2>1. \A i \in 2 .. Len(u) : i \in 1 .. Len(u)
    BY <1>4
  <2> QED BY <2>1
<1>8. Shape(x)
  BY <1>5, <1>6, <1>7 DEF Shape, Lookups, Repairs
<1> QED BY <1>8

\* A lookup that has asked shard s, before its answer counts.
LEMMA RestShape ==
  ASSUME NEW q, Shape(q), q.pc = "look", NEW s, NEW x,
         \/ s \in q.legs /\ x = [q EXCEPT !.legs = @ \ {s}]
         \/ q.legs = {} /\ q.todo # << >> /\ s = Head(q.todo) /\ x = [q EXCEPT !.todo = Tail(@)]
  PROVE  /\ Shape(x) /\ x \in Call /\ x.op = q.op /\ x.pc = "look" /\ x.body = q.body /\ x.reps = q.reps /\ s \in Shards
         /\ x.good = q.good /\ x.bad = q.bad
         /\ q.legs \cup Range(q.todo) \subseteq {s} \cup x.legs \cup Range(x.todo)
<1>0. q \in Call /\ q.todo \in Seq(Shards) /\ q.reps \in Seq(Shards) /\ Len(q.todo) \in Nat /\ q.legs \in SUBSET Shards
  BY LenProperties DEF Shape, Call
<1>1. CASE s \in q.legs /\ x = [q EXCEPT !.legs = @ \ {s}]
  <2> PICK L \in SUBSET Shards : L = q.legs \ {s}
    BY <1>0
  <2>1. x = [q EXCEPT !.legs = L]
    BY <1>0, <1>1 DEF Call
  <2>2. /\ x \in Call /\ x.op = q.op /\ x.pc = q.pc /\ x.body = q.body /\ x.reps = q.reps
        /\ x.good = q.good /\ x.bad = q.bad /\ x.todo = q.todo /\ x.legs = L
    BY <1>0, <2>1 DEF Call
  <2>3. Shape(x)
    BY <2>2 DEF Shape, Lookups, Repairs
  <2> QED BY <1>0, <1>1, <2>2, <2>3
<1>2. CASE q.legs = {} /\ q.todo # << >> /\ s = Head(q.todo) /\ x = [q EXCEPT !.todo = Tail(@)]
  <2> PICK d \in Seq(Shards) : d = q.todo /\ d # << >> /\ Len(d) \in Nat
    BY <1>0, <1>2
  <2> PICK t \in Seq(Shards) :
        /\ t = Tail(d) /\ Len(t) = Len(d) - 1 /\ (\A i \in 1 .. Len(d) - 1 : t[i] = d[i + 1])
        /\ Range(d) = {Head(d)} \cup Range(t) /\ Head(d) \in Shards
    <3> QED BY ONLY HeadTail, d \in Seq(Shards), d # << >>
  <2>1. x = [q EXCEPT !.todo = t]
    BY <1>0, <1>2 DEF Call
  <2>2. /\ x \in Call /\ x.op = q.op /\ x.pc = q.pc /\ x.body = q.body /\ x.reps = q.reps
        /\ x.good = q.good /\ x.bad = q.bad /\ x.todo = t /\ x.legs = q.legs
    BY <1>0, <2>1 DEF Call
  <2>3. ASSUME Len(q.reps) >= 2, NEW i \in 1 .. Len(t) PROVE t[i] # q.reps[1]
    <3>1. i \in 1 .. Len(d) - 1 /\ i + 1 \in 2 .. Len(d)
      BY <2>3
    <3>2. \A j \in 2 .. Len(d) : d[j] # q.reps[1]
      BY <2>3 DEF Shape
    <3> QED BY <3>1, <3>2
  <2>4. /\ (\A i \in 2 .. Len(t) : i \in 1 .. Len(t)) /\ (t # << >> => 1 \in 1 .. Len(t))
    <3>1. Len(t) \in Nat /\ (t # << >> => Len(t) >= 1)
      BY HeadTail, LenProperties
    <3> QED BY ONLY <3>1
  <2>5. Shape(x)
    BY <2>2, <2>3, <2>4 DEF Shape, Lookups, Repairs
  <2> QED BY <1>2, <2>2, <2>5
<1> QED BY <1>1, <1>2

\* A lookup q asks shard s: rest is what it still waits for, x what it becomes.
Asks(q, s, rest, x) ==
  /\ \/ s \in q.legs /\ rest = [q EXCEPT !.legs = @ \ {s}]
     \/ q.legs = {} /\ q.todo # << >> /\ s = Head(q.todo) /\ rest = [q EXCEPT !.todo = Tail(@)]
  /\ x = IF Answers(q, s)
         THEN [rest EXCEPT !.pc = "answer", !.good = 1, !.body = IF q.op = "get" THEN copy[s] ELSE None]
         ELSE AfterMiss(rest, s)

\* The result of shard s at a lookup: an answer or an error with which the
\* lookup ends, or neither, and then s holds nothing that can be read.
LEMMA LookShape ==
  ASSUME copy \in [Shards -> Bodies \cup {Bad, None}], NEW q, Shape(q), q.pc = "look", NEW s, NEW rest, NEW x, Asks(q, s, rest, x)
  PROVE  /\ Shape(x) /\ x.op = q.op
         /\ x.pc = "look" => /\ s \notin ReadableShards
                             /\ q.legs \cup Range(q.todo) \subseteq {s} \cup x.legs \cup Range(x.todo)
         /\ x.pc = "answer" => x.good = 1 \/ x.bad = 1
         /\ x.pc \in {"look", "answer"}
<1>1. /\ Shape(rest) /\ rest \in Call /\ rest.op = q.op /\ rest.pc = "look" /\ rest.reps = q.reps /\ s \in Shards
      /\ q.legs \cup Range(q.todo) \subseteq {s} \cup rest.legs \cup Range(rest.todo)
  <2>1. \/ s \in q.legs /\ rest = [q EXCEPT !.legs = @ \ {s}]
        \/ q.legs = {} /\ q.todo # << >> /\ s = Head(q.todo) /\ rest = [q EXCEPT !.todo = Tail(@)]
    BY DEF Asks
  <2> QED BY ONLY <2>1, Shape(q), q.pc = "look", RestShape
<1>2. q.op \in Lookups /\ q.bad <= 1 /\ rest.good = 0 /\ rest.good \in Nat /\ rest.bad \in Nat /\ rest.bad <= 1
  BY <1>1 DEF Shape, Call
<1>3. CASE Answers(q, s)
  <2> PICK b \in Bodies \cup {None} : b = IF q.op = "get" THEN copy[s] ELSE None
    BY <1>3 DEF Answers
  <2>1. x = [rest EXCEPT !.pc = "answer", !.good = 1, !.body = b]
    BY <1>3 DEF Asks
  <2>2. x \in Call /\ x.op = q.op /\ x.pc = "answer" /\ x.reps = rest.reps /\ x.good = 1 /\ x.bad = rest.bad
    BY ONLY <1>1, <2>1, b \in Bodies \cup {None} DEF Call
  <2>3. Shape(x)
    BY <1>1, <1>2, <2>2 DEF Shape, Lookups, Repairs
  <2> QED BY <2>2, <2>3
<1>4. CASE ~ Answers(q, s)
  <2>0. x = AfterMiss(rest, s) /\ s \notin ReadableShards
    BY <1>4 DEF Asks, Answers, ReadableShards
  <2>1. CASE rest.op = "has" /\ s \in down
    <3>1. x = [rest EXCEPT !.pc = "answer", !.bad = 1]
      BY <2>0, <2>1 DEF AfterMiss
    <3>2. x \in Call /\ x.op = q.op /\ x.pc = "answer" /\ x.reps = rest.reps /\ x.good = 0 /\ x.bad = 1
      BY ONLY <1>1, <1>2, <3>1 DEF Call
    <3>3. Shape(x)
      BY <1>1, <1>2, <3>2 DEF Shape, Lookups, Repairs
    <3> QED BY <3>2, <3>3
  <2>2. CASE x = [rest EXCEPT !.bad = 1]
    <3>1. /\ x \in Call /\ x.op = q.op /\ x.pc = "look" /\ x.reps = rest.reps /\ x.good = 0 /\ x.bad = 1
          /\ x.legs = rest.legs /\ x.todo = rest.todo /\ x.body = rest.body
      BY ONLY <1>1, <1>2, <2>2 DEF Call
    <3>2. Shape(x)
      BY <1>1, <1>2, <3>1 DEF Shape, Lookups, Repairs
    <3> QED BY <1>1, <2>0, <3>1, <3>2
  <2>3. CASE x = rest
    BY <1>1, <2>0, <2>3
  <2> QED BY <2>0, <2>1, <2>2, <2>3 DEF AfterMiss
<1> QED BY <1>3, <1>4

\* Nobody has answered.
LEMMA GiveUpShape ==
  ASSUME NEW q, Shape(q), q.pc = "look"
  PROVE  Shape([q EXCEPT !.pc = "answer"])
<1> PICK x : x = [q EXCEPT !.pc = "answer"]
  OBVIOUS
<1>1. q \in Call /\ q.op \in Lookups
  BY DEF Shape
<1>2. x \in Call /\ x.op = q.op /\ x.pc = "answer" /\ x.reps = q.reps /\ x.good = q.good /\ x.bad = q.bad
  BY <1>1 DEF Call
<1>3. Shape(x)
  BY <1>1, <1>2 DEF Shape, Lookups, Repairs
<1> QED BY <1>3

LEMMA DeleteShape == Shape([Idle EXCEPT !.op = "delete", !.pc = "del", !.todo = InOrder])
<1> PICK d \in Seq(Shards) : d = InOrder /\ Len(d) = N
  BY InOrderProperties
<1> PICK x : x = [Idle EXCEPT !.op = "delete", !.pc = "del", !.todo = d]
  OBVIOUS
<1>0. Idle \in Call /\ N \in Nat
  BY IdleShape, InOrderProperties DEF Shape
<1>1. x \in Call /\ x.op = "delete" /\ x.pc = "del" /\ x.reps = Idle.reps /\ x.todo = d /\ x.good = 0 /\ x.bad = 0
  BY <1>0 DEF Call, Idle
<1>2. Len(Idle.reps) <= R
  BY IdleShape DEF Shape
<1>3. Shape(x)
  BY <1>0, <1>1, <1>2 DEF Shape, Lookups, Repairs
<1> QED BY <1>3

\* One more shard deleted from, or written by a repair.
LEMMA CountShape ==
  ASSUME NEW q, Shape(q), q.pc \in {"del", "copy"}, q.todo # << >>, NEW s, NEW x,
         x = Counted([q EXCEPT !.todo = Tail(@)], s)
  PROVE  /\ Shape(x) /\ x.op = q.op /\ x.pc = q.pc /\ x.body = q.body /\ x.reps = q.reps /\ x.todo = Tail(q.todo)
         /\ x.bad = 0 => s \notin down /\ q.bad = 0
<1>0. q \in Call /\ q.todo \in Seq(Shards) /\ q.good \in Nat /\ q.bad \in Nat /\ q.good + q.bad + Len(q.todo) <= N /\ N \in Nat
  BY InOrderProperties DEF Shape, Call
<1> PICK t \in Seq(Shards) : t = Tail(q.todo) /\ Len(t) = Len(q.todo) - 1 /\ Len(q.todo) \in Nat
  BY <1>0, HeadTail
<1>1. PICK g \in Nat, b \in Nat :
        /\ g + b = q.good + q.bad + 1 /\ x = [q EXCEPT !.todo = t, !.good = g, !.bad = b]
        /\ b = 0 => s \notin down /\ q.bad = 0
  <2>1. CASE s \in down
    <3>1. x = [q EXCEPT !.todo = t, !.good = q.good, !.bad = q.bad + 1]
      BY <1>0, <2>1 DEF Counted, Call
    <3>2. q.bad + 1 \in Nat /\ q.good + (q.bad + 1) = q.good + q.bad + 1 /\ q.bad + 1 # 0
      BY <1>0
    <3> QED BY ONLY <1>0, <3>1, <3>2
  <2>2. CASE s \notin down
    <3>1. x = [q EXCEPT !.todo = t, !.good = q.good + 1, !.bad = q.bad]
      BY <1>0, <2>2 DEF Counted, Call
    <3>2. q.good + 1 \in Nat /\ (q.good + 1) + q.bad = q.good + q.bad + 1
      BY <1>0
    <3> QED BY ONLY <1>0, <2>2, <3>1, <3>2
  <2> QED BY <2>1, <2>2
<1>2. /\ x \in Call /\ x.op = q.op /\ x.pc = q.pc /\ x.body = q.body /\ x.reps = q.reps /\ x.legs = q.legs
      /\ x.todo = t /\ x.good = g /\ x.bad = b
  BY <1>0, <1>1 DEF Call
<1>3. x.good + x.bad + Len(x.todo) <= N
  <2>1. g + b + Len(t) <= N
    <3>1. PICK l \in Nat, n \in Nat : l = Len(q.todo) /\ n = q.good + q.bad
      BY <1>0, SMTT(30)
    <3>2. Len(t) = l - 1 /\ g + b = n + 1 /\ n + l <= N
      BY <1>0, <1>1, <3>1
    <3> QED BY ONLY <1>0, <3>2, g \in Nat, b \in Nat, l \in Nat, n \in Nat
  <2> QED BY <1>2, <2>1
<1>4. Shape(x)
  BY <1>2, <1>3 DEF Shape, Lookups, Repairs
<1> QED BY <1>1, <1>2, <1>4

LEMMA CheckShape ==
  ASSUME ranking \in Rankings, NEW o \in Repairs
  PROVE  Shape(Check(o)) /\ Check(o).op = o /\ Check(o).pc = "has" /\ Check(o).reps = replicas_for
<1> PICK r \in Seq(Shards) : r = replicas_for /\ Len(r) <= R
  BY RepsProperties
<1> PICK x : x = [Idle EXCEPT !.op = o, !.pc = "has", !.reps = r, !.todo = r]
  OBVIOUS
<1>0. Idle \in Call
  BY IdleShape DEF Shape
<1>1. x \in Call /\ x.op = o /\ x.pc = "has" /\ x.reps = r /\ x.good = 0 /\ x.bad = 0
  BY <1>0 DEF Call, Idle
<1>2. Shape(x)
  BY <1>1 DEF Shape, Lookups, Repairs
<1> QED BY <1>1, <1>2 DEF Check

LEMMA ScrubShape ==
  ASSUME NEW s \in Shards
  PROVE  Shape([Idle EXCEPT !.op = "scrub", !.pc = "drop", !.todo = <<s>>])
<1>a. <<s>> \in Seq(Shards) /\ Len(<<s>>) = 1 /\ Len(<< >>) = 0
  OBVIOUS
<1> PICK d \in Seq(Shards) : d = <<s>> /\ d # << >>
  BY <1>a
<1> PICK x : x = [Idle EXCEPT !.op = "scrub", !.pc = "drop", !.todo = d]
  OBVIOUS
<1>0. Idle \in Call /\ Len(Idle.reps) <= R
  BY IdleShape DEF Shape
<1>1. x \in Call /\ x.op = "scrub" /\ x.pc = "drop" /\ x.reps = Idle.reps /\ x.todo = d /\ x.good = 0 /\ x.bad = 0
  BY ONLY <1>0, d \in Seq(Shards), x = [Idle EXCEPT !.op = "scrub", !.pc = "drop", !.todo = d] DEF Call, Repairs, Idle
<1>2. Shape(x)
  BY <1>0, <1>1 DEF Shape, Lookups, Repairs
<1> QED BY <1>2

LEMMA HasShape ==
  ASSUME NEW q, Shape(q), q.pc = "has", q.todo # << >>, NEW L \in SUBSET Shards, NEW x,
         x = [q EXCEPT !.todo = Tail(@), !.legs = L]
  PROVE  Shape(x) /\ x.op = q.op /\ x.pc = "has" /\ x.reps = q.reps /\ x.bad = 0
<1>0. q \in Call /\ q.todo \in Seq(Shards)
  BY DEF Shape, Call
<1> PICK t \in Seq(Shards) : t = Tail(q.todo)
  BY <1>0, HeadTail
<1>1. x = [q EXCEPT !.todo = t, !.legs = L]
  BY <1>0 DEF Call
<1>2. x \in Call /\ x.op = q.op /\ x.pc = "has" /\ x.reps = q.reps /\ x.good = q.good /\ x.bad = q.bad
  BY <1>0, <1>1 DEF Call
<1>3. Shape(x)
  BY <1>2 DEF Shape, Lookups, Repairs
<1> QED BY <1>2, <1>3 DEF Shape

\* Nothing is missing, or nothing to copy from.
LEMMA EndShape ==
  ASSUME NEW q, Shape(q), q.pc \in {"has", "source"}, NEW b \in {0, 1}, NEW x, x = [q EXCEPT !.pc = "end", !.bad = b]
  PROVE  Shape(x) /\ x.op = q.op /\ x.pc = "end" /\ x.reps = q.reps
<1>0. q \in Call /\ q.good = 0
  BY DEF Shape
<1>a. b \in Nat /\ b <= 1
  OBVIOUS
<1>1. x \in Call /\ x.op = q.op /\ x.pc = "end" /\ x.reps = q.reps /\ x.good = q.good /\ x.bad = b
  BY ONLY <1>0, <1>a, x = [q EXCEPT !.pc = "end", !.bad = b] DEF Call
<1>2. Shape(x)
  BY <1>0, <1>a, <1>1 DEF Shape, Lookups, Repairs
<1> QED BY <1>1, <1>2

\* The order in which a repair looks for a body, or what is left of it.
LEMMA SourceShape ==
  ASSUME NEW q, Shape(q), q.pc \in {"has", "source"}, NEW d \in Seq(Shards), NEW x, x = [q EXCEPT !.pc = "source", !.todo = d]
  PROVE  Shape(x) /\ x.op = q.op /\ x.pc = "source" /\ x.reps = q.reps
<1>0. q \in Call
  BY DEF Shape
<1>1. x \in Call /\ x.op = q.op /\ x.pc = "source" /\ x.reps = q.reps /\ x.good = q.good /\ x.bad = q.bad
  BY <1>0 DEF Call
<1>2. Shape(x)
  BY <1>1 DEF Shape, Lookups, Repairs
<1> QED BY <1>1, <1>2

\* A source was found: the missing replicas are written one after the other.
CopyOf(q, b, d) == [q EXCEPT !.pc = "copy", !.body = b, !.todo = d]

LEMMA CopyShape ==
  ASSUME NEW q, Shape(q), q.pc = "source", NEW b \in Bodies, NEW d, d = Without(q.reps, Shards \ q.legs),
         NEW x, x = CopyOf(q, b, d)
  PROVE  Shape(x) /\ x.op = q.op /\ x.pc = "copy" /\ x.reps = q.reps /\ x.body = b /\ Range(x.todo) \subseteq Range(x.reps)
<1>0. q \in Call /\ q.reps \in Seq(Shards) /\ Len(q.reps) <= R /\ q.good = 0 /\ q.bad = 0
  BY DEF Shape, Call
<1>a. d \in Seq(Shards) /\ Len(d) <= Len(q.reps) /\ Range(d) \subseteq Range(q.reps)
  BY <1>0, WithoutProperties
<1>1. /\ x \in Call /\ x.op = q.op /\ x.pc = "copy" /\ x.reps = q.reps /\ x.good = 0 /\ x.bad = 0
      /\ x.body = b /\ x.todo = d
  BY <1>0, <1>a DEF Call, CopyOf
<1>2. 0 + 0 + Len(d) <= N
  <2>1. Len(d) \in Nat /\ Len(q.reps) \in Nat /\ R \in Nat /\ N \in Nat /\ R <= N
    BY <1>0, <1>a, MirrorAssumption, LenProperties
  <2> QED BY <1>0, <1>a, <2>1
<1>3. Shape(x)
  BY <1>0, <1>1, <1>2 DEF Shape, Lookups, Repairs
<1> QED BY <1>a, <1>1, <1>3

-----------------------------------------------------------------------------
(* What one step does: the call of p becomes x. *)

Turn(p, x) ==
  /\ proc' = [proc EXCEPT ![p] = x] /\ Shape(x) /\ copy' \in [Shards -> Bodies \cup {Bad, None}]
  /\ down' = down /\ ranking' = ranking /\ mrf' \in BOOLEAN
  /\ left' \in [Events -> Nat] /\ left'["rot"] = left["rot"]
Still == copy' = copy /\ kept' = kept /\ latest' = latest /\ blurred' = blurred

\* One shard may have got the copy b.
Stores(s, b) ==
  /\ s \in Shards /\ kept' = kept /\ latest' = latest /\ blurred' = blurred
  /\ copy' = (IF s \in down THEN copy ELSE [copy EXCEPT ![s] = b])

\* A lookup asks every shard, or ends with an answer, an error, or nobody left to ask.
Reads(p, x) ==
  LET q == proc[p] IN
  /\ Still /\ ~ Writes(q) /\ ~ Writes(x)
  /\ \/ q = Idle /\ x.pc = "look" /\ Range(x.todo) = Shards
     \/ /\ q.pc = "look" /\ x.pc = "look"
        /\ q.legs \cup Range(q.todo) \subseteq (Shards \ ReadableShards) \cup x.legs \cup Range(x.todo)
     \/ q.pc = "look" /\ x.pc = "answer" /\ (x.good = 1 \/ x.bad = 1 \/ q.legs \cup Range(q.todo) = {})
     \/ x = Idle
PutBegins(p, x) ==
  /\ Still /\ proc[p] = Idle /\ replicas_for # << >>
  /\ x.op = "put" /\ x.pc = "legs" /\ x.reps = replicas_for /\ x.legs = Range(replicas_for) /\ x.good = 0
PutWrites(p, x, s) ==
  LET q == proc[p] IN
  /\ q.pc = "legs" /\ s \in q.legs /\ Stores(s, q.body)
  /\ x.op = "put" /\ x.pc = "legs" /\ x.body = q.body /\ x.reps = q.reps /\ x.legs = q.legs \ {s}
  /\ IF s \in down THEN x.good = q.good /\ x.bad # 0 ELSE x.good = q.good + 1 /\ x.bad = q.bad
HandoffBegins(p, x) ==
  LET q == proc[p] IN
  /\ Still /\ q.pc = "legs" /\ q.legs = {}
  /\ x.op = "put" /\ x.pc = "handoff" /\ x.reps = q.reps /\ x.good = q.good /\ Range(x.todo) \cap Range(x.reps) = {}
HandoffWrites(p, x, s) ==
  LET q == proc[p] IN
  /\ q.pc = "handoff" /\ s \in Range(q.todo) /\ Stores(s, q.body)
  /\ x.op = "put" /\ x.pc = "handoff" /\ x.reps = q.reps /\ Range(x.todo) = Range(q.todo) \ {s}
  /\ x.good = IF s \in down THEN q.good ELSE q.good + 1
PutEnds(p, x) ==
  LET q == proc[p] IN
  /\ x = Idle /\ q.op = "put" /\ (q.pc = "legs" => q.legs = {} /\ q.bad = 0)
  /\ copy' = copy /\ kept' = (kept \/ (Acked(q) /\ "delete" \notin over[p]))
  /\ latest' = q.body /\ blurred' = ~ Clean(p)
DeleteBegins(p, x) ==
  /\ proc[p] = Idle /\ x.op = "delete" /\ Range(x.todo) = Shards
  /\ copy' = copy /\ kept' = FALSE /\ latest' = latest /\ blurred' = blurred
DeleteWrites(p, x, s) ==
  LET q == proc[p] IN
  /\ q.op = "delete" /\ Stores(s, None)
  /\ x.op = "delete" /\ (x.bad = 0 => q.bad = 0 /\ s \notin down) /\ Range(q.todo) = {s} \cup Range(x.todo)
DeleteEnds(p, x) ==
  LET q == proc[p] IN
  /\ x = Idle /\ q.op = "delete" /\ Range(q.todo) = {}
  /\ copy' = copy /\ kept' = kept /\ latest' = None /\ blurred' = (over[p] # {} \/ q.bad > 0)

\* A repair learns what is missing; it is for the replicas of its start.
Checks(p, x) ==
  LET q == proc[p] IN
  /\ Still /\ (Writes(q) \/ Writes(x)) /\ q.op \in Repairs \cup {"none"} /\ x.op \in Repairs \cup {"none"}
  /\ x.pc \in {"idle", "drop", "has", "source", "end"}
  /\ x.pc \in {"has", "source", "end"} => x.reps = replicas_for \/ (q.pc \in {"has", "source"} /\ x.reps = q.reps)
  /\ x.pc = "drop" => copy[Head(x.todo)] = Bad /\ Head(x.todo) \in Shards
Drops(p, x) ==
  LET q == proc[p] IN
  /\ q.pc = "drop" /\ Stores(Head(q.todo), None)
  /\ x.pc = "has" /\ x.reps = replicas_for
Sources(p, x) ==
  LET q == proc[p] IN
  /\ Still /\ q.pc = "source" /\ x.pc = "copy" /\ x.reps = q.reps
  /\ Range(x.todo) \subseteq Range(x.reps) /\ \E s \in Shards : x.body = copy[s]
Copies(p, x, s) ==
  LET q == proc[p] IN
  /\ q.pc = "copy" /\ s \in Range(q.todo) /\ Stores(s, q.body)
  /\ x.pc = "copy" /\ x.reps = q.reps /\ x.body = q.body /\ Range(x.todo) \subseteq Range(q.todo)

Acts(p, x) ==
  \/ Reads(p, x) \/ PutBegins(p, x) \/ HandoffBegins(p, x) \/ PutEnds(p, x)
  \/ DeleteBegins(p, x) \/ DeleteEnds(p, x) \/ Checks(p, x) \/ Drops(p, x) \/ Sources(p, x)
  \/ \E s \in Shards : PutWrites(p, x, s) \/ HandoffWrites(p, x, s) \/ DeleteWrites(p, x, s) \/ Copies(p, x, s)

LEMMA UseKeeps ==
  ASSUME left \in [Events -> Nat], NEW e \in Events \ {"rot"}, Use(e)
  PROVE  left' \in [Events -> Nat] /\ left'["rot"] = left["rot"]
<1>1. left[e] \in Nat /\ left[e] > 0 /\ left[e] - 1 \in Nat /\ "rot" \in Events
  BY MirrorAssumption DEF Use
<1> QED BY <1>1 DEF Use

LEMMA StoreKeeps ==
  ASSUME copy \in [Shards -> Bodies \cup {Bad, None}], NEW s \in Shards, NEW b \in Bodies \cup {Bad, None}, Store(s, b)
  PROVE  copy' \in [Shards -> Bodies \cup {Bad, None}]
BY DEF Store

\* The kinds of calls, by the step they are at.
LEMMA ShapeKinds ==
  ASSUME NEW q, Shape(q)
  PROVE  /\ q.pc \in {"legs", "handoff"} => q.op = "put" /\ Writes(q) /\ Kind(q) = "put" /\ q.body \in Bodies
         /\ q.pc \in {"look", "answer"} => q.op \in Lookups /\ ~ Writes(q)
         /\ q.op \in Lookups => q.pc \in {"look", "answer"}
         /\ q.op = "put" => q.pc \in {"legs", "handoff"}
         /\ q.op \in Repairs => q.pc \in {"drop", "has", "source", "copy", "end"}
         /\ q.op = "delete" => q.pc = "del" /\ Writes(q) /\ Kind(q) = "delete"
         /\ q.pc = "del" => q.op = "delete"
         /\ q.pc \in {"drop", "has", "source", "copy", "end"} => q.op \in Repairs /\ Writes(q) /\ q.op \notin {"put", "delete"}
         /\ q.pc = "copy" => q.body \in Bodies
         /\ q.op \in Repairs => Writes(q)
         /\ q.op = "none" => q = Idle
         /\ Idle.op = "none" /\ Idle.pc = "idle" /\ ~ Writes(Idle)
<1>1. Idle.op = "none" /\ Idle.pc = "idle" /\ ~ Writes(Idle)
  BY DEF Idle, Writes, Repairs
<1> QED BY <1>1 DEF Shape, Writes, Kind, Lookups, Repairs

\* The client's steps.
LEMMA PutSteps ==
  ASSUME Types, NEW p \in Procs,
         \/ \E b \in Bodies : StartPut(p, b)
         \/ PutLeg(p) \/ StartHandoff(p) \/ Handoff(p) \/ EndPut(p)
  PROVE  \E x : Turn(p, x) /\ Acts(p, x)
<1> PICK q : q = proc[p]
  OBVIOUS
<1>0. q \in Call /\ Shape(q) /\ ranking \in Rankings /\ q.good \in Nat /\ q.bad \in Nat /\ q.todo \in Seq(Shards)
  BY DEF Types, Call
<1>1. ASSUME NEW b \in Bodies, StartPut(p, b) PROVE \E x : Turn(p, x) /\ Acts(p, x)
  <2> PICK x : x = [Idle EXCEPT !.op = "put", !.pc = "legs", !.body = b, !.reps = replicas_for, !.legs = Range(replicas_for)]
    OBVIOUS
  <2>1. Shape(x)
    BY <1>0, PutShape
  <2>2. x.op = "put" /\ x.pc = "legs" /\ x.reps = replicas_for /\ x.legs = Range(replicas_for) /\ x.good = 0
    BY DEF Idle
  <2>3. "put" \in Events \ {"rot"}
    BY MirrorAssumption
  <2>4. Turn(p, x)
    BY <1>1, <2>1, <2>3, UseKeeps DEF StartPut, Begin, Turn, Types, data
  <2>5. PutBegins(p, x)
    BY <1>1, <2>2 DEF StartPut, Begin, PutBegins, Still, data, history
  <2> QED BY <2>4, <2>5 DEF Acts
<1>2. ASSUME PutLeg(p) PROVE \E x : Turn(p, x) /\ Acts(p, x)
  <2> PICK s : /\ s \in q.legs /\ q.pc = "legs" /\ Store(s, q.body)
               /\ Become(p, Counted([q EXCEPT !.legs = @ \ {s}], s)) /\ UNCHANGED <<down, ranking, mrf, left, history>>
    BY <1>2 DEF PutLeg
  <2> PICK x : x = Counted([q EXCEPT !.legs = @ \ {s}], s)
    OBVIOUS
  <2>1. Shape(x) /\ q.op = "put" /\ q.body \in Bodies /\ s \in Shards
    BY <1>0, LegShape, ShapeKinds DEF Call
  <2>2. /\ x.op = "put" /\ x.pc = "legs" /\ x.body = q.body /\ x.reps = q.reps /\ x.legs = q.legs \ {s}
        /\ IF s \in down THEN x.good = q.good /\ x.bad # 0 ELSE x.good = q.good + 1 /\ x.bad = q.bad
    BY <1>0, <2>1 DEF Counted, Call
  <2>3. copy' \in [Shards -> Bodies \cup {Bad, None}]
    BY <2>1, StoreKeeps DEF Types
  <2>4. Turn(p, x)
    BY <2>1, <2>3 DEF Become, Turn, Types
  <2>5. PutWrites(p, x, s)
    BY <2>1, <2>2 DEF PutWrites, Stores, Store, history
  <2> QED BY <2>1, <2>4, <2>5 DEF Acts
<1>3. ASSUME StartHandoff(p) PROVE \E x : Turn(p, x) /\ Acts(p, x)
  <2> PICK w \in Seq(Shards) : w = Without(ranking, Range(q.reps)) /\ Range(w) = Range(ranking) \ Range(q.reps)
    BY <1>0, WithoutProperties, MirrorAssumption
  <2> PICK x : x = [q EXCEPT !.pc = "handoff", !.todo = w]
    OBVIOUS
  <2>0. q.pc = "legs" /\ q.legs = {}
    BY <1>3 DEF StartHandoff
  <2>1. Shape(x) /\ q.op = "put"
    BY <1>0, <2>0, HandoffShape, ShapeKinds
  <2>2. x.op = "put" /\ x.pc = "handoff" /\ x.reps = q.reps /\ x.good = q.good /\ Range(x.todo) \cap Range(x.reps) = {}
    BY <1>0, <2>1 DEF Call
  <2>3. Turn(p, x)
    BY <1>3, <2>1 DEF StartHandoff, Become, Turn, Types, data
  <2>4. HandoffBegins(p, x)
    BY <1>3, <2>2 DEF StartHandoff, HandoffBegins, Still, data, history
  <2> QED BY <2>3, <2>4 DEF Acts
<1>4. ASSUME Handoff(p) PROVE \E x : Turn(p, x) /\ Acts(p, x)
  <2> PICK s : s = Head(q.todo)
    OBVIOUS
  <2> PICK taken \in {0, 1} : taken = IF s \in down THEN 0 ELSE 1
    OBVIOUS
  <2>0. q.pc = "handoff" /\ q.todo # << >> /\ q.bad > 0 /\ Store(s, q.body)
    BY <1>4 DEF Handoff, HandoffTo
  <2> PICK x : x = [q EXCEPT !.todo = Tail(@), !.good = @ + taken, !.bad = @ - taken]
    OBVIOUS
  <2>1. Shape(x) /\ q.op = "put" /\ q.body \in Bodies
    BY <1>0, <2>0, SpareShape, ShapeKinds
  <2>2. s \in Shards /\ s \in Range(q.todo) /\ Range(Tail(q.todo)) = Range(q.todo) \ {s}
    <3>1. IsInjective(q.todo)
      BY <1>0, <2>0 DEF Shape
    <3> QED BY <1>0, <2>0, <3>1, HeadTail
  <2>3. /\ x.op = "put" /\ x.pc = "handoff" /\ x.reps = q.reps /\ Range(x.todo) = Range(q.todo) \ {s}
        /\ x.good = IF s \in down THEN q.good ELSE q.good + 1
    BY <1>0, <2>0, <2>1, <2>2 DEF Call
  <2>4. copy' \in [Shards -> Bodies \cup {Bad, None}]
    BY <2>0, <2>1, <2>2, StoreKeeps DEF Types
  <2>5. Turn(p, x)
    BY <1>4, <2>1, <2>4 DEF Handoff, HandoffTo, Become, Turn, Types
  <2>6. HandoffWrites(p, x, s)
    BY <1>4, <2>0, <2>2, <2>3 DEF Handoff, HandoffTo, HandoffWrites, Stores, Store, history
  <2> QED BY <2>2, <2>5, <2>6 DEF Acts
<1>5. ASSUME EndPut(p) PROVE \E x : Turn(p, x) /\ Acts(p, x)
  <2>1. q.pc \in {"legs", "handoff"} /\ (q.pc = "legs" => q.legs = {} /\ q.bad = 0)
    BY <1>5 DEF EndPut
  <2>2. q.op = "put"
    BY <1>0, <2>1, ShapeKinds
  <2>3. Turn(p, Idle)
    <3>1. mrf' \in BOOLEAN
      BY <1>5 DEF EndPut
    <3> QED BY <1>5, <3>1, IdleShape DEF EndPut, Finish, Turn, Types, data
  <2>4. PutEnds(p, Idle)
    BY <1>5, <2>1, <2>2 DEF EndPut, PutEnds, data
  <2> QED BY <2>3, <2>4 DEF Acts
<1> QED BY <1>1, <1>2, <1>3, <1>4, <1>5

LEMMA LookSteps ==
  ASSUME Types, NEW p \in Procs,
         \/ \E o \in Lookups : StartLookup(p, o)
         \/ Hedge(p) \/ Look(p) \/ GiveUp(p) \/ Answer(p)
  PROVE  \E x : Turn(p, x) /\ Acts(p, x)
<1> PICK q : q = proc[p]
  OBVIOUS
<1>0. q \in Call /\ Shape(q) /\ ranking \in Rankings /\ q.todo \in Seq(Shards) /\ q.legs \in SUBSET Shards
  BY DEF Types, Call
<1>1. ASSUME NEW o \in Lookups, StartLookup(p, o) PROVE \E x : Turn(p, x) /\ Acts(p, x)
  <2> PICK r \in Seq(Shards) : r = replicas_for /\ IsInjective(r)
    BY <1>0, RepsProperties
  <2>a. Range(CallOrder(r)) = Shards
    BY CallOrderProperties
  <2> PICK x : x = [Idle EXCEPT !.op = o, !.pc = "look", !.reps = r, !.todo = CallOrder(r)]
    OBVIOUS
  <2>1. Shape(x)
    BY <1>0, LookupShape
  <2>2. x.pc = "look" /\ Range(x.todo) = Shards
    BY <2>a DEF Idle
  <2>3. "lookup" \in Events \ {"rot"}
    BY MirrorAssumption
  <2>4. Turn(p, x)
    BY <1>1, <2>1, <2>3, UseKeeps DEF StartLookup, Begin, Turn, Types, data
  <2>5. ~ Writes(q) /\ ~ Writes(x) /\ q = Idle
    BY <1>0, <1>1, <2>1, <2>2, ShapeKinds DEF StartLookup, Begin
  <2>6. Reads(p, x)
    BY <1>1, <2>2, <2>5 DEF StartLookup, Reads, Still, data, history
  <2> QED BY <2>4, <2>6 DEF Acts
<1>2. ASSUME Hedge(p) PROVE \E x : Turn(p, x) /\ Acts(p, x)
  <2> PICK x : x = [q EXCEPT !.legs = {q.reps[1], q.reps[2]}, !.todo = Tail(Tail(@))]
    OBVIOUS
  <2>0. q.op = "get" /\ Len(q.reps) >= 2 /\ q.legs = {} /\ q.todo # << >> /\ Head(q.todo) = q.reps[1] /\ q.pc = "look"
    BY <1>2 DEF Hedge
  <2>1. Shape(x) /\ Range(q.todo) = {q.reps[1], q.reps[2]} \cup Range(Tail(Tail(q.todo)))
    BY <1>0, <2>0, HedgeShape
  <2>2. x.pc = "look" /\ x.legs = {q.reps[1], q.reps[2]} /\ x.todo = Tail(Tail(q.todo))
    BY <1>0, <2>0 DEF Call
  <2>3. Turn(p, x)
    BY <1>2, <2>1 DEF Hedge, Become, Turn, Types, data
  <2>4. ~ Writes(q) /\ ~ Writes(x)
    BY <1>0, <2>0, <2>1, <2>2, ShapeKinds
  <2>5. Reads(p, x)
    BY <1>2, <2>0, <2>1, <2>2, <2>4 DEF Hedge, Reads, Still, data, history
  <2> QED BY <2>3, <2>5 DEF Acts
<1>3. ASSUME Look(p) PROVE \E x : Turn(p, x) /\ Acts(p, x)
  <2>0. q.pc = "look" /\ UNCHANGED <<data, mrf, left, history>> /\ copy \in [Shards -> Bodies \cup {Bad, None}]
    BY <1>3 DEF Look, Types
  <2> DEFINE restOf(s) == IF q.legs # {} THEN [q EXCEPT !.legs = @ \ {s}] ELSE [q EXCEPT !.todo = Tail(@)]
  <2>1. PICK s \in (IF q.legs # {} THEN q.legs ELSE {Head(q.todo)}) :
          IF Answers(q, s)
          THEN Become(p, [restOf(s) EXCEPT !.pc = "answer", !.good = 1, !.body = IF q.op = "get" THEN copy[s] ELSE None])
          ELSE Become(p, AfterMiss(restOf(s), s))
    BY <1>3 DEF Look
  <2> PICK rest : rest = restOf(s)
    OBVIOUS
  <2>2. \/ s \in q.legs /\ rest = [q EXCEPT !.legs = @ \ {s}]
        \/ q.legs = {} /\ q.todo # << >> /\ s = Head(q.todo) /\ rest = [q EXCEPT !.todo = Tail(@)]
    BY <1>3 DEF Look
  <2> HIDE DEF restOf
  <2>3. PICK x : /\ x = IF Answers(q, s)
                        THEN [rest EXCEPT !.pc = "answer", !.good = 1, !.body = IF q.op = "get" THEN copy[s] ELSE None]
                        ELSE AfterMiss(rest, s)
                 /\ Become(p, x)
    BY <2>1
  <2>4. /\ Shape(x) /\ x.op = q.op
        /\ x.pc = "look" => /\ s \notin ReadableShards
                            /\ q.legs \cup Range(q.todo) \subseteq {s} \cup x.legs \cup Range(x.todo)
        /\ x.pc = "answer" => x.good = 1 \/ x.bad = 1
        /\ x.pc \in {"look", "answer"}
    <3>1. Asks(q, s, rest, x)
      BY <2>2, <2>3 DEF Asks
    <3> QED BY ONLY <1>0, <2>0, <3>1, LookShape
  <2>5. Turn(p, x)
    BY <2>0, <2>3, <2>4 DEF Become, Turn, Types, data
  <2>6. ~ Writes(q) /\ ~ Writes(x) /\ s \in Shards
    <3>1. s \in Shards
      BY <1>0, <2>2, HeadTail
    <3> QED BY <1>0, <2>0, <2>4, <3>1, ShapeKinds
  <2>7. Reads(p, x)
    <3>1. Still
      BY <2>0 DEF Still, data, history
    <3> QED BY <2>0, <2>4, <2>6, <3>1 DEF Reads
  <2> QED BY <2>5, <2>7 DEF Acts
<1>4. ASSUME GiveUp(p) PROVE \E x : Turn(p, x) /\ Acts(p, x)
  <2> PICK x : x = [q EXCEPT !.pc = "answer"]
    OBVIOUS
  <2>0. q.pc = "look" /\ q.legs = {} /\ q.todo = << >>
    BY <1>4 DEF GiveUp
  <2>1. Shape(x) /\ x.pc = "answer" /\ q.legs \cup Range(q.todo) = {}
    BY <1>0, <2>0, GiveUpShape DEF Call, Range
  <2>2. Turn(p, x)
    BY <1>4, <2>1 DEF GiveUp, Become, Turn, Types, data
  <2>3. ~ Writes(q) /\ ~ Writes(x)
    BY <1>0, <2>0, <2>1, ShapeKinds
  <2>4. Reads(p, x)
    BY <1>4, <2>0, <2>1, <2>3 DEF GiveUp, Reads, Still, data, history
  <2> QED BY <2>2, <2>4 DEF Acts
<1>5. ASSUME Answer(p) PROVE \E x : Turn(p, x) /\ Acts(p, x)
  <2>1. Turn(p, Idle)
    BY <1>5, IdleShape DEF Answer, Finish, Turn, Types, data
  <2>2. ~ Writes(q) /\ ~ Writes(Idle)
    BY <1>0, <1>5, ShapeKinds DEF Answer
  <2>3. Reads(p, Idle)
    BY <1>5, <2>2 DEF Answer, Reads, Still, data, history
  <2> QED BY <2>1, <2>3 DEF Acts
<1> QED BY <1>1, <1>2, <1>3, <1>4, <1>5

LEMMA DeleteSteps ==
  ASSUME Types, NEW p \in Procs, StartDelete(p) \/ DeleteNext(p) \/ EndDelete(p)
  PROVE  \E x : Turn(p, x) /\ Acts(p, x)
<1> PICK q : q = proc[p]
  OBVIOUS
<1>0. q \in Call /\ Shape(q) /\ q.todo \in Seq(Shards)
  BY DEF Types, Call
<1>1. ASSUME StartDelete(p) PROVE \E x : Turn(p, x) /\ Acts(p, x)
  <2> PICK x : x = [Idle EXCEPT !.op = "delete", !.pc = "del", !.todo = InOrder]
    OBVIOUS
  <2>1. Shape(x) /\ x.op = "delete" /\ Range(x.todo) = Shards
    BY DeleteShape, InOrderProperties DEF Idle
  <2>2. "delete" \in Events \ {"rot"}
    BY MirrorAssumption
  <2>3. Turn(p, x)
    BY <1>1, <2>1, <2>2, UseKeeps DEF StartDelete, Begin, Turn, Types, data
  <2>4. DeleteBegins(p, x)
    BY <1>1, <2>1 DEF StartDelete, Begin, DeleteBegins, data
  <2> QED BY <2>3, <2>4 DEF Acts
<1>2. ASSUME DeleteNext(p) PROVE \E x : Turn(p, x) /\ Acts(p, x)
  <2> PICK s : s = Head(q.todo)
    OBVIOUS
  <2>0. q.op = "delete" /\ q.todo # << >> /\ Store(s, None)
    BY <1>2 DEF DeleteNext
  <2> PICK x : x = Counted([q EXCEPT !.todo = Tail(@)], s)
    OBVIOUS
  <2>1. /\ Shape(x) /\ x.op = "delete" /\ x.todo = Tail(q.todo)
        /\ x.bad = 0 => s \notin down /\ q.bad = 0
    <3>1. q.pc \in {"del", "copy"}
      BY <1>0, <2>0, ShapeKinds
    <3>2. x = Counted([q EXCEPT !.todo = Tail(@)], s)
      OBVIOUS
    <3>3. Shape(q) /\ q.todo # << >>
      BY <1>0, <2>0
    <3>4. /\ Shape(x) /\ x.op = q.op /\ x.todo = Tail(q.todo)
          /\ x.bad = 0 => s \notin down /\ q.bad = 0
      BY ONLY <3>1, <3>2, <3>3, CountShape
    <3> QED BY ONLY <2>0, <3>4
  <2>2. s \in Shards /\ Range(q.todo) = {s} \cup Range(x.todo)
    BY <1>0, <2>0, <2>1, HeadTail
  <2>3. copy' \in [Shards -> Bodies \cup {Bad, None}]
    BY <2>0, <2>2, StoreKeeps DEF Types
  <2>4. Turn(p, x)
    BY <1>2, <2>1, <2>3 DEF DeleteNext, Become, Turn, Types
  <2>5. DeleteWrites(p, x, s)
    BY <1>2, <2>0, <2>1, <2>2 DEF DeleteNext, DeleteWrites, Stores, Store, history
  <2> QED BY <2>2, <2>4, <2>5 DEF Acts
<1>3. ASSUME EndDelete(p) PROVE \E x : Turn(p, x) /\ Acts(p, x)
  <2>1. Turn(p, Idle)
    BY <1>3, IdleShape DEF EndDelete, Finish, Turn, Types, data
  <2>2. Range(<< >>) = {}
    BY DEF Range
  <2>3. DeleteEnds(p, Idle)
    BY <1>3, <2>2 DEF EndDelete, DeleteEnds, data
  <2> QED BY <2>1, <2>3 DEF Acts
<1> QED BY <1>1, <1>2, <1>3

\* The healer's steps.
LEMMA RepairBegins ==
  ASSUME Types, NEW p \in Procs, StartDrain(p) \/ StartResilver(p) \/ StartScrub(p) \/ Drop(p)
  PROVE  \E x : Turn(p, x) /\ Acts(p, x)
<1> PICK q : q = proc[p]
  OBVIOUS
<1>0. Shape(q) /\ ranking \in Rankings /\ "repair" \in Events \ {"rot"}
  BY MirrorAssumption DEF Types
<1>1. ASSUME NEW o \in Repairs, proc[p] = Idle, proc' = [proc EXCEPT ![p] = Check(o)], mrf' \in BOOLEAN,
             UNCHANGED <<data, history>>, left' \in [Events -> Nat], left'["rot"] = left["rot"]
      PROVE  \E x : Turn(p, x) /\ Acts(p, x)
  <2> PICK x : x = Check(o) /\ Shape(x) /\ x.op = o /\ x.pc = "has" /\ x.reps = replicas_for
    BY <1>0, CheckShape
  <2>1. Turn(p, x)
    BY <1>1 DEF Turn, Types, data
  <2>2. Writes(x) /\ q.op = "none"
    BY <1>1, ShapeKinds
  <2>3. Checks(p, x)
    BY <1>1, <2>2 DEF Checks, Still, data, history
  <2> QED BY <2>1, <2>3 DEF Acts
<1>2. CASE StartDrain(p)
  BY <1>1, <1>2 DEF StartDrain, Begin, Types, Repairs
<1>3. CASE StartResilver(p)
  BY <1>0, <1>1, <1>3, UseKeeps DEF StartResilver, Begin, Types, Repairs
<1>4. CASE StartScrub(p)
  <2> PICK s \in Shards : copy[s] = Bad /\ Begin(p, [Idle EXCEPT !.op = "scrub", !.pc = "drop", !.todo = <<s>>])
    BY <1>4 DEF StartScrub
  <2> PICK x : x = [Idle EXCEPT !.op = "scrub", !.pc = "drop", !.todo = <<s>>]
    OBVIOUS
  <2>1. Shape(x) /\ x.op = "scrub" /\ x.pc = "drop" /\ Head(x.todo) = s
    <3>1. Shape(x)
      BY ScrubShape
    <3>2. x.op = "scrub" /\ x.pc = "drop" /\ x.todo = <<s>>
      BY DEF Idle
    <3>3. Head(<<s>>) = s
      OBVIOUS
    <3> QED BY ONLY <3>1, <3>2, <3>3
  <2>2. Turn(p, x)
    BY <1>0, <1>4, <2>1, UseKeeps DEF StartScrub, Begin, Turn, Types, data
  <2>3. Writes(x) /\ q.op = "none" /\ x.op \in Repairs
    BY <2>1, ShapeKinds DEF Begin
  <2>4. Checks(p, x)
    BY <1>4, <2>1, <2>3 DEF StartScrub, Checks, Still, data, history
  <2> QED BY <2>2, <2>4 DEF Acts
<1>5. CASE Drop(p)
  <2> PICK s, x : s = Head(q.todo) /\ x = Check("scrub")
    OBVIOUS
  <2>0. q.pc = "drop" /\ Store(s, None) /\ "scrub" \in Repairs
    BY <1>5 DEF Drop, Repairs
  <2>1. Shape(x) /\ x.pc = "has" /\ x.reps = replicas_for
    BY <1>0, <2>0, CheckShape
  <2>2. s \in Shards
    BY <1>0, <2>0, HeadTail DEF Shape, Call
  <2>3. copy' \in [Shards -> Bodies \cup {Bad, None}]
    BY <2>0, <2>2, StoreKeeps DEF Types
  <2>4. Turn(p, x)
    BY <1>5, <2>1, <2>3 DEF Drop, Become, Turn, Types
  <2>5. Drops(p, x)
    BY <1>5, <2>0, <2>1, <2>2 DEF Drop, Drops, Stores, Store, history
  <2> QED BY <2>4, <2>5 DEF Acts
<1> QED BY <1>2, <1>3, <1>4, <1>5

LEMMA RepairSteps ==
  ASSUME Types, NEW p \in Procs, HasNext(p) \/ FindSource(p) \/ SourceNext(p) \/ CopyNext(p) \/ EndRepair(p)
  PROVE  \E x : Turn(p, x) /\ Acts(p, x)
<1> PICK q : q = proc[p]
  OBVIOUS
<1>0. /\ q \in Call /\ Shape(q) /\ ranking \in Rankings /\ q.reps \in Seq(Shards) /\ q.todo \in Seq(Shards) /\ q.legs \in SUBSET Shards
      /\ q.pc \in {"drop", "has", "source", "copy", "end"} => q.op \in Repairs /\ Writes(q)
      /\ copy \in [Shards -> Bodies \cup {Bad, None}]
  BY ShapeKinds DEF Types, Call
<1>1. ASSUME NEW x, q.pc \in {"has", "source"}, Become(p, x), UNCHANGED <<data, mrf, left, history>>,
             Shape(x), x.op = q.op, x.pc \in {"has", "source", "end"}, x.reps = q.reps
      PROVE  \E y : Turn(p, y) /\ Acts(p, y)
  <2>1. Turn(p, x)
    BY <1>1 DEF Become, Turn, Types, data
  <2>2. q.op \in Repairs /\ Writes(q)
    BY <1>0, <1>1
  <2>3. Checks(p, x)
    BY <1>1, <2>2 DEF Checks, Still, data, history
  <2> QED BY <2>1, <2>3 DEF Acts
<1>2. CASE HasNext(p)
  <2> PICK s : s = Head(q.todo)
    OBVIOUS
  <2>0. q.pc = "has" /\ q.todo # << >> /\ UNCHANGED <<data, mrf, left, history>>
    BY <1>2 DEF HasNext
  <2> PICK L : L = IF s \in down \/ copy[s] = None THEN q.legs \cup {s} ELSE q.legs
    OBVIOUS
  <2>1. L \in SUBSET Shards
    BY <1>0, <2>0, HeadTail
  <2> PICK x : x = [q EXCEPT !.todo = Tail(@), !.legs = L]
    OBVIOUS
  <2>2. Become(p, x)
    <3>1. Become(p, [q EXCEPT !.todo = Tail(@), !.legs = IF s \in down \/ copy[s] = None THEN @ \cup {s} ELSE @])
      BY <1>2 DEF HasNext
    <3>2. x = [q EXCEPT !.todo = Tail(@), !.legs = IF s \in down \/ copy[s] = None THEN @ \cup {s} ELSE @]
      BY <1>0 DEF Call
    <3> QED BY <3>1, <3>2
  <2>3. Shape(x) /\ x.op = q.op /\ x.pc = "has" /\ x.reps = q.reps
    <3>1. x = [q EXCEPT !.todo = Tail(@), !.legs = L]
      OBVIOUS
    <3>2. Shape(q) /\ q.pc = "has" /\ q.todo # << >>
      BY <1>0, <2>0
    <3>3. Shape(x) /\ x.op = q.op /\ x.pc = "has" /\ x.reps = q.reps /\ x.bad = 0
      BY ONLY <2>1, <3>1, <3>2, HasShape, Zenon
    <3> QED BY ONLY <3>3
  <2> QED BY ONLY <1>1, <2>0, <2>2, <2>3
<1>3. CASE FindSource(p)
  <2>0. q.pc = "has" /\ UNCHANGED <<data, mrf, left, history>> /\ q.bad = 0
    BY <1>0, <1>3 DEF FindSource, Shape
  <2>1. CASE q.legs = {}
    <3> PICK x : x = [q EXCEPT !.pc = "end"]
      OBVIOUS
    <3>1. Become(p, x)
      BY <1>3, <2>1 DEF FindSource
    <3>2. Shape(x) /\ x.op = q.op /\ x.pc = "end" /\ x.reps = q.reps
      <4> PICK b \in {0, 1} : b = q.bad
        BY <2>0
      <4>1. x = [q EXCEPT !.pc = "end", !.bad = b]
        BY <1>0 DEF Call
      <4>2. Shape(q) /\ q.pc \in {"has", "source"}
        BY <1>0, <2>0
      <4> QED BY ONLY <4>1, <4>2, b \in {0, 1}, EndShape
    <3> QED BY ONLY <1>1, <2>0, <3>1, <3>2
  <2>2. CASE q.legs # {}
    <3> PICK d : d = Without(q.reps, q.legs) \o InOrder
      OBVIOUS
    <3>1. d \in Seq(Shards)
      BY <1>0, WithoutProperties, InOrderProperties, ConcatProperties
    <3> PICK x : x = [q EXCEPT !.pc = "source", !.todo = d]
      OBVIOUS
    <3>2. Become(p, x)
      BY <1>3, <2>2 DEF FindSource
    <3>3. Shape(x) /\ x.op = q.op /\ x.pc = "source" /\ x.reps = q.reps
      <4>1. x = [q EXCEPT !.pc = "source", !.todo = d]
        OBVIOUS
      <4>2. Shape(q) /\ q.pc \in {"has", "source"}
        BY <1>0, <2>0
      <4> QED BY ONLY <3>1, <4>1, <4>2, SourceShape
    <3> QED BY ONLY <1>1, <2>0, <3>2, <3>3
  <2> QED BY <2>1, <2>2
<1>4. CASE SourceNext(p)
  <2> PICK s : s = Head(q.todo)
    OBVIOUS
  <2>0. q.pc = "source" /\ UNCHANGED <<data, mrf, left, history>>
    BY <1>4 DEF SourceNext
  <2>1. CASE q.todo = << >>
    <3> PICK x : x = [q EXCEPT !.pc = "end", !.bad = 1]
      OBVIOUS
    <3>1. Become(p, x)
      BY <1>4, <2>1 DEF SourceNext
    <3>2. Shape(x) /\ x.op = q.op /\ x.pc = "end" /\ x.reps = q.reps
      <4>1. x = [q EXCEPT !.pc = "end", !.bad = 1]
        OBVIOUS
      <4> QED BY ONLY <1>0, <2>0, <4>1, EndShape
    <3> QED BY ONLY <1>1, <2>0, <3>1, <3>2
  <2>2. CASE q.todo # << >> /\ ~ (s \notin down /\ copy[s] \in Bodies)
    <3> PICK x : x = [q EXCEPT !.todo = Tail(@)]
      OBVIOUS
    <3>1. Become(p, x)
      BY <1>4, <2>2 DEF SourceNext
    <3>2. Shape(x) /\ x.op = q.op /\ x.pc = "source" /\ x.reps = q.reps
      <4> PICK d \in Seq(Shards) : d = Tail(q.todo)
        BY <1>0, <2>2, HeadTail
      <4>1. x = [q EXCEPT !.pc = "source", !.todo = d]
        BY <1>0, <2>0 DEF Call
      <4>2. Shape(q) /\ q.pc \in {"has", "source"}
        BY <1>0, <2>0
      <4> QED BY ONLY <4>1, <4>2, d \in Seq(Shards), SourceShape
    <3> QED BY ONLY <1>1, <2>0, <3>1, <3>2
  <2>3. CASE q.todo # << >> /\ s \notin down /\ copy[s] \in Bodies
    <3> PICK b \in Bodies : b = copy[s]
      BY <2>3
    <3> PICK d : d = Without(q.reps, Shards \ q.legs)
      OBVIOUS
    <3> PICK x : x = CopyOf(q, b, d)
      OBVIOUS
    <3>1. Become(p, x)
      BY <1>4, <2>3 DEF SourceNext, CopyOf
    <3>2. Shape(x) /\ x.pc = "copy" /\ x.reps = q.reps /\ x.body = b /\ Range(x.todo) \subseteq Range(x.reps)
      <4>1. x = CopyOf(q, b, d) /\ d = Without(q.reps, Shards \ q.legs)
        OBVIOUS
      <4>2. Shape(q) /\ q.pc = "source"
        BY <1>0, <2>0
      <4> QED BY ONLY <4>1, <4>2, b \in Bodies, CopyShape, SMTT(30)
    <3>3. s \in Shards
      BY <1>0, <2>3, HeadTail
    <3>4. Turn(p, x)
      BY <2>0, <3>1, <3>2 DEF Become, Turn, Types, data
    <3>5. Sources(p, x)
      BY <2>0, <3>2, <3>3 DEF Sources, Still, data, history
    <3> QED BY <3>4, <3>5 DEF Acts
  <2> QED BY <2>1, <2>2, <2>3
<1>5. CASE CopyNext(p)
  <2> PICK s : s = Head(q.todo)
    OBVIOUS
  <2>0. q.pc = "copy" /\ q.todo # << >> /\ Store(s, q.body)
    BY <1>5 DEF CopyNext
  <2> PICK x : x = Counted([q EXCEPT !.todo = Tail(@)], s)
    OBVIOUS
  <2>1. Shape(x) /\ x.pc = "copy" /\ x.body = q.body /\ x.reps = q.reps /\ x.todo = Tail(q.todo)
    <3>1. x = Counted([q EXCEPT !.todo = Tail(@)], s) /\ q.pc \in {"del", "copy"}
      BY <2>0
    <3>2. Shape(q) /\ q.todo # << >>
      BY <1>0, <2>0
    <3>3. Shape(x) /\ x.pc = q.pc /\ x.body = q.body /\ x.reps = q.reps /\ x.todo = Tail(q.todo)
      BY ONLY <3>1, <3>2, CountShape
    <3> QED BY ONLY <2>0, <3>3
  <2>2. s \in Shards /\ s \in Range(q.todo) /\ Range(x.todo) \subseteq Range(q.todo) /\ q.body \in Bodies
    BY <1>0, <2>0, <2>1, HeadTail, ShapeKinds
  <2>3. copy' \in [Shards -> Bodies \cup {Bad, None}]
    BY <2>0, <2>2, StoreKeeps DEF Types
  <2>4. Turn(p, x)
    BY <1>5, <2>1, <2>3 DEF CopyNext, Become, Turn, Types
  <2>5. Copies(p, x, s)
    BY <1>5, <2>0, <2>1, <2>2 DEF CopyNext, Copies, Stores, Store, history
  <2> QED BY <2>2, <2>4, <2>5 DEF Acts
<1>6. CASE EndRepair(p)
  <2>0. q.pc \in {"end", "copy"}
    BY <1>6 DEF EndRepair
  <2>1. mrf' \in BOOLEAN
    BY <1>6 DEF EndRepair
  <2>2. Turn(p, Idle)
    BY <1>6, <2>1, IdleShape DEF EndRepair, Finish, Turn, Types, data
  <2>3. Writes(q) /\ q.op \in Repairs /\ Idle.op = "none" /\ Idle.pc = "idle"
    BY <1>0, <2>0, ShapeKinds
  <2>4. Checks(p, Idle)
    BY <1>6, <2>3 DEF EndRepair, Checks, Still, data, history
  <2> QED BY <2>2, <2>4 DEF Acts
<1> QED BY <1>2, <1>3, <1>4, <1>5, <1>6

\* A step is one of those, or a fault, or a change of placement.
LEMMA NextCases ==
  ASSUME Types, Next
  PROVE  /\ \/ \E p \in Procs : \E x : Turn(p, x) /\ Acts(p, x)
            \/ \E s \in Shards : Flip(s) \/ Rot(s)
            \/ Move
         /\ Observe
<1>0. Clients \subseteq Procs /\ Healers \subseteq Procs
  BY DEF Procs
<1>1. ASSUME NEW p \in Procs, (\E b \in Bodies : StartPut(p, b)) \/ (\E o \in Lookups : StartLookup(p, o))
                              \/ StartDelete(p) \/ ClientStep(p)
      PROVE  \E x : Turn(p, x) /\ Acts(p, x)
  BY <1>1, PutSteps, LookSteps, DeleteSteps DEF ClientStep
<1>2. ASSUME NEW p \in Procs, StartDrain(p) \/ StartResilver(p) \/ StartScrub(p) \/ RepairStep(p)
      PROVE  \E x : Turn(p, x) /\ Acts(p, x)
  BY <1>2, RepairBegins, RepairSteps DEF RepairStep
<1> QED BY <1>0, <1>1, <1>2 DEF Next

LEMMA TypesInit == ASSUME Init PROVE Types
<1>2. Idle \in Call
  BY IdleShape DEF Shape
<1> QED BY <1>2, IdleShape, MirrorAssumption DEF Init, Types

\* The other calls stay as they are.
LEMMA TurnProc ==
  ASSUME Types, NEW p \in Procs, NEW x, Turn(p, x)
  PROVE  /\ proc'[p] = x /\ x \in Call /\ \A r \in Procs : r # p => proc'[r] = proc[r]
         /\ proc' \in [Procs -> Call]
<1>1. x \in Call /\ proc \in [Procs -> Call] /\ proc' = [proc EXCEPT ![p] = x]
  BY DEF Turn, Types, Shape
<1> QED BY <1>1

LEMMA FaultTypes ==
  ASSUME Types, (\E s \in Shards : Flip(s) \/ Rot(s)) \/ Move
  PROVE  Types' /\ proc' = proc
<1>0. "flip" \in Events /\ "rot" \in Events /\ "move" \in Events
  BY MirrorAssumption
<1>1. ASSUME NEW e \in Events, Use(e) PROVE left' \in [Events -> Nat]
  <2>1. left[e] \in Nat /\ left[e] > 0 /\ left[e] - 1 \in Nat
    BY <1>1 DEF Use, Types
  <2> QED BY <1>1, <2>1 DEF Use, Types
<1>2. ASSUME NEW s \in Shards, Flip(s) PROVE Types' /\ proc' = proc
  BY <1>0, <1>1, <1>2 DEF Flip, Types
<1>3. ASSUME NEW s \in Shards, Rot(s) PROVE Types' /\ proc' = proc
  BY <1>0, <1>1, <1>3 DEF Rot, Types
<1>4. ASSUME Move PROVE Types' /\ proc' = proc
  BY <1>0, <1>1, <1>4 DEF Move, Types
<1> QED BY <1>2, <1>3, <1>4

LEMMA TypesStep == ASSUME Types, [Next]_vars PROVE Types'
<1>1. ASSUME NEW p \in Procs, NEW x, Turn(p, x) PROVE Types'
  <2>1. /\ proc'[p] = x /\ (\A r \in Procs : r # p => proc'[r] = proc[r]) /\ proc' \in [Procs -> Call]
    BY <1>1, TurnProc
  <2>2. \A r \in Procs : Shape(proc'[r])
    BY <1>1, <2>1 DEF Turn, Types
  <2>3. copy' \in [Shards -> Bodies \cup {Bad, None}] /\ down' = down /\ ranking' = ranking /\ mrf' \in BOOLEAN /\ left' \in [Events -> Nat]
    BY <1>1 DEF Turn
  <2> QED BY <2>1, <2>2, <2>3 DEF Types
<1>2. CASE UNCHANGED vars
  BY <1>2 DEF vars, Types
<1>3. CASE Next
  BY <1>1, <1>3, NextCases, FaultTypes
<1> QED BY <1>2, <1>3

-----------------------------------------------------------------------------
(* What a lookup may still find. *)

\* A shard that has been readable all along is still to be asked.
Looking(p) ==
  /\ sure[p] \subseteq ReadableShards
  /\ proc[p].pc = "look" => sure[p] \subseteq proc[p].legs \cup Range(proc[p].todo)
  /\ proc[p].pc = "answer" /\ proc[p].good = 0 /\ proc[p].bad = 0 => sure[p] = {}
LookInv == Types /\ \A p \in Procs : Looking(p)

LEMMA LookInit == ASSUME Init PROVE LookInv
<1>1. Idle.pc = "idle"
  BY DEF Idle
<1> QED BY <1>1, TypesInit DEF Init, LookInv, Looking

\* Of a lookup under way only shards drop out; other calls have none.
LEMMA SureShrinks ==
  ASSUME Types, Types', Observe, NEW p \in Procs
  PROVE  /\ sure'[p] \subseteq ReadableShards'
         /\ proc'[p].op \notin Lookups => sure'[p] = {}
         /\ proc[p].op \in Lookups => sure'[p] \subseteq sure[p]
<1>1. sure'[p] = IF proc'[p].op \notin Lookups THEN {}
                 ELSE ReadableShards' \cap (IF proc[p] = Idle THEN Shards ELSE sure[p])
  BY DEF Observe
<1>2. proc[p].op \in Lookups => proc[p] # Idle
  BY DEF Idle, Lookups
<1> QED BY <1>1, <1>2

LEMMA LookStep == ASSUME LookInv, [Next]_vars PROVE LookInv'
<1>0. Types /\ Types' /\ \A p \in Procs : Looking(p)
  BY TypesStep DEF LookInv
<1>1. CASE UNCHANGED vars
  <2> QED BY <1>0, <1>1 DEF vars, LookInv, Looking, ReadableShards
<1>2. CASE Next
  <2>1. Observe
    BY <1>0, <1>2, NextCases
  <2>2. ASSUME NEW r \in Procs, proc'[r] = proc[r] PROVE Looking(r)'
    <3>0. Shape(proc[r]) /\ Looking(r)
      BY <1>0 DEF Types
    <3>1. CASE proc[r].op \in Lookups
      BY <1>0, <2>1, <2>2, <3>0, <3>1, SureShrinks DEF Looking
    <3>2. CASE proc[r].op \notin Lookups
      <4>1. sure'[r] = {}
        BY <1>0, <2>1, <2>2, <3>2, SureShrinks
      <4> QED BY <4>1 DEF Looking
    <3> QED BY <3>1, <3>2
  <2>3. ASSUME NEW p \in Procs, NEW x, Turn(p, x), Acts(p, x) PROVE Looking(p)'
    <3> PICK q : q = proc[p]
      OBVIOUS
    <3>0. proc'[p] = x /\ Shape(q) /\ Shape(x) /\ Looking(p) /\ sure'[p] \subseteq ReadableShards'
      BY <1>0, <2>1, <2>3, TurnProc, SureShrinks DEF Types, Turn
    <3>1. CASE x.op \notin Lookups
      <4>1. sure'[p] = {}
        BY <1>0, <2>1, <3>0, <3>1, SureShrinks
      <4> QED BY <3>0, <4>1 DEF Looking
    <3>2. CASE x.op \in Lookups
      <4>0. x.pc \in {"look", "answer"} /\ ~ Writes(x) /\ x.pc \notin {"legs", "handoff", "drop", "has", "source", "copy", "end", "idle"}
            /\ x.op \notin {"put", "delete", "none"} /\ x.op \notin Repairs
        BY <3>0, <3>2, ShapeKinds DEF Lookups, Repairs
      <4>1. Reads(p, x)
        <5>1. Idle.op = "none"
          BY DEF Idle
        <5> QED BY <2>3, <4>0, <5>1 DEF Acts, PutBegins, HandoffBegins, PutEnds, DeleteBegins, DeleteEnds, Checks,
                  Drops, Sources, PutWrites, HandoffWrites, DeleteWrites, Copies
      <4>2. ReadableShards' = ReadableShards /\ ReadableShards \subseteq Shards
        BY <2>3, <4>1 DEF Reads, Still, Turn, ReadableShards
      <4>3. CASE q = Idle /\ x.pc = "look" /\ Range(x.todo) = Shards
        BY <3>0, <4>2, <4>3 DEF Looking
      <4>4. CASE q.pc = "look"
        <5>1. sure'[p] \subseteq sure[p] /\ sure[p] \subseteq q.legs \cup Range(q.todo) /\ sure'[p] \subseteq ReadableShards
          <6>1. q.op \in Lookups
            BY <3>0, <4>4, ShapeKinds
          <6> QED BY <1>0, <2>1, <3>0, <4>2, <4>4, <6>1, SureShrinks DEF Looking
        <5>2. CASE x.pc = "look" /\ q.legs \cup Range(q.todo) \subseteq (Shards \ ReadableShards) \cup x.legs \cup Range(x.todo)
          <6>1. sure'[p] \subseteq x.legs \cup Range(x.todo)
            BY <5>1, <5>2
          <6> QED BY <3>0, <5>2, <6>1 DEF Looking
        <5>3. CASE x.pc = "answer" /\ (x.good = 1 \/ x.bad = 1 \/ q.legs \cup Range(q.todo) = {})
          BY <3>0, <5>1, <5>3 DEF Looking
        <5> QED BY <4>0, <4>1, <4>4, <5>2, <5>3, IdleShape, ShapeKinds DEF Reads
      <4> QED BY <4>0, <4>1, <4>3, <4>4, IdleShape, ShapeKinds DEF Reads
    <3> QED BY <3>1, <3>2
  <2>4. ASSUME NEW p \in Procs, NEW x, Turn(p, x), Acts(p, x), NEW r \in Procs PROVE Looking(r)'
    <3>1. CASE r = p
      BY <2>3, <2>4, <3>1
    <3>2. CASE r # p
      BY <1>0, <2>2, <2>4, <3>2, TurnProc
    <3> QED BY <3>1, <3>2
  <2>5. ASSUME (\E s \in Shards : Flip(s) \/ Rot(s)) \/ Move, NEW r \in Procs PROVE Looking(r)'
    BY <1>0, <2>2, <2>5, FaultTypes
  <2> QED BY <1>0, <1>2, <2>4, <2>5, NextCases DEF LookInv
<1> QED BY <1>1, <1>2

\* A get, has or stat that comes back with nothing has not overlooked a body:
\* no shard held one, and answered, from its start to its end, whatever puts,
\* deletes, repairs, faults and placement did meanwhile (get_inner, has, stat).
THEOREM LookupsMissNothing == Spec => []NothingOverlooked
<1>1. Init => LookInv
  BY LookInit
<1>2. LookInv /\ [Next]_vars => LookInv'
  BY LookStep
<1>3. LookInv => NothingOverlooked
  <2>1. ASSUME LookInv, NEW p \in Clients, proc[p].pc = "answer", proc[p].good = 0, proc[p].bad = 0 PROVE sure[p] = {}
    BY <2>1 DEF LookInv, Looking, Procs
  <2> QED BY <2>1 DEF NothingOverlooked
<1> QED BY <1>1, <1>2, <1>3, PTL DEF Spec

-----------------------------------------------------------------------------
(* Copies agree with the last put. *)

\* Writers at work at the same time know of each other.
Covered == \A p, q \in Procs : p # q /\ Writes(proc[p]) /\ Writes(proc[q]) => Kind(proc[q]) \in over[p]

Calm == ~ blurred /\ \A p \in Procs : proc[p].op \notin {"put", "delete"}
Agreement ==
  /\ \A s \in Shards : copy[s] \in {latest, Bad, None}
  /\ \A s \in Shards \ Range(replicas_for) : copy[s] \in {Bad, None}
\* A repair is for the replicas of now, and copies the last put.
RepairAgrees(p) ==
  LET q == proc[p] IN
  /\ q.pc \in {"has", "source", "copy", "end"} => Range(q.reps) = Range(replicas_for)
  /\ q.pc = "copy" => q.body = latest /\ Range(q.todo) \subseteq Range(q.reps)
\* A put that nobody disturbs writes the only copies.
PutAgrees(p) ==
  LET q == proc[p] IN
  ~ blurred /\ over[p] = {} /\ q.pc = "legs" /\ q.bad = 0 =>
    /\ Range(q.reps) = Range(replicas_for)
    /\ \A s \in Shards \ Range(q.reps) : copy[s] \in {Bad, None}
    /\ \A s \in Range(q.reps) \ q.legs : copy[s] \in {q.body, Bad}
\* A delete that nobody disturbs leaves nothing behind it.
DeleteAgrees(p) ==
  LET q == proc[p] IN
  over[p] = {} /\ q.op = "delete" /\ q.bad = 0 => \A s \in Shards \ Range(q.todo) : copy[s] = None

AgreeInv ==
  /\ Types /\ Covered
  /\ Calm => Agreement /\ \A p \in Procs : RepairAgrees(p)
  /\ \A p \in Procs : PutAgrees(p) /\ DeleteAgrees(p)

LEMMA CoveredStep ==
  ASSUME Types, Types', Observe
  PROVE  /\ Covered'
         /\ \A r \in Procs : Writes(proc'[r]) =>
              /\ over[r] \subseteq over'[r]
              /\ \A t \in Procs : t # r /\ Writes(proc'[t]) => Kind(proc'[t]) \in over'[r]
<1>1. ASSUME NEW r \in Procs, Writes(proc'[r])
      PROVE  /\ over[r] \subseteq over'[r]
             /\ \A t \in Procs : t # r /\ Writes(proc'[t]) => Kind(proc'[t]) \in over'[r]
  <2>1. over'[r] = over[r] \cup {Kind(proc'[q]) : q \in {t \in Procs \ {r} : Writes(proc'[t])}}
    BY <1>1 DEF Observe
  <2> QED BY <2>1
<1>2. Covered'
  BY <1>1 DEF Covered, Writes, Kind
<1> QED BY <1>1, <1>2

\* Who writes, in a step.
LEMMA ActKinds ==
  ASSUME Types, NEW p \in Procs, NEW x, Turn(p, x), Acts(p, x)
  PROVE  \/ Reads(p, x) /\ ~ Writes(proc[p]) /\ ~ Writes(x)
         \/ Writes(proc[p]) \/ Writes(x)
<1>0. Shape(x) /\ Shape(proc[p])
  BY DEF Turn, Types
<1>1. \A q : q.op \in {"put", "delete"} => Writes(q)
  BY DEF Writes
<1>2. x.pc \in {"has", "copy"} => Writes(x)
  BY <1>0, ShapeKinds
<1>3. Reads(p, x) => ~ Writes(proc[p]) /\ ~ Writes(x)
  BY DEF Reads
<1>4. ~ Reads(p, x) => Writes(proc[p]) \/ Writes(x)
  BY <1>1, <1>2 DEF Acts, PutBegins, HandoffBegins, PutEnds, DeleteBegins, DeleteEnds, Checks,
              Drops, Sources, PutWrites, HandoffWrites, DeleteWrites, Copies
<1> QED BY <1>3, <1>4

\* A writer that has met nobody is not disturbed by a step of another call.
LEMMA Undisturbed ==
  ASSUME Types, Types', Covered, Observe, NEW p \in Procs, NEW x, Turn(p, x), Acts(p, x),
         NEW r \in Procs, r # p, Writes(proc[r]), over'[r] = {}
  PROVE  over[r] = {} /\ Still
<1>0. proc'[r] = proc[r] /\ proc'[p] = x
  BY TurnProc
<1>1. over[r] = {} /\ ~ Writes(x)
  BY <1>0, CoveredStep
<1>2. ~ Writes(proc[p])
  BY <1>1 DEF Covered
<1> QED BY <1>1, <1>2, ActKinds DEF Reads

LEMMA AgreeInit == ASSUME Init PROVE AgreeInv
<1>1. Idle.pc = "idle" /\ Idle.op = "none" /\ ~ Writes(Idle)
  BY DEF Idle, Writes, Repairs
<1>2. \A p \in Procs : proc[p] = Idle
  BY DEF Init
<1>3. Types
  BY TypesInit
<1>4. Covered
  BY <1>1, <1>2 DEF Covered
<1>5. Agreement
  BY DEF Agreement, Init
<1> QED BY <1>1, <1>2, <1>3, <1>4, <1>5 DEF AgreeInv, RepairAgrees, PutAgrees, DeleteAgrees

LEMMA OwnPut ==
  ASSUME AgreeInv, Types', Observe, NEW p \in Procs, NEW x, Turn(p, x), Acts(p, x)
  PROVE  PutAgrees(p)'
<1> PICK q : q = proc[p]
  OBVIOUS
<1>0. Types /\ Covered /\ Shape(q) /\ Shape(x) /\ proc'[p] = x /\ ranking' = ranking /\ replicas_for' = replicas_for
  BY TurnProc DEF AgreeInv, Types, Turn, replicas_for
<1> SUFFICES ASSUME ~ blurred', over'[p] = {}, x.pc = "legs", x.bad = 0
             PROVE  /\ Range(x.reps) = Range(replicas_for)
                    /\ \A s \in Shards \ Range(x.reps) : copy'[s] \in {Bad, None}
                    /\ \A s \in Range(x.reps) \ x.legs : copy'[s] \in {x.body, Bad}
  BY <1>0 DEF PutAgrees
<1>1. Writes(x) /\ x.op = "put" /\ x.pc \notin {"look", "answer", "idle", "handoff", "del", "drop", "has", "source", "copy", "end"}
  BY <1>0, ShapeKinds
<1>2. over[p] = {} /\ \A t \in Procs : t # p => ~ Writes(proc[t])
  <2>1. \A t \in Procs : t # p => proc'[t] = proc[t]
    BY <1>0, TurnProc
  <2> QED BY <1>0, <1>1, <2>1, CoveredStep
<1>3. CASE PutBegins(p, x)
  <2>1. Calm
    <3>1. \A t \in Procs : t # p => proc[t].op \notin {"put", "delete"}
      BY <1>2 DEF Writes
    <3>2. proc[p].op \notin {"put", "delete"} /\ ~ blurred
      BY <1>3, <1>0, ShapeKinds DEF PutBegins, Still
    <3> QED BY <3>1, <3>2 DEF Calm
  <2>2. Agreement
    BY <2>1 DEF AgreeInv
  <2> QED BY <1>3, <2>2 DEF PutBegins, Still, Agreement
<1>4. ASSUME NEW s \in Shards, PutWrites(p, x, s)
      PROVE  /\ Range(x.reps) = Range(replicas_for)
             /\ \A u \in Shards \ Range(x.reps) : copy'[u] \in {Bad, None}
             /\ \A u \in Range(x.reps) \ x.legs : copy'[u] \in {x.body, Bad}
  <2>1. s \notin down /\ q.pc = "legs" /\ s \in q.legs /\ x.body = q.body /\ x.reps = q.reps /\ x.legs = q.legs \ {s} /\ q.bad = 0
    BY <1>4 DEF PutWrites
  <2>2. copy' = [copy EXCEPT ![s] = q.body] /\ ~ blurred
    BY <1>4, <2>1 DEF PutWrites, Stores
  <2>3. /\ Range(q.reps) = Range(replicas_for)
        /\ \A u \in Shards \ Range(q.reps) : copy[u] \in {Bad, None}
        /\ \A u \in Range(q.reps) \ q.legs : copy[u] \in {q.body, Bad}
    BY <1>2, <2>1, <2>2 DEF AgreeInv, PutAgrees
  <2>4. s \in Range(q.reps) /\ Range(q.reps) \subseteq Shards
    BY <1>0, <2>1, RangeOfSeq DEF Shape, Call
  <2>5. \A u \in Shards : copy'[u] = IF u = s THEN q.body ELSE copy[u]
    BY <1>0, <2>2 DEF Types
  <2> QED BY <2>1, <2>3, <2>4, <2>5
<1> QED
  <2>1. Idle.pc = "idle" /\ Idle.op = "none"
    BY DEF Idle
  <2>2. x.op \notin Repairs \cup {"none", "delete"}
    BY <1>1 DEF Repairs
  <2>3. PutBegins(p, x) \/ \E s \in Shards : PutWrites(p, x, s)
    BY <1>1, <2>1, <2>2 DEF Acts, Reads, HandoffBegins, PutEnds, DeleteBegins, DeleteEnds, Checks,
              Drops, Sources, HandoffWrites, DeleteWrites, Copies
  <2> QED BY <1>3, <1>4, <2>3

LEMMA OwnDelete ==
  ASSUME AgreeInv, Types', Observe, NEW p \in Procs, NEW x, Turn(p, x), Acts(p, x)
  PROVE  DeleteAgrees(p)'
<1> PICK q : q = proc[p]
  OBVIOUS
<1>0. Types /\ Covered /\ Shape(q) /\ Shape(x) /\ proc'[p] = x
  BY TurnProc DEF AgreeInv, Types, Turn
<1> SUFFICES ASSUME over'[p] = {}, x.op = "delete", x.bad = 0, NEW u \in Shards \ Range(x.todo)
             PROVE  copy'[u] = None
  BY <1>0 DEF DeleteAgrees
<1>1. Writes(x) /\ x.pc = "del"
  BY <1>0, ShapeKinds
<1>2. over[p] = {}
  BY <1>0, <1>1, CoveredStep
<1>3. CASE DeleteBegins(p, x)
  BY <1>3 DEF DeleteBegins
<1>4. ASSUME NEW s \in Shards, DeleteWrites(p, x, s) PROVE copy'[u] = None
  <2>1. s \notin down /\ q.op = "delete" /\ q.bad = 0 /\ copy' = [copy EXCEPT ![s] = None] /\ Range(q.todo) = {s} \cup Range(x.todo)
    BY <1>4 DEF DeleteWrites, Stores
  <2>2. \A v \in Shards \ Range(q.todo) : copy[v] = None
    BY <1>2, <2>1 DEF AgreeInv, DeleteAgrees
  <2>3. copy'[u] = IF u = s THEN None ELSE copy[u]
    BY <1>0, <2>1 DEF Types
  <2> QED BY <2>1, <2>2, <2>3
<1> QED
  <2>1. Idle.pc = "idle" /\ Idle.op = "none" /\ "delete" \notin Repairs \cup {"none", "put"}
    BY DEF Idle, Repairs
  <2>2. DeleteBegins(p, x) \/ \E s \in Shards : DeleteWrites(p, x, s)
    BY <1>1, <2>1 DEF Acts, Reads, PutBegins, HandoffBegins, PutEnds, DeleteEnds, Checks,
              Drops, Sources, PutWrites, HandoffWrites, Copies
  <2> QED BY <1>3, <1>4, <2>2

\* A step of one call after which no put and no delete is under way.
LEMMA CalmStep ==
  ASSUME AgreeInv, Types', Observe, NEW p \in Procs, NEW x, Turn(p, x), Acts(p, x), Calm'
  PROVE  Agreement' /\ \A r \in Procs : RepairAgrees(r)'
<1> PICK q : q = proc[p]
  OBVIOUS
<1>0. /\ Types /\ Covered /\ Shape(q) /\ Shape(x) /\ proc'[p] = x /\ replicas_for' = replicas_for
      /\ \A r \in Procs : r # p => proc'[r] = proc[r]
  BY TurnProc DEF AgreeInv, Types, Turn, replicas_for
<1>1. x.op \notin {"put", "delete"} /\ ~ blurred' /\ \A r \in Procs : r # p => proc[r].op \notin {"put", "delete"}
  BY <1>0 DEF Calm
<1>2. Range(replicas_for) \subseteq Shards
  BY <1>0, RepsProperties, RangeOfSeq DEF Types
\* The calls of others stay in agreement when the last put stays.
<1>3. ASSUME Calm, latest' = latest, NEW r \in Procs, r # p PROVE RepairAgrees(r)'
  BY <1>0, <1>3 DEF AgreeInv, RepairAgrees
<1>4. ASSUME q.op \notin {"put", "delete"}, blurred' = blurred PROVE Calm
  BY <1>1, <1>4 DEF Calm
<1>5. ASSUME Calm, Still PROVE Agreement'
  BY <1>0, <1>5 DEF AgreeInv, Agreement, Still
<1>6. CASE Reads(p, x)
  <2>1. Calm /\ Still
    BY <1>4, <1>6 DEF Reads, Still, Writes
  <2>2. x.pc \notin {"has", "source", "copy", "end"}
    BY <1>0, <1>6, ShapeKinds DEF Reads
  <2>3. RepairAgrees(p)'
    BY <1>0, <2>2 DEF RepairAgrees
  <2> QED BY <1>3, <1>5, <2>1, <2>3 DEF Still
<1>7. CASE PutEnds(p, x)
  <2>1. over[p] = {} /\ q.pc = "legs" /\ ~ blurred /\ q.op = "put" /\ q.legs = {} /\ q.bad = 0 /\ latest' = q.body /\ copy' = copy /\ x = Idle
    BY <1>1, <1>7 DEF PutEnds, Clean
  <2>2. /\ Range(q.reps) = Range(replicas_for)
        /\ \A s \in Shards \ Range(q.reps) : copy[s] \in {Bad, None}
        /\ \A s \in Range(q.reps) \ q.legs : copy[s] \in {q.body, Bad}
    BY <2>1 DEF AgreeInv, PutAgrees
  <2>3. Agreement'
    BY <1>0, <2>1, <2>2 DEF Agreement
  <2>4. \A r \in Procs : proc'[r].pc \notin {"has", "source", "copy", "end"}
    <3>1. Writes(q)
      BY <2>1 DEF Writes
    <3>2. \A r \in Procs : r # p => ~ Writes(proc[r])
      BY <1>0, <2>1, <3>1 DEF Covered
    <3> QED BY <1>0, <2>1, <3>2, ShapeKinds DEF Types
  <2> QED BY <2>3, <2>4 DEF RepairAgrees
<1>8. CASE DeleteEnds(p, x)
  <2>1. over[p] = {} /\ q.op = "delete" /\ ~ (q.bad > 0) /\ Range(q.todo) = {} /\ latest' = None /\ copy' = copy /\ x = Idle
    BY <1>1, <1>8 DEF DeleteEnds
  <2>2. q.bad = 0
    BY <1>0, <2>1 DEF Shape, Call
  <2>3. \A s \in Shards : copy[s] = None
    BY <2>1, <2>2 DEF AgreeInv, DeleteAgrees
  <2>4. Agreement'
    BY <1>0, <2>1, <2>3 DEF Agreement
  <2>5. \A r \in Procs : proc'[r].pc \notin {"has", "source", "copy", "end"}
    <3>1. Writes(q)
      BY <2>1 DEF Writes
    <3>2. \A r \in Procs : r # p => ~ Writes(proc[r])
      BY <1>0, <2>1, <3>1 DEF Covered
    <3> QED BY <1>0, <2>1, <3>2, ShapeKinds DEF Types
  <2> QED BY <2>4, <2>5 DEF RepairAgrees
<1>9. CASE Checks(p, x)
  <2>1. Calm /\ Still
    <3>1. q.op \notin {"put", "delete"}
      BY <1>9 DEF Checks, Repairs
    <3> QED BY <1>4, <1>9, <3>1 DEF Checks, Still
  <2>2. RepairAgrees(p)'
    <3>1. q.pc \in {"has", "source"} => Range(q.reps) = Range(replicas_for)
      BY <2>1 DEF AgreeInv, RepairAgrees
    <3>2. x.pc # "copy" /\ (x.pc \in {"has", "source", "end"} => Range(x.reps) = Range(replicas_for))
      BY <1>9, <3>1 DEF Checks
    <3> QED BY <1>0, <3>2 DEF RepairAgrees
  <2> QED BY <1>3, <1>5, <2>1, <2>2 DEF Still
<1>10. ASSUME Calm, NEW s, NEW b, Stores(s, b), b \in {latest, None}, s \in Range(replicas_for) \/ b = None PROVE Agreement'
  <2>1. latest' = latest /\ \A u \in Shards : copy'[u] = copy[u] \/ (u = s /\ copy'[u] = b)
    BY <1>0, <1>10 DEF Stores, Types
  <2> QED BY <1>0, <1>10, <2>1 DEF AgreeInv, Agreement
<1>11. CASE Drops(p, x)
  <2>1. Calm /\ latest' = latest
    <3>1. q.op \notin {"put", "delete"}
      BY <1>0, <1>11, ShapeKinds DEF Drops
    <3> QED BY <1>4, <1>11, <3>1 DEF Drops, Stores
  <2>2. Agreement'
    BY <1>10, <1>11, <2>1 DEF Drops
  <2>3. RepairAgrees(p)'
    BY <1>0, <1>11 DEF Drops, RepairAgrees
  <2> QED BY <1>3, <2>1, <2>2, <2>3
<1>12. CASE Sources(p, x)
  <2>1. Calm /\ Still
    <3>1. q.op \notin {"put", "delete"}
      BY <1>0, <1>12, ShapeKinds DEF Sources
    <3> QED BY <1>4, <1>12, <3>1 DEF Sources, Still
  <2>2. x.body = latest
    <3>1. x.body \in Bodies
      BY <1>0, <1>12, ShapeKinds DEF Sources
    <3>2. PICK s \in Shards : x.body = copy[s]
      BY <1>12 DEF Sources
    <3>3. copy[s] \in {latest, Bad, None}
      BY <2>1 DEF AgreeInv, Agreement
    <3> QED BY <3>1, <3>2, <3>3, MirrorAssumption
  <2>3. Range(q.reps) = Range(replicas_for)
    BY <1>12, <2>1 DEF Sources, AgreeInv, RepairAgrees
  <2>4. RepairAgrees(p)'
    BY <1>0, <1>12, <2>1, <2>2, <2>3 DEF Sources, RepairAgrees, Still
  <2> QED BY <1>3, <1>5, <2>1, <2>4 DEF Still
<1>13. ASSUME NEW s \in Shards, Copies(p, x, s) PROVE Agreement' /\ \A r \in Procs : RepairAgrees(r)'
  <2>1. Calm /\ latest' = latest /\ Stores(s, q.body) /\ q.pc = "copy" /\ s \in Range(q.todo)
    <3>1. q.op \notin {"put", "delete"}
      BY <1>0, <1>13, ShapeKinds DEF Copies
    <3> QED BY <1>4, <1>13, <3>1 DEF Copies, Stores
  <2>2. q.body = latest /\ Range(q.reps) = Range(replicas_for) /\ Range(q.todo) \subseteq Range(q.reps)
    BY <2>1 DEF AgreeInv, RepairAgrees
  <2>3. Agreement'
    BY <1>10, <2>1, <2>2
  <2>4. RepairAgrees(p)'
    BY <1>0, <1>13, <2>1, <2>2 DEF Copies, RepairAgrees
  <2> QED BY <1>3, <2>1, <2>3, <2>4
<1> QED BY <1>1, <1>6, <1>7, <1>8, <1>9, <1>11, <1>12, <1>13
        DEF Acts, PutBegins, HandoffBegins, DeleteBegins, PutWrites, HandoffWrites, DeleteWrites

LEMMA AgreeFaults ==
  ASSUME AgreeInv, Types', Observe, (\E s \in Shards : Flip(s) \/ Rot(s)) \/ Move
  PROVE  AgreeInv'
<1>0. /\ Types /\ proc' = proc /\ Covered'
      /\ \A r \in Procs : Writes(proc[r]) => over[r] \subseteq over'[r]
  BY FaultTypes, CoveredStep DEF AgreeInv
<1>1. \A r \in Procs : (proc[r].pc = "legs" \/ proc[r].op = "delete") /\ over'[r] = {} => over[r] = {}
  BY <1>0, ShapeKinds DEF Types
<1>2. ASSUME ranking' = ranking, latest' = latest, blurred' = blurred,
             \A s \in Shards : copy'[s] = copy[s] \/ (copy[s] \in Bodies /\ copy'[s] = Bad)
      PROVE  AgreeInv'
  <2>0. replicas_for' = replicas_for /\ Range(replicas_for) \subseteq Shards
    BY <1>0, <1>2, RepsProperties, RangeOfSeq DEF replicas_for, Types
  <2>1. Calm' => Agreement' /\ \A p \in Procs : RepairAgrees(p)'
    BY <1>0, <1>2, <2>0 DEF AgreeInv, Calm, Agreement, RepairAgrees
  <2>2. ASSUME NEW p \in Procs PROVE PutAgrees(p)'
    <3>1. Range(proc[p].reps) \subseteq Shards
      BY <1>0, RangeOfSeq DEF Types, Call
    <3> QED BY <1>0, <1>1, <1>2, <2>0, <3>1 DEF AgreeInv, PutAgrees
  <2>3. ASSUME NEW p \in Procs PROVE DeleteAgrees(p)'
    <3>1. None \notin Bodies
      BY MirrorAssumption
    <3> QED BY <1>0, <1>1, <1>2, <3>1 DEF AgreeInv, DeleteAgrees
  <2> QED BY <1>0, <2>1, <2>2, <2>3 DEF AgreeInv
<1>3. ASSUME NEW s \in Shards, Flip(s) PROVE AgreeInv'
  BY <1>2, <1>3 DEF Flip, history
<1>4. ASSUME NEW s \in Shards, Rot(s) PROVE AgreeInv'
  <2>1. \A u \in Shards : copy'[u] = copy[u] \/ (copy[u] \in Bodies /\ copy'[u] = Bad)
    BY <1>0, <1>4 DEF Rot, Types
  <2> QED BY <1>2, <1>4, <2>1 DEF Rot, history
<1>5. ASSUME Move PROVE AgreeInv'
  <2>1. ~ Calm' /\ blurred' /\ copy' = copy
    BY <1>5 DEF Move, Calm
  <2>2. ASSUME NEW p \in Procs PROVE PutAgrees(p)' /\ DeleteAgrees(p)'
    BY <1>0, <1>1, <2>1 DEF AgreeInv, PutAgrees, DeleteAgrees
  <2> QED BY <1>0, <2>1, <2>2 DEF AgreeInv
<1> QED BY <1>3, <1>4, <1>5

LEMMA AgreeStep == ASSUME AgreeInv, [Next]_vars PROVE AgreeInv'
<1>0. Types /\ Types' /\ Covered
  BY TypesStep DEF AgreeInv
<1>1. CASE UNCHANGED vars
  BY <1>0, <1>1 DEF vars, AgreeInv, Covered, Calm, Agreement, RepairAgrees, PutAgrees, DeleteAgrees, replicas_for
<1>2. CASE Next
  <2>1. Observe
    BY <1>0, <1>2, NextCases
  <2>2. ASSUME NEW p \in Procs, NEW x, Turn(p, x), Acts(p, x) PROVE AgreeInv'
    <3>1. Covered'
      BY <1>0, <2>1, CoveredStep
    <3>2. ASSUME NEW r \in Procs PROVE PutAgrees(r)' /\ DeleteAgrees(r)'
      <4>1. CASE r = p
        BY <1>0, <2>1, <2>2, <4>1, OwnPut, OwnDelete
      <4>2. CASE r # p
        <5>1. proc'[r] = proc[r] /\ replicas_for' = replicas_for
          BY <1>0, <2>2, <4>2, TurnProc DEF Turn, replicas_for
        <5>2. ASSUME over'[r] = {}, proc[r].pc = "legs" \/ proc[r].op = "delete" PROVE over[r] = {} /\ Still
          <6>1. Writes(proc[r])
            BY <1>0, <5>2, ShapeKinds DEF Types
          <6> QED BY <1>0, <2>1, <2>2, <4>2, <5>2, <6>1, Undisturbed
        <5>3. PutAgrees(r) /\ DeleteAgrees(r)
          BY DEF AgreeInv
        <5>4. PutAgrees(r)'
          BY <5>1, <5>2, <5>3 DEF PutAgrees, Still
        <5>5. DeleteAgrees(r)'
          BY <5>1, <5>2, <5>3 DEF DeleteAgrees, Still
        <5> QED BY <5>4, <5>5
      <4> QED BY <4>1, <4>2
    <3>3. Calm' => Agreement' /\ \A r \in Procs : RepairAgrees(r)'
      BY <1>0, <2>1, <2>2, CalmStep
    <3> QED BY <1>0, <3>1, <3>2, <3>3 DEF AgreeInv
  <2> QED BY <1>0, <1>2, <2>1, <2>2, NextCases, AgreeFaults
<1> QED BY <1>1, <1>2

\* As long as puts and deletes come one at a time, reach their shards and
\* placement stands still, no copy differs from the last put and nothing comes
\* back after a delete, for any number of repairs of the heal drain, the
\* resilver and the scrub at once, down shards and rotten copies
\* (put_body, delete, repair_key_mirror).
THEOREM CopiesStayAgreed == Spec => []CopiesAgree
<1>1. Init => AgreeInv
  BY AgreeInit
<1>2. AgreeInv /\ [Next]_vars => AgreeInv'
  BY AgreeStep
<1>3. AgreeInv => CopiesAgree
  <2>1. (\A p \in Procs : ~ Writes(proc[p])) => \A p \in Procs : proc[p].op \notin {"put", "delete"}
    BY DEF Writes
  <2> QED BY <2>1 DEF AgreeInv, Calm, Agreement, CopiesAgree
<1> QED BY <1>1, <1>2, <1>3, PTL DEF Spec

-----------------------------------------------------------------------------
(* An acknowledged body survives. *)

Need(r) == Min({Quorum, Len(r)})
Holders(X) == {s \in Shards \ X : copy[s] \in Bodies}
\* The shards a put has already been to, and those of them that have a body
\* or are damaged.
Behind(q) == IF q.pc = "legs" THEN Range(q.reps) \ q.legs ELSE Shards \ Range(q.todo)
Backing(q, X) == {s \in Behind(q) : s \in X \/ copy[s] \in Bodies}

PutBacked(p, X) ==
  proc[p].op = "put" =>
    /\ Cardinality(X) + left["rot"] < Need(proc[p].reps)
    /\ "delete" \notin over[p] => Cardinality(Backing(proc[p], X)) >= proc[p].good

\* X: the shards whose copy has rotted at some time.  All bad copies and all
\* that a scrub will drop are among them; outside of them an acknowledged put
\* has more bodies than may still rot.
Damage(X) ==
  /\ \A r \in Rankings : r # << >> => Cardinality(X) + left["rot"] < Need(r)
  /\ \A s \in Shards : copy[s] = Bad => s \in X
  /\ \A p \in Procs : proc[p].pc = "drop" => Head(proc[p].todo) \in X
  /\ kept => Cardinality(Holders(X)) > left["rot"]
  /\ \A p \in Procs : PutBacked(p, X)
KeptInv ==
  /\ Types /\ Covered
  /\ \A p \in Procs : proc[p].op = "delete" => ~ kept
  /\ \E X \in SUBSET Shards : Damage(X)

LEMMA Counts ==
  ASSUME NEW S \in SUBSET Shards, NEW T \in SUBSET Shards
  PROVE  /\ Cardinality(S) \in Nat /\ Cardinality(T) \in Nat /\ (S \subseteq T => Cardinality(S) <= Cardinality(T))
         /\ Cardinality(S \cup T) <= Cardinality(S) + Cardinality(T)
         /\ \A s \in T : Cardinality(T) <= Cardinality(T \ {s}) + 1
<1>1. IsFiniteSet(S) /\ IsFiniteSet(T) /\ Cardinality(S) \in Nat /\ Cardinality(T) \in Nat
  BY ShardsFinite
<1>2. S \subseteq T => Cardinality(S) <= Cardinality(T)
  BY <1>1, FS_Subset
<1>3. Cardinality(S \cup T) <= Cardinality(S) + Cardinality(T)
  <2>1. S \cap T \in SUBSET Shards
    OBVIOUS
  <2>2. Cardinality(S \cap T) \in Nat
    BY <2>1, ShardsFinite
  <2>3. Cardinality(S \cup T) = Cardinality(S) + Cardinality(T) - Cardinality(S \cap T)
    BY <1>1, FS_Union
  <2> QED BY <1>1, <2>2, <2>3
<1>4. ASSUME NEW s \in T PROVE Cardinality(T) <= Cardinality(T \ {s}) + 1
  <2>1. Cardinality(T \ {s}) = Cardinality(T) - 1
    BY <1>1, CountDown
  <2> QED BY <1>1, <2>1
<1> QED BY <1>1, <1>2, <1>3, <1>4

LEMMA NeedProperties ==
  /\ \A r \in Seq(Shards) : Need(r) \in Nat /\ Need(r) <= Quorum /\ Need(r) <= Len(r)
  /\ ranking \in Rankings => Need(ranking) <= Need(replicas_for) /\ (replicas_for # << >> => ranking # << >>)
<1>0. Quorum \in Nat /\ R \in Nat /\ Quorum <= R
  BY MirrorAssumption
<1>1. ASSUME NEW r \in Seq(Shards) PROVE Need(r) \in Nat /\ Need(r) <= Quorum /\ Need(r) <= Len(r) /\ (Need(r) = Quorum \/ Need(r) = Len(r))
  <2>1. Len(r) \in Nat
    BY LenProperties
  <2>2. {Quorum, Len(r)} \in SUBSET Nat /\ {Quorum, Len(r)} # {}
    BY <1>0, <2>1
  <2> QED BY <1>0, <2>1, <2>2, MinIsLeast DEF Need
<1>2. ASSUME ranking \in Rankings PROVE Need(ranking) <= Need(replicas_for) /\ (replicas_for # << >> => ranking # << >>)
  <2> PICK k \in Seq(Shards), r \in Seq(Shards) :
        k = ranking /\ r = replicas_for /\ Len(r) <= R /\ Len(r) <= Len(k) /\ (Len(r) = R \/ Len(r) = Len(k))
    BY <1>2, RepsProperties, MirrorAssumption
  <2>1. Len(k) \in Nat /\ Len(r) \in Nat
    BY LenProperties
  <2>2. Need(k) \in Nat /\ Need(k) <= Quorum /\ Need(k) <= Len(k) /\ Need(r) \in Nat /\ (Need(r) = Quorum \/ Need(r) = Len(r))
    BY <1>1
  <2>3. Need(k) <= Need(r)
    BY <1>0, <2>1, <2>2
  <2>4. r # << >> => k # << >>
    <3>1. r # << >> => Len(r) >= 1
      BY HeadTail
    <3>2. k = << >> => Len(k) = 0
      OBVIOUS
    <3> QED BY <2>1, <3>1, <3>2
  <2> QED BY <2>3, <2>4
<1> QED BY <1>1, <1>2

LEMMA KeptInit ==
  ASSUME \A b \in Budgets, r \in Rankings : r # << >> => b["rot"] < Min({Quorum, Len(r)}), Init
  PROVE  KeptInv
<1>1. Idle.pc = "idle" /\ Idle.op = "none" /\ ~ Writes(Idle)
  BY DEF Idle, Writes, Repairs
<1>2. Types /\ (\A p \in Procs : proc[p] = Idle) /\ ~ kept /\ left \in Budgets
  BY TypesInit DEF Init
<1>3. Cardinality({}) + left["rot"] = left["rot"]
  <2>1. left["rot"] \in Nat
    BY <1>2, MirrorAssumption DEF Types
  <2> QED BY <2>1, FS_EmptySet
<1>4. \A s \in Shards : copy[s] # Bad
  BY MirrorAssumption DEF Init
<1>5. Damage({})
  BY <1>1, <1>2, <1>3, <1>4 DEF Damage, PutBacked, Need
<1> QED BY <1>1, <1>2, <1>5 DEF KeptInv, Covered

\* Only a delete takes bodies away outside of the damaged shards.
LEMMA BodiesLast ==
  ASSUME Types, NEW X \in SUBSET Shards, Damage(X), NEW p \in Procs, NEW x, Turn(p, x), Acts(p, x)
  PROVE  /\ \A s \in Shards : copy'[s] = Bad => s \in X
         /\ proc[p].op # "delete" => \A s \in Shards \ X : copy[s] \in Bodies => copy'[s] \in Bodies
         /\ x.pc = "drop" => Head(x.todo) \in X
<1> PICK q : q = proc[p]
  OBVIOUS
<1>0. Shape(q) /\ Shape(x) /\ Bad # None /\ Bad \notin Bodies /\ copy \in [Shards -> Bodies \cup {Bad, None}]
  BY MirrorAssumption DEF Types, Turn
<1>1. ASSUME NEW s, NEW b, Stores(s, b), b \in Bodies \/ (b = None /\ (s \in X \/ q.op = "delete"))
      PROVE  /\ \A u \in Shards : copy'[u] = Bad => u \in X
             /\ q.op # "delete" => \A u \in Shards \ X : copy[u] \in Bodies => copy'[u] \in Bodies
  <2>1. \A u \in Shards : copy'[u] = copy[u] \/ (u = s /\ copy'[u] = b)
    BY <1>0, <1>1 DEF Stores
  <2> QED BY <1>0, <1>1, <2>1 DEF Damage
<1>2. ASSUME copy' = copy
      PROVE  /\ \A u \in Shards : copy'[u] = Bad => u \in X
             /\ q.op # "delete" => \A u \in Shards \ X : copy[u] \in Bodies => copy'[u] \in Bodies
  BY <1>2 DEF Damage
<1>3. CASE Reads(p, x) \/ PutBegins(p, x) \/ HandoffBegins(p, x) \/ PutEnds(p, x) \/ DeleteBegins(p, x) \/ DeleteEnds(p, x) \/ Sources(p, x)
  <2>1. copy' = copy
    BY <1>3 DEF Reads, PutBegins, HandoffBegins, PutEnds, DeleteBegins, DeleteEnds, Sources, Still
  <2>2. x.pc # "drop"
    BY <1>0, <1>3, ShapeKinds DEF Reads, PutBegins, HandoffBegins, PutEnds, DeleteBegins, DeleteEnds, Sources
  <2> QED BY <1>2, <2>1, <2>2
<1>4. CASE Checks(p, x)
  BY <1>2, <1>4 DEF Checks, Still, Damage
<1>5. CASE Drops(p, x)
  BY <1>1, <1>5 DEF Drops, Damage
<1>6. ASSUME NEW s \in Shards, PutWrites(p, x, s) \/ HandoffWrites(p, x, s) \/ Copies(p, x, s)
      PROVE  /\ \A u \in Shards : copy'[u] = Bad => u \in X
             /\ q.op # "delete" => \A u \in Shards \ X : copy[u] \in Bodies => copy'[u] \in Bodies
             /\ x.pc # "drop"
  <2>1. Stores(s, q.body) /\ q.body \in Bodies /\ x.pc # "drop"
    BY <1>0, <1>6, ShapeKinds DEF PutWrites, HandoffWrites, Copies
  <2> QED BY <1>1, <2>1
<1>7. ASSUME NEW s \in Shards, DeleteWrites(p, x, s)
      PROVE  /\ \A u \in Shards : copy'[u] = Bad => u \in X
             /\ q.op = "delete" /\ x.pc # "drop"
  <2>1. Stores(s, None) /\ q.op = "delete" /\ x.pc # "drop"
    BY <1>0, <1>7, ShapeKinds DEF DeleteWrites
  <2> QED BY <1>1, <2>1
<1> QED BY <1>3, <1>4, <1>5, <1>6, <1>7 DEF Acts

\* A put that another call's step leaves as it is.
LEMMA OthersBacked ==
  ASSUME Types, Types', Observe, NEW X \in SUBSET Shards, NEW p \in Procs, PutBacked(p, X),
         proc'[p] = proc[p], left'["rot"] = left["rot"],
         "delete" \in over'[p] \/ \A s \in Shards \ X : copy[s] \in Bodies => copy'[s] \in Bodies
  PROVE  PutBacked(p, X)'
<1> SUFFICES ASSUME proc[p].op = "put" PROVE PutBacked(p, X)'
  BY DEF PutBacked
<1> PICK q : q = proc[p]
  OBVIOUS
<1>0. Shape(q) /\ q.op = "put" /\ q.good \in Nat /\ Behind(q) \subseteq Shards
  BY RangeOfSeq DEF Types, Call, Behind
<1>1. over[p] \subseteq over'[p]
  <2>1. Writes(proc'[p])
    BY DEF Writes
  <2> QED BY <2>1, CoveredStep
<1>2. Cardinality(X) + left["rot"] < Need(q.reps)
  BY DEF PutBacked
<1>3. ASSUME "delete" \notin over'[p] PROVE Cardinality(Backing(proc[p], X)') >= q.good
  <2> PICK B, C : B = Backing(proc[p], X) /\ C = Backing(proc[p], X)'
    OBVIOUS
  <2>1. B \subseteq C /\ B \in SUBSET Shards /\ C \in SUBSET Shards
    BY <1>0, <1>3 DEF Backing, Behind
  <2>2. Cardinality(B) >= q.good
    BY <1>1, <1>3 DEF PutBacked
  <2>3. Cardinality(B) \in Nat /\ Cardinality(C) \in Nat /\ Cardinality(B) <= Cardinality(C)
    BY <2>1, Counts
  <2> QED BY <1>0, <2>2, <2>3
<1> QED BY <1>2, <1>3 DEF PutBacked

\* One more shard written, or not.
LEMMA OneMore ==
  ASSUME NEW B \in SUBSET Shards, NEW C \in SUBSET Shards, NEW g \in Nat, Cardinality(B) >= g,
         NEW s \in Shards, s \notin B, B \cup {s} \subseteq C
  PROVE  Cardinality(C) >= g + 1
<1>1. Cardinality(B \cup {s}) = Cardinality(B) + 1 /\ Cardinality(B) \in Nat
  BY ShardsFinite, CountUp
<1>2. Cardinality(B \cup {s}) <= Cardinality(C) /\ Cardinality(C) \in Nat
  <2>1. B \cup {s} \in SUBSET Shards
    OBVIOUS
  <2> QED BY <2>1, Counts
<1> QED BY <1>1, <1>2

\* The step of a put: each copy counted as good is on a shard of its own.
LEMMA OwnBacked ==
  ASSUME Types, Types', Observe, NEW X \in SUBSET Shards, Damage(X), NEW p \in Procs, NEW x, Turn(p, x), Acts(p, x)
  PROVE  PutBacked(p, X)'
<1> PICK q : q = proc[p]
  OBVIOUS
<1>0. /\ Shape(q) /\ Shape(x) /\ proc'[p] = x /\ left'["rot"] = left["rot"]
      /\ copy \in [Shards -> Bodies \cup {Bad, None}] /\ ranking \in Rankings
  BY TurnProc DEF Types, Turn
<1> SUFFICES ASSUME x.op = "put" PROVE PutBacked(p, X)'
  BY <1>0 DEF PutBacked
<1>1. over[p] \subseteq over'[p] /\ x.pc \in {"legs", "handoff"} /\ Writes(x)
  <2>1. Writes(x) /\ x.pc \in {"legs", "handoff"}
    BY <1>0, ShapeKinds DEF Writes
  <2> QED BY <1>0, <2>1, CoveredStep
<1>2. \A s \in Shards \ X : copy[s] \in Bodies => copy'[s] \in Bodies
  <2>1. q.op # "delete"
    <3>1. Idle.op = "none"
      BY DEF Idle
    <3> QED BY <1>0, <1>1, <3>1, ShapeKinds DEF Acts, Reads, PutBegins, HandoffBegins, PutEnds, DeleteBegins, DeleteEnds, Checks,
              Drops, Sources, PutWrites, HandoffWrites, DeleteWrites, Copies
  <2> QED BY <2>1, BodiesLast
<1>3. Range(q.reps) \subseteq Shards /\ Range(x.reps) \subseteq Shards /\ q.good \in Nat /\ x.good \in Nat
  BY <1>0, RangeOfSeq DEF Shape, Call
<1> PICK B, C : B = Backing(q, X) /\ C = {s \in Behind(x) : s \in X \/ copy'[s] \in Bodies}
  OBVIOUS
<1>4. B \in SUBSET Shards /\ C \in SUBSET Shards /\ Cardinality(B) \in Nat /\ Cardinality(C) \in Nat
  <2>1. B \in SUBSET Shards /\ C \in SUBSET Shards
    BY <1>3 DEF Backing, Behind
  <2> QED BY <2>1, ShardsFinite
<1>5. ASSUME Cardinality(X) + left["rot"] < Need(x.reps), "delete" \notin over'[p] => Cardinality(C) >= x.good
      PROVE  PutBacked(p, X)'
  <2>1. Backing(proc[p], X)' = C
    BY <1>0 DEF Backing, Behind
  <2> QED BY <1>0, <1>5, <2>1 DEF PutBacked
<1>6. ASSUME B \subseteq C PROVE Cardinality(B) <= Cardinality(C)
  BY <1>4, <1>6, Counts
<1>7. CASE PutBegins(p, x)
  <2>1. Need(ranking) <= Need(x.reps) /\ ranking # << >> /\ Need(ranking) \in Nat /\ Need(x.reps) \in Nat
    BY <1>0, <1>7, NeedProperties, MirrorAssumption, RepsProperties DEF PutBegins
  <2>2. Cardinality(X) + left["rot"] < Need(ranking) /\ Cardinality(X) + left["rot"] \in Nat
    <3>1. left["rot"] \in Nat /\ Cardinality(X) \in Nat
      BY MirrorAssumption, ShardsFinite DEF Types
    <3> QED BY <1>0, <2>1, <3>1 DEF Damage
  <2>3. Cardinality(X) + left["rot"] < Need(x.reps)
    BY <2>1, <2>2
  <2>4. x.good = 0
    BY <1>7 DEF PutBegins
  <2> QED BY <1>4, <1>5, <2>3, <2>4
<1>8. CASE HandoffBegins(p, x)
  <2>1. q.op = "put" /\ q.pc = "legs" /\ q.legs = {} /\ x.reps = q.reps /\ x.good = q.good /\ x.pc = "handoff"
        /\ Range(x.todo) \cap Range(q.reps) = {} /\ copy' = copy
    BY <1>0, <1>8, ShapeKinds DEF HandoffBegins, Still
  <2>2. B \subseteq C
    BY <1>3, <2>1 DEF Backing, Behind
  <2>3. Cardinality(X) + left["rot"] < Need(q.reps) /\ ("delete" \notin over[p] => Cardinality(B) >= q.good)
    BY <2>1 DEF Damage, PutBacked
  <2> QED BY <1>1, <1>3, <1>4, <1>5, <1>6, <2>1, <2>2, <2>3
<1>9. ASSUME NEW s \in Shards, Stores(s, q.body), q.op = "put", s \notin Behind(q), Behind(q) \cup {s} \subseteq Behind(x),
             x.reps = q.reps, x.good = IF s \in down THEN q.good ELSE q.good + 1
      PROVE  PutBacked(p, X)'
  <2>1. Cardinality(X) + left["rot"] < Need(q.reps) /\ ("delete" \notin over[p] => Cardinality(B) >= q.good)
    BY <1>9 DEF Damage, PutBacked
  <2>2. B \subseteq C
    BY <1>2, <1>3, <1>4, <1>9 DEF Backing
  <2>3. ASSUME s \notin down PROVE s \notin B /\ s \in C
    <3>1. copy'[s] = q.body /\ q.body \in Bodies
      BY <1>0, <1>9, <2>3, ShapeKinds DEF Stores
    <3> QED BY <1>9, <3>1 DEF Backing
  <2>4. ASSUME Cardinality(B) >= q.good PROVE Cardinality(C) >= x.good
    <3>1. CASE s \in down
      BY <1>3, <1>4, <1>6, <1>9, <2>2, <2>4, <3>1
    <3>2. CASE s \notin down
      <4>1. Cardinality(C) >= q.good + 1
        BY <1>3, <1>4, <2>2, <2>3, <2>4, <3>2, OneMore
      <4> QED BY <1>9, <3>2, <4>1
    <3> QED BY <3>1, <3>2
  <2> QED BY <1>1, <1>5, <1>9, <2>1, <2>4
<1>10. ASSUME NEW s \in Shards, PutWrites(p, x, s) PROVE PutBacked(p, X)'
  <2>1. /\ q.pc = "legs" /\ s \in q.legs /\ Stores(s, q.body) /\ x.pc = "legs" /\ x.reps = q.reps /\ x.legs = q.legs \ {s}
        /\ x.good = IF s \in down THEN q.good ELSE q.good + 1
    BY <1>10 DEF PutWrites
  <2>2. q.op = "put" /\ q.legs \subseteq Range(q.reps)
    BY <1>0, <2>1, ShapeKinds DEF Shape
  <2>3. s \notin Behind(q) /\ Behind(q) \cup {s} \subseteq Behind(x)
    BY <2>1, <2>2 DEF Behind
  <2> QED BY <1>9, <2>1, <2>2, <2>3
<1>11. ASSUME NEW s \in Shards, HandoffWrites(p, x, s) PROVE PutBacked(p, X)'
  <2>1. /\ q.pc = "handoff" /\ s \in Range(q.todo) /\ Stores(s, q.body) /\ x.pc = "handoff" /\ x.reps = q.reps
        /\ Range(x.todo) = Range(q.todo) \ {s} /\ x.good = IF s \in down THEN q.good ELSE q.good + 1
    BY <1>11 DEF HandoffWrites
  <2>2. q.op = "put"
    BY <1>0, <2>1, ShapeKinds
  <2>3. s \notin Behind(q) /\ Behind(q) \cup {s} \subseteq Behind(x)
    BY <2>1 DEF Behind
  <2> QED BY <1>9, <2>1, <2>2, <2>3
<1> QED
  <2>1. Idle.op = "none" /\ "put" \notin Repairs \cup {"none", "delete"}
    BY DEF Idle, Repairs
  <2>2. PutBegins(p, x) \/ HandoffBegins(p, x) \/ \E s \in Shards : PutWrites(p, x, s) \/ HandoffWrites(p, x, s)
    BY <1>1, <2>1 DEF Acts, Reads, PutEnds, DeleteBegins, DeleteEnds, Checks, Drops, Sources, DeleteWrites, Copies
  <2> QED BY <1>7, <1>8, <1>10, <1>11, <2>2

\* What is acknowledged, and stays so.
LEMMA KeptAct ==
  ASSUME Types, Types', Covered, Observe, \A r \in Procs : proc[r].op = "delete" => ~ kept,
         NEW X \in SUBSET Shards, Damage(X), NEW p \in Procs, NEW x, Turn(p, x), Acts(p, x)
  PROVE  /\ \A r \in Procs : proc'[r].op = "delete" => ~ kept'
         /\ kept' => Cardinality(Holders(X)') > left["rot"]
<1> PICK q : q = proc[p]
  OBVIOUS
<1>0. /\ Shape(q) /\ Shape(x) /\ proc'[p] = x /\ (\A r \in Procs : r # p => proc'[r] = proc[r])
      /\ left["rot"] \in Nat /\ Cardinality(X) \in Nat
  BY TurnProc, MirrorAssumption, ShardsFinite DEF Types, Turn
<1>1. Holders(X) \in SUBSET Shards /\ Holders(X)' \in SUBSET Shards /\ Cardinality(Holders(X)) \in Nat /\ Cardinality(Holders(X)') \in Nat
  <2>1. Holders(X) \in SUBSET Shards /\ Holders(X)' \in SUBSET Shards
    BY DEF Holders
  <2> QED BY <2>1, ShardsFinite
<1>2. Idle.op = "none" /\ Idle.op # "delete"
  BY DEF Idle
<1>3. CASE kept' = kept /\ ~ DeleteBegins(p, x) /\ ~ PutEnds(p, x)
  <2>1. x.op = "delete" => q.op = "delete"
    <3>1. "delete" \notin Repairs \cup {"none", "put"} /\ "delete" \notin Lookups
      BY DEF Repairs, Lookups
    <3> QED BY <1>0, <1>2, <1>3, <3>1, ShapeKinds DEF Acts, Reads, PutBegins, HandoffBegins, DeleteEnds, Checks,
              Drops, Sources, PutWrites, HandoffWrites, DeleteWrites, Copies
  <2>2. \A r \in Procs : proc'[r].op = "delete" => ~ kept'
    BY <1>0, <1>3, <2>1
  <2>3. ASSUME kept' PROVE Cardinality(Holders(X)') > left["rot"]
    <3>1. q.op # "delete" /\ kept
      BY <1>3, <2>3
    <3>2. Holders(X) \subseteq Holders(X)'
      BY <3>1, BodiesLast DEF Holders
    <3>3. Cardinality(Holders(X)) <= Cardinality(Holders(X)')
      BY <1>1, <3>2, Counts
    <3>4. Cardinality(Holders(X)) > left["rot"]
      BY <3>1 DEF Damage
    <3> QED BY <1>0, <1>1, <3>3, <3>4
  <2> QED BY <2>2, <2>3
<1>4. CASE DeleteBegins(p, x)
  BY <1>4 DEF DeleteBegins
<1>5. CASE PutEnds(p, x)
  <2>0. x = Idle /\ q.op = "put" /\ copy' = copy /\ kept' = (kept \/ (Acked(q) /\ "delete" \notin over[p])) /\ Holders(X)' = Holders(X)
    BY <1>5 DEF PutEnds, Holders
  <2>1. CASE kept
    <3>1. \A r \in Procs : proc'[r].op # "delete"
      BY <1>0, <1>2, <2>0, <2>1
    <3>2. Cardinality(Holders(X)) > left["rot"]
      BY <2>1 DEF Damage
    <3> QED BY <2>0, <3>1, <3>2
  <2>2. CASE Acked(q) /\ "delete" \notin over[p]
    <3>1. \A r \in Procs : proc'[r].op # "delete"
      <4>1. Writes(q)
        BY <2>0 DEF Writes
      <4>2. \A r \in Procs : proc[r].op = "delete" => Writes(proc[r]) /\ Kind(proc[r]) = "delete"
        BY ShapeKinds DEF Types
      <4>3. \A r \in Procs : r # p => proc[r].op # "delete"
        BY <2>2, <4>1, <4>2 DEF Covered
      <4> QED BY <1>0, <1>2, <2>0, <4>3
    <3> PICK B : B = Backing(q, X)
      OBVIOUS
    <3>2. Range(q.reps) \subseteq Shards /\ q.good \in Nat /\ q.reps \in Seq(Shards)
      BY <1>0, RangeOfSeq DEF Shape, Call
    <3>3. B \in SUBSET Shards /\ B \subseteq X \cup Holders(X)
      BY <3>2 DEF Backing, Behind, Holders
    <3>4. Cardinality(B) >= q.good /\ Cardinality(X) + left["rot"] < Need(q.reps)
      BY <2>0, <2>2 DEF Damage, PutBacked
    <3>5. q.good >= Need(q.reps) /\ Need(q.reps) \in Nat
      BY <2>2, <3>2, NeedProperties DEF Acked, Need
    <3> PICK U \in SUBSET Shards : U = X \cup Holders(X)
      BY <1>1
    <3>6. Cardinality(U) \in Nat /\ Cardinality(U) <= Cardinality(X) + Cardinality(Holders(X))
      BY <1>1, Counts, ShardsFinite
    <3>7. Cardinality(B) \in Nat /\ Cardinality(B) <= Cardinality(U)
      BY <3>3, Counts
    <3>8. Cardinality(Holders(X)) > left["rot"]
      BY <1>0, <1>1, <3>2, <3>4, <3>5, <3>6, <3>7
    <3> QED BY <2>0, <3>1, <3>8
  <2>3. CASE ~ kept'
    BY <2>3
  <2> QED BY <2>0, <2>1, <2>2, <2>3
<1>6. kept' = kept \/ DeleteBegins(p, x) \/ PutEnds(p, x)
  BY DEF Acts, Reads, PutBegins, HandoffBegins, DeleteEnds, Checks, Drops, Sources, PutWrites, HandoffWrites, DeleteWrites,
         Copies, Still, Stores
<1> QED BY <1>3, <1>4, <1>5, <1>6

LEMMA KeptFaults ==
  ASSUME KeptInv, Types', Observe, (\E s \in Shards : Flip(s) \/ Rot(s)) \/ Move
  PROVE  KeptInv'
<1>0. /\ Types /\ proc' = proc /\ Covered' /\ (\A r \in Procs : proc[r].op = "delete" => ~ kept) /\ left["rot"] \in Nat
      /\ \A r \in Procs : Writes(proc[r]) => over[r] \subseteq over'[r]
  BY FaultTypes, CoveredStep, MirrorAssumption DEF KeptInv, Types
<1> PICK X \in SUBSET Shards : Damage(X)
  BY DEF KeptInv
<1>1. ASSUME copy' = copy, left'["rot"] = left["rot"], kept' = kept PROVE KeptInv'
  <2>1. ASSUME NEW r \in Procs PROVE PutBacked(r, X)'
    BY <1>0, <1>1, <2>1, OthersBacked DEF Damage
  <2>2. Holders(X)' = Holders(X)
    BY <1>1 DEF Holders
  <2>3. Damage(X)'
    BY <1>0, <1>1, <2>1, <2>2 DEF Damage
  <2> QED BY <1>0, <1>1, <2>3 DEF KeptInv
<1>2. ASSUME NEW s \in Shards, Flip(s) PROVE KeptInv'
  <2>1. left'["rot"] = left["rot"]
    BY <1>0, <1>2, UseKeeps, MirrorAssumption DEF Flip, Types
  <2> QED BY <1>1, <1>2, <2>1 DEF Flip, history
<1>3. ASSUME Move PROVE KeptInv'
  <2>1. left'["rot"] = left["rot"]
    BY <1>0, <1>3, UseKeeps, MirrorAssumption DEF Move, Types
  <2> QED BY <1>1, <1>3, <2>1 DEF Move
<1>4. ASSUME NEW s \in Shards, Rot(s) PROVE KeptInv'
  <2> PICK Y \in SUBSET Shards : Y = X \cup {s}
    OBVIOUS
  <2>0. copy[s] \in Bodies /\ copy' = [copy EXCEPT ![s] = Bad] /\ kept' = kept /\ Bad \notin Bodies
    BY <1>4, MirrorAssumption DEF Rot, history
  <2>1. left["rot"] > 0 /\ left'["rot"] = left["rot"] - 1
    BY <1>0, <1>4, MirrorAssumption DEF Rot, Use, Types
  <2>2. \A u \in Shards : copy'[u] = IF u = s THEN Bad ELSE copy[u]
    BY <1>0, <2>0 DEF Types
  <2>3. Cardinality(X) \in Nat /\ Cardinality(Y) \in Nat /\ Cardinality(Y) <= Cardinality(X) + 1
    <3>1. {s} \in SUBSET Shards /\ Cardinality({s}) = 1
      BY FS_Singleton
    <3> QED BY <3>1, Counts, ShardsFinite
  <2>4. \A n \in Nat : Cardinality(X) + left["rot"] < n => Cardinality(Y) + left'["rot"] < n
    BY <1>0, <2>1, <2>3
  <2>5. \A r \in Rankings : r # << >> => Cardinality(Y) + left'["rot"] < Need(r)
    <3>1. \A r \in Rankings : Need(r) \in Nat
      BY NeedProperties, MirrorAssumption
    <3> QED BY <2>4, <3>1 DEF Damage
  <2>6. ASSUME kept PROVE Cardinality(Holders(Y)') > left'["rot"]
    <3> PICK H \in SUBSET Shards : H = Holders(X)
      BY DEF Holders
    <3>1. Cardinality(H) \in Nat /\ Cardinality(H) > left["rot"]
      BY <2>6, ShardsFinite DEF Damage
    <3> PICK G \in SUBSET Shards : G = Holders(Y)'
      BY DEF Holders
    <3>2. G = H \ {s}
      BY <2>0, <2>2 DEF Holders
    <3>3. Cardinality(G) \in Nat /\ Cardinality(H) <= Cardinality(G) + 1
      <4>1. CASE s \in H
        BY <3>2, <4>1, Counts
      <4>2. CASE s \notin H
        <5>1. G = H
          BY <3>2, <4>2
        <5> QED BY <3>1, <5>1
      <4> QED BY <4>1, <4>2
    <3> QED BY <1>0, <2>1, <3>1, <3>3
  <2>7. ASSUME NEW p \in Procs PROVE PutBacked(p, Y)'
    <3> SUFFICES ASSUME proc[p].op = "put" PROVE PutBacked(p, Y)'
      BY <1>0 DEF PutBacked
    <3> PICK q : q = proc[p]
      OBVIOUS
    <3>0. q.good \in Nat /\ Behind(q) \subseteq Shards /\ q.reps \in Seq(Shards) /\ Writes(q)
      BY <1>0, RangeOfSeq DEF Types, Call, Behind, Writes
    <3>1. Cardinality(Y) + left'["rot"] < Need(q.reps)
      BY <2>4, <3>0, NeedProperties DEF Damage, PutBacked
    <3>2. ASSUME "delete" \notin over'[p] PROVE Cardinality(Backing(q, Y)') >= q.good
      <4> PICK B, C : B = Backing(q, X) /\ C = {u \in Behind(q) : u \in Y \/ copy'[u] \in Bodies}
        OBVIOUS
      <4>1. B \subseteq C /\ B \in SUBSET Shards /\ C \in SUBSET Shards
        BY <2>2, <3>0 DEF Backing
      <4>2. Cardinality(B) >= q.good
        BY <1>0, <3>0, <3>2 DEF Damage, PutBacked
      <4>3. Cardinality(B) \in Nat /\ Cardinality(C) \in Nat /\ Cardinality(B) <= Cardinality(C)
        BY <4>1, Counts
      <4>4. Backing(q, Y)' = C
        BY DEF Backing, Behind
      <4>5. Cardinality(C) >= q.good
        BY ONLY <3>0, <4>2, <4>3
      <4> QED BY ONLY <4>4, <4>5
    <3> QED BY <1>0, <3>1, <3>2 DEF PutBacked
  <2>8. Damage(Y)'
    <3>1. \A u \in Shards : copy'[u] = Bad => u \in Y
      BY <2>2 DEF Damage
    <3> QED BY <1>0, <2>0, <2>5, <2>6, <2>7, <3>1 DEF Damage
  <2> QED BY <1>0, <2>0, <2>8 DEF KeptInv
<1> QED BY <1>2, <1>3, <1>4

LEMMA KeptStep == ASSUME KeptInv, [Next]_vars PROVE KeptInv'
<1>0. Types /\ Types' /\ Covered
  BY TypesStep DEF KeptInv
<1>1. CASE UNCHANGED vars
  <2> PICK X \in SUBSET Shards : Damage(X)
    BY DEF KeptInv
  <2>1. Damage(X)'
    BY <1>1 DEF vars, Damage, PutBacked, Backing, Behind, Holders
  <2> QED BY <1>0, <1>1, <2>1 DEF vars, KeptInv, Covered
<1>2. CASE Next
  <2>1. Observe
    BY <1>0, <1>2, NextCases
  <2>2. ASSUME NEW p \in Procs, NEW x, Turn(p, x), Acts(p, x) PROVE KeptInv'
    <3> PICK X \in SUBSET Shards : Damage(X)
      BY DEF KeptInv
    <3>0. /\ Covered' /\ proc'[p] = x /\ (\A r \in Procs : r # p => proc'[r] = proc[r]) /\ left'["rot"] = left["rot"]
          /\ \A r \in Procs : proc[r].op = "delete" => ~ kept
      BY <1>0, <2>1, <2>2, CoveredStep, TurnProc DEF Turn, KeptInv
    <3>1. /\ \A r \in Procs : proc'[r].op = "delete" => ~ kept'
          /\ kept' => Cardinality(Holders(X)') > left["rot"]
      BY <1>0, <2>1, <2>2, <3>0, KeptAct
    <3>2. /\ \A s \in Shards : copy'[s] = Bad => s \in X
          /\ proc[p].op # "delete" => \A s \in Shards \ X : copy[s] \in Bodies => copy'[s] \in Bodies
          /\ x.pc = "drop" => Head(x.todo) \in X
      BY <1>0, <2>2, BodiesLast
    <3>3. ASSUME NEW r \in Procs PROVE PutBacked(r, X)'
      <4>1. CASE r = p
        BY <1>0, <2>1, <2>2, <4>1, OwnBacked
      <4>2. CASE r # p
        <5> SUFFICES ASSUME proc[r].op = "put" PROVE PutBacked(r, X)'
          BY <3>0, <4>2 DEF PutBacked
        <5>1. "delete" \in over'[r] \/ \A s \in Shards \ X : copy[s] \in Bodies => copy'[s] \in Bodies
          <6>1. CASE x.op = "delete"
            <7>1. Writes(x) /\ Kind(x) = "delete" /\ Writes(proc[r])
              BY <2>2, <6>1, ShapeKinds DEF Turn, Writes
            <7> QED BY <1>0, <2>1, <3>0, <4>2, <7>1, CoveredStep
          <6>2. CASE proc[p].op # "delete"
            BY <3>2, <6>2
          <6>3. CASE x.op # "delete" /\ proc[p].op = "delete"
            <7>1. copy' = copy
              <8>1. "delete" \notin Repairs \cup {"none", "put"} /\ "delete" \notin Lookups /\ Idle.op = "none"
                BY DEF Repairs, Lookups, Idle
              <8>2. Shape(proc[p]) /\ proc[p].pc = "del" /\ Writes(proc[p])
                BY <1>0, <6>3, ShapeKinds DEF Types
              <8> QED BY <2>2, <6>3, <8>1, <8>2 DEF Acts, Reads, PutBegins, HandoffBegins, PutEnds, DeleteBegins, DeleteEnds,
                        Checks, Drops, Sources, PutWrites, HandoffWrites, DeleteWrites, Copies, Still
            <7> QED BY <7>1
          <6> QED BY <6>1, <6>2, <6>3
        <5> QED BY <1>0, <2>1, <3>0, <4>2, <5>1, OthersBacked DEF Damage
      <4> QED BY <4>1, <4>2
    <3>4. Damage(X)'
      <4>1. \A r \in Procs : proc'[r].pc = "drop" => Head(proc'[r].todo) \in X
        BY <3>0, <3>2 DEF Damage
      <4> QED BY <3>0, <3>1, <3>2, <3>3, <4>1 DEF Damage
    <3> QED BY <1>0, <3>0, <3>1, <3>4 DEF KeptInv
  <2> QED BY <1>0, <1>2, <2>1, <2>2, NextCases, KeptFaults
<1> QED BY <1>1, <1>2

LEMMA TypesSuffice == ASSUME Types PROVE TypeOK
<1>1. ASSUME NEW p \in Procs
      PROVE  /\ proc[p].op \in {"none", "put", "delete"} \cup Lookups \cup Repairs
             /\ proc[p].body \in Bodies \cup {None} /\ proc[p].legs \subseteq Shards
             /\ proc[p].todo \in Seq(Shards) /\ proc[p].good \in 0 .. N /\ proc[p].bad \in 0 .. N
  <2> PICK q : q = proc[p]
    OBVIOUS
  <2>0. Shape(q) /\ q \in Call
    BY DEF Types
  <2>1. q.good \in Nat /\ q.bad \in Nat /\ Cardinality(q.legs) \in Nat /\ Len(q.todo) \in Nat /\ N \in Nat /\ N >= 1
    BY <2>0, ShardsFinite, LenProperties, MirrorAssumption DEF Call
  <2>2. q.good <= N /\ q.bad <= N
    <3>1. CASE q.pc = "legs"
      <4>1. q.good + q.bad + Cardinality(q.legs) <= N
        BY <2>0, <3>1 DEF Shape
      <4> QED BY <2>1, <4>1
    <3>2. CASE q.pc = "handoff"
      <4>1. q.good + q.bad <= N
        BY <2>0, <3>2 DEF Shape
      <4> QED BY <2>1, <4>1
    <3>3. CASE q.pc \in {"del", "copy"}
      <4>1. q.good + q.bad + Len(q.todo) <= N
        BY <2>0, <3>3 DEF Shape
      <4> QED BY <2>1, <4>1
    <3>4. CASE q.pc \in {"look", "answer", "drop", "has", "source", "end"}
      <4>1. q.good <= 1 /\ q.bad <= 1
        BY <2>0, <3>4 DEF Shape
      <4> QED BY <2>1, <4>1
    <3>5. CASE q.pc = "idle"
      <4>1. q.good = 0 /\ q.bad = 0
        BY <2>0, <3>5 DEF Shape, Idle
      <4> QED BY <2>1, <4>1
    <3> QED BY <2>0, <3>1, <3>2, <3>3, <3>4, <3>5 DEF Call
  <2> QED BY <2>0, <2>1, <2>2 DEF Call
<1> QED BY <1>1 DEF Types, TypeOK

\* As long as fewer copies rot than a put needs for its acknowledgement (the
\* quorum, or all the shards placement has), an acknowledged body survives
\* until a delete, for any number of concurrent puts, handoffs, repairs and
\* scrubs, and no call carries a body that failed its checksum (put_body counts
\* every good leg on a different shard; scrub_shard_step drops one copy only).
THEOREM AckedBodiesSurvive ==
  ASSUME \A b \in Budgets, r \in Rankings : r # << >> => b["rot"] < Min({Quorum, Len(r)})
  PROVE  Spec => []BodiesSound
<1>1. Init => KeptInv
  BY KeptInit
<1>2. KeptInv /\ [Next]_vars => KeptInv'
  BY KeptStep
<1>3. KeptInv => BodiesSound
  <2>1. ASSUME KeptInv PROVE TypeOK
    BY <2>1, TypesSuffice DEF KeptInv
  <2>2. ASSUME KeptInv, kept PROVE \E s \in Shards : copy[s] \in Bodies
    <3>1. PICK X \in SUBSET Shards : Damage(X)
      BY <2>2 DEF KeptInv
    <3>2. Cardinality(Holders(X)) > left["rot"] /\ left["rot"] \in Nat
      BY <2>2, <3>1, MirrorAssumption DEF Damage, KeptInv, Types
    <3>3. Holders(X) # {}
      <4>1. Cardinality({}) = 0
        BY FS_EmptySet
      <4>2. ~ (0 > left["rot"])
        BY <3>2
      <4> QED BY ONLY <3>2, <4>1, <4>2
    <3> QED BY <3>3 DEF Holders
  <2> QED BY <2>1, <2>2 DEF BodiesSound, AckedBodySurvives
<1> QED BY <1>1, <1>2, <1>3, PTL DEF Spec
=============================================================================
