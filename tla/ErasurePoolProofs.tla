-------------------------- MODULE ErasurePoolProofs --------------------------
(***************************************************************************)
(* Proofs about ErasurePool for any number of shards, clients, healers and *)
(* pieces and any rankings: a cell holds a whole body or a piece with its  *)
(* number, and no target holds the piece of another rank while placement   *)
(* stands still.                                                           *)
(***************************************************************************)
EXTENDS ErasurePool, TLAPS, SequenceTheorems, FiniteSetTheorems, WellFoundedInduction

-----------------------------------------------------------------------------
(* Numbers and finite sets: induction over a set a proof can instantiate,  *)
(* and extrema.                                                            *)

\* A non-empty set of natural numbers has a least element.
LEMMA NatLeast ==
  ASSUME NEW S \in SUBSET Nat, S # {}
  PROVE  \E x \in S : \A y \in S : x <= y
<1>1. PICK x \in S : \A y \in S : <<y, x>> \notin OpToRel(<, Nat)
  BY WFMin, NatLessThanWellFounded, Zenon
<1>2. \A y \in S : ~ (y < x)
  <2>1. x \in Nat /\ \A y \in S : y \in Nat
    OBVIOUS
  <2> QED BY <1>1, <2>1, Zenon DEF OpToRel
<1> QED BY <1>2

\* Induction over the natural numbers.
LEMMA NatInd ==
  ASSUME NEW S, 0 \in S, \A n \in Nat : n \in S => n + 1 \in S
  PROVE  \A n \in Nat : n \in S
<1> DEFINE T == Nat \ S
<1> SUFFICES ASSUME T # {} PROVE FALSE
  OBVIOUS
<1>1. PICK m \in T : \A y \in T : m <= y
  BY NatLeast
<1>2. m # 0 /\ m - 1 \in Nat
  BY <1>1
<1>3. m - 1 \in S
  BY <1>1, <1>2
<1> QED BY <1>1, <1>2, <1>3

\* f starts with e, and each value is what Step makes of the one before it.
StepsFrom(f, n, e, Step) == f[0] = e /\ \A i \in 1 .. n : f[i] = Step[i][f[i - 1]]

\* A function given by its value at 0 and by what each value makes of the one
\* before it exists.
LEMMA RecExists ==
  ASSUME NEW T, NEW n \in Nat, NEW e \in T, NEW Step \in [1 .. n -> [T -> T]]
  PROVE  \E f \in [0 .. n -> T] : StepsFrom(f, n, e, Step)
<1> DEFINE Upto(m) == \E f \in [0 .. m -> T] : f[0] = e /\ \A i \in 1 .. m : f[i] = Step[i][f[i - 1]]
           S == {m \in Nat : m <= n => Upto(m)}
<1>1. 0 \in S
  <2> DEFINE f == [i \in 0 .. 0 |-> e]
  <2>1. f \in [0 .. 0 -> T] /\ f[0] = e /\ \A i \in 1 .. 0 : f[i] = Step[i][f[i - 1]]
    OBVIOUS
  <2> QED BY <2>1
<1>2. ASSUME NEW m \in Nat, m \in S PROVE m + 1 \in S
  <2> SUFFICES ASSUME m + 1 <= n PROVE Upto(m + 1)
    OBVIOUS
  <2>1. PICK f \in [0 .. m -> T] : f[0] = e /\ \A i \in 1 .. m : f[i] = Step[i][f[i - 1]]
    BY <1>2
  <2> DEFINE g == [i \in 0 .. m + 1 |-> IF i = m + 1 THEN Step[m + 1][f[m]] ELSE f[i]]
  <2>2. Step[m + 1][f[m]] \in T
    OBVIOUS
  <2>3. g \in [0 .. m + 1 -> T] /\ g[0] = e
    BY <2>1, <2>2
  <2>4. ASSUME NEW i \in 1 .. m + 1 PROVE g[i] = Step[i][g[i - 1]]
    <3>1. CASE i = m + 1
      <4>1. g[i - 1] = f[m] /\ g[i] = Step[m + 1][f[m]]
        BY <3>1
      <4> QED BY <3>1, <4>1
    <3>2. CASE i # m + 1
      <4>1. i \in 1 .. m /\ g[i - 1] = f[i - 1] /\ g[i] = f[i]
        BY <3>2
      <4> QED BY <2>1, <4>1
    <3> QED BY <3>1, <3>2
  <2> HIDE DEF g
  <2> QED BY <2>3, <2>4
<1>3. n \in S
  <2> HIDE DEF S
  <2> QED BY <1>1, <1>2, NatInd
<1> QED BY <1>3 DEF StepsFrom

\* Min of a set of natural numbers.
LEMMA MinIsLeast ==
  ASSUME NEW S \in SUBSET Nat, S # {}
  PROVE  Min(S) \in S /\ \A y \in S : Min(S) <= y
BY NatLeast DEF Min

\* Max of a bounded set of natural numbers.
LEMMA MaxIsGreatest ==
  ASSUME NEW S \in SUBSET Nat, S # {}, NEW m \in Nat, \A x \in S : x <= m
  PROVE  Max(S) \in S /\ \A y \in S : Max(S) >= y
<1> DEFINE T == {n \in Nat : m - n \in S}
<1>0. \A x \in S : m - x \in T
  BY \A x \in S : m - (m - x) = x /\ m - x \in Nat
<1>1. T \in SUBSET Nat /\ T # {}
  BY <1>0
<1>2. PICK t \in T : \A y \in T : t <= y
  BY <1>1, NatLeast
<1>3. \A y \in S : m - t >= y
  <2> TAKE y \in S
  <2>1. t <= m - y
    BY <1>0, <1>2
  <2> QED BY <2>1
<1> QED BY <1>2, <1>3 DEF Max

-----------------------------------------------------------------------------
(* Orders of shards. *)

\* What Without leaves are elements outside of the set.
LEMMA WithoutType ==
  ASSUME NEW T, NEW q \in Seq(T), NEW S
  PROVE  Without(q, S) \in Seq(T \ S)
<1> DEFINE n == Len(q)
           Step == [i \in 1 .. n |-> [t \in Seq(T \ S) |-> IF q[i] \in S THEN t ELSE Append(t, q[i])]]
           Eq(g) == [i \in 0 .. n |-> IF i = 0 THEN << >> ELSE IF q[i] \in S THEN g[i - 1] ELSE Append(g[i - 1], q[i])]
<1>0. n \in Nat /\ \A i \in 1 .. n : q[i] \in T
  BY LenProperties, ElementOfSeq
<1>1. Step \in [1 .. n -> [Seq(T \ S) -> Seq(T \ S)]] /\ << >> \in Seq(T \ S)
  BY <1>0
<1>2. PICK f \in [0 .. n -> Seq(T \ S)] : f[0] = << >> /\ \A i \in 1 .. n : f[i] = Step[i][f[i - 1]]
  <2> HIDE DEF Step, n
  <2> PICK U, e : U = Seq(T \ S) /\ e = << >>
    OBVIOUS
  <2>1. e \in U /\ Step \in [1 .. n -> [U -> U]]
    BY <1>1
  <2>2. \E f \in [0 .. n -> U] : StepsFrom(f, n, e, Step)
    BY <1>0, <2>1, RecExists
  <2> QED BY <2>2 DEF StepsFrom
<1>3. \A i \in 1 .. n : f[i] = IF q[i] \in S THEN f[i - 1] ELSE Append(f[i - 1], q[i])
  <2> TAKE i \in 1 .. n
  <2>0. i - 1 \in 0 .. n
    BY <1>0
  <2>1. f[i - 1] \in Seq(T \ S)
    BY <2>0
  <2>2. f[i] = Step[i][f[i - 1]]
    <3> HIDE DEF Step, n
    <3> QED BY <1>2
  <2> PICK t \in Seq(T \ S) : t = f[i - 1]
    BY <2>1
  <2> QED BY <2>2
<1>4. f = Eq(f)
  <2>1. \A i \in 0 .. n : f[i] = Eq(f)[i]
    <3> TAKE i \in 0 .. n
    <3>1. CASE i = 0
      BY <1>2, <3>1
    <3>2. CASE i # 0
      <4>1. i \in 1 .. n
        BY <1>0, <3>2
      <4>2. f[i] = IF q[i] \in S THEN f[i - 1] ELSE Append(f[i - 1], q[i])
        BY <1>3, <4>1
      <4> QED BY <3>2, <4>2
    <3> QED BY <3>1, <3>2
  <2>2. DOMAIN Eq(f) = 0 .. n /\ Eq(f) = [i \in 0 .. n |-> Eq(f)[i]] /\ f = [i \in 0 .. n |-> f[i]]
    OBVIOUS
  <2> HIDE DEF Eq, n
  <2> QED BY <2>1, <2>2
<1> DEFINE rest == CHOOSE g : g = Eq(g)
<1>5. rest = Eq(rest)
  <2> HIDE DEF Eq
  <2> QED BY <1>4
<1>6. Without(q, S) = rest[n]
  BY DEF Without
<1> HIDE DEF rest
<1>7. rest[n] = f[n]
  <2> DEFINE Same == {i \in Nat : i <= n => rest[i] = f[i]}
  <2>1. 0 \in Same
    <3>1. rest[0] = << >>
      BY <1>0, <1>5
    <3> QED BY <1>2, <3>1
  <2>2. ASSUME NEW i \in Nat, i \in Same PROVE i + 1 \in Same
    <3> SUFFICES ASSUME i + 1 <= n PROVE rest[i + 1] = f[i + 1]
      OBVIOUS
    <3>1. rest[i] = f[i] /\ i + 1 \in 1 .. n /\ (i + 1) - 1 = i
      BY <1>0, <2>2
    <3>2. rest[i + 1] = IF q[i + 1] \in S THEN rest[i] ELSE Append(rest[i], q[i + 1])
      <4>1. i + 1 \in 0 .. n /\ i + 1 # 0
        BY <1>0, <3>1
      <4>2. rest[i + 1] = Eq(rest)[i + 1]
        BY <1>5
      <4>3. Eq(rest)[i + 1] = IF q[i + 1] \in S THEN rest[(i + 1) - 1] ELSE Append(rest[(i + 1) - 1], q[i + 1])
        BY <4>1
      <4> QED BY <3>1, <4>2, <4>3
    <3>3. f[i + 1] = IF q[i + 1] \in S THEN f[i] ELSE Append(f[i], q[i + 1])
      BY <1>3, <3>1
    <3> QED BY <3>1, <3>2, <3>3
  <2>3. n \in Same
    <3> HIDE DEF Same
    <3> QED BY <1>0, <2>1, <2>2, NatInd
  <2> QED BY <1>0, <2>3
<1> QED BY <1>0, <1>6, <1>7

\* The first n shards of an order.
LEMMA FirstType ==
  ASSUME NEW T, NEW q \in Seq(T), NEW n \in Nat
  PROVE  /\ First(q, n) \in Seq(T) /\ Len(First(q, n)) <= n /\ Len(First(q, n)) <= Len(q)
         /\ Len(First(q, n)) = n \/ Len(First(q, n)) = Len(q)
         /\ \A i \in 1 .. Len(First(q, n)) : First(q, n)[i] = q[i]
<1>0. Len(q) \in Nat
  BY LenProperties
<1> PICK m : m = Min({n, Len(q)})
  OBVIOUS
<1>1. m \in Nat /\ m <= n /\ m <= Len(q) /\ (m = n \/ m = Len(q))
  <2>1. {n, Len(q)} \in SUBSET Nat /\ {n, Len(q)} # {}
    BY <1>0
  <2> QED BY <1>0, <2>1, MinIsLeast
<1> PICK s : s = SubSeq(q, 1, m)
  OBVIOUS
<1>2. s \in Seq(T) /\ Len(s) = m /\ \A i \in 1 .. m : s[i] = q[i]
  <2>1. \A i \in 1 .. m : q[i] \in T
    BY <1>0, <1>1, ElementOfSeq
  <2>2. s = [i \in 1 .. m |-> q[i]]
    BY <1>0, <1>1
  <2>3. s \in [1 .. m -> T]
    BY <2>1, <2>2
  <2>4. s \in Seq(T) /\ Len(s) = m
    BY ONLY <1>1, <2>3
  <2>5. \A i \in 1 .. m : s[i] = q[i]
    BY <2>2
  <2> QED BY <2>4, <2>5
<1>3. First(q, n) = s
  BY DEF First
<1> QED BY <1>1, <1>2, <1>3

\* Taking the head off an order.
LEMMA TailType ==
  ASSUME NEW T, NEW q \in Seq(T), q # << >>
  PROVE  /\ Head(q) \in T /\ Tail(q) \in Seq(T) /\ Len(Tail(q)) = Len(q) - 1 /\ Len(q) \in Nat \ {0}
         /\ Head(q) \in Range(q) /\ Range(Tail(q)) \subseteq Range(q)
<1>1. Head(q) \in T /\ Tail(q) \in Seq(T) /\ Len(Tail(q)) = Len(q) - 1 /\ Len(q) \in Nat \ {0}
  OBVIOUS
<1>2. DOMAIN q = 1 .. Len(q) /\ DOMAIN Tail(q) = 1 .. Len(q) - 1 /\ Head(q) = q[1]
      /\ \A i \in 1 .. Len(q) - 1 : Tail(q)[i] = q[i + 1] /\ i + 1 \in 1 .. Len(q)
  BY <1>1
<1>3. 1 \in 1 .. Len(q)
  BY <1>1
<1> QED BY <1>1, <1>2, <1>3 DEF Range

\* Numbers of the assumption.
LEMMA Sizes ==
  /\ N \in Nat \ {0} /\ R \in Nat \ {0} /\ R <= N /\ K \in Nat \ {0} /\ M \in Nat \ {0}
  /\ Total \in Nat /\ Total >= 2 /\ Total <= N
  /\ Legs \in Nat /\ Legs >= 1 /\ Legs <= Total /\ Legs <= R
  /\ Max({Total, R}) \in Nat /\ Max({Total, R}) <= N /\ Max({Total, R}) >= Total
<1>1. /\ N \in Nat \ {0} /\ R \in Nat \ {0} /\ R <= N /\ K \in Nat \ {0} /\ M \in Nat \ {0}
      /\ Total \in Nat /\ Total >= 2 /\ Total <= N
  BY ErasureAssumption DEF Total
<1>2. Legs \in {R, Total} /\ Legs <= R /\ Legs <= Total
  BY <1>1, MinIsLeast DEF Legs
<1>3. {Total, R} \in SUBSET Nat /\ {Total, R} # {} /\ \A x \in {Total, R} : x <= N
  BY <1>1
<1>4. Max({Total, R}) \in {Total, R} /\ \A y \in {Total, R} : Max({Total, R}) >= y
  BY ONLY <1>1, <1>3, MaxIsGreatest
<1> QED BY <1>1, <1>2, <1>4

\* The targets of the pieces are the first of the probed shards.
LEMMA TargetsType ==
  ASSUME ranking \in Rankings
  PROVE  /\ Targets(ranking) \in Seq(Shards) /\ Len(Targets(ranking)) <= Total /\ Len(Targets(ranking)) \in Nat
         /\ Probed(ranking) \in Seq(Shards) /\ Len(Probed(ranking)) <= N /\ Len(Probed(ranking)) \in Nat
         /\ Len(Targets(ranking)) <= Len(Probed(ranking))
         /\ \A i \in 1 .. Len(Probed(ranking)) :
              i <= Total => i \in 1 .. Len(Targets(ranking)) /\ Probed(ranking)[i] = Targets(ranking)[i]
         /\ \A i, j \in 1 .. Len(Targets(ranking)) : Targets(ranking)[i] = Targets(ranking)[j] => i = j
<1>1. ranking \in Seq(Shards) /\ IsInjective(ranking)
  BY ErasureAssumption
<1> PICK k : k = ranking
  OBVIOUS
<1> PICK t, u : t = Targets(k) /\ u = Probed(k)
  OBVIOUS
<1>0. k \in Seq(Shards) /\ Len(k) \in Nat /\ DOMAIN k = 1 .. Len(k)
  BY <1>1
<1>2. /\ t \in Seq(Shards) /\ Len(t) <= Total /\ Len(t) <= Len(k)
      /\ Len(t) = Total \/ Len(t) = Len(k)
      /\ \A i \in 1 .. Len(t) : t[i] = k[i]
  BY <1>0, Sizes, FirstType DEF Targets
<1>3. /\ u \in Seq(Shards) /\ Len(u) <= Max({Total, R}) /\ Len(u) <= Len(k)
      /\ Len(u) = Max({Total, R}) \/ Len(u) = Len(k)
      /\ \A i \in 1 .. Len(u) : u[i] = k[i]
  BY <1>0, Sizes, FirstType DEF Probed
<1>4. Len(t) \in Nat /\ Len(u) \in Nat
  BY <1>2, <1>3
<1>5. Len(u) <= N /\ Len(t) <= Len(u)
  BY <1>0, <1>2, <1>3, <1>4, Sizes
<1>6. ASSUME NEW i \in 1 .. Len(u), i <= Total PROVE i \in 1 .. Len(t) /\ u[i] = t[i]
  <2>1. i \in 1 .. Len(t)
    BY <1>0, <1>2, <1>3, <1>4, <1>6, Sizes
  <2> QED BY <1>2, <1>3, <2>1
<1>7. ASSUME NEW i \in 1 .. Len(t), NEW j \in 1 .. Len(t), t[i] = t[j] PROVE i = j
  <2>1. i \in 1 .. Len(k) /\ j \in 1 .. Len(k)
    BY <1>0, <1>2, <1>4
  <2> QED BY <1>0, <1>1, <1>2, <1>7, <2>1 DEF IsInjective
<1> QED BY <1>2, <1>3, <1>4, <1>5, <1>6, <1>7

\* The shards in order are all of them, and an order of shards is one of numbers.
LEMMA InOrderType ==
  /\ InOrder \in Seq(Shards) /\ Len(InOrder) = N
  /\ \A q : q \in Seq(Shards) => q \in Seq(0 .. N)
<1>1. N \in Nat /\ InOrder = [s \in 1 .. N |-> s] /\ Shards = 1 .. N
  BY Sizes DEF InOrder, Shards
<1>2. InOrder \in Seq(1 .. N) /\ Len(InOrder) = N
  BY <1>1
<1>3. ASSUME NEW q \in Seq(1 .. N) PROVE q \in Seq(0 .. N)
  <2> PICK m : m = Len(q)
    OBVIOUS
  <2>1. m \in Nat /\ q \in [1 .. m -> 1 .. N]
    BY <1>3, LenProperties
  <2> PICK T : T = 0 .. N
    OBVIOUS
  <2>2. q \in [1 .. m -> T]
    BY ONLY <2>1, <1>1, T = 0 .. N
  <2>3. q \in Seq(T)
    BY ONLY <2>1, <2>2
  <2> QED BY <2>3
<1> QED BY <1>1, <1>2, <1>3

-----------------------------------------------------------------------------
(* The shape of a call. *)

Stored == Bodies \cup {Mixture}
CellSet == [b : Stored, i : 0 .. Total] \cup {Empty, Rotten}

Call ==
  [op : {"none", "put", "get", "delete", "drain", "resilver", "scrub", "migrate"},
   pc : {"idle", "legs", "handoff", "probe", "data", "parity", "stray", "answer", "del", "drop", "has", "era", "mirror", "copy", "collect",
         "strays", "rebuild", "end", "tail", "body", "phase1", "canary", "rollback", "phase2", "headcanary", "phase3"},
   body : Stored \cup {"none"}, targets : Seq(Shards), legs : SUBSET Pieces, todo : Seq(0 .. N),
   slots : [Pieces -> CellSet], good : 0 .. N, bad : 0 .. N]

\* The legs that stand for a rank of a target, and the bodies that are known.
Ranked == {"legs", "data", "parity", "has", "era", "collect", "strays", "rebuild"}
Known == {"legs", "handoff", "mirror", "copy", "rebuild", "phase1", "canary", "phase2", "headcanary"}
Migrating == {"tail", "body", "phase1", "canary", "rollback", "phase2", "headcanary", "phase3"}
Checking == {"has", "era", "collect", "strays", "rebuild"}

\* What is still to come fits with what has been counted.
Counts(q) ==
  /\ q.pc = "legs" => /\ q.todo \in Seq(Pieces) /\ q.legs \cap Range(q.todo) = {}
                      /\ q.good + Cardinality(q.legs \cup Range(q.todo)) <= Total
                      /\ q.bad + Cardinality(q.legs) <= Total
  /\ q.pc = "handoff" => q.good + Cardinality(q.legs) <= Total
  /\ q.pc \in {"probe", "has", "collect"} => Len(q.todo) <= Len(q.targets)
  /\ q.pc \in {"has", "collect"} => Len(q.todo) <= Total
  /\ q.pc \in {"has", "era", "collect", "strays"} => q.good = 0 /\ q.bad = 0
  /\ q.pc \in {"del", "copy"} => q.good + q.bad + Len(q.todo) <= N
  /\ q.pc = "drop" => q.todo # << >>
  /\ q.pc = "mirror" => q.good = 0 /\ q.bad = 0 /\ Len(q.targets) + Len(q.todo) <= N
  /\ q.pc = "rebuild" => q.good + q.bad + Cardinality(q.legs) <= Total

Shape(q) ==
  /\ q \in Call /\ (q.op = "delete" <=> q.pc = "del")
  /\ q.pc # "legs" => q.todo \in Seq(Shards)
  /\ q.pc \in Ranked => q.legs \subseteq 1 .. Len(q.targets)
  /\ q.pc \in Known => q.body \in Stored
  /\ q.pc \in Migrating => Len(q.targets) = Total
  /\ Len(q.targets) <= N
  /\ Counts(q)

\* The call was planned with the order rk.
Plan(q, rk) ==
  /\ q.pc \in {"legs"} \cup Migrating => q.targets = Targets(rk)
  /\ q.pc = "handoff" => Range(q.todo) \cap Range(Targets(rk)) = {}
  /\ q.pc \in Checking => q.targets = Probed(rk)

\* A piece written to shard s is the piece of its rank.
AtHome(s, c) == IsPiece(c) => \A r \in DOMAIN Targets(ranking) : Targets(ranking)[r] = s => c.i = r

PoolInv ==
  /\ cell \in [Shards -> CellSet] /\ down \subseteq Shards /\ ranking \in Rankings /\ mrf \in BOOLEAN
  /\ \A p \in Procs : Shape(proc[p]) /\ (~ moved => Plan(proc[p], ranking))
  /\ DOMAIN proc = Procs
  /\ ~ moved => \A s \in Shards : AtHome(s, cell[s])

\* The numbers of the pieces can be counted.
LEMMA PiecesFinite ==
  /\ IsFiniteSet(Pieces) /\ Cardinality(Pieces) = Total
  /\ \A S \in SUBSET Pieces : IsFiniteSet(S) /\ Cardinality(S) \in Nat /\ Cardinality(S) <= Total
<1>1. Total \in Nat
  BY Sizes
<1>2. IsFiniteSet(Pieces) /\ Cardinality(Pieces) = Total
  BY <1>1, FS_Interval DEF Pieces
<1>3. ASSUME NEW S \in SUBSET Pieces
      PROVE  IsFiniteSet(S) /\ Cardinality(S) \in Nat /\ Cardinality(S) <= Total
  BY <1>2, FS_Subset, FS_CardinalityType
<1> QED BY <1>2, <1>3

\* The next number of a set of pieces.
LEMMA MinPiece ==
  ASSUME NEW S \in SUBSET Pieces, S # {}
  PROVE  Min(S) \in S
<1>1. S \in SUBSET Nat
  BY Sizes DEF Pieces
<1> QED BY <1>1, MinIsLeast

\* What a shard answers is a cell.
LEMMA GetType ==
  ASSUME cell \in [Shards -> CellSet], NEW s \in Shards
  PROVE  Get(s) \in CellSet
BY DEF Get, CellSet

\* A piece in hand is a cell in its slot.
LEMMA FillType ==
  ASSUME NEW w \in [Pieces -> CellSet], NEW c \in CellSet
  PROVE  Fill(w, c) \in [Pieces -> CellSet]
<1>1. IsPiece(c) => c.i \in Pieces
  BY Sizes DEF IsPiece, CellSet, Pieces, Empty, Rotten
<1> QED BY <1>1 DEF Fill

\* A record that is a whole body names one.
LEMMA WholeType ==
  ASSUME NEW c \in CellSet, c.i = 0
  PROVE  c.b \in Stored
BY DEF CellSet, Empty, Rotten

LEMMA PieceType ==
  ASSUME NEW b \in Stored, NEW i \in Pieces
  PROVE  Piece(b, i) \in CellSet /\ Piece(b, i).i = i /\ Whole(b) \in CellSet /\ Whole(b).i = 0 /\ Empty \in CellSet /\ Empty.i = -1
BY Sizes DEF Piece, Whole, Empty, CellSet, Pieces

\* What decoding yields: nothing, with too few pieces, or a body.
LEMMA DecodeType ==
  ASSUME NEW w \in [Pieces -> CellSet]
  PROVE  /\ ec_decode(w) \in Stored \cup {"none"}
         /\ Cardinality(Present(w)) >= K => ec_decode(w) \in Stored
<1> DEFINE from == {w[i].b : i \in Used(w)}
<1>1. Cardinality(Present(w)) \in Nat /\ K \in Nat
  <2>1. Present(w) \in SUBSET Pieces
    BY DEF Present
  <2> QED BY <2>1, PiecesFinite, Sizes
<1>2. Used(w) \subseteq Present(w)
  BY DEF Used
<1>3. from \subseteq Stored
  <2> SUFFICES ASSUME NEW i \in Used(w) PROVE w[i].b \in Stored
    OBVIOUS
  <2>1. w[i] \in CellSet /\ w[i].i > 0
    BY <1>2 DEF Present, IsPiece
  <2> QED BY <2>1 DEF CellSet, Empty, Rotten
<1>4. ASSUME Cardinality(from) = 1 PROVE (CHOOSE b \in from : TRUE) \in from
  <2>1. from # {}
    BY <1>4, FS_EmptySet
  <2> QED BY <2>1
<1>5. ec_decode(w) = IF Cardinality(Present(w)) < K THEN "none"
                     ELSE IF Cardinality(from) = 1 THEN CHOOSE b \in from : TRUE ELSE Mixture
  BY DEF ec_decode
<1> HIDE DEF from
<1> QED BY <1>1, <1>3, <1>4, <1>5 DEF Stored

\* One more is counted and one less is to come.
LEMMA Shift ==
  ASSUME NEW g \in Nat, NEW a \in Nat, g + a <= Total, a >= 1
  PROVE  (g + 1) + (a - 1) <= Total /\ g + (a - 1) <= Total /\ g + 1 \in 0 .. N /\ g \in 0 .. N
BY Sizes

\* What is in an order that grows by one element.
LEMMA AppendRange ==
  ASSUME NEW T, NEW q \in Seq(T), NEW e \in T
  PROVE  Append(q, e) \in Seq(T) /\ Range(Append(q, e)) = Range(q) \cup {e}
<1>1. /\ Append(q, e) \in Seq(T) /\ Len(q) \in Nat /\ DOMAIN q = 1 .. Len(q)
      /\ DOMAIN Append(q, e) = 1 .. Len(q) + 1
      /\ \A i \in 1 .. Len(q) + 1 : Append(q, e)[i] = IF i = Len(q) + 1 THEN e ELSE q[i]
  OBVIOUS
<1>2. Len(q) + 1 \in 1 .. Len(q) + 1 /\ 1 .. Len(q) + 1 = 1 .. Len(q) \cup {Len(q) + 1}
      /\ \A i \in 1 .. Len(q) : i # Len(q) + 1
  BY <1>1
<1>3. ASSUME NEW y \in Range(Append(q, e)) PROVE y \in Range(q) \cup {e}
  BY <1>1, <1>2 DEF Range
<1>4. ASSUME NEW y \in Range(q) \cup {e} PROVE y \in Range(Append(q, e))
  BY <1>1, <1>2 DEF Range
<1> QED BY <1>1, <1>3, <1>4

\* What an order of elements of T holds is in T.
LEMMA RangeType ==
  ASSUME NEW T, NEW q \in Seq(T)
  PROVE  Range(q) \subseteq T /\ << >> \in Seq(T) /\ Range(<< >>) = {} /\ Len(<< >>) = 0
BY DEF Range

LEMMA IdleShape ==
  Shape(Idle) /\ NoSlots \in [Pieces -> CellSet] /\ Idle \in Call
<1>1. NoSlots \in [Pieces -> CellSet]
  BY DEF NoSlots, CellSet
<1>2. << >> \in Seq(Shards) /\ << >> \in Seq(0 .. N) /\ Len(<< >>) = 0 /\ 0 \in 0 .. N /\ N \in Nat
  BY Sizes
<1>3. Idle \in Call
  BY <1>1, <1>2 DEF Idle, Call, Stored
<1> QED BY <1>1, <1>2, <1>3 DEF Shape, Counts, Idle, Ranked, Known, Migrating

-----------------------------------------------------------------------------
(* The turn of a call: what it leaves behind. *)

CellStep ==
  \/ cell' = cell
  \/ \E s \in Shards, c \in CellSet : cell' = [cell EXCEPT ![s] = c] /\ (~ moved => AtHome(s, c))

Turn(p, x) ==
  /\ proc' = [proc EXCEPT ![p] = x] /\ Shape(x) /\ (~ moved => Plan(x, ranking))
  /\ UNCHANGED <<down, ranking, moved>> /\ mrf' \in BOOLEAN
  /\ CellStep

LEMMA StoreStep ==
  ASSUME NEW s \in Shards, NEW c \in CellSet, Store(s, c), ~ moved => AtHome(s, c)
  PROVE  CellStep
BY DEF Store, CellStep

\* The orders that placement may return, as long as it returned them.
LEMMA Planned ==
  ASSUME PoolInv, NEW p \in Procs
  PROVE  /\ Shape(proc[p]) /\ proc[p] \in Call /\ (~ moved => Plan(proc[p], ranking)) /\ ranking \in Rankings
         /\ ranking \in Seq(Shards) /\ mrf \in BOOLEAN
BY ErasureAssumption DEF PoolInv, Shape

LEMMA TurnKeeps ==
  ASSUME PoolInv, NEW p \in Procs, NEW x, Turn(p, x)
  PROVE  PoolInv'
<1>1. cell' \in [Shards -> CellSet] /\ (~ moved => \A s \in Shards : AtHome(s, cell'[s]))
  <2>1. CASE cell' = cell
    BY <2>1 DEF PoolInv
  <2>2. ASSUME NEW s \in Shards, NEW c \in CellSet, cell' = [cell EXCEPT ![s] = c], ~ moved => AtHome(s, c)
        PROVE  cell' \in [Shards -> CellSet] /\ (~ moved => \A r \in Shards : AtHome(r, cell'[r]))
    BY <2>2 DEF PoolInv
  <2> QED BY <2>1, <2>2 DEF Turn, CellStep
<1>2. (~ moved => \A s \in Shards : AtHome(s, cell[s]))'
  BY <1>1 DEF Turn, AtHome
<1>3. \A r \in Procs : Shape(proc'[r]) /\ (~ moved => Plan(proc'[r], ranking))
  BY DEF PoolInv, Turn
<1> QED BY <1>1, <1>2, <1>3 DEF PoolInv, Turn

-----------------------------------------------------------------------------
(* put_ec. *)

LEMMA PutShape ==
  ASSUME NEW b \in Bodies, NEW t \in Seq(Shards), Len(t) <= Total
  PROVE  Shape([Idle EXCEPT !.op = "put", !.pc = "legs", !.body = b, !.targets = t, !.legs = 1 .. Len(t)])
<1> PICK x : x = [Idle EXCEPT !.op = "put", !.pc = "legs", !.body = b, !.targets = t, !.legs = 1 .. Len(t)]
  OBVIOUS
<1>0. /\ x.op = "put" /\ x.pc = "legs" /\ x.body = b /\ x.targets = t /\ x.legs = 1 .. Len(t) /\ x.todo = << >>
      /\ x.good = 0 /\ x.bad = 0
  BY DEF Idle
<1>1. 1 .. Len(t) \in SUBSET Pieces /\ Len(t) \in Nat /\ Len(t) <= N
  BY Sizes DEF Pieces
<1>2. x \in Call
  BY <1>1, IdleShape DEF Call, Idle, Stored
<1>3. Cardinality(1 .. Len(t)) \in Nat /\ Cardinality(1 .. Len(t)) <= Total
  BY <1>1, PiecesFinite
<1>4. << >> \in Seq(Pieces) /\ Range(<< >>) = {}
  BY RangeType
<1>5. Counts(x)
  <2>1. x.legs \cup Range(x.todo) = 1 .. Len(t) /\ x.legs \cap Range(x.todo) = {}
    BY <1>0, <1>4
  <2> PICK c \in Nat : c = Cardinality(1 .. Len(t))
    BY <1>3
  <2>2. x.good + Cardinality(x.legs \cup Range(x.todo)) <= Total
    <3>1. Cardinality(x.legs \cup Range(x.todo)) = c
      BY <2>1
    <3> QED BY ONLY <1>0, <1>3, <3>1, Sizes, c = Cardinality(1 .. Len(t)), c \in Nat
  <2>3. x.bad + Cardinality(x.legs) <= Total
    BY <1>0, <1>3, Sizes
  <2> QED BY <1>0, <1>4, <2>1, <2>2, <2>3 DEF Counts
<1>6. b \in Stored
  BY DEF Stored
<1> HIDE DEF Counts
<1>7. Shape(x)
  BY <1>0, <1>1, <1>2, <1>5, <1>6 DEF Shape, Ranked, Known, Migrating
<1> QED BY <1>7

\* The call once the piece of rank i came back.
LegBack(q, i, s) ==
  Counted([q EXCEPT !.legs = @ \ {i}, !.todo = IF s \in down THEN Append(@, i) ELSE @], s)

LEMMA LegShape ==
  ASSUME NEW q, Shape(q), q.pc = "legs", NEW i \in q.legs, NEW s,
         NEW x, x = LegBack(q, i, s)
  PROVE  Shape(x) /\ x.pc = "legs" /\ x.targets = q.targets
<1>0. /\ q \in Call /\ q.legs \in SUBSET Pieces /\ i \in Pieces /\ q.todo \in Seq(Pieces) /\ q.todo \in Seq(0 .. N)
      /\ q.legs \cap Range(q.todo) = {} /\ q.good \in Nat /\ q.bad \in Nat
      /\ q.good + Cardinality(q.legs \cup Range(q.todo)) <= Total /\ q.bad + Cardinality(q.legs) <= Total
      /\ q.legs \subseteq 1 .. Len(q.targets) /\ q.body \in Stored /\ q.op # "delete"
  BY Sizes DEF Shape, Call, Counts, Ranked, Known
<1>1. i \in 0 .. N
  BY <1>0, Sizes DEF Pieces
<1> PICK S : S = q.legs \cup Range(q.todo)
  OBVIOUS
<1>2. S \in SUBSET Pieces
  BY <1>0, RangeType
<1>3. /\ IsFiniteSet(S) /\ IsFiniteSet(q.legs) /\ Cardinality(S) \in Nat /\ Cardinality(q.legs) \in Nat
      /\ Cardinality(q.legs \ {i}) = Cardinality(q.legs) - 1 /\ Cardinality(S \ {i}) = Cardinality(S) - 1
  <2>1. IsFiniteSet(S) /\ IsFiniteSet(q.legs) /\ Cardinality(S) \in Nat /\ Cardinality(q.legs) \in Nat
    BY <1>0, <1>2, PiecesFinite
  <2>2. i \in S
    OBVIOUS
  <2> QED BY <2>1, <2>2, FS_RemoveElement
<1> PICK a \in Nat, c \in Nat : a = Cardinality(q.legs) /\ c = Cardinality(S)
  BY <1>3
<1>a. q.good + c <= Total /\ q.bad + a <= Total /\ Cardinality(q.legs \ {i}) = a - 1 /\ Cardinality(S \ {i}) = c - 1
  BY <1>0, <1>3
<1>4. CASE s \in down
  <2> PICK t : t = Append(q.todo, i)
    OBVIOUS
  <2>1. t \in Seq(Pieces) /\ Range(t) = Range(q.todo) \cup {i} /\ t \in Seq(0 .. N)
    BY <1>0, <1>1, AppendRange
  <2>2. x = [q EXCEPT !.legs = @ \ {i}, !.todo = t, !.bad = @ + 1]
    BY <1>4 DEF LegBack, Counted, Call
  <2>3. /\ x.op = q.op /\ x.pc = "legs" /\ x.body = q.body /\ x.targets = q.targets /\ x.legs = q.legs \ {i}
        /\ x.todo = t /\ x.good = q.good /\ x.bad = q.bad + 1
    BY <1>0, <2>2 DEF Call
  <2>4. x.legs \cup Range(x.todo) = S /\ x.legs \cap Range(x.todo) = {}
    BY <1>0, <2>1, <2>3
  <2>5. x.bad + Cardinality(x.legs) <= Total /\ x.bad \in 0 .. N
    <3>1. x.bad + Cardinality(x.legs) = (q.bad + 1) + (a - 1)
      BY <1>a, <2>3
    <3>2. a >= 1
      <4>1. q.legs \ {i} \in SUBSET Pieces
        BY <1>0
      <4> QED BY <1>a, <4>1, PiecesFinite
    <3>3. (q.bad + 1) + (a - 1) <= Total /\ q.bad + 1 \in 0 .. N
      BY ONLY <1>0, <1>a, <3>2, a \in Nat, Shift
    <3> QED BY ONLY <2>3, <3>1, <3>3
  <2>6. x \in Call
    BY <1>0, <2>1, <2>2, <2>3, <2>5 DEF Call
  <2>7. Counts(x)
    BY <1>0, <2>1, <2>3, <2>4, <2>5 DEF Counts
  <2> QED BY <1>0, <2>3, <2>6, <2>7 DEF Shape, Ranked, Known, Migrating
<1>5. CASE s \notin down
  <2>2. x = [q EXCEPT !.legs = @ \ {i}, !.good = @ + 1]
    BY <1>0, <1>5 DEF LegBack, Counted, Call
  <2>3. /\ x.op = q.op /\ x.pc = "legs" /\ x.body = q.body /\ x.targets = q.targets /\ x.legs = q.legs \ {i}
        /\ x.todo = q.todo /\ x.good = q.good + 1 /\ x.bad = q.bad
    BY <1>0, <2>2 DEF Call
  <2>4. x.legs \cup Range(x.todo) = S \ {i} /\ x.legs \cap Range(x.todo) = {}
    BY <1>0, <2>3
  <2>5. x.bad + Cardinality(x.legs) <= Total /\ x.good + Cardinality(S \ {i}) <= Total /\ x.good \in 0 .. N
    <3>1. x.bad + Cardinality(x.legs) = q.bad + (a - 1) /\ x.good + Cardinality(S \ {i}) = (q.good + 1) + (c - 1)
      BY <1>a, <2>3
    <3>2. c >= 1
      <4>1. S \ {i} \in SUBSET Pieces
        BY <1>2
      <4> QED BY <1>a, <4>1, PiecesFinite
    <3>3. (q.good + 1) + (c - 1) <= Total /\ q.good + 1 \in 0 .. N
      BY ONLY <1>0, <1>a, <3>2, c \in Nat, Shift
    <3>4. q.bad + (a - 1) <= Total
      <4>1. a >= 1
        <5>1. q.legs \ {i} \in SUBSET Pieces
          BY <1>0
        <5> QED BY <1>a, <5>1, PiecesFinite
      <4> QED BY ONLY <1>0, <1>a, <4>1, a \in Nat, Shift
    <3> QED BY ONLY <2>3, <3>1, <3>3, <3>4
  <2>6. x \in Call
    BY <1>0, <2>2, <2>3, <2>5 DEF Call
  <2>7. Counts(x)
    BY <1>0, <2>3, <2>4, <2>5 DEF Counts
  <2> QED BY <1>0, <2>3, <2>6, <2>7 DEF Shape, Ranked, Known, Migrating
<1> QED BY <1>4, <1>5

\* What is left of an order of shards.
LEMMA WithoutShards ==
  ASSUME NEW q \in Seq(Shards), NEW S
  PROVE  /\ Without(q, S) \in Seq(Shards) /\ Without(q, S) \in Seq(0 .. N)
         /\ Range(Without(q, S)) \cap S = {}
<1> PICK w : w = Without(q, S)
  OBVIOUS
<1>1. w \in Seq(Shards \ S)
  BY WithoutType
<1>2. Range(w) \subseteq Shards \ S
  BY <1>1, RangeType
<1>3. w \in Seq(Shards)
  <2> PICK m : m = Len(w)
    OBVIOUS
  <2>1. m \in Nat /\ w \in [1 .. m -> Shards \ S]
    BY <1>1, LenProperties
  <2>2. w \in [1 .. m -> Shards]
    BY ONLY <2>1
  <2> QED BY ONLY <2>1, <2>2
<1> QED BY <1>2, <1>3, InOrderType

LEMMA HandoffShape ==
  ASSUME NEW q, Shape(q), q.pc = "legs", q.legs = {}, NEW rk \in Seq(Shards),
         NEW x, x = [q EXCEPT !.pc = "handoff", !.legs = Range(q.todo), !.todo = Without(rk, Range(q.targets))]
  PROVE  Shape(x) /\ x.pc = "handoff" /\ Range(x.todo) \cap Range(q.targets) = {}
<1>0. /\ q \in Call /\ q.todo \in Seq(Pieces) /\ q.good + Cardinality(Range(q.todo)) <= Total
      /\ q.body \in Stored /\ q.op # "delete" /\ Len(q.targets) <= N
  <2>1. q.legs \cup Range(q.todo) = Range(q.todo)
    OBVIOUS
  <2> QED BY <2>1 DEF Shape, Call, Counts, Known
<1>1. Range(q.todo) \subseteq Pieces
  BY <1>0, RangeType
<1> PICK w : w = Without(rk, Range(q.targets))
  OBVIOUS
<1>2. w \in Seq(Shards) /\ w \in Seq(0 .. N) /\ Range(w) \cap Range(q.targets) = {}
  BY WithoutShards
<1>3. x = [q EXCEPT !.pc = "handoff", !.legs = Range(q.todo), !.todo = w]
  OBVIOUS
<1>4. /\ x.op = q.op /\ x.pc = "handoff" /\ x.body = q.body /\ x.targets = q.targets /\ x.legs = Range(q.todo)
      /\ x.todo = w /\ x.good = q.good
  BY <1>0, <1>3 DEF Call
<1>5. x \in Call
  BY <1>0, <1>1, <1>2, <1>3 DEF Call
<1>6. Counts(x)
  BY <1>0, <1>4 DEF Counts
<1> QED BY <1>0, <1>2, <1>4, <1>5, <1>6 DEF Shape, Ranked, Known, Migrating

LEMMA SpareShape ==
  ASSUME NEW q, Shape(q), q.pc = "handoff", NEW i \in q.legs, q.todo # << >>, NEW s,
         NEW x, x = [q EXCEPT !.todo = Tail(@), !.legs = IF s \in down THEN @ ELSE @ \ {i},
                              !.good = IF s \in down THEN @ ELSE @ + 1]
  PROVE  Shape(x) /\ x.pc = "handoff" /\ x.todo = Tail(q.todo)
<1>0. /\ q \in Call /\ q.legs \in SUBSET Pieces /\ q.todo \in Seq(Shards) /\ q.good \in Nat
      /\ q.good + Cardinality(q.legs) <= Total /\ q.body \in Stored /\ q.op # "delete" /\ Len(q.targets) <= N
  BY Sizes DEF Shape, Call, Counts, Known
<1> PICK t : t = Tail(q.todo)
  OBVIOUS
<1>1. t \in Seq(Shards) /\ t \in Seq(0 .. N)
  BY <1>0, TailType, InOrderType
<1>2. CASE s \in down
  <2>1. x = [q EXCEPT !.todo = t]
    BY <1>0, <1>2 DEF Call
  <2>2. /\ x.op = q.op /\ x.pc = "handoff" /\ x.body = q.body /\ x.targets = q.targets /\ x.legs = q.legs
        /\ x.todo = t /\ x.good = q.good
    BY <1>0, <2>1 DEF Call
  <2>3. x \in Call
    BY <1>0, <1>1, <2>1 DEF Call
  <2>4. Counts(x)
    BY <1>0, <2>2 DEF Counts
  <2> QED BY <1>0, <1>1, <2>2, <2>3, <2>4 DEF Shape, Ranked, Known, Migrating
<1>3. CASE s \notin down
  <2>1. x = [q EXCEPT !.todo = t, !.legs = @ \ {i}, !.good = @ + 1]
    BY <1>0, <1>3 DEF Call
  <2>2. /\ x.op = q.op /\ x.pc = "handoff" /\ x.body = q.body /\ x.targets = q.targets /\ x.legs = q.legs \ {i}
        /\ x.todo = t /\ x.good = q.good + 1
    BY <1>0, <2>1 DEF Call
  <2> PICK a \in Nat : a = Cardinality(q.legs)
    BY <1>0, PiecesFinite
  <2>3. Cardinality(q.legs \ {i}) = a - 1 /\ a >= 1
    <3>1. Cardinality(q.legs \ {i}) = a - 1
      BY <1>0, PiecesFinite, FS_RemoveElement
    <3>2. q.legs \ {i} \in SUBSET Pieces
      BY <1>0
    <3> QED BY <3>1, <3>2, PiecesFinite
  <2>4. (q.good + 1) + (a - 1) <= Total /\ q.good + 1 \in 0 .. N
    <3>1. q.good + a <= Total /\ q.good \in Nat
      BY <1>0
    <3> QED BY ONLY <2>3, <3>1, a \in Nat, Shift
  <2>5. x \in Call
    <3>1. x.good \in 0 .. N /\ x.legs \in SUBSET Pieces
      BY <1>0, <2>2, <2>4
    <3> QED BY <1>0, <1>1, <2>1, <2>2, <3>1 DEF Call
  <2>6. Counts(x)
    <3>1. x.good + Cardinality(x.legs) = (q.good + 1) + (a - 1)
      BY <2>2, <2>3
    <3> QED BY <2>2, <2>4, <3>1 DEF Counts
  <2> QED BY <1>0, <1>1, <2>2, <2>5, <2>6 DEF Shape, Ranked, Known, Migrating
<1> QED BY <1>2, <1>3

\* A piece written at its rank is at home.
LEMMA RankIsHome ==
  ASSUME ranking \in Rankings, NEW t, t = Targets(ranking) \/ t = Probed(ranking),
         NEW i \in Pieces, i \in 1 .. Len(t), NEW b \in Stored
  PROVE  AtHome(t[i], Piece(b, i))
<1> PICK u : u = Targets(ranking)
  OBVIOUS
<1>1. i \in 1 .. Len(u) /\ t[i] = u[i] /\ DOMAIN u = 1 .. Len(u) /\ \A j, k \in 1 .. Len(u) : u[j] = u[k] => j = k
  <2>1. i \in 1 .. Len(u) /\ t[i] = u[i]
    BY TargetsType DEF Pieces
  <2>2. u \in Seq(Shards) /\ \A j, k \in 1 .. Len(u) : u[j] = u[k] => j = k
    BY TargetsType
  <2> QED BY <2>1, <2>2
<1> QED BY <1>1, PieceType DEF AtHome

\* A spare shard is nobody's home.
LEMMA SpareIsHome ==
  ASSUME NEW s, s \notin Range(Targets(ranking)), NEW c
  PROVE  AtHome(s, c)
BY DEF AtHome, Range

\* A body or nothing is at home anywhere.
LEMMA BodyIsHome ==
  ASSUME NEW s, NEW c, ~ (c.i > 0)
  PROVE  AtHome(s, c)
BY DEF AtHome, IsPiece

LEMMA PutSteps ==
  ASSUME PoolInv, NEW p \in Procs,
         (\E b \in Bodies : StartPut(p, b)) \/ PutLeg(p) \/ StartHandoff(p) \/ Handoff(p) \/ EndPut(p)
  PROVE  \E x : Turn(p, x)
<1> PICK q : q = proc[p]
  OBVIOUS
<1>0. Shape(q) /\ q \in Call /\ (~ moved => Plan(q, ranking)) /\ ranking \in Rankings /\ ranking \in Seq(Shards) /\ mrf \in BOOLEAN
  BY Planned
<1>1. ASSUME NEW b \in Bodies, StartPut(p, b) PROVE \E x : Turn(p, x)
  <2> PICK t : t = Targets(ranking)
    OBVIOUS
  <2> PICK x : x = [Idle EXCEPT !.op = "put", !.pc = "legs", !.body = b, !.targets = t, !.legs = 1 .. Len(t)]
    OBVIOUS
  <2>1. Shape(x)
    BY <1>0, PutShape, TargetsType
  <2>2. Plan(x, ranking)
    BY DEF Plan, Idle, Checking, Migrating
  <2>3. proc' = [proc EXCEPT ![p] = x]
    BY <1>1 DEF StartPut, Begin
  <2> QED BY <1>0, <1>1, <2>1, <2>2, <2>3 DEF StartPut, Turn, CellStep, data
<1>2. ASSUME PutLeg(p) PROVE \E x : Turn(p, x)
  <2> PICK i \in q.legs : LET s == q.targets[i] IN
         /\ q.pc = "legs"
         /\ Store(s, Piece(q.body, i))
         /\ Become(p, LegBack(q, i, s))
         /\ UNCHANGED <<down, ranking, mrf, left, history>>
    BY <1>2 DEF PutLeg, LegBack
  <2> PICK s : s = q.targets[i]
    OBVIOUS
  <2> PICK x : x = LegBack(q, i, s)
    OBVIOUS
  <2>1. Shape(x) /\ x.pc = "legs" /\ x.targets = q.targets
    <3>1. q.pc = "legs" /\ i \in q.legs
      OBVIOUS
    <3>2. x = LegBack(q, i, s)
      OBVIOUS
    <3> QED BY ONLY <1>0, <3>1, <3>2, LegShape
  <2>2. ~ moved => Plan(x, ranking)
    BY <1>0, <2>1 DEF Plan, Checking, Migrating
  <2>3. i \in Pieces /\ i \in 1 .. Len(q.targets) /\ q.body \in Stored /\ q.targets \in Seq(Shards)
    BY <1>0 DEF Shape, Call, Ranked, Known
  <2>4. s \in Shards
    BY <2>3, ElementOfSeq
  <2>5. Piece(q.body, i) \in CellSet
    BY <2>3, PieceType
  <2>6. ~ moved => AtHome(s, Piece(q.body, i))
    <3>1. ~ moved => q.targets = Targets(ranking)
      BY <1>0 DEF Plan
    <3> QED BY <1>0, <2>3, <3>1, RankIsHome
  <2>7. CellStep
    BY <2>4, <2>5, <2>6, StoreStep
  <2> QED BY <1>0, <2>1, <2>2, <2>7 DEF Become, Turn, history
<1>3. ASSUME StartHandoff(p) PROVE \E x : Turn(p, x)
  <2> PICK x : x = [q EXCEPT !.pc = "handoff", !.legs = Range(q.todo), !.todo = Without(ranking, Range(q.targets))]
    OBVIOUS
  <2>0. q.pc = "legs" /\ q.legs = {} /\ Become(p, x) /\ UNCHANGED <<data, mrf, left, history>>
    BY <1>3 DEF StartHandoff
  <2>1. Shape(x) /\ x.pc = "handoff" /\ Range(x.todo) \cap Range(q.targets) = {}
    BY <1>0, <2>0, HandoffShape
  <2>2. ~ moved => Plan(x, ranking)
    BY <1>0, <2>0, <2>1 DEF Plan, Checking, Migrating
  <2> QED BY <1>0, <2>0, <2>1, <2>2 DEF Become, Turn, CellStep, data, history
<1>4. ASSUME Handoff(p) PROVE \E x : Turn(p, x)
  <2> PICK s : s = Head(q.todo)
    OBVIOUS
  <2> PICK i \in q.legs :
         /\ q.pc = "handoff" /\ q.todo # << >>
         /\ Store(s, Piece(q.body, i))
         /\ Become(p, [q EXCEPT !.todo = Tail(@), !.legs = IF s \in down THEN @ ELSE @ \ {i},
                         !.good = IF s \in down THEN @ ELSE @ + 1])
         /\ UNCHANGED <<down, ranking, mrf, left, history>>
    BY <1>4 DEF Handoff
  <2> PICK x : x = [q EXCEPT !.todo = Tail(@), !.legs = IF s \in down THEN @ ELSE @ \ {i},
                         !.good = IF s \in down THEN @ ELSE @ + 1]
    OBVIOUS
  <2>1. Shape(x) /\ x.pc = "handoff" /\ x.todo = Tail(q.todo)
    <3>1. q.pc = "handoff" /\ q.todo # << >> /\ i \in q.legs
      OBVIOUS
    <3>2. x = [q EXCEPT !.todo = Tail(@), !.legs = IF s \in down THEN @ ELSE @ \ {i},
                         !.good = IF s \in down THEN @ ELSE @ + 1]
      OBVIOUS
    <3> QED BY ONLY <1>0, <3>1, <3>2, SpareShape
  <2>3. i \in Pieces /\ q.body \in Stored /\ q.todo \in Seq(Shards)
    BY <1>0 DEF Shape, Call, Known
  <2>4. s \in Shards /\ s \in Range(q.todo) /\ Range(x.todo) \subseteq Range(q.todo)
    BY <2>1, <2>3, TailType
  <2>2. ~ moved => Plan(x, ranking)
    BY <1>0, <2>1, <2>4 DEF Plan, Checking, Migrating
  <2>5. Piece(q.body, i) \in CellSet
    BY <2>3, PieceType
  <2>6. ~ moved => AtHome(s, Piece(q.body, i))
    BY <1>0, <2>4, SpareIsHome DEF Plan
  <2>7. CellStep
    BY <2>4, <2>5, <2>6, StoreStep
  <2> QED BY <1>0, <2>1, <2>2, <2>7 DEF Become, Turn, history
<1>5. ASSUME EndPut(p) PROVE \E x : Turn(p, x)
  <2>1. Plan(Idle, ranking)
    BY DEF Plan, Idle, Checking, Migrating
  <2> QED BY <1>0, <1>5, <2>1, IdleShape DEF EndPut, Finish, Turn, CellStep, data
<1> QED BY <1>1, <1>2, <1>3, <1>4, <1>5

-----------------------------------------------------------------------------
(* get_ec_aware, gather_ec and delete. *)

\* A call that plans nothing and has nothing to count.
Free == {"idle", "stray", "answer", "end"}

LEMMA FreeShape ==
  ASSUME NEW x \in Call, x.pc \in Free, x.op # "delete", x.todo \in Seq(Shards), Len(x.targets) <= N
  PROVE  Shape(x) /\ Plan(x, ranking)
BY DEF Free, Shape, Counts, Plan, Ranked, Known, Migrating, Checking

LEMMA IdlePlan == Plan(Idle, ranking)
BY DEF Plan, Idle, Checking, Migrating

\* The ranks still to be read are ranks of targets.
LEMMA WantedType ==
  ASSUME NEW q, q.targets \in Seq(Shards), NEW rs \in SUBSET Pieces
  PROVE  Wanted(q, rs) \in SUBSET Pieces /\ \A r \in Wanted(q, rs) : r \in 1 .. Len(q.targets)
<1> PICK n : n = Len(q.targets)
  OBVIOUS
<1>1. n \in Nat /\ Total \in Nat
  BY Sizes, LenProperties
<1>2. ASSUME NEW r \in rs, r <= n PROVE r \in 1 .. n
  BY <1>1, <1>2 DEF Pieces
<1> QED BY <1>2 DEF Wanted

\* The data ranks and the parity ranks.
LEMMA RankSets ==
  /\ 1 .. K \in SUBSET Pieces /\ (K + 1) .. Total \in SUBSET Pieces
  /\ (Legs + 1) .. Total \in SUBSET Pieces /\ 1 .. Legs \in SUBSET Pieces
BY Sizes DEF Pieces, Total

\* What a probe of rank "rank" that read c makes of the call.
ProbeBack(q, c, rank, x) ==
  \/ c.i = 0 /\ x = [q EXCEPT !.pc = "answer", !.body = c.b]
  \/ \E g : /\ g = [q EXCEPT !.pc = "data", !.good = rank, !.slots = Fill(NoSlots, c), !.todo = << >>]
           /\ x = [g EXCEPT !.legs = Wanted(g, 1 .. K)]
  \/ x = [q EXCEPT !.todo = Tail(@)]

LEMMA ProbeShape ==
  ASSUME cell \in [Shards -> CellSet], NEW q, Shape(q), q.pc = "probe", q.todo # << >>,
         NEW c \in CellSet, NEW rank, rank = Len(q.targets) - Len(q.todo) + 1,
         NEW x, ProbeBack(q, c, rank, x)
  PROVE  Shape(x) /\ Plan(x, ranking)
<1>0. /\ q \in Call /\ q.op # "delete" /\ q.todo \in Seq(Shards) /\ Len(q.targets) <= N /\ Len(q.todo) <= Len(q.targets)
      /\ q.targets \in Seq(Shards)
  BY DEF Shape, Call, Counts
<1>1. CASE c.i = 0 /\ x = [q EXCEPT !.pc = "answer", !.body = c.b]
  <2>1. c.b \in Stored
    BY <1>1, WholeType
  <2>2. x.pc = "answer" /\ x.op = q.op /\ x.todo = q.todo /\ x.targets = q.targets
    BY <1>0, <1>1 DEF Call
  <2>3. x \in Call
    BY <1>0, <1>1, <2>1 DEF Call
  <2> QED BY <1>0, <2>2, <2>3, FreeShape DEF Free
<1>2. ASSUME NEW g, g = [q EXCEPT !.pc = "data", !.good = rank, !.slots = Fill(NoSlots, c), !.todo = << >>],
             x = [g EXCEPT !.legs = Wanted(g, 1 .. K)]
      PROVE  Shape(x) /\ Plan(x, ranking)
  <2>1. rank \in 0 .. N
    <3> PICK m, n : m = Len(q.todo) /\ n = Len(q.targets)
      OBVIOUS
    <3>1. m \in Nat \ {0} /\ n \in Nat /\ m <= n /\ n <= N /\ rank = n - m + 1
      BY <1>0, TailType
    <3> QED BY ONLY <3>1, Sizes
  <2>2. Fill(NoSlots, c) \in [Pieces -> CellSet]
    BY IdleShape, FillType
  <2>3. << >> \in Seq(Shards) /\ << >> \in Seq(0 .. N)
    BY RangeType
  <2> PICK w : w = Wanted(g, 1 .. K)
    OBVIOUS
  <2>4. g.targets = q.targets
    BY <1>0, <1>2 DEF Call
  <2>5. w \in SUBSET Pieces /\ \A r \in w : r \in 1 .. Len(q.targets)
    <3>1. g.targets \in Seq(Shards)
      BY <1>0, <2>4
    <3> QED BY <2>4, <3>1, WantedType, RankSets
  <2> PICK f : f = Fill(NoSlots, c)
    OBVIOUS
  <2>6. x = [q EXCEPT !.pc = "data", !.good = rank, !.slots = f, !.todo = << >>, !.legs = w]
    BY <1>0, <1>2 DEF Call
  <2>7. /\ x.pc = "data" /\ x.op = q.op /\ x.todo = << >> /\ x.targets = q.targets /\ x.legs = w
    BY <1>0, <2>6 DEF Call
  <2>8. x \in Call
    BY <1>0, <2>1, <2>2, <2>3, <2>5, <2>6 DEF Call
  <2> QED BY <1>0, <2>3, <2>5, <2>7, <2>8 DEF Shape, Counts, Ranked, Known, Migrating, Plan, Checking
<1>3. CASE x = [q EXCEPT !.todo = Tail(@)]
  <2> PICK t : t = Tail(q.todo)
    OBVIOUS
  <2>1. t \in Seq(Shards) /\ t \in Seq(0 .. N) /\ Len(t) <= Len(q.targets)
    <3> PICK m, n, k : m = Len(q.todo) /\ n = Len(q.targets) /\ k = Len(t)
      OBVIOUS
    <3>1. t \in Seq(Shards) /\ k = m - 1 /\ m \in Nat /\ n \in Nat /\ m <= n
      BY <1>0, TailType
    <3>2. k <= n
      BY ONLY <3>1
    <3> QED BY <3>1, <3>2, InOrderType
  <2>2. x = [q EXCEPT !.todo = t]
    BY <1>0, <1>3 DEF Call
  <2>3. x.pc = "probe" /\ x.op = q.op /\ x.todo = t /\ x.targets = q.targets
    BY <1>0, <2>2 DEF Call
  <2>4. x \in Call
    BY <1>0, <2>1, <2>2 DEF Call
  <2> QED BY <1>0, <2>1, <2>3, <2>4 DEF Shape, Counts, Ranked, Known, Migrating, Plan, Checking
<1> QED BY <1>1, <1>2, <1>3 DEF ProbeBack

LEMMA GatherShape ==
  ASSUME NEW q, Shape(q), q.pc \in {"data", "parity"}, NEW r, NEW c \in CellSet,
         NEW x, x = [q EXCEPT !.legs = @ \ {r}, !.slots = Fill(@, c)]
  PROVE  Shape(x) /\ Plan(x, ranking)
<1>0. /\ q \in Call /\ q.op # "delete" /\ q.todo \in Seq(Shards) /\ Len(q.targets) <= N
      /\ q.legs \subseteq 1 .. Len(q.targets)
  BY DEF Shape, Call, Ranked
<1> PICK f : f = Fill(q.slots, c)
  OBVIOUS
<1>1. f \in [Pieces -> CellSet]
  BY <1>0, FillType DEF Call
<1>2. x = [q EXCEPT !.legs = @ \ {r}, !.slots = f]
  OBVIOUS
<1>3. x.pc = q.pc /\ x.op = q.op /\ x.todo = q.todo /\ x.targets = q.targets /\ x.legs = q.legs \ {r}
  BY <1>0, <1>2 DEF Call
<1>4. x \in Call
  BY <1>0, <1>1, <1>2 DEF Call
<1> QED BY <1>0, <1>3, <1>4 DEF Shape, Counts, Ranked, Known, Migrating, Plan, Checking

LEMMA GatherNextShape ==
  ASSUME NEW q, Shape(q), q.pc \in {"data", "parity"}, NEW x,
         \/ x = [q EXCEPT !.pc = "parity", !.legs = Wanted(q, (K + 1) .. Total)]
         \/ x = [q EXCEPT !.pc = "stray", !.todo = Without(InOrder, Range(q.targets))]
         \/ x = [q EXCEPT !.pc = "answer", !.body = ec_decode(q.slots)]
  PROVE  Shape(x) /\ Plan(x, ranking)
<1>0. q \in Call /\ q.op # "delete" /\ q.todo \in Seq(Shards) /\ Len(q.targets) <= N
  BY DEF Shape, Call
<1>1. CASE x = [q EXCEPT !.pc = "parity", !.legs = Wanted(q, (K + 1) .. Total)]
  <2> PICK w : w = Wanted(q, (K + 1) .. Total)
    OBVIOUS
  <2>1. w \in SUBSET Pieces /\ \A r \in w : r \in 1 .. Len(q.targets)
    BY <1>0, WantedType, RankSets DEF Call
  <2>2. x = [q EXCEPT !.pc = "parity", !.legs = w]
    BY <1>1
  <2>3. x.pc = "parity" /\ x.op = q.op /\ x.todo = q.todo /\ x.targets = q.targets /\ x.legs = w
    BY <1>0, <2>2 DEF Call
  <2>4. x \in Call
    BY <1>0, <2>1, <2>2 DEF Call
  <2> QED BY <1>0, <2>1, <2>3, <2>4 DEF Shape, Counts, Ranked, Known, Migrating, Plan, Checking
<1>2. CASE x = [q EXCEPT !.pc = "stray", !.todo = Without(InOrder, Range(q.targets))]
  <2> PICK w : w = Without(InOrder, Range(q.targets))
    OBVIOUS
  <2>1. w \in Seq(Shards) /\ w \in Seq(0 .. N)
    BY InOrderType, WithoutShards
  <2>2. x = [q EXCEPT !.pc = "stray", !.todo = w]
    BY <1>2
  <2>3. x.pc = "stray" /\ x.op = q.op /\ x.todo = w /\ x.targets = q.targets
    BY <1>0, <2>2 DEF Call
  <2>4. x \in Call
    BY <1>0, <2>1, <2>2 DEF Call
  <2> QED BY <1>0, <2>1, <2>3, <2>4, FreeShape DEF Free
<1>3. CASE x = [q EXCEPT !.pc = "answer", !.body = ec_decode(q.slots)]
  <2> PICK b : b = ec_decode(q.slots)
    OBVIOUS
  <2>1. b \in Stored \cup {"none"}
    BY <1>0, DecodeType DEF Call
  <2>2. x = [q EXCEPT !.pc = "answer", !.body = b]
    BY <1>3
  <2>3. x.pc = "answer" /\ x.op = q.op /\ x.todo = q.todo /\ x.targets = q.targets
    BY <1>0, <2>2 DEF Call
  <2>4. x \in Call
    BY <1>0, <2>1, <2>2 DEF Call
  <2> QED BY <1>0, <2>3, <2>4, FreeShape DEF Free
<1> QED BY <1>1, <1>2, <1>3

LEMMA StrayShape ==
  ASSUME NEW q, Shape(q), q.pc = "stray", q.op # "delete", NEW c, NEW x,
         \/ x = [q EXCEPT !.pc = "answer", !.body = ec_decode(q.slots)]
         \/ q.todo # << >> /\ c \in CellSet /\ c.i = 0 /\ x = [q EXCEPT !.pc = "answer", !.body = c.b]
         \/ q.todo # << >> /\ c \in CellSet /\ x = [q EXCEPT !.todo = Tail(@), !.slots = Fill(@, c)]
  PROVE  Shape(x) /\ Plan(x, ranking)
<1>0. q \in Call /\ q.todo \in Seq(Shards) /\ Len(q.targets) <= N
  BY DEF Shape, Call
<1>1. ASSUME NEW b \in Stored \cup {"none"}, x = [q EXCEPT !.pc = "answer", !.body = b]
      PROVE  Shape(x) /\ Plan(x, ranking)
  <2>1. x.pc = "answer" /\ x.op = q.op /\ x.todo = q.todo /\ x.targets = q.targets
    BY <1>0, <1>1 DEF Call
  <2>2. x \in Call
    BY <1>0, <1>1 DEF Call
  <2> QED BY <1>0, <2>1, <2>2, FreeShape DEF Free
<1>2. CASE x = [q EXCEPT !.pc = "answer", !.body = ec_decode(q.slots)]
  BY <1>0, <1>1, <1>2, DecodeType DEF Call
<1>3. CASE q.todo # << >> /\ c \in CellSet /\ c.i = 0 /\ x = [q EXCEPT !.pc = "answer", !.body = c.b]
  BY <1>1, <1>3, WholeType
<1>4. CASE q.todo # << >> /\ c \in CellSet /\ x = [q EXCEPT !.todo = Tail(@), !.slots = Fill(@, c)]
  <2> PICK t, f : t = Tail(q.todo) /\ f = Fill(q.slots, c)
    OBVIOUS
  <2>1. t \in Seq(Shards) /\ t \in Seq(0 .. N)
    BY <1>0, <1>4, TailType, InOrderType
  <2>2. f \in [Pieces -> CellSet]
    BY <1>0, <1>4, FillType DEF Call
  <2>3. x = [q EXCEPT !.todo = t, !.slots = f]
    BY <1>4
  <2>4. x.pc = "stray" /\ x.op = q.op /\ x.todo = t /\ x.targets = q.targets
    BY <1>0, <2>3 DEF Call
  <2>5. x \in Call
    BY <1>0, <2>1, <2>2, <2>3 DEF Call
  <2> QED BY <1>0, <2>1, <2>4, <2>5, FreeShape DEF Free
<1> QED BY <1>2, <1>3, <1>4

LEMMA GetSteps ==
  ASSUME PoolInv, NEW p \in Procs,
         \/ StartGet(p) \/ Probe(p) \/ GatherLeg(p) \/ GatherNext(p) \/ ProbeOthers(p) \/ Stray(p) \/ Answer(p)
  PROVE  \E x : Turn(p, x)
<1> PICK q : q = proc[p]
  OBVIOUS
<1>0. /\ Shape(q) /\ q \in Call /\ ranking \in Rankings /\ mrf \in BOOLEAN
      /\ cell \in [Shards -> CellSet]
      /\ q.pc # "legs" => q.todo \in Seq(Shards)
  BY Planned DEF PoolInv, Shape
<1>1. ASSUME NEW x, proc' = [proc EXCEPT ![p] = x], Shape(x), Plan(x, ranking), UNCHANGED <<data, mrf, history>>
      PROVE  \E y : Turn(p, y)
  BY <1>0, <1>1 DEF Turn, CellStep, data, history
<1>2. ASSUME StartGet(p) PROVE \E x : Turn(p, x)
  <2> PICK u : u = Probed(ranking)
    OBVIOUS
  <2> PICK x : x = [Idle EXCEPT !.op = "get", !.pc = "probe", !.targets = u, !.todo = u]
    OBVIOUS
  <2>1. u \in Seq(Shards) /\ u \in Seq(0 .. N) /\ Len(u) <= N /\ Len(u) <= Len(u)
    BY <1>0, TargetsType, InOrderType
  <2>2. x.op = "get" /\ x.pc = "probe" /\ x.targets = u /\ x.todo = u
    BY DEF Idle
  <2>3. x \in Call
    BY <2>1, IdleShape DEF Call
  <2>4. Shape(x) /\ Plan(x, ranking)
    BY <2>1, <2>2, <2>3 DEF Shape, Counts, Ranked, Known, Migrating, Plan, Checking
  <2>5. proc' = [proc EXCEPT ![p] = x] /\ UNCHANGED <<data, mrf, history>>
    BY <1>2 DEF StartGet, Begin
  <2> QED BY ONLY <1>1, <2>4, <2>5
<1>3. ASSUME Probe(p) PROVE \E x : Turn(p, x)
  <2> PICK c, rank : c = Get(Head(q.todo)) /\ rank = Len(q.targets) - Len(q.todo) + 1
    OBVIOUS
  <2>0. q.pc = "probe" /\ q.todo # << >> /\ UNCHANGED <<data, mrf, history>>
    BY <1>3 DEF Probe
  <2>1. c \in CellSet
    BY <1>0, <2>0, TailType, GetType
  <2>2. \E x : Become(p, x) /\ ProbeBack(q, c, rank, x)
    BY <1>3 DEF Probe, ProbeBack
  <2> PICK x : Become(p, x) /\ ProbeBack(q, c, rank, x)
    BY <2>2
  <2>3. Shape(x) /\ Plan(x, ranking)
    <3>1. rank = Len(q.targets) - Len(q.todo) + 1
      OBVIOUS
    <3>2. ProbeBack(q, c, rank, x)
      OBVIOUS
    <3> QED BY ONLY <1>0, <2>0, <2>1, <3>1, <3>2, ProbeShape
  <2> QED BY <1>1, <2>0, <2>3 DEF Become
<1>4. ASSUME GatherLeg(p) PROVE \E x : Turn(p, x)
  <2> PICK r \in q.legs : /\ q.pc \in {"data", "parity"}
                         /\ Become(p, [q EXCEPT !.legs = @ \ {r}, !.slots = Fill(@, Get(q.targets[r]))])
                         /\ UNCHANGED <<data, mrf, history>>
    BY <1>4 DEF GatherLeg
  <2> PICK c : c = Get(q.targets[r])
    OBVIOUS
  <2> PICK x : x = [q EXCEPT !.legs = @ \ {r}, !.slots = Fill(@, c)]
    OBVIOUS
  <2>1. c \in CellSet
    <3>1. r \in 1 .. Len(q.targets) /\ q.targets \in Seq(Shards)
      BY <1>0 DEF Shape, Call, Ranked
    <3> QED BY <1>0, <3>1, ElementOfSeq, GetType
  <2>2. Shape(x) /\ Plan(x, ranking)
    BY <1>0, <2>1, GatherShape
  <2> QED BY <1>1, <2>2 DEF Become
<1>5. ASSUME GatherNext(p) PROVE \E x : Turn(p, x)
  <2>0. q.pc \in {"data", "parity"} /\ UNCHANGED <<data, mrf, history>>
    BY <1>5 DEF GatherNext
  <2>1. \E x : /\ Become(p, x)
              /\ \/ x = [q EXCEPT !.pc = "parity", !.legs = Wanted(q, (K + 1) .. Total)]
                 \/ x = [q EXCEPT !.pc = "stray", !.todo = Without(InOrder, Range(q.targets))]
                 \/ x = [q EXCEPT !.pc = "answer", !.body = ec_decode(q.slots)]
    BY <1>5 DEF GatherNext
  <2> PICK x : /\ Become(p, x)
              /\ \/ x = [q EXCEPT !.pc = "parity", !.legs = Wanted(q, (K + 1) .. Total)]
                 \/ x = [q EXCEPT !.pc = "stray", !.todo = Without(InOrder, Range(q.targets))]
                 \/ x = [q EXCEPT !.pc = "answer", !.body = ec_decode(q.slots)]
    BY <2>1
  <2>2. Shape(x) /\ Plan(x, ranking)
    BY <1>0, <2>0, GatherNextShape
  <2> QED BY <1>1, <2>0, <2>2 DEF Become
<1>6. ASSUME ProbeOthers(p) PROVE \E x : Turn(p, x)
  <2> PICK w : w = Without(InOrder, Range(q.targets))
    OBVIOUS
  <2> PICK x : x = [q EXCEPT !.pc = "stray", !.todo = w]
    OBVIOUS
  <2>0. q.pc = "probe" /\ Become(p, x) /\ UNCHANGED <<data, mrf, history>>
    BY <1>6 DEF ProbeOthers
  <2>1. w \in Seq(Shards) /\ w \in Seq(0 .. N)
    BY InOrderType, WithoutShards
  <2>2. x.pc = "stray" /\ x.op = q.op /\ x.todo = w /\ x.targets = q.targets
    BY <1>0 DEF Call
  <2>3. x \in Call
    BY <1>0, <2>1 DEF Call
  <2>4. q.op # "delete" /\ Len(q.targets) <= N
    BY <1>0, <2>0 DEF Shape
  <2>5. Shape(x) /\ Plan(x, ranking)
    BY <2>1, <2>2, <2>3, <2>4, FreeShape DEF Free
  <2> QED BY <1>1, <2>0, <2>5 DEF Become
<1>7. ASSUME Stray(p) PROVE \E x : Turn(p, x)
  <2> PICK c : c = Get(Head(q.todo))
    OBVIOUS
  <2>0. q.pc = "stray" /\ q.op # "delete" /\ UNCHANGED <<data, mrf, history>>
    BY <1>7 DEF Stray
  <2>1. q.todo # << >> => c \in CellSet
    BY <1>0, <2>0, TailType, GetType
  <2>2. \E x : /\ Become(p, x)
              /\ \/ x = [q EXCEPT !.pc = "answer", !.body = ec_decode(q.slots)]
                 \/ q.todo # << >> /\ c.i = 0 /\ x = [q EXCEPT !.pc = "answer", !.body = c.b]
                 \/ q.todo # << >> /\ x = [q EXCEPT !.todo = Tail(@), !.slots = Fill(@, c)]
    BY <1>7 DEF Stray
  <2> PICK x : /\ Become(p, x)
              /\ \/ x = [q EXCEPT !.pc = "answer", !.body = ec_decode(q.slots)]
                 \/ q.todo # << >> /\ c.i = 0 /\ x = [q EXCEPT !.pc = "answer", !.body = c.b]
                 \/ q.todo # << >> /\ x = [q EXCEPT !.todo = Tail(@), !.slots = Fill(@, c)]
    BY <2>2
  <2>3. Shape(x) /\ Plan(x, ranking)
    BY <1>0, <2>0, <2>1, StrayShape
  <2> QED BY <1>1, <2>0, <2>3 DEF Become
<1>8. ASSUME Answer(p) PROVE \E x : Turn(p, x)
  BY <1>1, <1>8, IdleShape, IdlePlan DEF Answer, Finish
<1> QED BY <1>2, <1>3, <1>4, <1>5, <1>6, <1>7, <1>8

LEMMA DeleteShape ==
  Shape([Idle EXCEPT !.op = "delete", !.pc = "del", !.todo = InOrder])
<1> PICK x : x = [Idle EXCEPT !.op = "delete", !.pc = "del", !.todo = InOrder]
  OBVIOUS
<1>1. x.op = "delete" /\ x.pc = "del" /\ x.todo = InOrder /\ x.targets = << >> /\ x.good = 0 /\ x.bad = 0
  BY DEF Idle
<1>2. InOrder \in Seq(Shards) /\ InOrder \in Seq(0 .. N) /\ Len(InOrder) = N /\ Len(<< >>) = 0 /\ N \in Nat
  BY InOrderType, RangeType, Sizes
<1>3. x \in Call
  BY <1>2, IdleShape DEF Call
<1>4. x.good + x.bad + Len(x.todo) <= N /\ Len(x.targets) <= N
  <2>1. x.good + x.bad + Len(x.todo) = 0 + 0 + N
    BY <1>1, <1>2
  <2> QED BY <1>1, <1>2, <2>1
<1>5. Shape(x)
  BY <1>1, <1>2, <1>3, <1>4 DEF Shape, Counts, Ranked, Known, Migrating
<1> QED BY <1>5

\* A shard is done, and counted or not.
LEMMA CountShape ==
  ASSUME NEW q, Shape(q), q.pc \in {"del", "copy"}, q.todo # << >>, NEW s,
         NEW y, y = [q EXCEPT !.todo = Tail(@)], NEW x, x = y \/ x = Counted(y, s)
  PROVE  Shape(x) /\ Plan(x, ranking)
<1> PICK t : t = Tail(q.todo)
  OBVIOUS
<1> PICK g, b, m : g = q.good /\ b = q.bad /\ m = Len(q.todo)
  OBVIOUS
<1>0. /\ q \in Call /\ q.todo \in Seq(Shards) /\ Len(q.targets) <= N /\ g + b + m <= N /\ g \in Nat /\ b \in Nat
      /\ q.op = "delete" <=> q.pc = "del"
      /\ q.pc = "copy" => q.body \in Stored
  BY Sizes DEF Shape, Call, Counts, Known
<1>1. t \in Seq(Shards) /\ t \in Seq(0 .. N) /\ Len(t) = m - 1 /\ m \in Nat \ {0}
  BY <1>0, TailType, InOrderType
<1>2. ASSUME NEW h \in Nat, NEW c \in Nat, h + c <= g + b + 1, x = [q EXCEPT !.todo = t, !.good = h, !.bad = c]
      PROVE  Shape(x) /\ Plan(x, ranking)
  <2>1. h + c + (m - 1) <= N /\ h \in 0 .. N /\ c \in 0 .. N
    <3>1. /\ g \in Nat /\ b \in Nat /\ m \in Nat \ {0} /\ h \in Nat /\ c \in Nat /\ N \in Nat
          /\ g + b + m <= N /\ h + c <= g + b + 1
      BY <1>0, <1>1, <1>2, Sizes
    <3> QED BY ONLY <3>1
  <2>2. /\ x.pc = q.pc /\ x.op = q.op /\ x.todo = t /\ x.targets = q.targets /\ x.good = h /\ x.bad = c /\ x.body = q.body
    BY <1>0, <1>2 DEF Call
  <2>3. x \in Call
    BY <1>0, <1>1, <1>2, <2>1 DEF Call
  <2>4. x.good + x.bad + Len(x.todo) <= N
    <3>1. x.good + x.bad + Len(x.todo) = h + c + (m - 1)
      BY <1>1, <2>2
    <3> QED BY <2>1, <3>1
  <2> QED BY <1>0, <1>1, <2>2, <2>3, <2>4 DEF Shape, Counts, Ranked, Known, Migrating, Plan, Checking
<1>3. CASE x = y
  <2>1. x = [q EXCEPT !.todo = t, !.good = g, !.bad = b]
    BY <1>0, <1>3 DEF Call
  <2>2. g + b <= g + b + 1
    BY <1>0
  <2> QED BY <1>0, <1>2, <2>1, <2>2
<1>4. CASE x = Counted(y, s) /\ s \in down
  <2>1. x = [q EXCEPT !.todo = t, !.good = g, !.bad = b + 1]
    BY <1>0, <1>4 DEF Call, Counted
  <2>2. b + 1 \in Nat /\ g + (b + 1) <= g + b + 1
    BY <1>0
  <2> QED BY <1>0, <1>2, <2>1, <2>2
<1>5. CASE x = Counted(y, s) /\ s \notin down
  <2>1. x = [q EXCEPT !.todo = t, !.good = g + 1, !.bad = b]
    BY <1>0, <1>5 DEF Call, Counted
  <2>2. g + 1 \in Nat /\ (g + 1) + b <= g + b + 1
    BY <1>0
  <2> QED BY <1>0, <1>2, <2>1, <2>2
<1> QED BY <1>3, <1>4, <1>5

LEMMA DeleteSteps ==
  ASSUME PoolInv, NEW p \in Procs, StartDelete(p) \/ DeleteNext(p) \/ EndDelete(p)
  PROVE  \E x : Turn(p, x)
<1> PICK q : q = proc[p]
  OBVIOUS
<1>0. Shape(q) /\ q \in Call /\ mrf \in BOOLEAN
  BY Planned
<1>1. ASSUME StartDelete(p) PROVE \E x : Turn(p, x)
  <2> PICK x : x = [Idle EXCEPT !.op = "delete", !.pc = "del", !.todo = InOrder]
    OBVIOUS
  <2>1. Shape(x) /\ Plan(x, ranking)
    BY DeleteShape DEF Plan, Idle, Checking, Migrating
  <2> QED BY <1>0, <1>1, <2>1 DEF StartDelete, Begin, Turn, CellStep, data
<1>2. ASSUME DeleteNext(p) PROVE \E x : Turn(p, x)
  <2> PICK s : s = Head(q.todo)
    OBVIOUS
  <2> PICK y, x : y = [q EXCEPT !.todo = Tail(@)] /\ x = Counted(y, s)
    OBVIOUS
  <2>0. q.op = "delete" /\ q.todo # << >> /\ Store(s, Empty) /\ Become(p, x) /\ UNCHANGED <<down, ranking, mrf, history>>
    BY <1>2 DEF DeleteNext
  <2>1. q.pc = "del" /\ q.todo \in Seq(Shards)
    BY <1>0, <2>0 DEF Shape
  <2>2. s \in Shards
    BY <2>0, <2>1, TailType
  <2>3. CellStep
    BY <2>0, <2>2, StoreStep, BodyIsHome DEF Empty, CellSet
  <2>4. Shape(x) /\ Plan(x, ranking)
    BY <1>0, <2>0, <2>1, CountShape
  <2> QED BY <1>0, <2>0, <2>3, <2>4 DEF Become, Turn, history
<1>3. ASSUME EndDelete(p) PROVE \E x : Turn(p, x)
  BY <1>0, <1>3, IdleShape, IdlePlan DEF EndDelete, Finish, Turn, CellStep, data
<1> QED BY <1>1, <1>2, <1>3

-----------------------------------------------------------------------------
(* repair_key. *)

\* A plan stays what it was while the call goes on checking, and is over after.
LEMMA PlanKept ==
  ASSUME NEW q, q.pc \in Checking, NEW x, x.pc \in Checking \cup Free \cup {"mirror"},
         x.pc \in Checking => x.targets = q.targets, NEW rk, Plan(q, rk)
  PROVE  Plan(x, rk)
BY DEF Plan, Checking, Free, Migrating

LEMMA CheckShape ==
  ASSUME ranking \in Rankings, NEW o \in {"drain", "resilver", "scrub"}
  PROVE  Shape(Check(o)) /\ Plan(Check(o), ranking)
<1> PICK t, u : t = Targets(ranking) /\ u = Probed(ranking)
  OBVIOUS
<1> PICK x : x = [Idle EXCEPT !.op = o, !.pc = "has", !.targets = u, !.todo = t]
  OBVIOUS
<1>1. /\ x.op = o /\ x.pc = "has" /\ x.targets = u /\ x.todo = t /\ x.legs = {} /\ x.good = 0 /\ x.bad = 0
  BY DEF Idle
<1>2. /\ t \in Seq(Shards) /\ t \in Seq(0 .. N) /\ u \in Seq(Shards) /\ Len(u) <= N /\ Len(t) <= Len(u) /\ Len(t) <= Total
  BY TargetsType, InOrderType
<1>3. x \in Call
  BY <1>2, IdleShape DEF Call
<1>4. Shape(x)
  BY <1>1, <1>2, <1>3 DEF Shape, Counts, Ranked, Known, Migrating
<1>5. Plan(x, ranking)
  BY <1>1 DEF Plan, Checking, Migrating
<1>6. Check(o) = x
  BY DEF Check
<1> QED BY <1>4, <1>5, <1>6

\* The rank of the next target.
LEMMA RankOfHead ==
  ASSUME NEW q \in Call, q.todo # << >>, Len(q.todo) <= Len(q.targets), Len(q.todo) <= Total
  PROVE  LET r == Min({Total, Len(q.targets)}) - Len(q.todo) + 1 IN r \in Pieces /\ r \in 1 .. Len(q.targets)
<1> PICK m, n, k : m = Len(q.todo) /\ n = Len(q.targets) /\ k = Min({Total, n})
  OBVIOUS
<1>1. m \in Nat \ {0} /\ n \in Nat /\ m <= n /\ m <= Total /\ Total \in Nat
  BY TailType, Sizes DEF Call
<1>2. k \in {Total, n} /\ k <= Total /\ k <= n
  <2>1. {Total, n} \in SUBSET Nat /\ {Total, n} # {}
    BY <1>1
  <2> QED BY <1>1, <2>1, MinIsLeast
<1>3. k \in Nat /\ m <= k
  BY <1>1, <1>2
<1>4. k - m + 1 \in 1 .. Total /\ k - m + 1 \in 1 .. n
  BY ONLY <1>1, <1>2, <1>3
<1> QED BY <1>4 DEF Pieces

\* The next target has been looked at.
Looked(q, f, l) == [q EXCEPT !.todo = Tail(@), !.slots = f, !.legs = l]

LEMMA LookedShape ==
  ASSUME NEW q, Shape(q), q.pc \in {"has", "collect"}, q.todo # << >>,
         NEW l, l = q.legs \/ l = q.legs \cup {Min({Total, Len(q.targets)}) - Len(q.todo) + 1},
         NEW f \in [Pieces -> CellSet],
         NEW x, x = Looked(q, f, l)
  PROVE  Shape(x) /\ x.pc = q.pc /\ x.targets = q.targets
<1>0. /\ q \in Call /\ q.op # "delete" /\ q.todo \in Seq(Shards) /\ Len(q.targets) <= N
      /\ q.legs \subseteq 1 .. Len(q.targets) /\ q.good = 0 /\ q.bad = 0
      /\ Len(q.todo) <= Len(q.targets) /\ Len(q.todo) <= Total
  BY DEF Shape, Ranked, Counts
<1> PICK r : r = Min({Total, Len(q.targets)}) - Len(q.todo) + 1
  OBVIOUS
<1>1. r \in Pieces /\ r \in 1 .. Len(q.targets)
  BY <1>0, RankOfHead
<1>2. l \in SUBSET Pieces /\ l \subseteq 1 .. Len(q.targets)
  BY <1>0, <1>1 DEF Call
<1> PICK t : t = Tail(q.todo)
  OBVIOUS
<1>3. t \in Seq(Shards) /\ t \in Seq(0 .. N) /\ Len(t) <= Len(q.targets) /\ Len(t) <= Total
  <2> PICK m, n, k : m = Len(q.todo) /\ n = Len(q.targets) /\ k = Len(t)
    OBVIOUS
  <2>1. t \in Seq(Shards) /\ k = m - 1 /\ m \in Nat /\ n \in Nat /\ m <= n /\ m <= Total /\ Total \in Nat
    BY <1>0, TailType, Sizes DEF Call
  <2>2. k <= n /\ k <= Total
    BY ONLY <2>1
  <2> QED BY <2>1, <2>2, InOrderType
<1>4. x = [q EXCEPT !.todo = t, !.slots = f, !.legs = l]
  BY DEF Looked
<1>5. /\ x.pc = q.pc /\ x.op = q.op /\ x.todo = t /\ x.targets = q.targets /\ x.legs = l /\ x.good = 0 /\ x.bad = 0
  BY <1>0, <1>4 DEF Call
<1>6. x \in Call
  BY <1>0, <1>2, <1>3, <1>4 DEF Call
<1> QED BY <1>0, <1>2, <1>3, <1>5, <1>6 DEF Shape, Counts, Ranked, Known, Migrating

LEMMA EndShape ==
  ASSUME NEW q, Shape(q), q.op # "delete", q.todo \in Seq(Shards), NEW b \in Stored \cup {"none"}, NEW n \in 0 .. N,
         NEW x, x = [q EXCEPT !.pc = "end", !.body = b, !.bad = n]
  PROVE  Shape(x) /\ Plan(x, ranking)
<1>0. q \in Call /\ Len(q.targets) <= N
  BY DEF Shape
<1>1. x.pc = "end" /\ x.op = q.op /\ x.todo = q.todo /\ x.targets = q.targets
  BY <1>0 DEF Call
<1>2. x \in Call
  BY <1>0 DEF Call
<1> QED BY <1>0, <1>1, <1>2, FreeShape DEF Free

\* The era is known, or the search for it goes on.
EraTurn(q, c, x) ==
  \/ x = [q EXCEPT !.pc = "end", !.bad = 1]
  \/ q.todo # << >> /\ c.i = 0
     /\ x = [q EXCEPT !.pc = "mirror", !.body = c.b, !.targets = << >>, !.todo = First(ranking, R)]
  \/ q.todo # << >> /\ x = [q EXCEPT !.pc = "collect", !.todo = First(q.targets, Total)]
  \/ q.todo # << >> /\ x = [q EXCEPT !.todo = Tail(@)]

LEMMA EraShape ==
  ASSUME ranking \in Seq(Shards), NEW q, Shape(q), q.pc = "era", NEW c, q.todo # << >> => c \in CellSet,
         NEW x, EraTurn(q, c, x)
  PROVE  Shape(x) /\ x.pc \in Checking \cup Free \cup {"mirror"} /\ (x.pc \in Checking => x.targets = q.targets)
<1>0. /\ q \in Call /\ q.op # "delete" /\ q.todo \in Seq(Shards) /\ Len(q.targets) <= N /\ q.good = 0 /\ q.bad = 0
      /\ q.targets \in Seq(Shards)
  BY DEF Shape, Counts, Call
<1>1. CASE x = [q EXCEPT !.pc = "end", !.bad = 1]
  <2>1. x.pc = "end" /\ x.op = q.op /\ x.todo = q.todo /\ x.targets = q.targets
    BY <1>0, <1>1 DEF Call
  <2>2. 1 \in 0 .. N
    BY Sizes
  <2>3. x \in Call
    BY <1>0, <1>1, <2>2 DEF Call
  <2> QED BY <1>0, <2>1, <2>3, FreeShape DEF Free, Checking
<1>2. CASE q.todo # << >> /\ c.i = 0
     /\ x = [q EXCEPT !.pc = "mirror", !.body = c.b, !.targets = << >>, !.todo = First(ranking, R)]
  <2> PICK t : t = First(ranking, R)
    OBVIOUS
  <2>1. t \in Seq(Shards) /\ t \in Seq(0 .. N) /\ Len(t) <= N
    <3>1. t \in Seq(Shards) /\ Len(t) <= R
      BY FirstType, Sizes
    <3>2. Len(t) \in Nat
      BY <3>1, LenProperties
    <3> QED BY <3>1, <3>2, Sizes, InOrderType
  <2>2. c.b \in Stored
    BY <1>2, WholeType
  <2>3. x = [q EXCEPT !.pc = "mirror", !.body = c.b, !.targets = << >>, !.todo = t]
    BY <1>2
  <2>4. /\ x.pc = "mirror" /\ x.op = q.op /\ x.todo = t /\ x.targets = << >> /\ x.body = c.b /\ x.good = 0 /\ x.bad = 0
    BY <1>0, <2>3 DEF Call
  <2>5. x \in Call
    <3> PICK e : e = << >>
      OBVIOUS
    <3>1. e \in Seq(Shards)
      OBVIOUS
    <3>2. x = [q EXCEPT !.pc = "mirror", !.body = c.b, !.targets = e, !.todo = t]
      BY <2>3
    <3> QED BY <1>0, <2>1, <2>2, <3>1, <3>2 DEF Call
  <2>6. Len(x.targets) + Len(x.todo) <= N /\ Len(x.targets) <= N
    <3> PICK m : m = Len(t)
      OBVIOUS
    <3>1. m \in Nat /\ m <= N /\ N \in Nat /\ Len(<< >>) = 0
      BY <2>1, Sizes, LenProperties
    <3> QED BY <2>4, <3>1
  <2> QED BY <1>0, <2>1, <2>2, <2>4, <2>5, <2>6 DEF Shape, Counts, Ranked, Known, Migrating, Checking
<1>3. CASE q.todo # << >> /\ x = [q EXCEPT !.pc = "collect", !.todo = First(q.targets, Total)]
  <2> PICK t : t = First(q.targets, Total)
    OBVIOUS
  <2>1. t \in Seq(Shards) /\ t \in Seq(0 .. N) /\ Len(t) <= Total /\ Len(t) <= Len(q.targets)
    BY <1>0, FirstType, Sizes, InOrderType
  <2>2. x = [q EXCEPT !.pc = "collect", !.todo = t]
    BY <1>3
  <2>3. /\ x.pc = "collect" /\ x.op = q.op /\ x.todo = t /\ x.targets = q.targets /\ x.good = 0 /\ x.bad = 0
        /\ x.legs = q.legs
    BY <1>0, <2>2 DEF Call
  <2>4. x \in Call
    BY <1>0, <2>1, <2>2 DEF Call
  <2>5. q.legs \subseteq 1 .. Len(q.targets)
    BY DEF Shape, Ranked
  <2> QED BY <1>0, <2>1, <2>3, <2>4, <2>5 DEF Shape, Counts, Ranked, Known, Migrating, Checking
<1>4. CASE q.todo # << >> /\ x = [q EXCEPT !.todo = Tail(@)]
  <2> PICK t : t = Tail(q.todo)
    OBVIOUS
  <2>1. t \in Seq(Shards) /\ t \in Seq(0 .. N)
    BY <1>0, <1>4, TailType, InOrderType
  <2>2. x = [q EXCEPT !.todo = t]
    BY <1>4
  <2>3. /\ x.pc = "era" /\ x.op = q.op /\ x.todo = t /\ x.targets = q.targets /\ x.legs = q.legs
        /\ x.good = 0 /\ x.bad = 0 /\ q.legs \subseteq 1 .. Len(q.targets)
    BY <1>0, <2>2 DEF Call, Shape, Ranked
  <2>4. x \in Call
    BY <1>0, <2>1, <2>2 DEF Call
  <2> QED BY <1>0, <2>1, <2>3, <2>4 DEF Shape, Counts, Ranked, Known, Migrating, Checking
<1> QED BY <1>1, <1>2, <1>3, <1>4 DEF EraTurn

\* A replica has been asked for its record, or all have.
MirrorTurn(q, s, x) ==
  \/ q.todo = << >> /\ x = [q EXCEPT !.pc = "copy", !.todo = q.targets]
  \/ q.todo # << >> /\ s = Head(q.todo)
     /\ x = [q EXCEPT !.todo = Tail(@), !.targets = IF Has(s) THEN @ ELSE Append(@, s)]

LEMMA MirrorShape ==
  ASSUME NEW q, Shape(q), q.pc = "mirror", NEW s, NEW x, MirrorTurn(q, s, x)
  PROVE  Shape(x) /\ Plan(x, ranking)
<1>0. /\ q \in Call /\ q.op # "delete" /\ q.todo \in Seq(Shards) /\ q.good = 0 /\ q.bad = 0 /\ q.body \in Stored
      /\ q.targets \in Seq(Shards) /\ Len(q.targets) <= N /\ Len(q.targets) + Len(q.todo) <= N
  BY DEF Shape, Counts, Call, Known
<1> PICK m, n : m = Len(q.todo) /\ n = Len(q.targets)
  OBVIOUS
<1>1. m \in Nat /\ n \in Nat /\ N \in Nat /\ n + m <= N
  BY <1>0, Sizes, LenProperties
<1>2. CASE q.todo = << >> /\ x = [q EXCEPT !.pc = "copy", !.todo = q.targets]
  <2>1. q.targets \in Seq(0 .. N)
    BY <1>0, InOrderType
  <2>2. /\ x.pc = "copy" /\ x.op = q.op /\ x.todo = q.targets /\ x.targets = q.targets /\ x.good = 0 /\ x.bad = 0
        /\ x.body = q.body
    BY <1>0, <1>2 DEF Call
  <2>3. x \in Call
    BY <1>0, <1>2, <2>1 DEF Call
  <2>4. x.good + x.bad + Len(x.todo) <= N
    BY <1>0, <1>1, <2>2
  <2> QED BY <1>0, <2>2, <2>3, <2>4 DEF Shape, Counts, Ranked, Known, Migrating, Plan, Checking
<1>3. ASSUME q.todo # << >>, s = Head(q.todo), NEW u \in {q.targets, Append(q.targets, s)},
             x = [q EXCEPT !.todo = Tail(@), !.targets = u]
      PROVE  Shape(x) /\ Plan(x, ranking)
  <2> PICK t : t = Tail(q.todo)
    OBVIOUS
  <2>1. t \in Seq(Shards) /\ t \in Seq(0 .. N) /\ Len(t) = m - 1 /\ m \in Nat \ {0} /\ s \in Shards
    BY <1>0, <1>3, TailType, InOrderType
  <2>2. u \in Seq(Shards) /\ Len(u) \in {n, n + 1}
    <3>1. CASE u = q.targets
      BY <1>0, <3>1
    <3>2. CASE u = Append(q.targets, s)
      <4> PICK v : v = q.targets
        OBVIOUS
      <4>1. v \in Seq(Shards) /\ s \in Shards /\ u = Append(v, s) /\ n = Len(v)
        BY <1>0, <2>1, <3>2
      <4> QED BY ONLY <4>1, AppendProperties
    <3> QED BY <3>1, <3>2
  <2>3. Len(u) + Len(t) <= N /\ Len(u) <= N
    <3>1. \A k \in {n, n + 1} : k + (m - 1) <= N /\ k <= N
      BY ONLY <1>1, <2>1
    <3> QED BY <2>1, <2>2, <3>1
  <2>4. x = [q EXCEPT !.todo = t, !.targets = u]
    BY <1>3
  <2>5. /\ x.pc = "mirror" /\ x.op = q.op /\ x.todo = t /\ x.targets = u /\ x.good = 0 /\ x.bad = 0 /\ x.body = q.body
    BY <1>0, <2>4 DEF Call
  <2>6. x \in Call
    BY <1>0, <2>1, <2>2, <2>4 DEF Call
  <2> QED BY <1>0, <2>1, <2>3, <2>5, <2>6 DEF Shape, Counts, Ranked, Known, Migrating, Plan, Checking
<1> QED BY <1>2, <1>3 DEF MirrorTurn

\* Enough pieces, or too few.
CollectTurn(q, x) ==
  \/ /\ Cardinality(Present(q.slots)) >= K
     /\ \E w \in {"end", "rebuild"} : x = [q EXCEPT !.pc = w, !.body = ec_decode(q.slots)]
  \/ x = [q EXCEPT !.pc = "strays", !.todo = Without(InOrder, Range(q.targets))]
  \/ \E c \in CellSet : q.todo # << >> /\ q.pc = "strays" /\ x = [q EXCEPT !.todo = Tail(@), !.slots = Fill(@, c)]
  \/ x = [q EXCEPT !.pc = "end", !.bad = 1]

LEMMA CollectShape ==
  ASSUME NEW q, Shape(q), q.pc \in {"collect", "strays"}, NEW x, CollectTurn(q, x)
  PROVE  Shape(x) /\ x.pc \in Checking \cup Free \cup {"mirror"} /\ x.targets = q.targets
<1>0. /\ q \in Call /\ q.op # "delete" /\ q.todo \in Seq(Shards) /\ Len(q.targets) <= N /\ q.good = 0 /\ q.bad = 0
      /\ q.targets \in Seq(Shards) /\ q.legs \subseteq 1 .. Len(q.targets) /\ q.legs \in SUBSET Pieces
      /\ q.slots \in [Pieces -> CellSet]
  BY DEF Shape, Counts, Call, Ranked
<1>1. ASSUME Cardinality(Present(q.slots)) >= K, NEW w \in {"end", "rebuild"},
             x = [q EXCEPT !.pc = w, !.body = ec_decode(q.slots)]
      PROVE  Shape(x) /\ x.pc \in Checking \cup Free \cup {"mirror"} /\ x.targets = q.targets
  <2> PICK b : b = ec_decode(q.slots)
    OBVIOUS
  <2>1. b \in Stored
    BY <1>0, <1>1, DecodeType
  <2>2. x = [q EXCEPT !.pc = w, !.body = b]
    BY <1>1
  <2>3. /\ x.pc = w /\ x.op = q.op /\ x.todo = q.todo /\ x.targets = q.targets /\ x.body = b /\ x.legs = q.legs
        /\ x.good = 0 /\ x.bad = 0
    BY <1>0, <2>2 DEF Call
  <2>4. x \in Call
    BY <1>0, <2>1, <2>2 DEF Call
  <2>5. x.good + x.bad + Cardinality(x.legs) <= Total
    <3> PICK m : m = Cardinality(q.legs)
      OBVIOUS
    <3>1. m \in Nat /\ m <= Total /\ Total \in Nat
      BY <1>0, PiecesFinite, Sizes
    <3>2. x.good = 0 /\ x.bad = 0 /\ Cardinality(x.legs) = m
      BY <2>3
    <3> QED BY ONLY <3>1, <3>2
  <2> QED BY <1>0, <2>1, <2>3, <2>4, <2>5 DEF Shape, Counts, Ranked, Known, Migrating, Checking, Free
<1>2. CASE x = [q EXCEPT !.pc = "strays", !.todo = Without(InOrder, Range(q.targets))]
  <2> PICK w : w = Without(InOrder, Range(q.targets))
    OBVIOUS
  <2>1. w \in Seq(Shards) /\ w \in Seq(0 .. N)
    BY InOrderType, WithoutShards
  <2>2. x = [q EXCEPT !.pc = "strays", !.todo = w]
    BY <1>2
  <2>3. /\ x.pc = "strays" /\ x.op = q.op /\ x.todo = w /\ x.targets = q.targets /\ x.legs = q.legs
        /\ x.good = 0 /\ x.bad = 0
    BY <1>0, <2>2 DEF Call
  <2>4. x \in Call
    BY <1>0, <2>1, <2>2 DEF Call
  <2> QED BY <1>0, <2>1, <2>3, <2>4 DEF Shape, Counts, Ranked, Known, Migrating, Checking
<1>3. ASSUME NEW c \in CellSet, q.todo # << >>, q.pc = "strays", x = [q EXCEPT !.todo = Tail(@), !.slots = Fill(@, c)]
      PROVE  Shape(x) /\ x.pc \in Checking \cup Free \cup {"mirror"} /\ x.targets = q.targets
  <2> PICK t, f : t = Tail(q.todo) /\ f = Fill(q.slots, c)
    OBVIOUS
  <2>1. t \in Seq(Shards) /\ t \in Seq(0 .. N)
    BY <1>0, <1>3, TailType, InOrderType
  <2>2. f \in [Pieces -> CellSet]
    BY <1>0, FillType
  <2>3. x = [q EXCEPT !.todo = t, !.slots = f]
    BY <1>3
  <2>4. /\ x.pc = "strays" /\ x.op = q.op /\ x.todo = t /\ x.targets = q.targets /\ x.legs = q.legs
        /\ x.good = 0 /\ x.bad = 0
    BY <1>0, <1>3, <2>3 DEF Call
  <2>5. x \in Call
    BY <1>0, <2>1, <2>2, <2>3 DEF Call
  <2> QED BY <1>0, <2>1, <2>4, <2>5 DEF Shape, Counts, Ranked, Known, Migrating, Checking
<1>4. CASE x = [q EXCEPT !.pc = "end", !.bad = 1]
  <2>1. x.pc = "end" /\ x.op = q.op /\ x.todo = q.todo /\ x.targets = q.targets
    BY <1>0, <1>4 DEF Call
  <2>2. 1 \in 0 .. N
    BY Sizes
  <2>3. x \in Call
    BY <1>0, <1>4, <2>2 DEF Call
  <2> QED BY <1>0, <2>1, <2>3, FreeShape DEF Free
<1> QED BY <1>1, <1>2, <1>3, <1>4 DEF CollectTurn

\* A piece is rebuilt, and counted or not.
RebuildTurn(q, r, s) == Counted([q EXCEPT !.legs = @ \ {r}], s)

LEMMA RebuildShape ==
  ASSUME NEW q, Shape(q), q.pc = "rebuild", NEW r \in q.legs, NEW s, NEW x, x = RebuildTurn(q, r, s)
  PROVE  Shape(x) /\ x.pc = "rebuild" /\ x.targets = q.targets
<1> PICK g, b, m : g = q.good /\ b = q.bad /\ m = Cardinality(q.legs)
  OBVIOUS
<1>0. /\ q \in Call /\ q.op # "delete" /\ q.todo \in Seq(Shards) /\ Len(q.targets) <= N
      /\ q.legs \subseteq 1 .. Len(q.targets) /\ q.legs \in SUBSET Pieces /\ q.body \in Stored
      /\ g + b + m <= Total /\ g \in Nat /\ b \in Nat
  BY Sizes DEF Shape, Counts, Call, Ranked, Known
<1>1. m \in Nat /\ m >= 1 /\ Cardinality(q.legs \ {r}) = m - 1
  <2>1. Cardinality(q.legs \ {r}) = m - 1 /\ m \in Nat
    BY <1>0, PiecesFinite, FS_RemoveElement
  <2>2. q.legs \ {r} \in SUBSET Pieces
    BY <1>0
  <2> QED BY <2>1, <2>2, PiecesFinite
<1>2. ASSUME NEW h \in Nat, NEW c \in Nat, h + c = g + b + 1, x = [q EXCEPT !.legs = @ \ {r}, !.good = h, !.bad = c]
      PROVE  Shape(x) /\ x.pc = "rebuild" /\ x.targets = q.targets
  <2>1. h + c + (m - 1) <= Total /\ h \in 0 .. N /\ c \in 0 .. N
    <3>1. /\ g \in Nat /\ b \in Nat /\ m \in Nat /\ m >= 1 /\ h \in Nat /\ c \in Nat /\ N \in Nat /\ Total \in Nat
          /\ g + b + m <= Total /\ h + c = g + b + 1 /\ Total <= N
      BY <1>0, <1>1, <1>2, Sizes
    <3> QED BY ONLY <3>1
  <2>2. /\ x.pc = q.pc /\ x.op = q.op /\ x.todo = q.todo /\ x.targets = q.targets /\ x.good = h /\ x.bad = c /\ x.body = q.body
        /\ x.legs = q.legs \ {r}
    BY <1>0, <1>2 DEF Call
  <2>3. x \in Call
    BY <1>0, <1>1, <1>2, <2>1 DEF Call
  <2>4. x.good + x.bad + Cardinality(x.legs) <= Total
    <3>1. x.good + x.bad + Cardinality(x.legs) = h + c + (m - 1)
      BY <1>1, <2>2
    <3> QED BY <2>1, <3>1
  <2> QED BY <1>0, <2>2, <2>3, <2>4 DEF Shape, Counts, Ranked, Known, Migrating
<1>3. CASE s \in down
  <2>1. x = [q EXCEPT !.legs = @ \ {r}, !.good = g, !.bad = b + 1]
    BY <1>0, <1>3 DEF Call, RebuildTurn, Counted
  <2>2. b + 1 \in Nat /\ g + (b + 1) = g + b + 1
    BY <1>0
  <2> QED BY <1>0, <1>2, <2>1, <2>2
<1>4. CASE s \notin down
  <2>1. x = [q EXCEPT !.legs = @ \ {r}, !.good = g + 1, !.bad = b]
    BY <1>0, <1>4 DEF Call, RebuildTurn, Counted
  <2>2. g + 1 \in Nat /\ (g + 1) + b = g + b + 1
    BY <1>0
  <2> QED BY <1>0, <1>2, <2>1, <2>2
<1> QED BY <1>3, <1>4

\* A scrub that waits to delete a record of shard s.
DropOf(s) == [Idle EXCEPT !.op = "scrub", !.pc = "drop", !.todo = <<s>>]

LEMMA DropShape ==
  ASSUME NEW s \in Shards
  PROVE  Shape(DropOf(s)) /\ \A rk : Plan(DropOf(s), rk)
<1> PICK x, t : t = <<s>> /\ x = [Idle EXCEPT !.op = "scrub", !.pc = "drop", !.todo = t]
  OBVIOUS
<1>1. x.op = "scrub" /\ x.pc = "drop" /\ x.todo = t /\ x.targets = << >>
  BY DEF Idle
<1>2. t \in Seq(Shards) /\ t \in Seq(0 .. N) /\ t # << >> /\ Len(<< >>) <= N
  <2>1. t \in Seq(Shards) /\ t # << >>
    OBVIOUS
  <2>2. Len(<< >>) <= N
    <3>1. Len(<< >>) = 0 /\ N \in Nat
      BY Sizes
    <3> QED BY <3>1
  <2>3. t \in Seq(0 .. N)
    BY <2>1, InOrderType
  <2> QED BY <2>1, <2>2, <2>3
<1>3. x \in Call
  BY <1>2, IdleShape DEF Call
<1>4. Shape(x) /\ \A rk : Plan(x, rk)
  BY <1>1, <1>2, <1>3 DEF Shape, Counts, Ranked, Known, Migrating, Checking, Plan
<1> QED BY <1>4 DEF DropOf

LEMMA RepairBegins ==
  ASSUME PoolInv, NEW p \in Procs, StartDrain(p) \/ StartResilver(p) \/ StartScrub(p)
  PROVE  \E x : Turn(p, x)
<1>0. ranking \in Rankings /\ mrf \in BOOLEAN
  BY Planned
<1>1. \A o \in {"drain", "resilver", "scrub"} : Shape(Check(o)) /\ Plan(Check(o), ranking)
  BY <1>0, CheckShape
<1>2. CASE StartDrain(p)
  BY <1>1, <1>2 DEF StartDrain, Begin, Turn, CellStep, data, history
<1>3. CASE StartResilver(p)
  BY <1>0, <1>1, <1>3 DEF StartResilver, Begin, Turn, CellStep, data, history
<1>4. CASE StartScrub(p)
  <2> PICK s \in Shards \ down : Begin(p, DropOf(s)) /\ UNCHANGED <<data, mrf, history>>
    BY <1>4 DEF StartScrub, DropOf
  <2>1. Shape(DropOf(s)) /\ Plan(DropOf(s), ranking)
    BY DropShape
  <2> QED BY <1>0, <2>1 DEF Begin, Turn, CellStep, data, history
<1> QED BY <1>2, <1>3, <1>4

\* The list to find the era in.
EraList(q) == [q EXCEPT !.pc = "era", !.todo = q.targets \o Without(InOrder, Range(q.targets)), !.legs = {}]

LEMMA EraListShape ==
  ASSUME NEW q, Shape(q), q.pc = "has",
         NEW x, x = EraList(q)
  PROVE  Shape(x) /\ x.pc = "era" /\ x.targets = q.targets
<1>0. /\ q \in Call /\ q.op # "delete" /\ Len(q.targets) <= N /\ q.good = 0 /\ q.bad = 0 /\ q.targets \in Seq(Shards)
  BY DEF Shape, Counts, Call
<1> PICK w : w = Without(InOrder, Range(q.targets))
  OBVIOUS
<1> PICK t : t = q.targets \o w
  OBVIOUS
<1>1. t \in Seq(Shards) /\ t \in Seq(0 .. N)
  <2>1. w \in Seq(Shards)
    BY InOrderType, WithoutShards
  <2>2. t \in Seq(Shards)
    BY <1>0, <2>1, ConcatProperties
  <2> QED BY <2>2, InOrderType
<1>2. x = [q EXCEPT !.pc = "era", !.todo = t, !.legs = {}]
  BY DEF EraList
<1>3. x.pc = "era" /\ x.op = q.op /\ x.todo = t /\ x.targets = q.targets /\ x.legs = {} /\ x.good = 0 /\ x.bad = 0
  BY <1>0, <1>2 DEF Call
<1>4. x \in Call
  BY <1>0, <1>1, <1>2 DEF Call
<1> QED BY <1>0, <1>1, <1>3, <1>4 DEF Shape, Counts, Ranked, Known, Migrating

LEMMA RepairSteps ==
  ASSUME PoolInv, NEW p \in Procs, RepairStep(p)
  PROVE  \E x : Turn(p, x)
<1> PICK q : q = proc[p]
  OBVIOUS
<1>0. /\ Shape(q) /\ q \in Call /\ ranking \in Rankings /\ ranking \in Seq(Shards) /\ mrf \in BOOLEAN
      /\ cell \in [Shards -> CellSet] /\ (~ moved => Plan(q, ranking))
      /\ q.pc # "legs" => q.todo \in Seq(Shards)
  BY Planned DEF PoolInv, Shape
<1>1. ASSUME NEW x, proc' = [proc EXCEPT ![p] = x], Shape(x), ~ moved => Plan(x, ranking), UNCHANGED <<data, mrf, history>>
      PROVE  \E y : Turn(p, y)
  BY <1>0, <1>1 DEF Turn, CellStep, data, history
<1>2. ASSUME NEW x, Become(p, x), Shape(x), q.pc \in Checking, x.pc \in Checking \cup Free \cup {"mirror"},
             x.pc \in Checking => x.targets = q.targets, UNCHANGED <<data, mrf, history>>
      PROVE  \E y : Turn(p, y)
  <2>1. ~ moved => Plan(x, ranking)
    BY <1>0, <1>2, PlanKept
  <2> QED BY <1>1, <1>2, <2>1 DEF Become
<1>3. ASSUME HasNext(p) PROVE \E x : Turn(p, x)
  <2> PICK l : /\ l = q.legs \/ l = q.legs \cup {Min({Total, Len(q.targets)}) - Len(q.todo) + 1}
              /\ Become(p, [q EXCEPT !.todo = Tail(@), !.legs = l])
    BY <1>3 DEF HasNext
  <2> PICK f : f = q.slots
    OBVIOUS
  <2> PICK x : x = Looked(q, f, l)
    OBVIOUS
  <2>0. q.pc = "has" /\ q.todo # << >> /\ UNCHANGED <<data, mrf, history>>
    BY <1>3 DEF HasNext
  <2>1. f \in [Pieces -> CellSet]
    BY <1>0 DEF Call
  <2>2. [q EXCEPT !.todo = Tail(@), !.legs = l] = x
    <3> PICK t : t = Tail(q.todo)
      OBVIOUS
    <3>1. [q EXCEPT !.todo = t, !.legs = l] = [q EXCEPT !.todo = t, !.slots = f, !.legs = l]
      BY <1>0 DEF Call
    <3> QED BY <3>1 DEF Looked
  <2>3. Shape(x) /\ x.pc = q.pc /\ x.targets = q.targets
    <3>1. l = q.legs \/ l = q.legs \cup {Min({Total, Len(q.targets)}) - Len(q.todo) + 1}
      OBVIOUS
    <3>2. x = Looked(q, f, l) /\ Shape(q) /\ q.pc \in {"has", "collect"} /\ q.todo # << >>
      BY <1>0, <2>0
    <3> QED BY ONLY <2>1, <3>1, <3>2, LookedShape
  <2> QED BY <1>2, <2>0, <2>2, <2>3 DEF Checking
<1>4. ASSUME Diagnose(p) PROVE \E x : Turn(p, x)
  <2>0. q.pc = "has" /\ UNCHANGED <<data, mrf, history>>
    BY <1>4 DEF Diagnose
  <2>1. CASE Healthy(q)
    <3> PICK x : x = [q EXCEPT !.pc = "end"]
      OBVIOUS
    <3>1. x.pc = "end" /\ x.op = q.op /\ x.todo = q.todo /\ x.targets = q.targets /\ x \in Call
      <4>1. q \in Call /\ x = [q EXCEPT !.pc = "end"]
        BY <1>0
      <4>2. x \in Call
        BY ONLY <4>1 DEF Call
      <4>3. x.pc = "end" /\ x.op = q.op /\ x.todo = q.todo /\ x.targets = q.targets
        BY ONLY <4>1 DEF Call
      <4> QED BY <4>2, <4>3
    <3>2. q.op # "delete" /\ Len(q.targets) <= N /\ q.todo \in Seq(Shards)
      BY <1>0, <2>0 DEF Shape
    <3>3. Shape(x)
      BY <3>1, <3>2, FreeShape DEF Free
    <3>4. Become(p, x)
      BY <1>4, <2>1 DEF Diagnose
    <3> QED BY <1>2, <2>0, <3>1, <3>3, <3>4 DEF Checking, Free
  <2>2. CASE ~ Healthy(q)
    <3> PICK x : x = EraList(q)
      OBVIOUS
    <3>1. Become(p, x)
      BY <1>4, <2>2 DEF Diagnose, EraList
    <3>2. Shape(x) /\ x.pc = "era" /\ x.targets = q.targets
      BY <1>0, <2>0, EraListShape
    <3> QED BY <1>2, <2>0, <3>1, <3>2 DEF Checking
  <2> QED BY <2>1, <2>2
<1>5. ASSUME Era(p) PROVE \E x : Turn(p, x)
  <2> PICK c : c = Get(Head(q.todo))
    OBVIOUS
  <2>0. q.pc = "era" /\ UNCHANGED <<data, mrf, history>>
    BY <1>5 DEF Era
  <2>1. q.todo # << >> => c \in CellSet
    BY <1>0, <2>0, TailType, GetType
  <2>2. \E x : Become(p, x) /\ EraTurn(q, c, x)
    BY <1>5 DEF Era, EraTurn
  <2> PICK x : Become(p, x) /\ EraTurn(q, c, x)
    BY <2>2
  <2>3. Shape(x) /\ x.pc \in Checking \cup Free \cup {"mirror"} /\ (x.pc \in Checking => x.targets = q.targets)
    <3>1. Shape(q) /\ q.pc = "era" /\ EraTurn(q, c, x) /\ ranking \in Seq(Shards) /\ (q.todo # << >> => c \in CellSet)
      BY <1>0, <2>0, <2>1
    <3> QED BY ONLY <3>1, EraShape
  <2> QED BY <1>2, <2>0, <2>3 DEF Checking
<1>6. ASSUME MirrorPut(p) PROVE \E x : Turn(p, x)
  <2> PICK s : s = Head(q.todo)
    OBVIOUS
  <2> PICK y, x : y = [q EXCEPT !.todo = Tail(@)] /\ x = Counted(y, s)
    OBVIOUS
  <2>0. /\ q.pc = "copy" /\ q.todo # << >> /\ Store(s, Whole(q.body)) /\ Become(p, x)
        /\ UNCHANGED <<down, ranking, mrf, history>>
    BY <1>6 DEF MirrorPut
  <2>1. s \in Shards /\ q.body \in Stored
    BY <1>0, <2>0, TailType DEF Shape, Known
  <2>2. CellStep
    <3>1. 1 \in Pieces
      BY Sizes DEF Pieces
    <3>2. Whole(q.body) \in CellSet /\ AtHome(s, Whole(q.body))
      BY <2>1, <3>1, PieceType, BodyIsHome
    <3> QED BY <2>0, <2>1, <3>2, StoreStep
  <2>3. Shape(x) /\ Plan(x, ranking)
    BY <1>0, <2>0, CountShape
  <2> QED BY <1>0, <2>0, <2>2, <2>3 DEF Become, Turn, history
<1>11. ASSUME MirrorHas(p) PROVE \E x : Turn(p, x)
  <2> PICK s : s = Head(q.todo)
    OBVIOUS
  <2>0. q.pc = "mirror" /\ UNCHANGED <<data, mrf, history>>
    BY <1>11 DEF MirrorHas
  <2>1. \E x : Become(p, x) /\ MirrorTurn(q, s, x)
    BY <1>11 DEF MirrorHas, MirrorTurn
  <2> PICK x : Become(p, x) /\ MirrorTurn(q, s, x)
    BY <2>1
  <2>2. Shape(x) /\ Plan(x, ranking)
    BY <1>0, <2>0, MirrorShape
  <2> QED BY <1>1, <2>0, <2>2 DEF Become
<1>12. ASSUME Drop(p) PROVE \E x : Turn(p, x)
  <2> PICK s : s = Head(q.todo)
    OBVIOUS
  <2>0. q.pc = "drop" /\ Store(s, Empty) /\ Become(p, Check("scrub")) /\ UNCHANGED <<down, ranking, mrf, history>>
    BY <1>12 DEF Drop
  <2>1. s \in Shards
    BY <1>0, <2>0, TailType DEF Shape, Counts
  <2>2. CellStep
    BY <2>0, <2>1, StoreStep, BodyIsHome DEF Empty, CellSet
  <2>3. Shape(Check("scrub")) /\ Plan(Check("scrub"), ranking)
    BY <1>0, CheckShape
  <2> QED BY <1>0, <2>0, <2>2, <2>3 DEF Become, Turn, history
<1>7. ASSUME Collect(p) PROVE \E x : Turn(p, x)
  <2> PICK c : c = Get(Head(q.todo))
    OBVIOUS
  <2> PICK f : f = Fill(q.slots, c)
    OBVIOUS
  <2> PICK l : /\ l = q.legs \/ l = q.legs \cup {Min({Total, Len(q.targets)}) - Len(q.todo) + 1}
              /\ Become(p, [q EXCEPT !.todo = Tail(@), !.slots = Fill(@, c), !.legs = l])
    BY <1>7 DEF Collect
  <2> PICK x : x = Looked(q, f, l)
    OBVIOUS
  <2>0. q.pc = "collect" /\ q.todo # << >> /\ UNCHANGED <<data, mrf, history>>
    BY <1>7 DEF Collect
  <2>1. f \in [Pieces -> CellSet]
    <3>1. c \in CellSet
      BY <1>0, <2>0, TailType, GetType
    <3> QED BY <1>0, <3>1, FillType DEF Call
  <2>3. Shape(x) /\ x.pc = q.pc /\ x.targets = q.targets
    <3>1. l = q.legs \/ l = q.legs \cup {Min({Total, Len(q.targets)}) - Len(q.todo) + 1}
      OBVIOUS
    <3>2. x = Looked(q, f, l) /\ Shape(q) /\ q.pc \in {"has", "collect"} /\ q.todo # << >>
      BY <1>0, <2>0
    <3> QED BY ONLY <2>1, <3>1, <3>2, LookedShape
  <2>4. Become(p, x)
    BY DEF Looked
  <2> QED BY <1>2, <2>0, <2>3, <2>4 DEF Checking
<1>8. ASSUME CollectStray(p) \/ StrayNext(p) PROVE \E x : Turn(p, x)
  <2>0. q.pc \in {"collect", "strays"} /\ UNCHANGED <<data, mrf, history>>
    BY <1>8 DEF CollectStray, StrayNext
  <2>1. \E x : Become(p, x) /\ CollectTurn(q, x)
    <3>1. CASE CollectStray(p)
      BY <3>1 DEF CollectStray, CollectTurn
    <3>2. CASE StrayNext(p)
      <4>1. CASE q.todo # << >>
        <5> PICK c : c = Get(Head(q.todo))
          OBVIOUS
        <5>1. c \in CellSet
          BY <1>0, <2>0, <4>1, TailType, GetType
        <5>2. Become(p, [q EXCEPT !.todo = Tail(@), !.slots = Fill(@, c)]) /\ q.pc = "strays"
          BY <3>2, <4>1 DEF StrayNext
        <5> QED BY <4>1, <5>1, <5>2 DEF CollectTurn
      <4>2. CASE q.todo = << >>
        <5>1. CASE Cardinality(Present(q.slots)) < K
          BY <3>2, <4>2, <5>1 DEF StrayNext, CollectTurn
        <5>2. CASE ~ (Cardinality(Present(q.slots)) < K)
          <6>1. Cardinality(Present(q.slots)) >= K
            <7>1. Present(q.slots) \in SUBSET Pieces
              BY DEF Present
            <7> QED BY <5>2, <7>1, PiecesFinite, Sizes
          <6> QED BY <3>2, <4>2, <5>2, <6>1 DEF StrayNext, CollectTurn
        <5> QED BY <5>1, <5>2
      <4> QED BY <4>1, <4>2
    <3> QED BY <1>8, <3>1, <3>2
  <2> PICK x : Become(p, x) /\ CollectTurn(q, x)
    BY <2>1
  <2>2. Shape(x) /\ x.pc \in Checking \cup Free \cup {"mirror"} /\ x.targets = q.targets
    BY <1>0, <2>0, CollectShape
  <2> QED BY <1>2, <2>0, <2>2 DEF Checking
<1>9. ASSUME Rebuild(p) PROVE \E x : Turn(p, x)
  <2> PICK r : r = Min(q.legs)
    OBVIOUS
  <2> PICK s : s = q.targets[r]
    OBVIOUS
  <2> PICK x : x = RebuildTurn(q, r, s)
    OBVIOUS
  <2>0. /\ q.pc = "rebuild" /\ q.legs # {} /\ Store(s, Piece(q.body, r)) /\ Become(p, x)
        /\ UNCHANGED <<down, ranking, mrf, history>>
    BY <1>9 DEF Rebuild, RebuildTurn
  <2>1. q.legs \in SUBSET Pieces /\ q.legs \subseteq 1 .. Len(q.targets) /\ q.targets \in Seq(Shards) /\ q.body \in Stored
    BY <1>0, <2>0 DEF Shape, Call, Ranked, Known
  <2>2. r \in q.legs /\ r \in Pieces /\ r \in 1 .. Len(q.targets)
    BY <2>0, <2>1, MinPiece
  <2>3. s \in Shards /\ Piece(q.body, r) \in CellSet
    BY <2>1, <2>2, ElementOfSeq, PieceType
  <2>4. ~ moved => AtHome(s, Piece(q.body, r))
    <3>1. ~ moved => q.targets = Probed(ranking)
      BY <1>0, <2>0 DEF Plan, Checking
    <3> QED BY <1>0, <2>1, <2>2, <3>1, RankIsHome
  <2>5. CellStep
    BY <2>0, <2>3, <2>4, StoreStep
  <2>6. Shape(x) /\ x.pc = "rebuild" /\ x.targets = q.targets
    BY <1>0, <2>0, <2>2, RebuildShape
  <2>7. ~ moved => Plan(x, ranking)
    BY <1>0, <2>0, <2>6, PlanKept DEF Checking
  <2> QED BY <1>0, <2>0, <2>5, <2>6, <2>7 DEF Become, Turn, history
<1>10. ASSUME EndRepair(p) PROVE \E x : Turn(p, x)
  BY <1>0, <1>10, IdleShape, IdlePlan DEF EndRepair, Finish, Turn, CellStep, data, history
<1> QED BY <1>3, <1>4, <1>5, <1>6, <1>7, <1>8, <1>9, <1>10, <1>11, <1>12 DEF RepairStep

-----------------------------------------------------------------------------
(* migrate_key. *)

\* What a step of a migration makes of its call.
Onward(q, w, b, t, l) == [q EXCEPT !.pc = w, !.body = b, !.todo = t, !.legs = l]

Fits(w, b, t, l) ==
  /\ w \in Migrating \cup {"end"} /\ b \in Stored \cup {"none"} /\ (w \in Known => b \in Stored)
  /\ t \in Seq(Shards) /\ l \in SUBSET Pieces

LEMMA OnwardShape ==
  ASSUME NEW q, Shape(q), q.pc \in Migrating, NEW w, NEW b, NEW t, NEW l, Fits(w, b, t, l),
         NEW x, x = Onward(q, w, b, t, l)
  PROVE  Shape(x) /\ \A rk : Plan(q, rk) => Plan(x, rk)
<1> USE DEF Fits
<1>0. q \in Call /\ q.op # "delete" /\ Len(q.targets) <= N /\ Len(q.targets) = Total
  BY DEF Shape, Migrating
<1>1. x.pc = w /\ x.op = q.op /\ x.body = b /\ x.todo = t /\ x.targets = q.targets
  BY <1>0 DEF Call, Onward
<1>2. t \in Seq(0 .. N)
  BY InOrderType
<1>3. x \in Call
  BY <1>0, <1>2 DEF Call, Onward, Migrating
<1>4. w \notin {"legs", "handoff", "probe", "has", "collect", "era", "strays", "del", "drop", "mirror", "copy", "rebuild", "data",
             "parity"}
  BY DEF Migrating
<1>5. Counts(x)
  BY <1>1, <1>4 DEF Counts
<1>6. Shape(x)
  BY <1>0, <1>1, <1>3, <1>4, <1>5 DEF Shape, Ranked
<1>7. ASSUME NEW rk, Plan(q, rk) PROVE Plan(x, rk)
  <2>1. q.targets = Targets(rk)
    BY <1>7 DEF Plan
  <2> QED BY <1>1, <1>4, <2>1 DEF Plan, Checking
<1> QED BY <1>6, <1>7

\* The list of tail ranks.
LEMMA TailRanksType ==
  ASSUME NEW t \in Seq(Shards), Len(t) = Total
  PROVE  SubSeq(t, Legs + 1, Total) \in Seq(Shards)
<1>1. Legs + 1 \in Nat /\ Legs + 1 >= 1 /\ Total \in Nat
  BY Sizes
<1>2. \A i \in (Legs + 1) .. Total : t[i] \in Shards
  <2> TAKE i \in (Legs + 1) .. Total
  <2>1. i \in 1 .. Len(t)
    BY <1>1
  <2> QED BY <2>1, ElementOfSeq
<1>3. Legs + 1 \in 1 .. Total + 1
  BY Sizes
<1> QED BY <1>1, <1>2, <1>3, SubSeqProperties

LEMMA MigrateBegins ==
  ASSUME PoolInv, NEW p \in Procs, StartMigrate(p)
  PROVE  \E x : Turn(p, x)
<1> PICK t, u : t = Targets(ranking) /\ u = SubSeq(Targets(ranking), Legs + 1, Total)
  OBVIOUS
<1> PICK x : x = [Idle EXCEPT !.op = "migrate", !.pc = "tail", !.targets = t, !.todo = u]
  OBVIOUS
<1>0. ranking \in Rankings /\ mrf \in BOOLEAN /\ Len(t) = Total /\ proc' = [proc EXCEPT ![p] = x] /\ UNCHANGED <<data, mrf, history>>
  BY Planned DEF StartMigrate, Begin
<1>1. t \in Seq(Shards) /\ u \in Seq(Shards) /\ u \in Seq(0 .. N) /\ Len(t) <= N
  BY <1>0, TargetsType, TailRanksType, InOrderType, Sizes
<1>2. x.op = "migrate" /\ x.pc = "tail" /\ x.targets = t /\ x.todo = u
  BY DEF Idle
<1>3. x \in Call
  BY <1>1, IdleShape DEF Call
<1>4. Shape(x)
  BY <1>0, <1>1, <1>2, <1>3 DEF Shape, Counts, Ranked, Known, Migrating
<1>5. Plan(x, ranking)
  BY <1>2 DEF Plan, Checking, Migrating
<1> QED BY <1>0, <1>4, <1>5 DEF Turn, CellStep, data, history

LEMMA MigrateSteps ==
  ASSUME PoolInv, NEW p \in Procs, MigrateStep(p)
  PROVE  \E x : Turn(p, x)
<1> PICK q : q = proc[p]
  OBVIOUS
<1>0. /\ Shape(q) /\ q \in Call /\ ranking \in Rankings /\ mrf \in BOOLEAN
      /\ cell \in [Shards -> CellSet] /\ (~ moved => Plan(q, ranking))
      /\ q.pc # "legs" => q.todo \in Seq(Shards)
      /\ q.legs \in SUBSET Pieces /\ q.body \in Stored \cup {"none"} /\ q.targets \in Seq(Shards)
  BY Planned DEF PoolInv, Shape, Call
<1>a. q.pc \in Migrating => q.todo \in Seq(Shards) /\ Len(q.targets) = Total
  BY <1>0 DEF Shape, Migrating
<1>b. (Legs + 1) .. Total \in SUBSET Pieces /\ 1 .. Legs \in SUBSET Pieces /\ << >> \in Seq(Shards)
  BY RankSets, RangeType
<1>1. ASSUME q.pc \in Migrating, NEW w \in Migrating \cup {"end"}, NEW b \in Stored \cup {"none"}, w \in Known => b \in Stored,
             NEW t \in Seq(Shards), NEW l \in SUBSET Pieces, Become(p, Onward(q, w, b, t, l)),
             UNCHANGED <<down, ranking, history>>, mrf' \in BOOLEAN, CellStep
      PROVE  \E y : Turn(p, y)
  <2> PICK x : x = Onward(q, w, b, t, l)
    OBVIOUS
  <2>1. Shape(x) /\ \A rk : Plan(q, rk) => Plan(x, rk)
    <3>1. Shape(q) /\ q.pc \in Migrating /\ Fits(w, b, t, l)
      BY <1>0, <1>1 DEF Fits
    <3>2. x = Onward(q, w, b, t, l)
      OBVIOUS
    <3> QED BY ONLY <3>1, <3>2, OnwardShape
  <2> QED BY <1>0, <1>1, <2>1 DEF Become, Turn, history
<1>2. ASSUME NEW w, NEW t, NEW l
      PROVE  /\ [q EXCEPT !.pc = w] = Onward(q, w, q.body, q.todo, q.legs)
             /\ [q EXCEPT !.pc = w, !.todo = t] = Onward(q, w, q.body, t, q.legs)
             /\ [q EXCEPT !.todo = t] = Onward(q, q.pc, q.body, t, q.legs)
             /\ [q EXCEPT !.pc = w, !.legs = l] = Onward(q, w, q.body, q.todo, l)
             /\ [q EXCEPT !.legs = l] = Onward(q, q.pc, q.body, q.todo, l)
  BY <1>0 DEF Call, Onward
<1>3. ASSUME NEW r \in Pieces, q.targets = Targets(ranking) \/ moved, q.pc \in Migrating, q.body \in Stored,
             Store(q.targets[r], Piece(q.body, r))
      PROVE  CellStep
  <2>1. r \in 1 .. Len(q.targets)
    BY <1>3, <1>a DEF Pieces
  <2>2. q.targets[r] \in Shards /\ Piece(q.body, r) \in CellSet
    BY <1>0, <1>3, <2>1, ElementOfSeq, PieceType
  <2>3. ~ moved => AtHome(q.targets[r], Piece(q.body, r))
    BY <1>0, <1>3, <2>1, RankIsHome
  <2> QED BY <1>3, <2>2, <2>3, StoreStep
<1>4. ASSUME NEW s \in Shards, Store(s, Empty) PROVE CellStep
  BY <1>4, StoreStep, BodyIsHome DEF Empty, CellSet
<1>5. q.pc \in Known => q.body \in Stored
  BY <1>0 DEF Shape
<1>6. q.pc \in Migrating => q.targets = Targets(ranking) \/ moved
  BY <1>0 DEF Plan
<1>7. ASSUME q.pc \in Migrating, NEW w \in Migrating \cup {"end"}, w \in Known => q.body \in Stored,
             NEW t \in Seq(Shards), NEW l \in SUBSET Pieces, Become(p, Onward(q, w, q.body, t, l)), UNCHANGED <<data, mrf, history>>
      PROVE  \E y : Turn(p, y)
  <2>1. UNCHANGED <<down, ranking, history>> /\ mrf' \in BOOLEAN /\ CellStep
    BY <1>0, <1>7 DEF CellStep, data
  <2> QED BY <1>0, <1>1, <1>7, <2>1
<1>8. ASSUME TailNext(p) PROVE \E x : Turn(p, x)
  <2>0. q.pc = "tail" /\ q.todo # << >> /\ UNCHANGED <<data, mrf, history>> /\ q.pc \in Migrating /\ "end" \notin Known /\ "tail" \notin Known
    BY <1>8 DEF TailNext, Migrating, Known
  <2> PICK t : t = Tail(q.todo)
    OBVIOUS
  <2>1. t \in Seq(Shards)
    BY <1>a, <2>0, TailType
  <2>2. CASE Has(Head(q.todo))
    <3>1. Become(p, [q EXCEPT !.pc = "end"])
      BY <1>8, <2>2 DEF TailNext
    <3>2. Become(p, Onward(q, "end", q.body, q.todo, q.legs))
      BY <1>2, <3>1
    <3> QED BY <1>0, <1>a, <1>7, <2>0, <3>2
  <2>3. CASE ~ Has(Head(q.todo))
    <3>1. Become(p, [q EXCEPT !.todo = t])
      BY <1>8, <2>3 DEF TailNext
    <3>2. Become(p, Onward(q, q.pc, q.body, t, q.legs))
      BY <1>2, <3>1
    <3> QED BY <1>0, <1>7, <2>0, <2>1, <3>2
  <2> QED BY <2>2, <2>3
<1>9. ASSUME FindBody(p) PROVE \E x : Turn(p, x)
  <2> PICK t : t = First(q.targets, Legs)
    OBVIOUS
  <2>0. q.pc \in Migrating /\ Become(p, [q EXCEPT !.pc = "body", !.todo = t]) /\ UNCHANGED <<data, mrf, history>>
        /\ "body" \in Migrating /\ "body" \notin Known
    BY <1>9 DEF FindBody, Migrating, Known
  <2>1. t \in Seq(Shards)
    BY <1>0, FirstType, Sizes
  <2>2. Become(p, Onward(q, "body", q.body, t, q.legs))
    BY <1>0, <2>0 DEF Become, Call, Onward
  <2> QED BY <1>0, <1>7, <2>0, <2>1, <2>2
<1>10. ASSUME BodyNext(p) PROVE \E x : Turn(p, x)
  <2> PICK c : c = Get(Head(q.todo))
    OBVIOUS
  <2>0. q.pc = "body" /\ UNCHANGED <<data, mrf, history>> /\ q.pc \in Migrating /\ "end" \notin Known /\ "body" \notin Known
    BY <1>10 DEF BodyNext, Migrating, Known
  <2>1. CASE q.todo = << >> \/ IsPiece(c)
    <3>1. Become(p, [q EXCEPT !.pc = "end"])
      BY <1>10, <2>1 DEF BodyNext
    <3>2. Become(p, Onward(q, "end", q.body, q.todo, q.legs))
      BY <1>2, <3>1
    <3> QED BY <1>0, <1>a, <1>7, <2>0, <3>2
  <2>2. CASE ~ (q.todo = << >> \/ IsPiece(c)) /\ c.i = 0
    <3>1. Become(p, Onward(q, "phase1", c.b, << >>, (Legs + 1) .. Total))
      BY <1>10, <2>2 DEF BodyNext, Onward
    <3>2. c \in CellSet
      BY <1>0, <1>a, <2>0, <2>2, TailType, GetType
    <3>3. c.b \in Stored
      BY <2>2, <3>2, WholeType
    <3>4. "phase1" \in Migrating /\ mrf' \in BOOLEAN /\ CellStep /\ UNCHANGED <<down, ranking, history>>
      BY <1>0, <2>0 DEF Migrating, CellStep, data
    <3> QED BY <1>b, <1>1, <2>0, <3>1, <3>3, <3>4
  <2>3. CASE ~ (q.todo = << >> \/ IsPiece(c)) /\ c.i # 0
    <3> PICK t : t = Tail(q.todo)
      OBVIOUS
    <3>1. Become(p, [q EXCEPT !.todo = t])
      BY <1>10, <2>3 DEF BodyNext
    <3>2. Become(p, Onward(q, q.pc, q.body, t, q.legs))
      BY <1>2, <3>1
    <3>3. t \in Seq(Shards)
      BY <1>a, <2>0, <2>3, TailType
    <3> QED BY <1>0, <1>7, <2>0, <3>2, <3>3
  <2> QED BY <2>1, <2>2, <2>3
<1>11. ASSUME TailPut(p) PROVE \E x : Turn(p, x)
  <2> PICK r : r = Min(q.legs)
    OBVIOUS
  <2> PICK s : s = q.targets[r]
    OBVIOUS
  <2>0. /\ q.pc = "phase1" /\ q.legs # {} /\ Store(s, Piece(q.body, r)) /\ UNCHANGED <<down, ranking, mrf, history>>
        /\ q.pc \in Migrating /\ q.body \in Stored
    BY <1>5, <1>11 DEF TailPut, Migrating, Known
  <2>1. r \in q.legs /\ r \in Pieces
    BY <1>0, <2>0, MinPiece
  <2>2. CellStep
    BY <1>3, <1>6, <2>0, <2>1
  <2>3. CASE s \in down
    <3>1. Become(p, [q EXCEPT !.pc = "rollback", !.legs = (Legs + 1) .. Total])
      BY <1>11, <2>3 DEF TailPut, ToRollback
    <3>2. Become(p, Onward(q, "rollback", q.body, q.todo, (Legs + 1) .. Total))
      BY <1>0, <3>1 DEF Become, Call, Onward
    <3>3. "rollback" \in Migrating /\ mrf' \in BOOLEAN
      BY <1>0, <2>0 DEF Migrating
    <3> QED BY <1>0, <1>a, <1>b, <1>1, <2>0, <2>2, <3>2, <3>3
  <2>4. CASE s \notin down
    <3>1. Become(p, [q EXCEPT !.pc = "canary"])
      BY <1>11, <2>4 DEF TailPut
    <3>2. Become(p, Onward(q, "canary", q.body, q.todo, q.legs))
      BY <1>2, <3>1
    <3>3. "canary" \in Migrating /\ mrf' \in BOOLEAN
      BY <1>0, <2>0 DEF Migrating
    <3> QED BY <1>0, <1>a, <1>1, <2>0, <2>2, <3>2, <3>3
  <2> QED BY <2>3, <2>4
<1>12. ASSUME Canary(p) PROVE \E x : Turn(p, x)
  <2> PICK r : r = Min(q.legs)
    OBVIOUS
  <2>0. q.pc = "canary" /\ UNCHANGED <<data, mrf, history>> /\ q.pc \in Migrating /\ q.body \in Stored
    BY <1>5, <1>12 DEF Canary, Migrating, Known
  <2>1. CASE Get(q.targets[r]) = Piece(q.body, r)
    <3>1. Become(p, [q EXCEPT !.pc = "phase1", !.legs = q.legs \ {r}])
      BY <1>12, <2>1 DEF Canary
    <3>2. Become(p, Onward(q, "phase1", q.body, q.todo, q.legs \ {r}))
      BY <1>0, <3>1 DEF Become, Call, Onward
    <3>3. "phase1" \in Migrating /\ q.legs \ {r} \in SUBSET Pieces
      BY <1>0 DEF Migrating
    <3> QED BY <1>a, <1>7, <2>0, <3>2, <3>3
  <2>2. CASE Get(q.targets[r]) # Piece(q.body, r)
    <3>1. Become(p, [q EXCEPT !.pc = "rollback", !.legs = (Legs + 1) .. Total])
      BY <1>12, <2>2 DEF Canary, ToRollback
    <3>2. Become(p, Onward(q, "rollback", q.body, q.todo, (Legs + 1) .. Total))
      BY <1>0, <3>1 DEF Become, Call, Onward
    <3>3. "rollback" \in Migrating
      BY DEF Migrating
    <3> QED BY <1>a, <1>b, <1>7, <2>0, <3>2, <3>3
  <2> QED BY <2>1, <2>2
<1>13. ASSUME Rollback(p) PROVE \E x : Turn(p, x)
  <2> PICK r : r = Min(q.legs)
    OBVIOUS
  <2>0. /\ q.pc = "rollback" /\ q.legs # {} /\ Store(q.targets[r], Empty) /\ UNCHANGED <<down, ranking, mrf, history>>
        /\ q.pc \in Migrating /\ q.pc \notin Known /\ Become(p, [q EXCEPT !.legs = q.legs \ {r}])
    BY <1>13 DEF Rollback, Migrating, Known
  <2>1. r \in Pieces /\ q.legs \ {r} \in SUBSET Pieces
    BY <1>0, <2>0, MinPiece
  <2>2. q.targets[r] \in Shards
    <3>1. r \in 1 .. Len(q.targets)
      BY <1>a, <2>0, <2>1 DEF Pieces
    <3> QED BY <1>0, <3>1, ElementOfSeq
  <2>3. CellStep
    BY <1>4, <2>0, <2>2
  <2>4. Become(p, Onward(q, q.pc, q.body, q.todo, q.legs \ {r}))
    BY <1>2, <2>0
  <2>5. mrf' \in BOOLEAN
    BY <1>0, <2>0
  <2> QED BY <1>0, <1>a, <1>1, <2>0, <2>1, <2>3, <2>4, <2>5
<1>14. ASSUME StartHeads(p) PROVE \E x : Turn(p, x)
  <2>0. /\ q.pc \in Migrating /\ q.body \in Stored /\ Become(p, [q EXCEPT !.pc = "phase2", !.legs = 1 .. Legs])
        /\ UNCHANGED <<data, mrf, history>> /\ "phase2" \in Migrating
    BY <1>5, <1>14 DEF StartHeads, Migrating, Known
  <2>1. Become(p, Onward(q, "phase2", q.body, q.todo, 1 .. Legs))
    BY <1>0, <2>0 DEF Become, Call, Onward
  <2> QED BY <1>a, <1>b, <1>7, <2>0, <2>1
<1>15. ASSUME HeadPut(p) PROVE \E x : Turn(p, x)
  <2> PICK r : r = Min(q.legs)
    OBVIOUS
  <2> PICK s : s = q.targets[r]
    OBVIOUS
  <2>0. /\ q.pc = "phase2" /\ q.legs # {} /\ Store(s, Piece(q.body, r)) /\ UNCHANGED <<down, ranking, history>>
        /\ q.pc \in Migrating /\ q.body \in Stored /\ mrf' \in BOOLEAN /\ "headcanary" \in Migrating
    BY <1>0, <1>5, <1>15 DEF HeadPut, Migrating, Known
  <2>1. r \in q.legs /\ r \in Pieces /\ q.legs \ {r} \in SUBSET Pieces
    BY <1>0, <2>0, MinPiece
  <2>2. CellStep
    BY <1>3, <1>6, <2>0, <2>1
  <2>3. CASE s \in down
    <3>1. Become(p, [q EXCEPT !.legs = q.legs \ {r}])
      BY <1>15, <2>3 DEF HeadPut
    <3>2. Become(p, Onward(q, q.pc, q.body, q.todo, q.legs \ {r}))
      BY <1>2, <3>1
    <3> QED BY <1>0, <1>a, <1>1, <2>0, <2>1, <2>2, <3>2
  <2>4. CASE s \notin down
    <3>1. Become(p, [q EXCEPT !.pc = "headcanary"])
      BY <1>15, <2>4 DEF HeadPut
    <3>2. Become(p, Onward(q, "headcanary", q.body, q.todo, q.legs))
      BY <1>2, <3>1
    <3> QED BY <1>0, <1>a, <1>1, <2>0, <2>2, <3>2
  <2> QED BY <2>3, <2>4
<1>16. ASSUME HeadCanary(p) PROVE \E x : Turn(p, x)
  <2> PICK r : r = Min(q.legs)
    OBVIOUS
  <2>0. /\ q.pc = "headcanary" /\ UNCHANGED <<data, history>> /\ q.pc \in Migrating /\ q.body \in Stored
        /\ mrf' \in BOOLEAN /\ "phase2" \in Migrating /\ Become(p, [q EXCEPT !.pc = "phase2", !.legs = q.legs \ {r}])
    BY <1>0, <1>5, <1>16 DEF HeadCanary, Migrating, Known
  <2>1. Become(p, Onward(q, "phase2", q.body, q.todo, q.legs \ {r})) /\ q.legs \ {r} \in SUBSET Pieces
    BY <1>0, <2>0 DEF Become, Call, Onward
  <2>2. CellStep /\ UNCHANGED <<down, ranking, history>>
    BY <2>0 DEF CellStep, data
  <2> QED BY <1>0, <1>a, <1>1, <2>0, <2>1, <2>2
<1>17. ASSUME StartStrays(p) PROVE \E x : Turn(p, x)
  <2> PICK w : w = Without(InOrder, Range(q.targets))
    OBVIOUS
  <2>0. /\ q.pc \in Migrating /\ Become(p, [q EXCEPT !.pc = "phase3", !.todo = w])
        /\ UNCHANGED <<data, mrf, history>> /\ "phase3" \in Migrating /\ "phase3" \notin Known
    BY <1>17 DEF StartStrays, Migrating, Known
  <2>1. w \in Seq(Shards)
    BY InOrderType, WithoutShards
  <2>2. Become(p, Onward(q, "phase3", q.body, w, q.legs))
    BY <1>0, <2>0 DEF Become, Call, Onward
  <2> QED BY <1>0, <1>7, <2>0, <2>1, <2>2
<1>18. ASSUME StrayDelete(p) PROVE \E x : Turn(p, x)
  <2> PICK t, s : t = Tail(q.todo) /\ s = Head(q.todo)
    OBVIOUS
  <2>0. /\ q.pc = "phase3" /\ q.todo # << >> /\ Store(s, Empty) /\ UNCHANGED <<down, ranking, mrf, history>>
        /\ q.pc \in Migrating /\ q.pc \notin Known /\ Become(p, [q EXCEPT !.todo = t])
    BY <1>18 DEF StrayDelete, Migrating, Known
  <2>1. s \in Shards /\ t \in Seq(Shards)
    BY <1>a, <2>0, TailType
  <2>2. CellStep /\ mrf' \in BOOLEAN
    BY <1>0, <1>4, <2>0, <2>1
  <2>3. Become(p, Onward(q, q.pc, q.body, t, q.legs))
    BY <1>2, <2>0
  <2> QED BY <1>0, <1>1, <2>0, <2>1, <2>2, <2>3
<1>19. ASSUME EndMigrate(p) PROVE \E x : Turn(p, x)
  BY <1>0, <1>19, IdleShape, IdlePlan DEF EndMigrate, Finish, Turn, CellStep, data, history
<1> QED
  BY <1>8, <1>9, <1>10, <1>11, <1>12, <1>13, <1>14, <1>15, <1>16, <1>17, <1>18, <1>19 DEF MigrateStep

-----------------------------------------------------------------------------
(* Faults, and the theorem. *)

LEMMA PoolInit == ASSUME Init PROVE PoolInv
<1>1. PICK b \in Bodies \cup {"none"} :
        cell = [s \in Shards |-> IF b # "none" /\ s \in Range(First(ranking, R)) THEN Whole(b) ELSE Empty]
  BY DEF Init
<1>2. \A c \in {Whole(b), Empty} : b # "none" => c \in CellSet /\ ~ (c.i > 0)
  <2>1. 1 \in Pieces
    BY Sizes DEF Pieces
  <2>2. b # "none" => b \in Stored
    BY DEF Stored
  <2> QED BY <2>1, <2>2, PieceType
<1>3. Empty \in CellSet /\ ~ (Empty.i > 0)
  BY DEF CellSet, Empty
<1>4. \A s \in Shards : cell[s] \in CellSet /\ ~ (cell[s].i > 0)
  BY <1>1, <1>2, <1>3
<1>5. cell \in [Shards -> CellSet] /\ \A s \in Shards : AtHome(s, cell[s])
  BY <1>1, <1>4, BodyIsHome
<1>6. \A p \in Procs : proc[p] = Idle
  BY DEF Init
<1>7. DOMAIN proc = Procs /\ down \subseteq Shards /\ ranking \in Rankings /\ mrf \in BOOLEAN
  BY DEF Init
<1> QED BY <1>5, <1>6, <1>7, IdleShape, IdlePlan DEF PoolInv

LEMMA PoolFaults ==
  ASSUME PoolInv, (\E s \in Shards : Flip(s) \/ Rot(s)) \/ Move \/ Crash
  PROVE  PoolInv'
<1>1. ASSUME NEW s \in Shards, Flip(s) PROVE PoolInv'
  BY <1>1 DEF Flip, PoolInv, AtHome, history
<1>2. ASSUME NEW s \in Shards, Rot(s) PROVE PoolInv'
  <2>1. Rotten \in CellSet /\ ~ (Rotten.i > 0)
    BY DEF CellSet, Rotten
  <2>2. cell' \in [Shards -> CellSet] /\ (~ moved => \A r \in Shards : AtHome(r, cell'[r]))
    BY <1>2, <2>1, BodyIsHome DEF Rot, PoolInv
  <2> QED BY <1>2, <2>2 DEF Rot, PoolInv, AtHome
<1>3. ASSUME Move PROVE PoolInv'
  BY <1>3 DEF Move, PoolInv
<1>4. ASSUME Crash PROVE PoolInv'
  <2>1. proc' = [p \in Procs |-> Idle] /\ mrf' = FALSE /\ UNCHANGED <<cell, down, ranking, moved>>
    BY <1>4 DEF Crash, data
  <2> QED BY <2>1, IdleShape, IdlePlan DEF PoolInv, AtHome
<1> QED BY <1>1, <1>2, <1>3, <1>4

LEMMA PoolStep == ASSUME PoolInv, [Next]_vars PROVE PoolInv'
<1>1. CASE UNCHANGED vars
  BY <1>1 DEF vars, PoolInv, AtHome
<1>2. ASSUME NEW p \in Procs, \E x : Turn(p, x) PROVE PoolInv'
  BY <1>2, TurnKeeps
<1>3. ASSUME NEW p \in Clients, (\E b \in Bodies : StartPut(p, b)) \/ StartGet(p) \/ StartDelete(p) \/ ClientStep(p)
      PROVE  PoolInv'
  <2>1. p \in Procs
    BY DEF Procs
  <2>2. \/ (\E b \in Bodies : StartPut(p, b)) \/ PutLeg(p) \/ StartHandoff(p) \/ Handoff(p) \/ EndPut(p)
        \/ StartGet(p) \/ Probe(p) \/ GatherLeg(p) \/ GatherNext(p) \/ ProbeOthers(p) \/ Stray(p) \/ Answer(p)
        \/ StartDelete(p) \/ DeleteNext(p) \/ EndDelete(p)
    BY <1>3 DEF ClientStep
  <2>3. \E x : Turn(p, x)
    BY <2>1, <2>2, PutSteps, GetSteps, DeleteSteps
  <2> QED BY <1>2, <2>1, <2>3
<1>4. ASSUME NEW p \in Healers, StartDrain(p) \/ StartResilver(p) \/ StartScrub(p) \/ RepairStep(p) \/ StartMigrate(p)
                             \/ MigrateStep(p)
      PROVE  PoolInv'
  <2>1. p \in Procs
    BY DEF Procs
  <2>2. \E x : Turn(p, x)
    BY <1>4, <2>1, RepairBegins, RepairSteps, MigrateBegins, MigrateSteps
  <2> QED BY <1>2, <2>1, <2>2
<1> QED BY <1>1, <1>3, <1>4, PoolFaults DEF Next

LEMMA InvGivesSound == ASSUME PoolInv PROVE PiecesSound
<1>1. TypeOK
  <2>1. ASSUME NEW p \in Procs
        PROVE  /\ proc[p].body \in Bodies \cup {Mixture, "none"} /\ proc[p].legs \subseteq Pieces
               /\ proc[p].todo \in Seq(0 .. N) /\ proc[p].good \in 0 .. N /\ proc[p].bad \in 0 .. N
    BY Planned DEF Call, Stored
  <2> QED BY <2>1 DEF PoolInv, TypeOK, CellSet, Stored
<1>2. PiecesInPlace
  <2> SUFFICES ASSUME ~ moved, NEW r \in DOMAIN Targets(ranking), IsPiece(cell[Targets(ranking)[r]])
               PROVE  cell[Targets(ranking)[r]].i = r
    BY DEF PiecesInPlace
  <2> PICK t : t = Targets(ranking)
    OBVIOUS
  <2>1. t \in Seq(Shards)
    BY TargetsType DEF PoolInv
  <2>2. t[r] \in Shards
    BY <2>1, ElementOfSeq
  <2>3. AtHome(t[r], cell[t[r]])
    BY <2>2 DEF PoolInv
  <2> QED BY <2>3 DEF AtHome
<1> QED BY <1>1, <1>2 DEF PiecesSound

\* Whatever puts, repairs and migrations cross, and whatever shards fail, rot
\* or crash under them, a target holds the piece of its rank as long as
\* placement stands still (put_ec, repair_key_ec, migrate_key).
THEOREM PiecesStayInPlace == Spec => []PiecesSound
<1>1. Init => PoolInv
  BY PoolInit
<1>2. PoolInv /\ [Next]_vars => PoolInv'
  BY PoolStep
<1>3. PoolInv => PiecesSound
  BY InvGivesSound
<1> QED BY <1>1, <1>2, <1>3, PTL DEF Spec
=============================================================================
