---------------------------- MODULE ServiceProofs ----------------------------
(***************************************************************************)
(* Proofs about the parts of the daemon around the pool, each an inductive *)
(* invariant of its part that the other parts leave alone.                 *)
(***************************************************************************)
EXTENDS Service, TLAPS, SequenceTheorems, FiniteSetTheorems, WellFoundedInduction

-----------------------------------------------------------------------------
(* Numbers and finite sets: induction over a set a proof can instantiate,  *)
(* and extrema.                                                            *)

\* A non-empty set of natural numbers has a least element.
LEMMA NatLeast ==
  ASSUME NEW S \in SUBSET Nat, S # {}
  PROVE  \E x \in S : \A y \in S : x <= y
<1>1. PICK x \in S : \A y \in S : <<y, x>> \notin OpToRel(<, Nat)
  BY WFMin, NatLessThanWellFounded, Zenon
<1>2. \A y \in S : ~ (y < x)
  <2>1. x \in Nat /\ \A y \in S : y \in Nat
    OBVIOUS
  <2> QED BY <1>1, <2>1, Zenon DEF OpToRel
<1> QED BY <1>2

\* Induction over the natural numbers.
LEMMA NatInd ==
  ASSUME NEW S, 0 \in S, \A n \in Nat : n \in S => n + 1 \in S
  PROVE  \A n \in Nat : n \in S
<1> DEFINE T == Nat \ S
<1> SUFFICES ASSUME T # {} PROVE FALSE
  OBVIOUS
<1>1. PICK m \in T : \A y \in T : m <= y
  BY NatLeast
<1>2. m # 0 /\ m - 1 \in Nat
  BY <1>1
<1>3. m - 1 \in S
  BY <1>1, <1>2
<1> QED BY <1>1, <1>2, <1>3

\* Induction over the subsets of a finite set.
LEMMA FiniteInd ==
  ASSUME NEW U, IsFiniteSet(U), NEW F, {} \in F,
         \A T \in SUBSET U, x \in U : T \in F /\ x \notin T => T \cup {x} \in F
  PROVE  U \in F
<1> DEFINE S == {n \in Nat : \A T \in SUBSET U : Cardinality(T) = n => T \in F}
<1>0. \A T \in SUBSET U : IsFiniteSet(T) /\ Cardinality(T) \in Nat
  BY FS_Subset, FS_CardinalityType
<1>1. 0 \in S
  BY <1>0, FS_EmptySet
<1>2. ASSUME NEW n \in Nat, n \in S PROVE n + 1 \in S
  <2> SUFFICES ASSUME NEW T \in SUBSET U, Cardinality(T) = n + 1 PROVE T \in F
    OBVIOUS
  <2>0. Cardinality({}) = 0
    BY FS_EmptySet
  <2>1. T # {}
    BY <2>0
  <2>2. PICK x \in T : TRUE
    BY <2>1
  <2>a. Cardinality(T \ {x}) = Cardinality(T) - 1
    BY <1>0, FS_RemoveElement
  <2>3. Cardinality(T \ {x}) = n
    BY <2>a
  <2>4. T \ {x} \in F
    BY <1>2, <2>3
  <2>5. (T \ {x}) \cup {x} = T
    OBVIOUS
  <2> QED BY <2>4, <2>5
<1>3. \A n \in Nat : n \in S
  <2> HIDE DEF S
  <2> QED BY <1>1, <1>2, NatInd
<1> QED BY <1>0, <1>3

\* Min of a set of natural numbers.
LEMMA MinIsLeast ==
  ASSUME NEW S \in SUBSET Nat, S # {}
  PROVE  Min(S) \in S /\ \A y \in S : Min(S) <= y
BY NatLeast DEF Min

\* Max of a bounded set of natural numbers.
LEMMA MaxIsGreatest ==
  ASSUME NEW S \in SUBSET Nat, S # {}, NEW m \in Nat, \A x \in S : x <= m
  PROVE  Max(S) \in S /\ \A y \in S : Max(S) >= y
<1> DEFINE T == {n \in Nat : m - n \in S}
<1>0. \A x \in S : m - x \in T
  BY \A x \in S : m - (m - x) = x /\ m - x \in Nat
<1>1. T \in SUBSET Nat /\ T # {}
  BY <1>0
<1>2. PICK t \in T : \A y \in T : t <= y
  BY <1>1, NatLeast
<1>3. \A y \in S : m - t >= y
  <2> TAKE y \in S
  <2>1. t <= m - y
    BY <1>0, <1>2
  <2> QED BY <2>1
<1> QED BY <1>2, <1>3 DEF Max

-----------------------------------------------------------------------------
(* Counting: one element enters or leaves the counted set. *)

LEMMA CountUp ==
  ASSUME NEW S, IsFiniteSet(S), NEW T, NEW x, x \notin S, T = S \cup {x}
  PROVE  IsFiniteSet(T) /\ Cardinality(T) = Cardinality(S) + 1
BY FS_AddElement

LEMMA CountDown ==
  ASSUME NEW S, IsFiniteSet(S), NEW T, NEW x \in S, T = S \ {x}
  PROVE  IsFiniteSet(T) /\ Cardinality(T) = Cardinality(S) - 1
BY FS_RemoveElement

-----------------------------------------------------------------------------
(* Gateway: the inductive invariant. *)

Ranges == {r \in {Whole} \cup [kind : {"suffix", "from"}, a : Nat, b : Nat \cup {-1}] :
             /\ r.kind = "suffix" => r.a > 0
             /\ r.kind = "from" => r.b = -1 \/ r.b >= r.a}

Request == [op : {"none", "put", "get", "delete"},
            pc : {"idle", "start", "count", "body", "ob", "stored", "get", "get_ob", "ob_get", "del_ob", "done"},
            key : GKeys \cup {Nothing}, body : Bodies \cup {Nothing}, range : Ranges, bao : BOOLEAN,
            first : Int, last : Int,
            answer : {Nothing, "unavailable", "error", "ok", "not_found", "full", "unverified", "verified", "integrity"}]

GwType ==
  /\ body \in [GKeys -> Bodies \cup {Nothing}] /\ ob \in [GKeys -> Bodies \cup {Nothing}]
  /\ conn \in [Conns -> Request] /\ inflight \in Int
  /\ drain \in [pc : {"serve", "wait", "flush", "closed", "exit"}, disk : Nat \ {0}, clean : BOOLEAN]
  /\ unflushed \in [1 .. Disks -> SUBSET Conns] /\ put \in [GKeys -> SUBSET Bodies] /\ late \subseteq Conns

\* The requests that the guards of Pool::put and Pool::get have counted.
Counted == {c \in Conns : conn[c].pc \in {"body", "ob", "stored", "get", "ob_get"}}
GwCount == inflight = Cardinality(Counted)

\* What the pool holds was put under that key, and only large bodies have outboards.
GwStore ==
  \A k \in GKeys :
    /\ IsFiniteSet(put[k])
    /\ body[k] \in put[k] \cup {Nothing}
    /\ ob[k] # Nothing => ob[k] \in put[k] /\ Length[ob[k]] >= ObMin

InBody(q) == 0 <= q.first /\ q.first <= q.last /\ q.last < Length[q.body]

\* What the place of a request says about its fields.
Sane(q) ==
  /\ q.pc \notin {"idle", "done"} => q.key \in GKeys /\ q.answer = Nothing
  /\ q.pc \in {"count", "body", "ob", "stored"} => q.op = "put"
  /\ q.pc \in {"get", "get_ob", "ob_get"} => q.op = "get"
  /\ q.pc \in {"start", "count", "body"} /\ q.op = "put" => q.body \in Bodies
  /\ q.pc = "ob" => q.body \in put[q.key] /\ Length[q.body] >= ObMin
  /\ q.pc \in {"get_ob", "ob_get"} =>
       /\ q.body \in put[q.key]
       /\ q.range = Whole => q.bao
       /\ q.range # Whole \/ Length[q.body] > 0 => InBody(q)
  /\ q.answer = "integrity" => q.key \in GKeys /\ Cardinality(put[q.key]) > 1
  /\ q.op = "get" /\ q.answer \in {"verified", "unverified"} /\ ObMin > 0 => InBody(q)

GwConn == \A c \in Conns : Sane(conn[c])

\* After the drain has looked, only puts it could not have seen write bodies,
\* and the disks before drain.disk hold nothing else unflushed.
GwDrain ==
  /\ drain.pc \in {"serve", "wait"} => drain.disk = 1
  /\ drain.pc = "flush" => drain.disk <= Disks
  /\ drain.pc \in {"flush", "closed", "exit"} /\ drain.clean =>
       /\ \A c \in Conns : conn[c].pc = "body" => c \in late
       /\ \A d \in 1 .. Disks : drain.pc # "flush" \/ d < drain.disk => unflushed[d] \subseteq late

GwInv == GwType /\ GwCount /\ GwStore /\ GwConn /\ GwDrain

-----------------------------------------------------------------------------
(* Gateway: the pieces of its steps. *)

\* A parsed header is a range that asks for something.
LEMMA ParsedRange ==
  ASSUME NEW h \in Headers
  PROVE  parse_range(h) \in Ranges
BY HeaderAssumption DEF parse_range, Ranges, Whole

LEMMA WholeRange == Whole \in Ranges /\ Whole.kind = "none"
BY DEF Ranges, Whole

\* A range that can be satisfied lies within the body, whatever it asks for.
LEMMA SliceInBody ==
  ASSUME NEW r \in Ranges, NEW total \in Nat, ~Unsatisfiable(r, total)
  PROVE  /\ Slice(r, total)[1] \in Int /\ Slice(r, total)[2] \in Int
         /\ r # Whole \/ total > 0 =>
              0 <= Slice(r, total)[1] /\ Slice(r, total)[1] <= Slice(r, total)[2] /\ Slice(r, total)[2] < total
<1>1. CASE r = Whole
  <2>1. Slice(r, total) = <<0, AtLeastZero(total - 1)>>
    BY <1>1 DEF Slice, Whole
  <2> QED BY <1>1, <2>1 DEF AtLeastZero
<1>2. CASE r.kind = "suffix"
  <2>1. Slice(r, total) = <<AtLeastZero(total - r.a), total - 1>>
    BY <1>2 DEF Slice
  <2>2. r.a \in Nat /\ r.a > 0 /\ total > 0
    BY <1>2 DEF Ranges, Unsatisfiable, Whole
  <2> QED BY <2>1, <2>2 DEF AtLeastZero
<1>3. CASE r.kind = "from"
  <2>1. Slice(r, total) = <<r.a, IF r.b = -1 \/ r.b > total - 1 THEN total - 1 ELSE r.b>>
    BY <1>3 DEF Slice
  <2>2. r.a \in Nat /\ r.a < total /\ r.b \in Int /\ (r.b = -1 \/ r.b >= r.a)
    BY <1>3 DEF Ranges, Unsatisfiable, Whole
  <2> QED BY <2>1, <2>2
<1> QED BY <1>1, <1>2, <1>3 DEF Ranges

\* Two bodies under a key are more than one.
LEMMA TwoBodies ==
  ASSUME NEW S, IsFiniteSet(S), NEW x \in S, NEW y \in S, x # y
  PROVE  Cardinality(S) > 1
<1>1. IsFiniteSet({x, y}) /\ Cardinality({x, y}) = 2
  <2>1. IsFiniteSet({x}) /\ Cardinality({x}) = 1
    BY FS_Singleton
  <2>2. y \notin {x} /\ {x, y} = {x} \cup {y}
    OBVIOUS
  <2> QED BY <2>1, <2>2, FS_AddElement
<1>2. Cardinality({x, y}) <= Cardinality(S) /\ Cardinality(S) \in Nat
  BY <1>1, FS_Subset, FS_CardinalityType
<1> QED BY <1>1, <1>2

\* More puts leave a sane request sane.
LEMMA SaneKept ==
  ASSUME NEW q \in Request, Sane(q), GwStore,
         \A k \in GKeys : put[k] \subseteq put'[k] /\ IsFiniteSet(put'[k])
  PROVE  Sane(q)'
<1>1. q.answer = "integrity" => Cardinality(put'[q.key]) > 1
  <2> SUFFICES ASSUME q.answer = "integrity" PROVE Cardinality(put'[q.key]) > 1
    OBVIOUS
  <2>1. q.key \in GKeys /\ Cardinality(put[q.key]) > 1
    BY DEF Sane
  <2>2. /\ Cardinality(put[q.key]) <= Cardinality(put'[q.key])
        /\ Cardinality(put[q.key]) \in Nat /\ Cardinality(put'[q.key]) \in Nat
    BY <2>1, FS_Subset, FS_CardinalityType
  <2> QED BY <2>1, <2>2
<1> QED BY <1>1 DEF Sane, InBody

\* What a request c that becomes r owes the invariant.
LEMMA ConnStep ==
  ASSUME GwInv, NEW c \in Conns, NEW r \in Request, conn' = [conn EXCEPT ![c] = r], Sane(r)',
         \A k \in GKeys : put[k] \subseteq put'[k] /\ IsFiniteSet(put'[k])
  PROVE  conn' \in [Conns -> Request] /\ GwConn'
<1>1. conn' \in [Conns -> Request]
  BY DEF GwInv, GwType
<1>2. ASSUME NEW x \in Conns PROVE Sane(conn[x])'
  <2>1. CASE x = c
    <3>1. conn'[x] = r
      BY <2>1 DEF GwInv, GwType
    <3> QED BY <3>1 DEF Sane, InBody
  <2>2. CASE x # c
    <3> PICK q \in Request : q = conn[x]
      BY DEF GwInv, GwType
    <3>1. conn'[x] = q /\ Sane(q)
      BY <2>2 DEF GwInv, GwType, GwConn
    <3>2. Sane(q)'
      BY <3>1, SaneKept DEF GwInv
    <3> QED BY <3>1, <3>2 DEF Sane, InBody
  <2> QED BY <2>1, <2>2
<1> QED BY <1>1, <1>2 DEF GwConn

\* The counter follows the places of the requests.
LEMMA CountStep ==
  ASSUME GwType, GwCount, NEW c \in Conns, NEW r \in Request, conn' = [conn EXCEPT ![c] = r],
         inflight' = inflight + (IF r.pc \in {"body", "ob", "stored", "get", "ob_get"} THEN 1 ELSE 0)
                              - (IF c \in Counted THEN 1 ELSE 0)
  PROVE  GwCount' /\ inflight' \in Int
<1>0. IsFiniteSet(Counted) /\ Cardinality(Counted) \in Nat
  BY FS_Subset, FS_CardinalityType, GatewayAssumption DEF Counted
<1> DEFINE in == r.pc \in {"body", "ob", "stored", "get", "ob_get"}
<1>1. in /\ c \in Counted => Counted' = Counted
  BY DEF Counted, GwType
<1>2. ~in /\ c \notin Counted => Counted' = Counted
  BY DEF Counted, GwType
<1>3. in /\ c \notin Counted => Counted' = Counted \cup {c}
  BY DEF Counted, GwType
<1>4. ~in /\ c \in Counted => Counted' = Counted \ {c}
  BY DEF Counted, GwType
<1>5. in /\ c \notin Counted => Cardinality(Counted') = Cardinality(Counted) + 1
  BY <1>0, <1>3, CountUp
<1>6. ~in /\ c \in Counted => Cardinality(Counted') = Cardinality(Counted) - 1
  BY <1>0, <1>4, CountDown
<1>7. inflight' = inflight + (IF in THEN 1 ELSE 0) - (IF c \in Counted THEN 1 ELSE 0)
  OBVIOUS
<1> HIDE DEF in
<1> QED BY <1>0, <1>1, <1>2, <1>5, <1>6, <1>7 DEF GwCount, GwType

\* A step that leaves the drain and what is unflushed alone.
LEMMA DrainKept ==
  ASSUME GwType, GwDrain, NEW c \in Conns, NEW r \in Request, conn' = [conn EXCEPT ![c] = r],
         r.pc = "body" => drain.pc \in {"serve", "wait"} \/ c \in late',
         late \subseteq late', UNCHANGED <<drain, unflushed>>
  PROVE  GwDrain'
BY DEF GwDrain, GwType

\* Steps of a request that leave the pool, the flushes and the drain alone.
LEMMA RequestStep ==
  ASSUME GwInv, NEW c \in Conns, NEW r \in Request, conn' = [conn EXCEPT ![c] = r], Sane(r),
         UNCHANGED <<body, ob, put, drain, unflushed>>, late \subseteq late', late' \subseteq Conns,
         r.pc = "body" => drain.pc \in {"serve", "wait"} \/ c \in late',
         inflight' = inflight + (IF r.pc \in {"body", "ob", "stored", "get", "ob_get"} THEN 1 ELSE 0)
                              - (IF c \in Counted THEN 1 ELSE 0)
  PROVE  GwInv'
<1>1. Sane(r)'
  BY DEF Sane, InBody
<1>2. conn' \in [Conns -> Request] /\ GwConn'
  BY <1>1, ConnStep DEF GwInv, GwStore
<1>3. GwCount' /\ inflight' \in Int
  BY CountStep DEF GwInv
<1>4. GwType'
  BY <1>2, <1>3 DEF GwInv, GwType
<1>5. GwStore'
  BY DEF GwInv, GwStore
<1>6. GwDrain'
  BY DrainKept DEF GwInv
<1> QED BY <1>2, <1>3, <1>4, <1>5, <1>6 DEF GwInv

LEMMA QuietRequest == Quiet \in Request
BY WholeRange DEF Quiet, Request

LEMMA AcceptStep ==
  ASSUME GwInv, NEW c \in Conns, AcceptPut(c) \/ AcceptGet(c) \/ AcceptDelete(c)
  PROVE  GwInv'
<1>1. ASSUME NEW r \in Request, Accept(c, r), Sane(r), r.pc = "start"
      PROVE  GwInv'
  <2>1. c \notin Counted
    BY <1>1 DEF Counted, Accept
  <2>2. inflight' = inflight + 0 - 0
    BY <1>1 DEF Accept, GwInv, GwType
  <2> QED BY <1>1, <2>1, <2>2, RequestStep DEF Accept, GwInv, GwType
<1>2. CASE AcceptPut(c)
  <2> PICK k \in GKeys, b \in Bodies :
        Accept(c, [Quiet EXCEPT !.op = "put", !.pc = "start", !.key = k, !.body = b])
    BY <1>2 DEF AcceptPut
  <2> DEFINE r == [Quiet EXCEPT !.op = "put", !.pc = "start", !.key = k, !.body = b]
  <2>1. r \in Request /\ r.pc = "start" /\ r.op = "put" /\ r.key = k /\ r.body = b /\ r.answer = Nothing
    BY QuietRequest, WholeRange DEF Quiet, Request
  <2>2. Sane(r)
    BY <2>1 DEF Sane, Nothing
  <2> HIDE DEF r
  <2>3. Accept(c, r)
    BY DEF r
  <2> QED BY <1>1, <2>1, <2>2, <2>3
<1>3. CASE AcceptGet(c)
  <2> PICK k \in GKeys, h \in Headers, bao \in BOOLEAN :
        Accept(c, [Quiet EXCEPT !.op = "get", !.pc = "start", !.key = k, !.range = parse_range(h), !.bao = bao])
    BY <1>3 DEF AcceptGet
  <2> DEFINE r == [Quiet EXCEPT !.op = "get", !.pc = "start", !.key = k, !.range = parse_range(h), !.bao = bao]
  <2>1. r \in Request /\ r.pc = "start" /\ r.op = "get" /\ r.key = k /\ r.answer = Nothing
    BY QuietRequest, ParsedRange DEF Quiet, Request
  <2>2. Sane(r)
    BY <2>1 DEF Sane, Nothing
  <2> HIDE DEF r
  <2>3. Accept(c, r)
    BY DEF r
  <2> QED BY <1>1, <2>1, <2>2, <2>3
<1>4. CASE AcceptDelete(c)
  <2> PICK k \in GKeys : Accept(c, [Quiet EXCEPT !.op = "delete", !.pc = "start", !.key = k])
    BY <1>4 DEF AcceptDelete
  <2> DEFINE r == [Quiet EXCEPT !.op = "delete", !.pc = "start", !.key = k]
  <2>1. r \in Request /\ r.pc = "start" /\ r.op = "delete" /\ r.key = k /\ r.answer = Nothing
    BY QuietRequest, WholeRange DEF Quiet, Request
  <2>2. Sane(r)
    BY <2>1 DEF Sane, Nothing
  <2> HIDE DEF r
  <2>3. Accept(c, r)
    BY DEF r
  <2> QED BY <1>1, <2>1, <2>2, <2>3
<1> QED BY <1>2, <1>3, <1>4

\* The places a request goes through with its fields as they are.
LEMMA Moved ==
  ASSUME GwInv, NEW c \in Conns, NEW p \in {"count", "body", "ob", "stored", "get", "ob_get", "del_ob"}
  PROVE  LET r == [conn[c] EXCEPT !.pc = p]
         IN  /\ r \in Request /\ r.pc = p
             /\ [conn EXCEPT ![c].pc = p] = [conn EXCEPT ![c] = r]
             /\ r.op = conn[c].op /\ r.key = conn[c].key /\ r.body = conn[c].body /\ r.range = conn[c].range
             /\ r.bao = conn[c].bao /\ r.first = conn[c].first /\ r.last = conn[c].last /\ r.answer = conn[c].answer
<1> DEFINE r == [conn[c] EXCEPT !.pc = p]
<1>1. conn \in [Conns -> Request] /\ conn[c] \in Request
  BY DEF GwInv, GwType
<1>2. r \in Request /\ r.pc = p
  BY ONLY <1>1, p \in {"count", "body", "ob", "stored", "get", "ob_get", "del_ob"} DEF Request
<1>3. [conn EXCEPT ![c].pc = p] = [conn EXCEPT ![c] = r]
  BY ONLY <1>1
<1>4. /\ r.op = conn[c].op /\ r.key = conn[c].key /\ r.body = conn[c].body /\ r.range = conn[c].range
      /\ r.bao = conn[c].bao /\ r.first = conn[c].first /\ r.last = conn[c].last /\ r.answer = conn[c].answer
  BY ONLY <1>1 DEF Request
<1> QED BY ONLY <1>2, <1>3, <1>4

\* An answer that says nothing about bytes is a plain one.
LEMMA PlainReply ==
  ASSUME GwInv, NEW c \in Conns, NEW a \in {"unavailable", "error", "ok", "not_found", "full"}, Reply(c, a),
         UNCHANGED <<body, ob, put, drain, unflushed, late>>,
         inflight' = inflight - (IF c \in Counted THEN 1 ELSE 0)
  PROVE  GwInv'
<1> DEFINE r == [conn[c] EXCEPT !.pc = "done", !.answer = a]
<1>1. r \in Request /\ r.pc = "done" /\ r.answer = a /\ conn' = [conn EXCEPT ![c] = r]
  <2>1. conn' = [conn EXCEPT ![c] = r]
    BY DEF Reply
  <2>2. conn[c] \in Request
    BY DEF GwInv, GwType
  <2> QED BY <2>1, <2>2 DEF Request
<1> HIDE DEF r
<1>2. Sane(r)
  BY <1>1 DEF Sane
<1>3. inflight' = inflight + 0 - (IF c \in Counted THEN 1 ELSE 0)
  BY DEF GwInv, GwType
<1> QED BY <1>1, <1>2, <1>3, RequestStep DEF GwInv, GwType

LEMMA GateStep ==
  ASSUME GwInv, NEW c \in Conns, Gate(c)
  PROVE  GwInv'
<1>0. c \notin Counted
  BY DEF Counted, Gate, At
<1>1. CASE down
  BY <1>0, <1>1, PlainReply DEF Gate, GwInv, GwType
<1>2. CASE ~down
  <2> DEFINE r == [conn[c] EXCEPT !.pc = "count"]
  <2>1. /\ r \in Request /\ r.pc = "count" /\ conn' = [conn EXCEPT ![c] = r]
        /\ r.op = conn[c].op /\ r.key = conn[c].key /\ r.body = conn[c].body /\ r.answer = conn[c].answer
    BY <1>2, Moved DEF Gate
  <2> HIDE DEF r
  <2>2. Sane(r)
    BY <2>1 DEF Sane, GwInv, GwConn, Gate, At, InBody, Nothing
  <2>3. inflight' = inflight + 0 - 0
    BY DEF Gate, GwInv, GwType
  <2> QED BY <1>0, <2>1, <2>2, <2>3, RequestStep DEF Gate, GwInv, GwType
<1> QED BY <1>1, <1>2

LEMMA CountedStep ==
  ASSUME GwInv, NEW c \in Conns, Count(c)
  PROVE  GwInv'
<1>0. c \notin Counted
  BY DEF Counted, Count, At
<1> DEFINE r == [conn[c] EXCEPT !.pc = "body"]
<1>1. /\ r \in Request /\ r.pc = "body" /\ conn' = [conn EXCEPT ![c] = r]
      /\ r.op = conn[c].op /\ r.key = conn[c].key /\ r.body = conn[c].body /\ r.answer = conn[c].answer
  BY Moved DEF Count
<1> HIDE DEF r
<1>2. Sane(r)
  BY <1>1 DEF Sane, GwInv, GwConn, Count, At, InBody, Nothing
<1>3. late \subseteq late' /\ late' \subseteq Conns /\ (drain.pc \in {"serve", "wait"} \/ c \in late')
  BY DEF Count, GwInv, GwType
<1>4. inflight' = inflight + 1 - 0
  BY DEF Count, GwInv, GwType
<1> QED BY <1>0, <1>1, <1>2, <1>3, <1>4, RequestStep DEF Count

LEMMA StoredStep ==
  ASSUME GwInv, NEW c \in Conns, Stored(c)
  PROVE  GwInv'
<1>0. c \in Counted
  BY DEF Counted, Stored, At
<1> QED BY <1>0, PlainReply DEF Stored

LEMMA GetFailsStep ==
  ASSUME GwInv, NEW c \in Conns, GetFails(c)
  PROVE  GwInv'
<1>0. c \in Counted
  BY DEF Counted, GetFails
<1> QED BY <1>0, PlainReply DEF GetFails

LEMMA BeginGetStep ==
  ASSUME GwInv, NEW c \in Conns, BeginGet(c)
  PROVE  GwInv'
<1>0. c \notin Counted
  BY DEF Counted, BeginGet, At
<1> DEFINE r == [conn[c] EXCEPT !.pc = "get"]
<1>1. /\ r \in Request /\ r.pc = "get" /\ conn' = [conn EXCEPT ![c] = r]
      /\ r.op = conn[c].op /\ r.key = conn[c].key /\ r.answer = conn[c].answer
  BY Moved DEF BeginGet
<1> HIDE DEF r
<1>2. Sane(r)
  BY <1>1 DEF Sane, GwInv, GwConn, BeginGet, At, Nothing
<1>3. inflight' = inflight + 1 - 0
  BY DEF BeginGet, GwInv, GwType
<1> QED BY <1>0, <1>1, <1>2, <1>3, RequestStep DEF BeginGet, GwInv, GwType

LEMMA BeginGetObStep ==
  ASSUME GwInv, NEW c \in Conns, BeginGetOb(c)
  PROVE  GwInv'
<1>0. c \notin Counted
  BY DEF Counted, BeginGetOb, At
<1> DEFINE r == [conn[c] EXCEPT !.pc = "ob_get"]
<1>1. /\ r \in Request /\ r.pc = "ob_get" /\ conn' = [conn EXCEPT ![c] = r]
      /\ r.op = conn[c].op /\ r.key = conn[c].key /\ r.body = conn[c].body /\ r.range = conn[c].range
      /\ r.bao = conn[c].bao /\ r.first = conn[c].first /\ r.last = conn[c].last /\ r.answer = conn[c].answer
  BY Moved DEF BeginGetOb
<1> HIDE DEF r
<1>2. Sane(r)
  BY <1>1 DEF Sane, GwInv, GwConn, BeginGetOb, At, InBody, Nothing
<1>3. inflight' = inflight + 1 - 0
  BY DEF BeginGetOb, GwInv, GwType
<1> QED BY <1>0, <1>1, <1>2, <1>3, RequestStep DEF BeginGetOb, GwInv, GwType

LEMMA GotBodyStep ==
  ASSUME GwInv, NEW c \in Conns, GotBody(c)
  PROVE  GwInv'
<1>0. c \in Counted
  BY DEF Counted, GotBody, At
<1> DEFINE b == body[conn[c].key]
           s == Slice(conn[c].range, Length[b])
<1>1. /\ conn[c].key \in GKeys /\ b \in put[conn[c].key] \cup {Nothing} /\ b \in Bodies \cup {Nothing}
      /\ conn[c].range \in Ranges /\ conn[c].op = "get" /\ conn[c].answer = Nothing
  BY DEF GwInv, GwConn, Sane, GwStore, GwType, Request, GotBody, At
<1>2. CASE \E a \in {"not_found", "full", "error"} : Reply(c, a)
  BY <1>0, <1>2, PlainReply DEF GotBody
<1>3. CASE /\ b # Nothing /\ ~(conn[c].range = Whole /\ ~conn[c].bao) /\ ~Unsatisfiable(conn[c].range, Length[b])
           /\ conn' = [conn EXCEPT ![c] = [@ EXCEPT !.pc = "get_ob", !.body = b, !.first = s[1], !.last = s[2]]]
  <2>1. Length[b] \in Nat
    BY <1>1, <1>3, GatewayAssumption
  <2>2. /\ s[1] \in Int /\ s[2] \in Int
        /\ conn[c].range # Whole \/ Length[b] > 0 => 0 <= s[1] /\ s[1] <= s[2] /\ s[2] < Length[b]
    BY <1>1, <1>3, <2>1, SliceInBody
  <2> PICK first \in Int, last \in Int : first = s[1] /\ last = s[2]
    BY <2>2
  <2> PICK bd \in Bodies : bd = b
    BY <1>1, <1>3
  <2> HIDE DEF s, b
  <2> DEFINE r == [conn[c] EXCEPT !.pc = "get_ob", !.body = bd, !.first = first, !.last = last]
  <2>3. /\ r \in Request /\ r.pc = "get_ob" /\ conn' = [conn EXCEPT ![c] = r]
        /\ r.op = conn[c].op /\ r.key = conn[c].key /\ r.body = bd /\ r.range = conn[c].range
        /\ r.bao = conn[c].bao /\ r.first = first /\ r.last = last /\ r.answer = conn[c].answer
    <3>1. conn' = [conn EXCEPT ![c] = r]
      BY <1>3
    <3>2. conn[c] \in Request
      BY DEF GwInv, GwType
    <3> QED BY <3>1, <3>2 DEF Request
  <2> HIDE DEF r
  <2>4. Sane(r)
    BY <1>1, <1>3, <2>2, <2>3 DEF Sane, InBody, Nothing
  <2>5. inflight' = inflight + 0 - 1
    BY DEF GotBody, GwInv, GwType
  <2> QED BY <1>0, <2>3, <2>4, <2>5, RequestStep DEF GotBody, GwInv, GwType
<1> QED BY <1>2, <1>3 DEF GotBody

LEMMA GotObStep ==
  ASSUME GwInv, NEW c \in Conns, GotOb(c)
  PROVE  GwInv'
<1>0. c \in Counted
  BY DEF Counted, GotOb, At
<1> DEFINE o == ob[conn[c].key]
<1>1. /\ conn[c].key \in GKeys /\ conn[c].body \in put[conn[c].key] /\ conn[c].op = "get"
      /\ conn[c].body \in Bodies
      /\ conn[c].range = Whole => conn[c].bao
      /\ conn[c].range # Whole \/ Length[conn[c].body] > 0 => InBody(conn[c])
      /\ o # Nothing => o \in put[conn[c].key] /\ Length[o] >= ObMin
      /\ IsFiniteSet(put[conn[c].key])
  BY DEF GwInv, GwConn, Sane, GwStore, GwType, GotOb, At
<1> PICK a \in {"error", "unverified", "verified", "integrity"} :
       /\ Reply(c, a)
       /\ a = "unverified" => ~conn[c].bao
       /\ a = "verified" => o # Nothing /\ o = conn[c].body
       /\ a = "integrity" => o # Nothing /\ o # conn[c].body
  BY DEF GotOb, ObKey
<1> DEFINE r == [conn[c] EXCEPT !.pc = "done", !.answer = a]
<1>2. /\ r \in Request /\ r.pc = "done" /\ r.answer = a /\ conn' = [conn EXCEPT ![c] = r]
      /\ r.op = conn[c].op /\ r.key = conn[c].key /\ r.body = conn[c].body
      /\ r.first = conn[c].first /\ r.last = conn[c].last
  <2>1. conn' = [conn EXCEPT ![c] = r]
    BY DEF Reply
  <2>2. conn[c] \in Request
    BY DEF GwInv, GwType
  <2> QED BY <2>1, <2>2 DEF Request
<1> HIDE DEF r
<1>3. a = "integrity" => Cardinality(put[conn[c].key]) > 1
  BY <1>1, TwoBodies
<1>4. ObMin > 0 /\ a \in {"verified", "unverified"} => InBody(conn[c])
  <2>1. Length[conn[c].body] \in Nat /\ ObMin \in Nat
    BY <1>1, GatewayAssumption
  <2> QED BY <1>1, <2>1
<1>5. Sane(r)
  BY <1>1, <1>2, <1>3, <1>4 DEF Sane, InBody, Nothing
<1>6. inflight' = inflight + 0 - 1
  BY DEF GotOb, GwInv, GwType
<1> QED BY <1>0, <1>2, <1>5, <1>6, RequestStep DEF GotOb, GwInv, GwType

\* A body b is stored under k by request c, which becomes r.
LEMMA StoreStep ==
  ASSUME GwInv, NEW c \in Conns, NEW r \in Request, conn' = [conn EXCEPT ![c] = r],
         NEW k \in GKeys, NEW b \in Bodies,
         body' = [body EXCEPT ![k] = b], put' = [put EXCEPT ![k] = @ \cup {b}], Sane(r)', r.pc # "body",
         \/ UNCHANGED unflushed
         \/ unflushed' = [d \in 1 .. Disks |-> unflushed[d] \cup {c}] /\ conn[c].pc = "body",
         UNCHANGED <<ob, drain, late>>,
         inflight' = inflight + (IF r.pc \in {"body", "ob", "stored", "get", "ob_get"} THEN 1 ELSE 0)
                              - (IF c \in Counted THEN 1 ELSE 0)
  PROVE  GwInv'
<1>1. \A j \in GKeys : put[j] \subseteq put'[j] /\ IsFiniteSet(put'[j])
  <2>1. IsFiniteSet(put[k] \cup {b})
    BY FS_AddElement DEF GwInv, GwStore
  <2> QED BY <2>1 DEF GwInv, GwStore, GwType
<1>2. conn' \in [Conns -> Request] /\ GwConn'
  BY <1>1, ConnStep
<1>3. GwCount' /\ inflight' \in Int
  BY CountStep DEF GwInv
<1>4. GwType'
  BY <1>2, <1>3 DEF GwInv, GwType
<1>5. GwStore'
  BY <1>1 DEF GwInv, GwStore, GwType
<1>6. GwDrain'
  <2>1. \A x \in Conns : conn'[x].pc = "body" => conn[x].pc = "body"
    BY DEF GwInv, GwType
  <2>2. ASSUME NEW d \in 1 .. Disks
        PROVE  unflushed'[d] = unflushed[d] \/ (unflushed'[d] = unflushed[d] \cup {c} /\ conn[c].pc = "body")
    OBVIOUS
  <2> QED BY <2>1, <2>2 DEF GwInv, GwDrain
<1> QED BY <1>2, <1>3, <1>4, <1>5, <1>6 DEF GwInv

LEMMA PutBodyStep ==
  ASSUME GwInv, NEW c \in Conns, PutBody(c)
  PROVE  GwInv'
<1>0. c \in Counted
  BY DEF Counted, PutBody, At
<1> PICK k \in GKeys, b \in Bodies : k = conn[c].key /\ b = conn[c].body /\ conn[c].op = "put" /\ conn[c].answer = Nothing
  BY DEF PutBody, At, GwInv, GwConn, Sane
<1> PICK p \in {"ob", "stored"} : p = IF Length[b] >= ObMin THEN "ob" ELSE "stored"
  OBVIOUS
<1>a. [conn[c] EXCEPT !.pc = p] \in Request /\ [conn EXCEPT ![c].pc = p] = [conn EXCEPT ![c] = [conn[c] EXCEPT !.pc = p]]
  BY Moved
<1> PICK r \in Request : r = [conn[c] EXCEPT !.pc = p]
  BY <1>a
<1>1. r.pc = p /\ r.op = "put" /\ r.key = k /\ r.body = b /\ r.answer = Nothing
  <2>1. conn[c] \in Request
    BY DEF GwInv, GwType
  <2> QED BY <2>1 DEF Request
<1>2. conn' = [conn EXCEPT ![c] = r]
  BY <1>a DEF PutBody
<1>3. b \in put'[k]
  BY DEF PutBody, GwInv, GwType
<1>4. Sane(r)'
  BY <1>1, <1>3 DEF Sane, Nothing
<1>5. inflight' = inflight + 1 - 1
  BY DEF PutBody, GwInv, GwType
<1>6. /\ body' = [body EXCEPT ![k] = b] /\ put' = [put EXCEPT ![k] = @ \cup {b}] /\ conn[c].pc = "body"
      /\ unflushed' = [d \in 1 .. Disks |-> unflushed[d] \cup {c}] /\ UNCHANGED <<ob, drain, late>>
  BY DEF PutBody, At
<1> QED BY <1>0, <1>1, <1>2, <1>4, <1>5, <1>6, StoreStep

LEMMA PutFailsStep ==
  ASSUME GwInv, NEW c \in Conns, PutFails(c)
  PROVE  GwInv'
<1>0. c \in Counted
  BY DEF Counted, PutFails, At
<1>1. CASE UNCHANGED <<body, put>>
  BY <1>0, <1>1, PlainReply DEF PutFails
<1>2. CASE body' = [body EXCEPT ![conn[c].key] = conn[c].body] /\ put' = [put EXCEPT ![conn[c].key] = @ \cup {conn[c].body}]
  <2> PICK k \in GKeys, b \in Bodies : k = conn[c].key /\ b = conn[c].body
    BY DEF PutFails, At, GwInv, GwConn, Sane
  <2> PICK r \in Request : r = [conn[c] EXCEPT !.pc = "done", !.answer = "error"]
    <3>1. conn[c] \in Request
      BY DEF GwInv, GwType
    <3> QED BY <3>1 DEF Request
  <2>1. conn' = [conn EXCEPT ![c] = r]
    BY DEF Reply, PutFails
  <2>2. r.pc = "done" /\ r.answer = "error"
    <3>1. conn[c] \in Request
      BY DEF GwInv, GwType
    <3> QED BY <3>1 DEF Request
  <2>3. Sane(r)'
    BY <2>2 DEF Sane
  <2>4. inflight' = inflight + 0 - 1
    BY DEF PutFails, GwInv, GwType
  <2>5. body' = [body EXCEPT ![k] = b] /\ put' = [put EXCEPT ![k] = @ \cup {b}] /\ UNCHANGED <<ob, drain, late, unflushed>>
    BY <1>2 DEF PutFails
  <2> QED BY <1>0, <2>1, <2>2, <2>3, <2>4, <2>5, StoreStep
<1> QED BY <1>1, <1>2 DEF PutFails

\* Outboards or bodies that appear or go.
LEMMA BesideStep ==
  ASSUME GwInv, NEW c \in Conns, NEW r \in Request, conn' = [conn EXCEPT ![c] = r], Sane(r), r.pc # "body",
         body' \in [GKeys -> Bodies \cup {Nothing}], ob' \in [GKeys -> Bodies \cup {Nothing}],
         \A k \in GKeys : body'[k] \in {body[k], Nothing},
         \A k \in GKeys : ob'[k] \in {ob[k], Nothing} \/ (ob'[k] \in put[k] /\ Length[ob'[k]] >= ObMin),
         UNCHANGED <<put, drain, unflushed, late>>,
         inflight' = inflight + (IF r.pc \in {"body", "ob", "stored", "get", "ob_get"} THEN 1 ELSE 0)
                              - (IF c \in Counted THEN 1 ELSE 0)
  PROVE  GwInv'
<1>1. Sane(r)'
  BY DEF Sane, InBody
<1>2. conn' \in [Conns -> Request] /\ GwConn'
  BY <1>1, ConnStep DEF GwInv, GwStore
<1>3. GwCount' /\ inflight' \in Int
  BY CountStep DEF GwInv
<1>4. GwType'
  BY <1>2, <1>3 DEF GwInv, GwType
<1>5. GwStore'
  BY DEF GwInv, GwStore
<1>6. GwDrain'
  BY DrainKept DEF GwInv
<1> QED BY <1>2, <1>3, <1>4, <1>5, <1>6 DEF GwInv

LEMMA PutObStep ==
  ASSUME GwInv, NEW c \in Conns, PutOb(c)
  PROVE  GwInv'
<1>0. c \in Counted
  BY DEF Counted, PutOb, At
<1>1. /\ conn[c].key \in GKeys /\ conn[c].body \in put[conn[c].key] /\ Length[conn[c].body] >= ObMin
      /\ conn[c].answer = Nothing /\ conn[c].body \in Bodies /\ conn[c].op = "put"
  BY DEF PutOb, At, GwInv, GwConn, Sane, GwType
<1> DEFINE r == [conn[c] EXCEPT !.pc = "stored"]
<1>2. /\ r \in Request /\ r.pc = "stored" /\ conn' = [conn EXCEPT ![c] = r]
      /\ r.op = conn[c].op /\ r.key = conn[c].key /\ r.answer = conn[c].answer
  BY Moved DEF PutOb
<1> HIDE DEF r
<1>3. Sane(r)
  BY <1>1, <1>2 DEF Sane, Nothing
<1>4. inflight' = inflight + 1 - 1
  BY DEF PutOb, GwInv, GwType
<1>5. ob' = [ob EXCEPT ![conn[c].key] = conn[c].body] \/ ob' = ob
  BY DEF PutOb, ObKey
<1>6. /\ ob' \in [GKeys -> Bodies \cup {Nothing}]
      /\ \A k \in GKeys : ob'[k] \in {ob[k], Nothing} \/ (ob'[k] \in put[k] /\ Length[ob'[k]] >= ObMin)
  BY <1>1, <1>5 DEF GwInv, GwType
<1>7. UNCHANGED <<body, put, drain, unflushed, late>> /\ body \in [GKeys -> Bodies \cup {Nothing}]
  BY DEF PutOb, GwInv, GwType
<1> QED BY <1>0, <1>2, <1>3, <1>4, <1>6, <1>7, BesideStep

LEMMA DeleteBodyStep ==
  ASSUME GwInv, NEW c \in Conns, DeleteBody(c)
  PROVE  GwInv'
<1>0. c \notin Counted
  BY DEF Counted, DeleteBody, At
<1>1. conn[c].key \in GKeys /\ conn[c].answer = Nothing
  BY DEF DeleteBody, At, GwInv, GwConn, Sane
<1> DEFINE r == [conn[c] EXCEPT !.pc = "del_ob"]
<1>2. /\ r \in Request /\ r.pc = "del_ob" /\ conn' = [conn EXCEPT ![c] = r]
      /\ r.op = conn[c].op /\ r.key = conn[c].key /\ r.answer = conn[c].answer
  BY Moved DEF DeleteBody
<1> HIDE DEF r
<1>3. Sane(r)
  BY <1>1, <1>2 DEF Sane, Nothing
<1>4. inflight' = inflight + 0 - 0
  BY DEF DeleteBody, GwInv, GwType
<1>5. /\ body' \in [GKeys -> Bodies \cup {Nothing}]
      /\ \A k \in GKeys : body'[k] \in {body[k], Nothing}
  BY <1>1 DEF DeleteBody, GwInv, GwType
<1>6. UNCHANGED <<ob, put, drain, unflushed, late>> /\ ob \in [GKeys -> Bodies \cup {Nothing}]
  BY DEF DeleteBody, GwInv, GwType
<1> QED BY <1>0, <1>2, <1>3, <1>4, <1>5, <1>6, BesideStep

LEMMA DeleteObStep ==
  ASSUME GwInv, NEW c \in Conns, DeleteOb(c)
  PROVE  GwInv'
<1>0. c \notin Counted
  BY DEF Counted, DeleteOb, At
<1>1. conn[c].key \in GKeys
  BY DEF DeleteOb, At, GwInv, GwConn, Sane
<1> DEFINE r == [conn[c] EXCEPT !.pc = "done", !.answer = "ok"]
<1>2. conn' = [conn EXCEPT ![c] = r]
  BY DEF Reply, DeleteOb
<1>3. r \in Request /\ r.pc = "done" /\ r.answer = "ok"
  <2>1. conn[c] \in Request
    BY DEF GwInv, GwType
  <2> QED BY <2>1 DEF Request
<1> HIDE DEF r
<1>4. Sane(r)
  BY <1>3 DEF Sane
<1>5. inflight' = inflight + 0 - 0
  BY DEF DeleteOb, GwInv, GwType
<1>6. /\ ob' \in [GKeys -> Bodies \cup {Nothing}]
      /\ \A k \in GKeys : ob'[k] \in {ob[k], Nothing}
  BY <1>1 DEF DeleteOb, ObKey, GwInv, GwType
<1>7. UNCHANGED <<body, put, drain, unflushed, late>> /\ body \in [GKeys -> Bodies \cup {Nothing}]
  BY DEF DeleteOb, GwInv, GwType
<1> QED BY <1>0, <1>2, <1>3, <1>4, <1>5, <1>6, <1>7, BesideStep

\* The drain looks, times out, flushes disk by disk and exits.
LEMMA DrainSteps ==
  ASSUME GwInv, CtrlC \/ Stopping
  PROVE  GwInv'
<1>0. UNCHANGED <<body, ob, conn, inflight, put, late>>
  BY DEF CtrlC, Stopping, Drained, DrainTimeout, FlushDisk, Exit
<1>1. GwCount' /\ GwStore' /\ GwConn'
  BY <1>0 DEF GwInv, GwCount, Counted, GwStore, GwConn, Sane, InBody
<1>2. GwType' /\ GwDrain'
  <2>1. CASE CtrlC
    BY <1>0, <2>1 DEF GwInv, GwType, GwDrain, CtrlC
  <2>2. CASE Drained
    <3>1. Counted = {}
      <4>1. IsFiniteSet(Counted) /\ Cardinality(Counted) = 0
        BY <2>2, FS_Subset, GatewayAssumption DEF Drained, GwInv, GwCount, Counted
      <4> QED BY <4>1, FS_EmptySet
    <3>2. \A c \in Conns : conn[c].pc # "body"
      BY <3>1 DEF Counted
    <3> QED BY <1>0, <2>2, <3>2, GatewayAssumption DEF GwInv, GwType, GwDrain, Drained
  <2>3. CASE DrainTimeout
    <3>1. drain \in [pc : {"serve", "wait", "flush", "closed", "exit"}, disk : Nat \ {0}, clean : BOOLEAN]
      BY DEF GwInv, GwType
    <3>2. drain' \in [pc : {"serve", "wait", "flush", "closed", "exit"}, disk : Nat \ {0}, clean : BOOLEAN]
      BY <2>3, <3>1 DEF DrainTimeout
    <3>3. drain'.pc = "flush" /\ drain'.clean = FALSE /\ drain'.disk = drain.disk
      BY <2>3, <3>1 DEF DrainTimeout
    <3>4. drain.disk = 1 /\ 1 <= Disks
      BY <2>3, GatewayAssumption DEF DrainTimeout, GwInv, GwDrain
    <3>5. GwType'
      BY <1>0, <2>3, <3>2 DEF GwInv, GwType, DrainTimeout
    <3> QED BY <3>3, <3>4, <3>5 DEF GwDrain
  <2>4. CASE Exit
    BY <1>0, <2>4 DEF GwInv, GwType, GwDrain, Exit
  <2>5. CASE FlushDisk
    <3>1. CASE drain' = [drain EXCEPT !.pc = "closed", !.clean = FALSE] /\ UNCHANGED unflushed
      BY <1>0, <3>1 DEF GwInv, GwType, GwDrain
    <3>2. CASE /\ unflushed' = [unflushed EXCEPT ![drain.disk] = {}]
               /\ drain' = IF drain.disk = Disks THEN [drain EXCEPT !.pc = "closed"] ELSE [drain EXCEPT !.disk = @ + 1]
      <4>1. drain.pc = "flush" /\ drain.disk \in 1 .. Disks /\ drain.disk + 1 \in Nat \ {0} /\ Disks \in Nat
        BY <2>5, GatewayAssumption DEF FlushDisk, GwInv, GwType, GwDrain
      <4>2. GwType'
        BY <1>0, <3>2, <4>1 DEF GwInv, GwType
      <4>3. \A d \in 1 .. Disks : unflushed'[d] = IF d = drain.disk THEN {} ELSE unflushed[d]
        BY <3>2 DEF GwInv, GwType
      <4>4. CASE drain.disk = Disks
        <5>1. drain'.pc = "closed" /\ drain'.clean = drain.clean /\ drain'.disk = drain.disk
          BY <3>2, <4>4 DEF GwInv, GwType
        <5>2. \A d \in 1 .. Disks : d # drain.disk => d < drain.disk
          BY <4>4, <4>1
        <5> QED BY <1>0, <4>1, <4>2, <4>3, <5>1, <5>2 DEF GwInv, GwDrain
      <4>5. CASE drain.disk # Disks
        <5>1. drain'.pc = "flush" /\ drain'.clean = drain.clean /\ drain'.disk = drain.disk + 1
          BY <3>2, <4>1, <4>5 DEF GwInv, GwType
        <5>2. drain.disk + 1 <= Disks /\ \A d \in 1 .. Disks : d < drain.disk + 1 => d = drain.disk \/ d < drain.disk
          BY <4>5, <4>1
        <5> QED BY <1>0, <4>1, <4>2, <4>3, <5>1, <5>2 DEF GwInv, GwDrain
      <4> QED BY <4>4, <4>5
    <3> QED BY <2>5, <3>1, <3>2 DEF FlushDisk
  <2> QED BY <2>1, <2>2, <2>3, <2>4, <2>5 DEF Stopping
<1> QED BY <1>1, <1>2 DEF GwInv

LEMMA GwInvInit == GatewayInit => GwInv
<1> SUFFICES ASSUME GatewayInit PROVE GwInv
  OBVIOUS
<1>1. GwType
  BY QuietRequest, GatewayAssumption DEF GatewayInit, GwType
<1>2. GwCount
  <2>1. Counted = {}
    BY DEF GatewayInit, Counted, Quiet
  <2> QED BY <2>1, FS_EmptySet DEF GwCount, GatewayInit
<1>3. GwStore
  BY FS_EmptySet DEF GatewayInit, GwStore
<1>4. GwConn
  BY DEF GatewayInit, GwConn, Sane, Quiet, Nothing
<1>5. GwDrain
  BY DEF GatewayInit, GwDrain
<1> QED BY <1>1, <1>2, <1>3, <1>4, <1>5 DEF GwInv

LEMMA GwInvNext == GwInv /\ (GatewayNext \/ UNCHANGED gwVars) => GwInv'
<1>1. ASSUME GwInv, GatewayNext PROVE GwInv'
  BY <1>1, AcceptStep, PutFailsStep, GetFailsStep, GateStep, CountedStep, PutBodyStep, PutObStep, StoredStep,
     BeginGetStep, GotBodyStep, BeginGetObStep, GotObStep, DeleteBodyStep, DeleteObStep, DrainSteps
  DEF GatewayNext, Serving
<1>2. ASSUME GwInv, UNCHANGED gwVars PROVE GwInv'
  <2>1. GwType' /\ GwStore' /\ GwDrain'
    BY <1>2 DEF GwInv, gwVars, GwType, GwStore, GwDrain
  <2>2. GwCount'
    BY <1>2 DEF GwInv, gwVars, GwCount, Counted
  <2>3. GwConn'
    BY <1>2 DEF GwInv, gwVars, GwConn, Sane, InBody
  <2> QED BY <2>1, <2>2, <2>3 DEF GwInv
<1> QED BY <1>1, <1>2

LEMMA GwInvHolds == Spec => []GwInv
<1>1. Init => GwInv
  BY GwInvInit DEF Init
<1>2. GwInv /\ [Next]_vars => GwInv'
  BY GwInvNext DEF Next, vars, gwVars
<1> QED BY <1>1, <1>2, PTL DEF Spec

\* get_object: whatever requests overlap, a range that is answered lies within
\* the body it was cut from, and integrity is refused only under a key that was
\* put with two different bodies.  The first half needs ob_min_size > 0: with 0
\* an empty body has an outboard, and its whole slice is labelled "0-0/0".
THEOREM RangesStaySound == ASSUME ObMin > 0 PROVE Spec => []RangesSound
<1>1. GwInv => RangesSound
  BY DEF GwInv, GwConn, Sane, InBody, RangesSound, RangeWithinBody, IntegrityOnlyAfterOverwrite
<1> QED BY <1>1, GwInvHolds, PTL

\* Graceful shutdown: a drain without timeout and flush error leaves nothing
\* unflushed but puts that were counted after it had looked.
THEOREM DrainLeavesNothing == Spec => []DrainFlushesAll
<1>1. GwInv => DrainFlushesAll
  BY DEF GwInv, GwDrain, DrainFlushesAll
<1> QED BY <1>1, GwInvHolds, PTL

-----------------------------------------------------------------------------
(* Snapshots: the inductive invariant. *)

\* Requests and directories; what an id, a to-do list and a time are made of
\* does not matter here.
AdmRec(i, td, m) ==
  [op : {"none", "create", "delete", "old"}, pc : {"idle", "mkdir", "link", "made", "remove"}, id : {i},
   disk : Nat, names : SUBSET Segs, todo : {td}, owed : SUBSET Nat, missed : SUBSET (Disk \X Segs), at : {m}, disturbed : BOOLEAN]
DirRec(m) == [disks : SUBSET Nat, root : BOOLEAN, links : [Disk -> SUBSET Segs], at : {m}]

SnType ==
  /\ files \in [Disk -> SUBSET Segs] /\ content \in [Disk -> [Segs -> SUBSET Nat]]
  /\ active \in [Disk -> Segs] /\ moving \in [Disk -> Segs \cup {0}] /\ acked \in Nat
  /\ adm = [a \in Requests |-> adm[a]] /\ \A a \in Requests : \E i, td, m : adm[a] \in AdmRec(i, td, m)
  /\ \A id \in DOMAIN snaps : \E m : snaps[id] \in DirRec(m)

\* The active segment is the youngest file; a segment whose records are being
\* moved has been copied to another file in full.
SnFiles ==
  \A d \in Disk :
    /\ active[d] \in files[d] /\ \A g \in files[d] : g <= active[d]
    /\ moving[d] # 0 =>
         /\ moving[d] \in files[d] /\ moving[d] < active[d]
         /\ \E g \in files[d] \ {moving[d]} : content[d][moving[d]] \subseteq content[d][g]

InFile(r, d, g) == g \in files[d] /\ r \in content[d][g]

\* Every acknowledged record is in a file.
SnAcked == \A r \in 1 .. acked : \E d \in Disk, g \in Segs : InFile(r, d, g)

\* A record that a snapshot owes lies in a segment that is linked already, or
\* whose link failed, or that is listed and has its link still to come, or in a
\* file of a disk that is still to come.
Covers(q) ==
  \A r \in q.owed : \E d \in Disk, g \in Segs :
    /\ r \in content[d][g]
    /\ \/ g \in Of(q.id).links[d] \/ <<d, g>> \in q.missed
       \/ q.pc = "link" /\ d = q.disk /\ g \in q.names
       \/ g \in files[d] /\ ((q.pc = "mkdir" /\ q.disk <= d) \/ (q.pc = "link" /\ q.disk < d))

SnapSane(q) ==
  /\ q.op = "create" <=> q.pc \in {"mkdir", "link", "made"}
  /\ q.op = "create" => q.disk \in Disk
  /\ q.op = "create" /\ ~q.disturbed => Covers(q)

SnAdm == \A a \in Requests : SnapSane(adm[a])

SnInv == SnType /\ SnFiles /\ SnAcked /\ SnAdm

-----------------------------------------------------------------------------
(* Snapshots: the steps. *)

\* While links only grow, and the records of a file are in the same one or in
\* another, what was covered stays covered.
LEMMA SnapSaneMoves ==
  ASSUME NEW q, SnapSane(q),
         \A d \in Disk, g \in Segs : content[d][g] \subseteq content'[d][g],
         \A d \in Disk, g \in Segs : g \in files[d] => \E h \in Segs : h \in files'[d] /\ content[d][g] \subseteq content'[d][h],
         \A d \in Disk : Of(q.id).links[d] \subseteq Of(q.id)'.links[d]
  PROVE  SnapSane(q)'
<1>1. ASSUME Covers(q) PROVE Covers(q)'
  <2> SUFFICES ASSUME NEW r \in q.owed
               PROVE  \E d \in Disk, g \in Segs :
                        /\ r \in content'[d][g]
                        /\ \/ g \in Of(q.id)'.links[d] \/ <<d, g>> \in q.missed
                           \/ q.pc = "link" /\ d = q.disk /\ g \in q.names
                           \/ g \in files'[d] /\ ((q.pc = "mkdir" /\ q.disk <= d) \/ (q.pc = "link" /\ q.disk < d))
    BY DEF Covers
  <2> PICK d \in Disk, g \in Segs :
        /\ r \in content[d][g]
        /\ \/ g \in Of(q.id).links[d] \/ <<d, g>> \in q.missed
           \/ q.pc = "link" /\ d = q.disk /\ g \in q.names
           \/ g \in files[d] /\ ((q.pc = "mkdir" /\ q.disk <= d) \/ (q.pc = "link" /\ q.disk < d))
    BY <1>1 DEF Covers
  <2>1. CASE g \in files[d] /\ ((q.pc = "mkdir" /\ q.disk <= d) \/ (q.pc = "link" /\ q.disk < d))
    <3> PICK h \in Segs : h \in files'[d] /\ content[d][g] \subseteq content'[d][h]
      BY <2>1
    <3> QED BY <2>1
  <2>2. CASE g \in Of(q.id).links[d] \/ <<d, g>> \in q.missed \/ (q.pc = "link" /\ d = q.disk /\ g \in q.names)
    BY <2>2
  <2> QED BY <2>1, <2>2
<1> QED BY <1>1 DEF SnapSane

LEMMA SnapSaneGrows ==
  ASSUME NEW q, SnapSane(q),
         \A d \in Disk : files[d] \subseteq files'[d],
         \A d \in Disk, g \in Segs : content[d][g] \subseteq content'[d][g],
         \A d \in Disk : Of(q.id).links[d] \subseteq Of(q.id)'.links[d]
  PROVE  SnapSane(q)'
BY SnapSaneMoves

\* A request that is disturbed, or not, keeps its other fields.
LEMMA Disturbed ==
  ASSUME NEW i, NEW td, NEW m, NEW q \in AdmRec(i, td, m), NEW b \in BOOLEAN
  PROVE  LET r == [q EXCEPT !.disturbed = b]
         IN  /\ r \in AdmRec(i, td, m) /\ r.disturbed = b /\ r.op = q.op /\ r.pc = q.pc /\ r.disk = q.disk
             /\ r.id = q.id /\ r.names = q.names /\ r.owed = q.owed /\ r.missed = q.missed
BY DEF AdmRec

\* Steps of the engines: the requests and the directories are left alone.
LEMMA EngineStep ==
  ASSUME SnInv, NEW d \in Disk, AppendRecord(d) \/ Rotate(d) \/ Move(d)
  PROVE  SnInv'
<1> USE SnapshotsAssumption DEF SnInv
<1>0. /\ active[d] \in Segs /\ active[d] \in files[d] /\ acked \in Nat /\ UNCHANGED <<snaps, adm>>
  BY DEF SnType, SnFiles, AppendRecord, Rotate, Move
<1>1. CASE AppendRecord(d)
  <2>1. SnType'
    BY <1>0, <1>1 DEF SnType, AppendRecord
  <2>2. /\ UNCHANGED <<files, active, moving>> /\ acked' = acked + 1
        /\ \A x \in Disk, g \in Segs : content[x][g] \subseteq content'[x][g]
        /\ acked + 1 \in content'[d][active[d]]
        /\ \A x \in Disk, g \in Segs : content'[x][g] = content[x][g] \/ g = active[x]
    BY <1>0, <1>1 DEF SnType, AppendRecord
  <2>3. SnFiles'
    <3> SUFFICES ASSUME NEW x \in Disk, moving[x] # 0
                 PROVE  \E g \in files[x] \ {moving[x]} : content'[x][moving[x]] \subseteq content'[x][g]
      BY <2>2 DEF SnFiles
    <3>1. moving[x] \in Segs /\ moving[x] # active[x] /\ active[x] \in Segs
      BY DEF SnFiles, SnType, Segs
    <3>2. content'[x][moving[x]] = content[x][moving[x]]
      BY <2>2, <3>1
    <3> PICK g \in files[x] \ {moving[x]} : content[x][moving[x]] \subseteq content[x][g]
      BY DEF SnFiles
    <3>3. g \in Segs
      BY DEF SnType
    <3> QED BY <2>2, <3>2, <3>3
  <2>4. SnAcked'
    <3> SUFFICES ASSUME NEW r \in 1 .. acked + 1
                 PROVE  \E x \in Disk, g \in Segs : InFile(r, x, g)'
      BY <2>2 DEF SnAcked
    <3>1. CASE r = acked + 1
      BY <1>0, <2>2, <3>1 DEF InFile
    <3>2. CASE r # acked + 1
      <4>1. r \in 1 .. acked
        BY <1>0, <3>2
      <4> QED BY <2>2, <4>1 DEF SnAcked, InFile
    <3> QED BY <3>1, <3>2
  <2>5. SnAdm'
    <3> SUFFICES ASSUME NEW a \in Requests PROVE SnapSane(adm[a])'
      BY DEF SnAdm
    <3> PICK q : q = adm[a]
      OBVIOUS
    <3>1. SnapSane(q)
      BY DEF SnAdm
    <3>2. SnapSane(q)'
      BY <1>0, <2>2, <3>1, SnapSaneGrows DEF Of
    <3> QED BY <1>0, <3>2
  <2> QED BY <2>1, <2>3, <2>4, <2>5
<1>2. CASE Rotate(d)
  <2>1. /\ UNCHANGED <<content, moving, acked>> /\ active' = [active EXCEPT ![d] = @ + 1]
        /\ files' = [files EXCEPT ![d] = @ \cup {active[d] + 1}] /\ active[d] + 1 \in Segs
    BY <1>0, <1>2 DEF Rotate, Segs
  <2>2. SnType'
    BY <1>0, <2>1 DEF SnType
  <2>3. SnFiles'
    <3> SUFFICES ASSUME NEW x \in Disk
                 PROVE  /\ active'[x] \in files'[x] /\ \A g \in files'[x] : g <= active'[x]
                        /\ moving[x] # 0 =>
                             /\ moving[x] \in files'[x] /\ moving[x] < active'[x]
                             /\ \E g \in files'[x] \ {moving[x]} : content[x][moving[x]] \subseteq content[x][g]
      BY <2>1 DEF SnFiles
    <3>1. /\ active[x] \in Nat /\ active[x] \in files[x] /\ \A g \in files[x] : g <= active[x] /\ g \in Nat
          /\ moving[x] \in Nat
          /\ moving[x] # 0 =>
               /\ moving[x] \in files[x] /\ moving[x] < active[x]
               /\ \E g \in files[x] \ {moving[x]} : content[x][moving[x]] \subseteq content[x][g]
      <4>1. \A g \in Segs : g \in Nat
        BY DEF Segs
      <4>2. active[x] \in Segs /\ files[x] \subseteq Segs /\ moving[x] \in Segs \cup {0}
        BY DEF SnType
      <4> QED BY <4>1, <4>2 DEF SnFiles
    <3>2. CASE x = d
      <4>1. active'[x] = active[x] + 1 /\ files'[x] = files[x] \cup {active[x] + 1}
        BY <2>1, <3>2 DEF SnType
      <4> QED BY <3>1, <4>1
    <3>3. CASE x # d
      <4>1. active'[x] = active[x] /\ files'[x] = files[x]
        BY <2>1, <3>3 DEF SnType
      <4> QED BY <3>1, <4>1
    <3> QED BY <3>2, <3>3
  <2>4. \A x \in Disk : files[x] \subseteq files'[x]
    BY <2>1 DEF SnType
  <2>5. SnAcked'
    BY <2>1, <2>4 DEF SnAcked, InFile
  <2>6. SnAdm'
    <3> SUFFICES ASSUME NEW a \in Requests PROVE SnapSane(adm[a])'
      BY DEF SnAdm
    <3> PICK q : q = adm[a]
      OBVIOUS
    <3>1. SnapSane(q)
      BY DEF SnAdm
    <3>2. SnapSane(q)'
      BY <1>0, <2>1, <2>4, <3>1, SnapSaneGrows DEF Of
    <3> QED BY <1>0, <3>2
  <2> QED BY <2>2, <2>3, <2>5, <2>6
<1>3. CASE Move(d)
  <2> PICK v \in files[d] \ {active[d]} :
        /\ moving' = [moving EXCEPT ![d] = v]
        /\ content' = [content EXCEPT ![d][active[d]] = @ \cup content[d][v]]
    BY <1>3 DEF Move
  <2>1. UNCHANGED <<files, active, acked>> /\ v \in Segs /\ v < active[d] /\ moving[d] = 0
    BY <1>0, <1>3 DEF Move, SnType, SnFiles, Segs
  <2>2. SnType'
    BY <1>0, <2>1 DEF SnType
  <2>3. /\ \A x \in Disk, g \in Segs : content[x][g] \subseteq content'[x][g]
        /\ \A x \in Disk, g \in Segs : content'[x][g] = content[x][g] \/ (g = active[x] /\ x = d)
        /\ content[d][v] \subseteq content'[d][active[d]]
    BY <1>0, <2>1 DEF SnType
  <2>4. SnFiles'
    <3> SUFFICES ASSUME NEW x \in Disk, moving'[x] # 0
                 PROVE  /\ moving'[x] \in files[x] /\ moving'[x] < active[x]
                        /\ \E g \in files[x] \ {moving'[x]} : content'[x][moving'[x]] \subseteq content'[x][g]
      BY <2>1 DEF SnFiles
    <3>1. CASE x = d
      <4>1. moving'[x] = v
        BY <3>1 DEF SnType
      <4>2. content'[x][v] = content[x][v]
        BY <2>1, <2>3, <3>1
      <4> QED BY <1>0, <2>1, <2>3, <3>1, <4>1, <4>2
    <3>2. CASE x # d
      <4>1. moving'[x] = moving[x]
        BY <3>2 DEF SnType
      <4>2. \A g \in Segs : content'[x][g] = content[x][g]
        BY <2>3, <3>2
      <4>3. files[x] \subseteq Segs
        BY DEF SnType
      <4> QED BY <4>1, <4>2, <4>3 DEF SnFiles
    <3> QED BY <3>1, <3>2
  <2>5. SnAcked'
    BY <2>1, <2>3 DEF SnAcked, InFile
  <2>6. SnAdm'
    <3> SUFFICES ASSUME NEW a \in Requests PROVE SnapSane(adm[a])'
      BY DEF SnAdm
    <3> PICK q : q = adm[a]
      OBVIOUS
    <3>1. SnapSane(q)
      BY DEF SnAdm
    <3>2. SnapSane(q)'
      BY <1>0, <2>1, <2>3, <3>1, SnapSaneGrows DEF Of
    <3> QED BY <1>0, <3>2
  <2> QED BY <2>2, <2>4, <2>5, <2>6
<1> QED BY <1>1, <1>2, <1>3

\* The unlink of a collected segment: its records are in another file.
LEMMA UnlinkStep ==
  ASSUME SnInv, NEW d \in Disk, Unlink(d)
  PROVE  SnInv'
<1> USE SnapshotsAssumption DEF SnInv
<1> PICK v \in Segs : v = moving[d] /\ v \in files[d] /\ v < active[d]
  BY DEF Unlink, SnType, SnFiles
<1> PICK w \in files[d] \ {v} : content[d][v] \subseteq content[d][w]
  BY DEF Unlink, SnFiles
<1>1. /\ UNCHANGED <<content, active, snaps, adm, acked>> /\ files' = [files EXCEPT ![d] = @ \ {v}]
      /\ moving' = [moving EXCEPT ![d] = 0] /\ active[d] \in Segs /\ w \in Segs
  BY DEF Unlink, SnType
<1>3. SnType'
  BY <1>1 DEF SnType
<1>4. SnFiles'
  <2> SUFFICES ASSUME NEW x \in Disk
               PROVE  /\ active[x] \in files'[x] /\ \A g \in files'[x] : g <= active[x]
                      /\ moving'[x] # 0 =>
                           /\ moving'[x] \in files'[x] /\ moving'[x] < active[x]
                           /\ \E g \in files'[x] \ {moving'[x]} : content[x][moving'[x]] \subseteq content[x][g]
    BY <1>1 DEF SnFiles
  <2>1. CASE x = d
    <3>1. moving'[x] = 0 /\ files'[x] = files[x] \ {v}
      BY <1>1, <2>1 DEF SnType
    <3>2. active[x] # v
      BY <1>1, <2>1 DEF Segs
    <3> QED BY <2>1, <3>1, <3>2 DEF SnFiles
  <2>2. CASE x # d
    <3>1. moving'[x] = moving[x] /\ files'[x] = files[x]
      BY <1>1, <2>2 DEF SnType
    <3> QED BY <3>1 DEF SnFiles
  <2> QED BY <2>1, <2>2
<1>5. SnAcked'
  <2> SUFFICES ASSUME NEW r \in 1 .. acked
               PROVE  \E x \in Disk, g \in Segs : InFile(r, x, g)'
    BY <1>1 DEF SnAcked
  <2> PICK x \in Disk, g \in Segs : InFile(r, x, g)
    BY DEF SnAcked
  <2>1. CASE x = d /\ g = v
    <3>1. InFile(r, d, w)' /\ w \in Segs
      BY <1>1, <2>1 DEF InFile, SnType
    <3> QED BY <3>1
  <2>2. CASE ~(x = d /\ g = v)
    <3>1. InFile(r, x, g)'
      BY <1>1, <2>2 DEF InFile, SnType
    <3> QED BY <3>1
  <2> QED BY <2>1, <2>2
<1>6. SnAdm'
  <2> SUFFICES ASSUME NEW a \in Requests PROVE SnapSane(adm[a])'
    BY DEF SnAdm
  <2> PICK q : q = adm[a]
    OBVIOUS
  <2>1. SnapSane(q)
    BY DEF SnAdm
  <2>2. \A x \in Disk, g \in Segs : g \in files[x] => \E h \in Segs : h \in files'[x] /\ content[x][g] \subseteq content'[x][h]
    <3> SUFFICES ASSUME NEW x \in Disk, NEW g \in Segs, g \in files[x]
                 PROVE  \E h \in Segs : h \in files'[x] /\ content[x][g] \subseteq content[x][h]
      BY <1>1
    <3>1. CASE x = d /\ g = v
      <4>1. w \in files'[x]
        BY <1>1, <3>1 DEF SnType
      <4> QED BY <1>1, <3>1, <4>1
    <3>2. CASE ~(x = d /\ g = v)
      <4>1. g \in files'[x]
        BY <1>1, <3>2 DEF SnType
      <4> QED BY <4>1
    <3> QED BY <3>1, <3>2
  <2>3. \A x \in Disk, g \in Segs : content[x][g] \subseteq content'[x][g]
    BY <1>1
  <2>4. Of(q.id)' = Of(q.id)
    BY <1>1 DEF Of
  <2>5. SnapSane(q)'
    BY ONLY <2>1, <2>2, <2>3, <2>4, SnapSaneMoves
  <2> QED BY <1>1, <2>5
<1> QED BY <1>3, <1>4, <1>5, <1>6

\* Request a becomes r; directories only gain disks and links.
LEMMA AdmStep ==
  ASSUME SnInv, NEW a \in Requests, NEW r, \E i, td, m : r \in AdmRec(i, td, m), adm' = [adm EXCEPT ![a] = r],
         SnapSane(r)', UNCHANGED <<files, content, active, moving, acked>>,
         \A id \in DOMAIN snaps' : \E m : snaps'[id] \in DirRec(m),
         \A id : \A d \in Disk : Of(id).links[d] \subseteq Of(id)'.links[d]
  PROVE  SnInv'
<1> USE DEF SnInv
<1>0. adm'[a] = r /\ \A b \in Requests \ {a} : adm'[b] = adm[b]
  BY DEF SnType
<1>1. SnType'
  <2>1. adm' = [b \in Requests |-> adm'[b]]
    BY DEF SnType
  <2>2. \A b \in Requests : \E i, td, m : adm'[b] \in AdmRec(i, td, m)
    BY <1>0 DEF SnType
  <2> QED BY <2>1, <2>2 DEF SnType
<1>2. SnFiles' /\ SnAcked'
  BY DEF SnFiles, SnAcked, InFile
<1>3. SnAdm'
  <2> SUFFICES ASSUME NEW b \in Requests PROVE SnapSane(adm[b])'
    BY DEF SnAdm
  <2>1. CASE b = a
    BY <1>0, <2>1
  <2>2. CASE b # a
    <3> PICK q : q = adm[b]
      OBVIOUS
    <3>1. SnapSane(q)
      BY DEF SnAdm
    <3>2. SnapSane(q)'
      BY <3>1, SnapSaneGrows
    <3> QED BY <1>0, <2>2, <3>2
  <2> QED BY <2>1, <2>2
<1> QED BY <1>1, <1>2, <1>3

LEMMA RestingRec == Resting \in AdmRec(<< >>, << >>, 0) /\ Resting.op = "none" /\ Resting.pc = "idle"
BY DEF Resting, AdmRec

\* A request that rests again.
LEMMA RestStep ==
  ASSUME SnInv, NEW a \in Requests, adm' = [adm EXCEPT ![a] = Resting],
         UNCHANGED <<files, content, active, moving, acked, snaps>>
  PROVE  SnInv'
<1>1. SnapSane(Resting)'
  BY RestingRec DEF SnapSane
<1>2. \A id : Of(id)' = Of(id)
  BY DEF Of
<1> QED BY <1>1, <1>2, RestingRec, AdmStep DEF SnInv, SnType

LEMMA StartCreateStep ==
  ASSUME SnInv, NEW a \in Requests, StartCreate(a)
  PROVE  SnInv'
<1> PICK n \in Nonces :
       adm' = [adm EXCEPT ![a] = [Resting EXCEPT !.op = "create", !.pc = "mkdir", !.id = Append(chrono_lite(clock[tick]), n), !.disk = 1,
                                                 !.owed = 1 .. acked, !.at = clock[tick]]]
  BY DEF StartCreate
<1> PICK i, m : i = Append(chrono_lite(clock[tick]), n) /\ m = clock[tick]
  OBVIOUS
<1> PICK ac \in Nat : ac = acked
  BY DEF SnInv, SnType
<1> DEFINE r == [Resting EXCEPT !.op = "create", !.pc = "mkdir", !.id = i, !.disk = 1, !.owed = 1 .. ac, !.at = m]
<1>1. /\ r \in AdmRec(i, << >>, m) /\ r.op = "create" /\ r.pc = "mkdir" /\ r.id = i /\ r.disk = 1
      /\ r.owed = 1 .. ac
  <2> PICK owed \in SUBSET Nat : owed = 1 .. ac
    OBVIOUS
  <2> PICK q : q = Resting
    OBVIOUS
  <2>1. q \in AdmRec(<< >>, << >>, 0)
    BY RestingRec
  <2>2. r = [q EXCEPT !.op = "create", !.pc = "mkdir", !.id = i, !.disk = 1, !.owed = owed, !.at = m]
    OBVIOUS
  <2> HIDE DEF r
  <2> QED BY <2>1, <2>2 DEF AdmRec
<1>2. adm' = [adm EXCEPT ![a] = r]
  OBVIOUS
<1> HIDE DEF r
<1>3. UNCHANGED <<files, content, active, moving, acked, snaps>>
  BY DEF StartCreate
<1>4. Covers(r)'
  <2> SUFFICES ASSUME NEW x \in r.owed
               PROVE  \E d \in Disk, g \in Segs :
                        /\ x \in content'[d][g]
                        /\ \/ g \in Of(r.id)'.links[d] \/ <<d, g>> \in r.missed
                           \/ r.pc = "link" /\ d = r.disk /\ g \in r.names
                           \/ g \in files'[d] /\ ((r.pc = "mkdir" /\ r.disk <= d) \/ (r.pc = "link" /\ r.disk < d))
    BY DEF Covers
  <2>1. x \in 1 .. acked
    BY <1>1
  <2> PICK d \in Disk, g \in Segs : InFile(x, d, g)
    BY <2>1 DEF SnInv, SnAcked
  <2>2. r.disk <= d
    BY <1>1 DEF Disk
  <2>3. x \in content'[d][g] /\ g \in files'[d] /\ r.pc = "mkdir"
    BY <1>1, <1>3 DEF InFile
  <2> QED BY <2>2, <2>3
<1>5. SnapSane(r)'
  <2>1. 1 \in Disk
    BY SnapshotsAssumption DEF Disk
  <2> QED BY <1>1, <1>4, <2>1 DEF SnapSane
<1>6. \A id : Of(id)' = Of(id)
  BY <1>3 DEF Of
<1> QED BY <1>1, <1>2, <1>3, <1>5, <1>6, AdmStep DEF SnInv, SnType

\* Directories of ids are typed, also the empty one.
LEMMA OfType ==
  ASSUME SnType, NEW id
  PROVE  \E m : Of(id) \in DirRec(m)
<1>1. NoDir \in DirRec(0)
  BY DEF NoDir, DirRec
<1> QED BY <1>1 DEF Of, SnType

\* The directory of one id changes to y.
LEMMA WithFacts ==
  ASSUME SnType, NEW id, NEW y, NEW m, y \in DirRec(m), snaps' = With(id, y)
  PROVE  /\ \A j \in DOMAIN snaps' : \E n : snaps'[j] \in DirRec(n)
         /\ Of(id)' = y
         /\ \A j : j # id => Of(j)' = Of(j)
BY DEF With, Of, SnType

LEMMA MakeDirStep ==
  ASSUME SnInv, NEW a \in Requests, MakeDir(a)
  PROVE  SnInv'
<1> USE DEF SnInv
<1>0. UNCHANGED <<files, content, active, moving, acked>>
  BY DEF MakeDir
<1>1. CASE adm' = [adm EXCEPT ![a] = Resting] /\ UNCHANGED snaps
  BY <1>0, <1>1, RestStep
<1>2. CASE /\ snaps' = With(adm[a].id, [Of(adm[a].id) EXCEPT !.disks = @ \cup {adm[a].disk}, !.root = layout = "shared", !.at = adm[a].at])
           /\ \/ adm' = [adm EXCEPT ![a] = [adm[a] EXCEPT !.pc = "link", !.names = files[adm[a].disk]]]
              \/ adm' = [adm EXCEPT ![a] = Resting]
  <2> PICK i, td, m : adm[a] \in AdmRec(i, td, m)
    BY DEF SnType
  <2> PICK q : q = adm[a]
    OBVIOUS
  <2> PICK k : Of(i) \in DirRec(k)
    BY OfType
  <2> PICK x : x = Of(i)
    OBVIOUS
  <2> PICK root \in BOOLEAN : root = (layout = "shared")
    OBVIOUS
  <2>1. /\ q \in AdmRec(i, td, m) /\ q.id = i /\ q.disk \in Nat /\ q.at = m /\ q.pc = "mkdir" /\ q.op = "create"
        /\ q.disk \in Disk
        /\ ~q.disturbed => Covers(q)
    BY DEF AdmRec, MakeDir, SnAdm, SnapSane
  <2> PICK names \in SUBSET Segs : names = files[q.disk]
    BY <2>1 DEF SnType
  <2> DEFINE y == [x EXCEPT !.disks = @ \cup {q.disk}, !.root = root, !.at = m]
             r == [q EXCEPT !.pc = "link", !.names = names]
  <2>2. y \in DirRec(m) /\ y.disks = x.disks \cup {q.disk} /\ y.links = x.links
    <3>1. x \in DirRec(k) /\ root \in BOOLEAN /\ q.disk \in Nat
      BY <2>1
    <3>2. y = [x EXCEPT !.disks = @ \cup {q.disk}, !.root = root, !.at = m]
      OBVIOUS
    <3> HIDE DEF y
    <3> QED BY ONLY <3>1, <3>2 DEF DirRec
  <2>3. /\ r \in AdmRec(i, td, m) /\ r.pc = "link" /\ r.names = names /\ r.id = i /\ r.disk = q.disk
        /\ r.op = "create" /\ r.owed = q.owed /\ r.missed = q.missed /\ r.disturbed = q.disturbed
    BY <2>1 DEF AdmRec
  <2>4. snaps' = With(i, y) /\ (adm' = [adm EXCEPT ![a] = r] \/ adm' = [adm EXCEPT ![a] = Resting])
    BY <1>2, <2>1
  <2> HIDE DEF y, r
  <2>5. /\ \A j \in DOMAIN snaps' : \E n : snaps'[j] \in DirRec(n)
        /\ Of(i)' = y
        /\ \A j : j # i => Of(j)' = Of(j)
    BY <2>2, <2>4, WithFacts
  <2>6. \A j : \A d \in Disk : Of(j).links[d] \subseteq Of(j)'.links[d]
    BY <2>2, <2>5
  <2>7. ASSUME Covers(q) PROVE Covers(r)'
    <3> SUFFICES ASSUME NEW z \in q.owed
                 PROVE  \E d \in Disk, g \in Segs :
                    /\ z \in content[d][g]
                    /\ \/ g \in x.links[d] \/ <<d, g>> \in q.missed
                       \/ d = q.disk /\ g \in names
                       \/ g \in files[d] /\ q.disk < d
      BY <1>0, <2>2, <2>3, <2>5 DEF Covers
    <3> PICK d \in Disk, g \in Segs :
          /\ z \in content[d][g]
          /\ g \in x.links[d] \/ <<d, g>> \in q.missed \/ (g \in files[d] /\ q.disk <= d)
      BY <2>1, <2>7 DEF Covers
    <3>1. q.disk <= d => d = q.disk \/ q.disk < d
      BY <2>1 DEF Disk
    <3> QED BY <3>1
  <2>8. SnapSane(r)'
    BY <2>1, <2>3, <2>7 DEF SnapSane
  <2>9. SnapSane(Resting)'
    BY RestingRec DEF SnapSane
  <2> QED BY <1>0, <2>3, <2>4, <2>5, <2>6, <2>8, <2>9, RestingRec, AdmStep
<1> QED BY <1>1, <1>2 DEF MakeDir

LEMMA LinkStep ==
  ASSUME SnInv, NEW a \in Requests, Link(a)
  PROVE  SnInv'
<1> USE DEF SnInv
<1>0. UNCHANGED <<files, content, active, moving, acked>> /\ adm[a].pc = "link"
  BY DEF Link
<1> PICK i, td, m : adm[a] \in AdmRec(i, td, m)
  BY DEF SnType
<1> PICK q : q = adm[a]
  OBVIOUS
<1> PICK f \in q.names :
      \/ /\ q.disk \in Of(q.id).disks /\ snaps' = With(q.id, [Of(q.id) EXCEPT !.links[q.disk] = @ \cup {f}])
         /\ adm' = [adm EXCEPT ![a].names = @ \ {f}]
      \/ adm' = [adm EXCEPT ![a].names = @ \ {f}, ![a].missed = @ \cup {<<q.disk, f>>}] /\ UNCHANGED snaps
  BY DEF Link
<1> PICK k : Of(i) \in DirRec(k)
  BY OfType
<1> PICK x : x = Of(i)
  OBVIOUS
<1>1. /\ q \in AdmRec(i, td, m) /\ q.id = i /\ q.pc = "link" /\ q.op = "create" /\ q.disk \in Disk
      /\ q.names \in SUBSET Segs /\ q.missed \in SUBSET (Disk \X Segs) /\ f \in Segs /\ f \in q.names
      /\ ~q.disturbed => Covers(q)
  BY <1>0 DEF AdmRec, SnAdm, SnapSane
<1> DEFINE y == [x EXCEPT !.links[q.disk] = @ \cup {f}]
<1>4. y \in DirRec(k) /\ y.links = [x.links EXCEPT ![q.disk] = @ \cup {f}] /\ x.links \in [Disk -> SUBSET Segs]
  BY <1>1 DEF DirRec
<1> HIDE DEF y
\* What the link covered is linked, or missed.
<1>7. ASSUME NEW r, r.pc = "link", r.names = q.names \ {f}, r.id = i, r.disk = q.disk, r.op = "create", r.owed = q.owed,
             r.disturbed = q.disturbed, q.missed \subseteq r.missed,
             f \in Of(i)'.links[q.disk] \/ <<q.disk, f>> \in r.missed,
             \A d \in Disk : x.links[d] \subseteq Of(i)'.links[d]
      PROVE  SnapSane(r)'
  <2>1. ASSUME Covers(q) PROVE Covers(r)'
    <3> SUFFICES ASSUME NEW z \in q.owed
                 PROVE  \E d \in Disk, g \in Segs :
                    /\ z \in content[d][g]
                    /\ \/ g \in Of(i)'.links[d] \/ <<d, g>> \in r.missed
                       \/ d = q.disk /\ g \in q.names \ {f}
                       \/ g \in files[d] /\ q.disk < d
      BY <1>0, <1>7 DEF Covers
    <3> PICK d \in Disk, g \in Segs :
          /\ z \in content[d][g]
          /\ \/ g \in x.links[d] \/ <<d, g>> \in q.missed
             \/ d = q.disk /\ g \in q.names
             \/ g \in files[d] /\ q.disk < d
      BY <1>1, <2>1 DEF Covers
    <3>1. CASE d = q.disk /\ g = f
      BY <1>7, <3>1
    <3>2. CASE ~(d = q.disk /\ g = f)
      BY <1>7, <3>2
    <3> QED BY <3>1, <3>2
  <2> QED BY <1>1, <1>7, <2>1 DEF SnapSane
<1>8. CASE /\ snaps' = With(q.id, [Of(q.id) EXCEPT !.links[q.disk] = @ \cup {f}])
           /\ adm' = [adm EXCEPT ![a].names = @ \ {f}]
  <2> DEFINE r == [q EXCEPT !.names = @ \ {f}]
  <2>1. /\ r \in AdmRec(i, td, m) /\ r.pc = "link" /\ r.names = q.names \ {f} /\ r.id = i /\ r.disk = q.disk
        /\ r.op = "create" /\ r.owed = q.owed /\ r.missed = q.missed /\ r.disturbed = q.disturbed
    BY <1>1 DEF AdmRec
  <2>2. adm' = [adm EXCEPT ![a] = r]
    BY <1>8
  <2> HIDE DEF r
  <2>3. snaps' = With(i, y)
    BY <1>1, <1>8 DEF y
  <2>4. /\ \A j \in DOMAIN snaps' : \E n : snaps'[j] \in DirRec(n)
        /\ Of(i)' = y
        /\ \A j : j # i => Of(j)' = Of(j)
    BY <1>4, <2>3, WithFacts
  <2>5. f \in Of(i)'.links[q.disk] /\ \A d \in Disk : x.links[d] \subseteq Of(i)'.links[d]
    BY <1>1, <1>4, <2>4
  <2>6. SnapSane(r)'
    BY <1>7, <2>1, <2>5
  <2>7. \A j : \A d \in Disk : Of(j).links[d] \subseteq Of(j)'.links[d]
    BY <2>4, <2>5
  <2> QED BY <1>0, <2>1, <2>2, <2>4, <2>6, <2>7, AdmStep
<1>9. CASE adm' = [adm EXCEPT ![a].names = @ \ {f}, ![a].missed = @ \cup {<<q.disk, f>>}] /\ UNCHANGED snaps
  <2> PICK e : e = <<q.disk, f>>
    OBVIOUS
  <2> DEFINE r == [q EXCEPT !.names = @ \ {f}, !.missed = @ \cup {e}]
  <2>0. e \in Disk \X Segs
    BY <1>1
  <2>1. /\ r \in AdmRec(i, td, m) /\ r.pc = "link" /\ r.names = q.names \ {f} /\ r.id = i /\ r.disk = q.disk
        /\ r.op = "create" /\ r.owed = q.owed /\ r.missed = q.missed \cup {e} /\ r.disturbed = q.disturbed
    <3>1. q \in AdmRec(i, td, m) /\ r = [q EXCEPT !.names = @ \ {f}, !.missed = @ \cup {e}]
      BY <1>1
    <3> HIDE DEF r
    <3> QED BY ONLY <1>1, <2>0, <3>1 DEF AdmRec
  <2>2. adm' = [adm EXCEPT ![a] = r]
    <3>1. adm' = [adm EXCEPT ![a].names = @ \ {f}, ![a].missed = @ \cup {e}]
      BY <1>9
    <3>2. [adm EXCEPT ![a].names = @ \ {f}, ![a].missed = @ \cup {e}] = [adm EXCEPT ![a] = r]
      OBVIOUS
    <3> QED BY <3>1, <3>2
  <2> HIDE DEF r
  <2>4. \A j : Of(j)' = Of(j)
    BY <1>9 DEF Of
  <2>6. SnapSane(r)'
    BY <1>7, <2>1, <2>4
  <2> QED BY <1>0, <1>9, <2>1, <2>2, <2>4, <2>6, AdmStep DEF SnType
<1> QED BY <1>8, <1>9

LEMMA NextDiskStep ==
  ASSUME SnInv, NEW a \in Requests, NextDisk(a)
  PROVE  SnInv'
<1> USE DEF SnInv
<1>0. UNCHANGED <<files, content, active, moving, acked, snaps>> /\ adm[a].pc = "link" /\ adm[a].names = {}
  BY DEF NextDisk
<1> PICK i, td, m : adm[a] \in AdmRec(i, td, m)
  BY DEF SnType
<1> PICK q : q = adm[a]
  OBVIOUS
<1>1. /\ q \in AdmRec(i, td, m) /\ q.id = i /\ q.pc = "link" /\ q.op = "create" /\ q.disk \in Disk /\ q.names = {}
      /\ ~q.disturbed => Covers(q)
  BY <1>0 DEF AdmRec, SnAdm, SnapSane
<1>2. \A id : Of(id)' = Of(id)
  BY <1>0 DEF Of
<1>4. Covers(q) => \A z \in q.owed : \E d \in Disk, g \in Segs :
        z \in content[d][g] /\ (g \in Of(i).links[d] \/ <<d, g>> \in q.missed \/ (g \in files[d] /\ q.disk < d))
  BY <1>1 DEF Covers
<1>d. q.disk \in Nat /\ q.disk >= 1 /\ q.disk <= SShards /\ SShards \in Nat
  BY <1>1, SnapshotsAssumption DEF Disk
<1>5. CASE q.disk = SShards
  <2> DEFINE r == [q EXCEPT !.pc = "made"]
  <2>1. /\ r \in AdmRec(i, td, m) /\ r.pc = "made" /\ r.id = i /\ r.disk = q.disk
        /\ r.op = "create" /\ r.owed = q.owed /\ r.missed = q.missed /\ r.disturbed = q.disturbed
    BY <1>1 DEF AdmRec
  <2>2. adm' = [adm EXCEPT ![a] = r]
    BY <1>5 DEF NextDisk
  <2> HIDE DEF r
  <2>3. \A d \in Disk : ~(q.disk < d)
    BY <1>5, <1>d DEF Disk
  <2>4. ASSUME Covers(q) PROVE Covers(r)'
    <3> SUFFICES ASSUME NEW z \in r.owed
                 PROVE  \E d \in Disk, g \in Segs :
                          /\ z \in content'[d][g]
                          /\ \/ g \in Of(r.id)'.links[d] \/ <<d, g>> \in r.missed
                             \/ r.pc = "link" /\ d = r.disk /\ g \in r.names
                             \/ g \in files'[d] /\ ((r.pc = "mkdir" /\ r.disk <= d) \/ (r.pc = "link" /\ r.disk < d))
      BY DEF Covers
    <3>1. z \in q.owed
      BY <2>1
    <3> PICK d \in Disk, g \in Segs :
          z \in content[d][g] /\ (g \in Of(i).links[d] \/ <<d, g>> \in q.missed)
      BY <1>4, <2>3, <2>4, <3>1
    <3>2. z \in content'[d][g] /\ (g \in Of(r.id)'.links[d] \/ <<d, g>> \in r.missed)
      BY <1>0, <1>2, <2>1
    <3> QED BY <3>2
  <2>5. SnapSane(r)'
    BY <1>1, <2>1, <2>4 DEF SnapSane
  <2> QED BY <1>0, <1>2, <2>1, <2>2, <2>5, AdmStep DEF SnType
<1>6. CASE q.disk # SShards
  <2> PICK nd \in Nat : nd = q.disk + 1
    BY <1>d
  <2> DEFINE r == [q EXCEPT !.pc = "mkdir", !.disk = nd]
  <2>1. /\ r \in AdmRec(i, td, m) /\ r.pc = "mkdir" /\ r.id = i /\ r.disk = nd
        /\ r.op = "create" /\ r.owed = q.owed /\ r.missed = q.missed /\ r.disturbed = q.disturbed
    BY <1>1 DEF AdmRec
  <2>2. adm' = [adm EXCEPT ![a] = r]
    <3>1. r = [q EXCEPT !.pc = "mkdir", !.disk = @ + 1]
      BY <1>1 DEF AdmRec
    <3> HIDE DEF r
    <3> QED BY <1>6, <3>1 DEF NextDisk
  <2> HIDE DEF r
  <2>3. nd \in Disk /\ \A d \in Disk : q.disk < d => nd <= d
    BY <1>6, <1>d DEF Disk
  <2>4. ASSUME Covers(q) PROVE Covers(r)'
    <3> SUFFICES ASSUME NEW z \in r.owed
                 PROVE  \E d \in Disk, g \in Segs :
                          /\ z \in content'[d][g]
                          /\ \/ g \in Of(r.id)'.links[d] \/ <<d, g>> \in r.missed
                             \/ r.pc = "link" /\ d = r.disk /\ g \in r.names
                             \/ g \in files'[d] /\ ((r.pc = "mkdir" /\ r.disk <= d) \/ (r.pc = "link" /\ r.disk < d))
      BY DEF Covers
    <3>1. z \in q.owed
      BY <2>1
    <3> PICK d \in Disk, g \in Segs :
          z \in content[d][g] /\ (g \in Of(i).links[d] \/ <<d, g>> \in q.missed \/ (g \in files[d] /\ q.disk < d))
      BY <1>4, <2>4, <3>1
    <3>2. /\ z \in content'[d][g] /\ r.pc = "mkdir"
          /\ g \in Of(r.id)'.links[d] \/ <<d, g>> \in r.missed \/ (g \in files'[d] /\ r.disk <= d)
      BY <1>0, <1>2, <2>1, <2>3
    <3> QED BY <3>2
  <2>5. SnapSane(r)'
    BY <1>1, <2>1, <2>3, <2>4 DEF SnapSane
  <2> QED BY <1>0, <1>2, <2>1, <2>2, <2>5, AdmStep DEF SnType
<1> QED BY <1>5, <1>6

\* The deletions begin with a list of ids.
LEMMA StartRemoveStep ==
  ASSUME SnInv, NEW a \in Requests, StartDelete(a) \/ StartDeleteOld(a)
  PROVE  SnInv'
<1>0. UNCHANGED <<files, content, active, moving, acked, snaps>>
  BY DEF StartDelete, StartDeleteOld
<1>1. CASE adm' = [adm EXCEPT ![a] = Resting]
  BY <1>0, <1>1, RestStep
<1>2. ASSUME NEW o \in {"delete", "old"}, NEW td,
             adm' = [adm EXCEPT ![a] = [Resting EXCEPT !.op = o, !.pc = "remove", !.todo = td, !.disk = 1]]
      PROVE  SnInv'
  <2> PICK q : q = Resting
    OBVIOUS
  <2> DEFINE r == [q EXCEPT !.op = o, !.pc = "remove", !.todo = td, !.disk = 1]
  <2>1. r \in AdmRec(<< >>, td, 0) /\ r.op = o /\ r.pc = "remove"
    BY RestingRec DEF AdmRec
  <2>2. adm' = [adm EXCEPT ![a] = r]
    BY <1>2
  <2> HIDE DEF r
  <2>3. SnapSane(r)'
    BY <2>1 DEF SnapSane
  <2>4. \A id : Of(id)' = Of(id)
    BY <1>0 DEF Of
  <2> QED BY <1>0, <2>1, <2>2, <2>3, <2>4, AdmStep DEF SnInv, SnType
<1>3. CASE StartDelete(a)
  BY <1>2, <1>3 DEF StartDelete
<1>4. CASE StartDeleteOld(a)
  <2> DEFINE ids == SetToSortSeq(Listed, Before)
  <2> PICK n \in Keeps : 
       adm' = [adm EXCEPT ![a] = IF Len(ids) <= n THEN Resting
                                 ELSE [Resting EXCEPT !.op = "old", !.pc = "remove", !.todo = SubSeq(ids, 1, Len(ids) - n), !.disk = 1]]
    BY <1>4 DEF StartDeleteOld
  <2> HIDE DEF ids
  <2> QED BY <1>1, <1>2
<1> QED BY <1>3, <1>4

\* One directory of a doomed id goes; snapshots of that id under way are disturbed.
LEMMA RemoveDirStep ==
  ASSUME SnInv, NEW a \in Requests, RemoveDir(a)
  PROVE  SnInv'
<1> USE DEF SnInv
<1>0. UNCHANGED <<files, content, active, moving, acked>> /\ adm[a].pc = "remove"
  BY DEF RemoveDir
<1> PICK id : id = Head(adm[a].todo)
  OBVIOUS
<1> PICK k : Of(id) \in DirRec(k)
  BY OfType
<1> PICK x : x = Of(id)
  OBVIOUS
<1> PICK dk : dk = adm[a].disk
  OBVIOUS
<1>1. /\ \A j \in DOMAIN snaps' : \E n : snaps'[j] \in DirRec(n)
      /\ \A j : j # id => Of(j)' = Of(j)
  <2>1. CASE dk \in x.disks
    <3> DEFINE y == [x EXCEPT !.disks = @ \ {dk}, !.links[dk] = {}]
    <3>1. y \in DirRec(k)
      BY DEF DirRec
    <3>2. snaps' = With(id, y)
      BY <2>1 DEF RemoveDir
    <3> HIDE DEF y
    <3> QED BY <3>1, <3>2, WithFacts
  <2>2. CASE dk \notin x.disks
    <3>1. snaps' = snaps
      BY <2>2 DEF RemoveDir
    <3> QED BY <3>1 DEF Of, SnType
  <2> QED BY <2>1, <2>2
<1>2. adm' = [b \in Requests |-> adm'[b]]
  BY DEF RemoveDir
<1>3. /\ \E i, td, m : adm'[a] \in AdmRec(i, td, m)
      /\ adm'[a].op # "create" /\ adm'[a].pc \notin {"mkdir", "link", "made"}
  <2> PICK i, td, m : adm[a] \in AdmRec(i, td, m)
    BY DEF SnType
  <2> PICK q : q = adm[a]
    OBVIOUS
  <2>1. q \in AdmRec(i, td, m) /\ q.pc = "remove" /\ q.op # "create" /\ q.disk \in Nat
    BY <1>0 DEF AdmRec, SnAdm, SnapSane
  <2>2. \/ adm'[a] = Resting
        \/ adm'[a] = [q EXCEPT !.disk = @ + 1]
        \/ adm'[a] = [q EXCEPT !.disk = 1, !.todo = Tail(@)]
    BY DEF RemoveDir
  <2>3. CASE adm'[a] = Resting
    BY <2>3, RestingRec
  <2>4. CASE adm'[a] = [q EXCEPT !.disk = @ + 1]
    <3>1. adm'[a] \in AdmRec(i, td, m) /\ adm'[a].op = q.op /\ adm'[a].pc = q.pc
      BY <2>1, <2>4 DEF AdmRec
    <3> QED BY <2>1, <3>1
  <2>5. CASE adm'[a] = [q EXCEPT !.disk = 1, !.todo = Tail(@)]
    <3> PICK tl : tl = Tail(td)
      OBVIOUS
    <3>1. adm'[a] = [q EXCEPT !.disk = 1, !.todo = tl]
      BY <2>1, <2>5 DEF AdmRec
    <3>2. adm'[a] \in AdmRec(i, tl, m) /\ adm'[a].op = q.op /\ adm'[a].pc = q.pc
      <4>1. [q EXCEPT !.disk = 1, !.todo = tl] \in AdmRec(i, tl, m)
        BY <2>1 DEF AdmRec
      <4>2. [q EXCEPT !.disk = 1, !.todo = tl].op = q.op /\ [q EXCEPT !.disk = 1, !.todo = tl].pc = q.pc
        BY <2>1 DEF AdmRec
      <4> QED BY <3>1, <4>1, <4>2
    <3> QED BY <2>1, <3>2
  <2> QED BY <2>2, <2>3, <2>4, <2>5
<1>4. ASSUME NEW b \in Requests \ {a}
      PROVE  (\E i, td, m : adm'[b] \in AdmRec(i, td, m)) /\ SnapSane(adm[b])'
  <2> PICK i, td, m : adm[b] \in AdmRec(i, td, m)
    BY DEF SnType
  <2> PICK q : q = adm[b]
    OBVIOUS
  <2> PICK ds \in BOOLEAN : (ds <=> (q.disturbed \/ q.id = id)) /\ adm'[b] = [q EXCEPT !.disturbed = ds]
    <3>1. adm'[b] = [adm[b] EXCEPT !.disturbed = adm[b].disturbed \/ adm[b].id = id]
      BY Zenon DEF RemoveDir
    <3>2. ASSUME NEW z, adm'[b] = [q EXCEPT !.disturbed = z], NEW w, z = w PROVE adm'[b] = [q EXCEPT !.disturbed = w]
      BY <3>2
    <3>3. CASE q.disturbed \/ q.id = id
      <4>1. (q.disturbed \/ q.id = id) = TRUE
        BY <3>3
      <4> QED BY <3>1, <3>2, <3>3, <4>1
    <3>4. CASE ~(q.disturbed \/ q.id = id)
      <4>1. (q.disturbed \/ q.id = id) = FALSE
        BY <3>4
      <4> QED BY <3>1, <3>2, <3>4, <4>1
    <3> QED BY <3>3, <3>4
  <2> PICK r : r = [q EXCEPT !.disturbed = ds]
    OBVIOUS
  <2>2. /\ r \in AdmRec(i, td, m) /\ r.disturbed = ds /\ r.op = q.op /\ r.pc = q.pc /\ r.disk = q.disk
        /\ r.id = q.id /\ r.names = q.names /\ r.owed = q.owed /\ r.missed = q.missed
    BY Disturbed
  <2>3. adm'[b] = r
    OBVIOUS
  <2>4. SnapSane(q)
    BY DEF SnAdm
  <2>5. SnapSane(r)'
    <3>1. CASE ds
      BY <2>2, <2>4, <3>1 DEF SnapSane
    <3>2. CASE ~ds
      <4>1. q.id # id /\ ~q.disturbed
        BY <3>2
      <4>2. Of(q.id)' = Of(q.id)
        BY <1>1, <4>1
      <4>3. SnapSane(q)'
        BY <1>0, <2>4, <4>2, SnapSaneGrows
      <4> QED BY <2>2, <3>2, <4>1, <4>3 DEF SnapSane, Covers
    <3> QED BY <3>1, <3>2
  <2> QED BY <2>2, <2>3, <2>5
<1>5. SnType'
  BY <1>0, <1>1, <1>2, <1>3, <1>4 DEF SnType
<1>6. SnFiles' /\ SnAcked'
  BY <1>0 DEF SnFiles, SnAcked, InFile
<1>7. SnAdm'
  <2>1. SnapSane(adm[a])'
    BY <1>3 DEF SnapSane
  <2> QED BY <1>4, <2>1 DEF SnAdm
<1> QED BY <1>5, <1>6, <1>7

LEMMA SnInvInit == SnapInit => SnInv
<1> SUFFICES ASSUME SnapInit PROVE SnInv
  OBVIOUS
<1> USE SnapshotsAssumption DEF SnapInit
<1>0. 1 \in Segs
  BY DEF Segs
<1>1. SnType
  <2>1. \A a \in Requests : adm[a] \in AdmRec(<< >>, << >>, 0)
    BY RestingRec
  <2>2. DOMAIN snaps = {}
    OBVIOUS
  <2>3. files \in [Disk -> SUBSET Segs] /\ content \in [Disk -> [Segs -> SUBSET Nat]] /\ active \in [Disk -> Segs]
        /\ moving \in [Disk -> Segs \cup {0}] /\ acked \in Nat
    BY <1>0
  <2> QED BY <2>1, <2>2, <2>3 DEF SnType
<1>2. SnFiles
  BY DEF SnFiles
<1>3. SnAcked
  BY DEF SnAcked
<1>4. SnAdm
  BY RestingRec DEF SnAdm, SnapSane
<1> QED BY <1>1, <1>2, <1>3, <1>4 DEF SnInv

\* A step that touches none of it.
LEMMA SnInvIdle ==
  ASSUME SnInv, UNCHANGED <<files, content, active, moving, snaps, adm, acked>>
  PROVE  SnInv'
<1>1. SnType'
  BY DEF SnInv, SnType
<1>2. SnFiles' /\ SnAcked'
  BY DEF SnInv, SnFiles, SnAcked, InFile
<1>3. SnAdm'
  <2> SUFFICES ASSUME NEW a \in Requests PROVE SnapSane(adm[a])'
    BY DEF SnAdm
  <2> PICK q : q = adm[a]
    OBVIOUS
  <2>1. SnapSane(q)
    BY DEF SnInv, SnAdm
  <2>2. SnapSane(q)'
    BY <2>1, SnapSaneGrows DEF Of
  <2> QED BY <2>2
<1> QED BY <1>1, <1>2, <1>3 DEF SnInv

LEMMA SnInvNext == SnInv /\ (SnapNext \/ UNCHANGED snapVars) => SnInv'
<1>1. ASSUME SnInv, SnapNext PROVE SnInv'
  <2>1. ASSUME NEW a \in Requests, Answered(a) PROVE SnInv'
    BY <1>1, <2>1, RestStep DEF Answered
  <2>2. UNCHANGED <<files, content, active, moving, snaps, adm, acked>> => SnInv'
    BY <1>1, SnInvIdle
  <2> QED BY <1>1, <2>1, <2>2, EngineStep, UnlinkStep, StartCreateStep, MakeDirStep, LinkStep, NextDiskStep,
             StartRemoveStep, RemoveDirStep DEF SnapNext, TimePasses
<1>2. ASSUME SnInv, UNCHANGED snapVars PROVE SnInv'
  BY <1>2, SnInvIdle DEF snapVars
<1> QED BY <1>1, <1>2

LEMMA SnInvHolds == Spec => []SnInv
<1>1. Init => SnInv
  BY SnInvInit DEF Init
<1>2. SnInv /\ [Next]_vars => SnInv'
  BY SnInvNext DEF Next, vars, snapVars
<1> QED BY <1>1, <1>2, PTL DEF Spec

\* create_snapshot: whatever the engines append, rotate and collect, and
\* whatever other snapshots are made or deleted meanwhile, a snapshot that was
\* answered for links every record acknowledged before, but for the files whose
\* link failed, unless its own directory was deleted under it.
THEOREM SnapshotsStayComplete == Spec => []SnapshotComplete
<1>1. SnInv => SnapshotComplete
  <2> SUFFICES ASSUME SnInv, NEW a \in Requests, adm[a].pc = "made", ~adm[a].disturbed, NEW r \in adm[a].owed
               PROVE  \E d \in Disk, g \in Segs :
                        r \in content[d][g] /\ (g \in Of(adm[a].id).links[d] \/ <<d, g>> \in adm[a].missed)
    BY DEF SnapshotComplete
  <2>1. Covers(adm[a])
    BY DEF SnInv, SnAdm, SnapSane
  <2> QED BY <2>1 DEF Covers
<1> QED BY <1>1, SnInvHolds, PTL

-----------------------------------------------------------------------------
(* The rate limit: the inductive invariant. *)

\* The requests of an address that passed after s, its bucket, and its time: a
\* bucket that is missing counts as a full one.
Recent(p, s) == {i \in 1 .. Len(p) : p[i] > s}
Tokens(ip) == IF ip \in DOMAIN buckets THEN buckets[ip].tokens ELSE MaxRps * TPS
Since(ip) == upto[ip] + regained[ip]

\* A bucket with k tokens at time l pays for no more than the rate, counted
\* from any request that passed, and is short of no more than what passed.
Pays(p, k, l) == \A i \in 1 .. Len(p) : (Len(p) - i + 1) * TPS + k <= MaxRps * (TPS + l - p[i])
Owes(p, k, l) == \A s \in Int : k + TPS * Cardinality(Recent(p, s)) >= AtMost(MaxRps * TPS, MaxRps * (l - s))
Even(p, k, l) == Pays(p, k, l) /\ Owes(p, k, l)

RtType ==
  /\ now \in Nat /\ passed \in [Ips -> Seq(Int)] /\ refused \in [Ips -> Int]
  /\ upto \in [Ips -> Nat] /\ regained \in [Ips -> Nat]
  /\ calls \in [Callers -> [ip : Ips \cup {Nobody}, at : Nat]]
  /\ buckets \in [DOMAIN buckets -> [tokens : 0 .. MaxRps * TPS, last : Nat]]
  /\ \A ip \in DOMAIN buckets : ip \in Ips /\ buckets[ip].last = upto[ip]
  /\ \A ip \in Ips : \A i \in 1 .. Len(passed[ip]) : passed[ip][i] <= Since(ip)

RtInv == RtType /\ (\A ip \in Ips : Even(passed[ip], Tokens(ip), Since(ip))) /\ LimitsEachAlone

-----------------------------------------------------------------------------
(* The rate limit: the steps. *)

LEMMA Products ==
  /\ MaxRps \in Nat /\ TPS \in Nat /\ TPS > 0 /\ MaxRps > 0 /\ MaxRps * TPS \in Nat
  /\ \A x \in Int : MaxRps * x \in Int /\ TPS * x \in Int /\ x * TPS \in Int /\ TPS * (x + 1) = TPS * x + TPS
                    /\ (x + 1) * TPS = x * TPS + TPS
  /\ \A x, y \in Int : MaxRps * (x + y) = MaxRps * x + MaxRps * y /\ MaxRps * (x - y) = MaxRps * x - MaxRps * y
  /\ \A x, y \in Int : x <= y => MaxRps * x <= MaxRps * y
<1> USE RateAssumption, ClockAssumption
<1>1. MaxRps \in Nat /\ TPS \in Nat /\ TPS > 0 /\ MaxRps > 0
  OBVIOUS
<1>2. \A x, y \in Nat : x * y \in Nat
  OBVIOUS
<1>3. \A x, y \in Int : x * y \in Int
  OBVIOUS
<1>4. \A x, y \in Nat : \A z \in Int : z * x + x = (z + 1) * x /\ x * z + x = x * (z + 1)
  OBVIOUS
<1>5. \A x, y, z \in Int : z * (x + y) = z * x + z * y /\ z * (x - y) = z * x - z * y
  OBVIOUS
<1>6. \A x, y \in Int, z \in Nat : x <= y => z * x <= z * y
  OBVIOUS
<1> QED BY <1>1, <1>2, <1>3, <1>4, <1>5, <1>6

LEMMA RecentFinite ==
  ASSUME NEW p \in Seq(Int), NEW s
  PROVE  IsFiniteSet(Recent(p, s)) /\ Cardinality(Recent(p, s)) \in Nat
<1>1. IsFiniteSet(1 .. Len(p))
  BY FS_Interval
<1>2. Recent(p, s) \subseteq 1 .. Len(p)
  BY DEF Recent
<1> QED BY <1>1, <1>2, FS_Subset, FS_CardinalityType

LEMMA RecentAppend ==
  ASSUME NEW p \in Seq(Int), NEW s \in Int, NEW x \in Int
  PROVE  /\ x > s => Cardinality(Recent(Append(p, x), s)) = Cardinality(Recent(p, s)) + 1
         /\ x <= s => Cardinality(Recent(Append(p, x), s)) = Cardinality(Recent(p, s))
<1>1. Len(p) + 1 \notin Recent(p, s)
  BY DEF Recent
<1>2. x > s => Recent(Append(p, x), s) = Recent(p, s) \cup {Len(p) + 1}
  BY DEF Recent
<1>3. x <= s => Recent(Append(p, x), s) = Recent(p, s)
  BY DEF Recent
<1> QED BY <1>1, <1>2, <1>3, RecentFinite, CountUp

\* What a refill over m - l ticks adds to both sides.
LEMMA PayMore ==
  ASSUME NEW n \in Int, NEW k \in Int, NEW t \in Int, NEW l \in Int, NEW m \in Int, NEW x \in Int,
         t <= k + MaxRps * (m - l), n + k <= MaxRps * (TPS + l - x)
  PROVE  n + t <= MaxRps * (TPS + m - x)
<1> PICK u : u = TPS + l - x /\ u \in Int
  BY ClockAssumption
<1> PICK v : v = m - l /\ v \in Int
  OBVIOUS
<1>1. TPS + m - x = u + v
  BY ClockAssumption
<1>2. MaxRps * (u + v) = MaxRps * u + MaxRps * v /\ MaxRps * u \in Int /\ MaxRps * v \in Int
  BY Products
<1> QED BY <1>1, <1>2

LEMMA OweMore ==
  ASSUME NEW n \in Nat, NEW k \in Int, NEW t \in Int, NEW l \in Int, NEW m \in Int, NEW s \in Int, NEW b \in Int,
         l <= m, t = b \/ t = k + MaxRps * (m - l), k + n >= AtMost(b, MaxRps * (l - s))
  PROVE  t + n >= AtMost(b, MaxRps * (m - s))
<1> PICK u : u = l - s /\ u \in Int
  OBVIOUS
<1> PICK v : v = m - l /\ v \in Int /\ 0 <= v
  OBVIOUS
<1>1. m - s = u + v
  OBVIOUS
<1>2. MaxRps * (u + v) = MaxRps * u + MaxRps * v /\ MaxRps * u \in Int /\ MaxRps * v \in Int
  BY Products
<1>3. MaxRps * v >= 0
  <2>1. MaxRps * 0 <= MaxRps * v /\ MaxRps * 0 = 0
    BY Products
  <2> QED BY <2>1
<1> QED BY <1>1, <1>2, <1>3 DEF AtMost

\* check(): time that passes refills the bucket, up to the burst.
LEMMA RefillEven ==
  ASSUME NEW p \in Seq(Int), NEW k \in 0 .. MaxRps * TPS, NEW l \in Int, Even(p, k, l), NEW m \in Int, l <= m,
         NEW t, t = AtMost(k + MaxRps * (m - l), MaxRps * TPS)
  PROVE  t \in 0 .. MaxRps * TPS /\ Even(p, t, m)
<1>1. MaxRps * (m - l) \in Nat /\ MaxRps * (m - l) = MaxRps * m - MaxRps * l
  <2>1. MaxRps * (m - l) >= MaxRps * 0 /\ MaxRps * 0 = 0
    BY Products
  <2> QED BY <2>1, Products
<1> PICK b : b = MaxRps * TPS /\ b \in Nat
  BY Products
<1>0. k \in Nat /\ k <= b
  OBVIOUS
<1> PICK c : c = MaxRps * (m - l) /\ c \in Nat
  BY <1>1
<1>2. t \in 0 .. b /\ t <= k + c /\ (t = b \/ t = k + c)
  BY DEF AtMost
<1>3. Pays(p, t, m)
  <2> SUFFICES ASSUME NEW i \in 1 .. Len(p)
               PROVE  (Len(p) - i + 1) * TPS + t <= MaxRps * (TPS + m - p[i])
    BY DEF Pays
  <2> PICK n : n = (Len(p) - i + 1) * TPS /\ n \in Int
    BY Products
  <2>0. p[i] \in Int
    OBVIOUS
  <2>1. n + k <= MaxRps * (TPS + l - p[i])
    BY DEF Even, Pays
  <2>2. t <= k + MaxRps * (m - l) /\ t \in Int /\ k \in Int
    BY <1>0, <1>2
  <2>3. n + t <= MaxRps * (TPS + m - p[i])
    BY ONLY <2>0, <2>1, <2>2, n \in Int, l \in Int, m \in Int, PayMore
  <2> QED BY <2>3
<1>4. Owes(p, t, m)
  <2> SUFFICES ASSUME NEW s \in Int
               PROVE  t + TPS * Cardinality(Recent(p, s)) >= AtMost(MaxRps * TPS, MaxRps * (m - s))
    BY DEF Owes
  <2>0. Cardinality(Recent(p, s)) \in Nat
    BY RecentFinite
  <2> PICK n : n = TPS * Cardinality(Recent(p, s)) /\ n \in Nat
    <3>1. \A x, y \in Nat : x * y \in Nat
      OBVIOUS
    <3> QED BY <2>0, <3>1, ClockAssumption
  <2>1. k + n >= AtMost(b, MaxRps * (l - s))
    BY DEF Even, Owes
  <2>2. (t = b \/ t = k + MaxRps * (m - l)) /\ t \in Int /\ k \in Int
    BY <1>0, <1>2
  <2>3. t + n >= AtMost(b, MaxRps * (m - s))
    BY ONLY <2>1, <2>2, n \in Nat, l \in Int, m \in Int, s \in Int, b \in Int, l <= m, OweMore
  <2> QED BY <2>3
<1> QED BY <1>2, <1>3, <1>4 DEF Even

\* check(): one token pays for one request.
LEMMA TakeEven ==
  ASSUME NEW p \in Seq(Int), NEW k \in 0 .. MaxRps * TPS, NEW l \in Int, Even(p, k, l), k >= TPS
  PROVE  k - TPS \in 0 .. MaxRps * TPS /\ Even(Append(p, l), k - TPS, l)
<1> PICK b : b = MaxRps * TPS /\ b \in Nat
  BY Products
<1>0. k \in Nat /\ k <= b
  OBVIOUS
<1> PICK q : q = Append(p, l)
  OBVIOUS
<1>1. q \in Seq(Int) /\ Len(q) = Len(p) + 1 /\ q[Len(p) + 1] = l /\ \A i \in 1 .. Len(p) : q[i] = p[i]
  OBVIOUS
<1>2. Pays(q, k - TPS, l)
  <2> SUFFICES ASSUME NEW i \in 1 .. Len(q)
               PROVE  (Len(q) - i + 1) * TPS + (k - TPS) <= MaxRps * (TPS + l - q[i])
    BY DEF Pays
  <2>1. CASE i \in 1 .. Len(p)
    <3> PICK n : n = (Len(p) - i + 1) * TPS /\ n \in Int
      BY <1>1, Products
    <3>0. p[i] \in Int /\ q[i] = p[i]
      BY <1>1, <2>1
    <3> PICK y : y = MaxRps * (TPS + l - p[i]) /\ y \in Int
      BY <3>0, Products
    <3>1. (Len(q) - i + 1) * TPS = n + TPS
      <4>1. Len(q) - i + 1 = (Len(p) - i + 1) + 1 /\ Len(p) - i + 1 \in Int
        BY <1>1
      <4> QED BY <4>1, Products
    <3>2. n + k <= y
      BY <2>1 DEF Even, Pays
    <3>3. (n + TPS) + (k - TPS) <= y
      BY <1>0, <3>2, ClockAssumption
    <3> QED BY <3>0, <3>1, <3>3
  <2>2. CASE i = Len(p) + 1
    <3>1. Len(q) - i + 1 = 1 /\ 1 * TPS = TPS /\ TPS + l - q[i] = TPS
      BY <1>1, <2>2, ClockAssumption
    <3>2. TPS + (k - TPS) <= b
      BY <1>0, ClockAssumption
    <3> QED BY <3>1, <3>2
  <2> QED BY <1>1, <2>1, <2>2
<1>3. Owes(q, k - TPS, l)
  <2> SUFFICES ASSUME NEW s \in Int
               PROVE  k - TPS + TPS * Cardinality(Recent(q, s)) >= AtMost(b, MaxRps * (l - s))
    BY DEF Owes
  <2> PICK c : c = Cardinality(Recent(p, s)) /\ c \in Nat
    BY RecentFinite
  <2> PICK n : n = TPS * c /\ n \in Nat
    <3>1. \A x, y \in Nat : x * y \in Nat
      OBVIOUS
    <3> QED BY <3>1, ClockAssumption
  <2> PICK y : y = MaxRps * (l - s) /\ y \in Int
    BY Products
  <2>0. k + n >= AtMost(b, y)
    BY DEF Even, Owes
  <2>1. CASE l > s
    <3>1. Cardinality(Recent(q, s)) = c + 1
      BY <2>1, RecentAppend
    <3>2. TPS * (c + 1) = n + TPS
      BY Products
    <3>3. k - TPS + (n + TPS) >= AtMost(b, y)
      BY <1>0, <2>0, ClockAssumption DEF AtMost
    <3> QED BY <3>1, <3>2, <3>3
  <2>2. CASE l <= s
    <3>1. Cardinality(Recent(q, s)) = c
      BY <2>2, RecentAppend
    <3>2. y <= 0
      <4>1. MaxRps * (l - s) <= MaxRps * 0 /\ MaxRps * 0 = 0
        BY <2>2, Products
      <4> QED BY <4>1
    <3>3. k - TPS + n >= AtMost(b, y)
      BY <1>0, <3>2, ClockAssumption, SMTT(30) DEF AtMost
    <3> QED BY <3>1, <3>3
  <2> QED BY <2>1, <2>2
<1>4. k - TPS \in 0 .. b
  BY <1>0, ClockAssumption
<1> QED BY <1>2, <1>3, <1>4 DEF Even

\* The cleaning of check(): a bucket that goes would be full again.
LEMMA CleanedFull ==
  ASSUME RtInv, NEW at \in Nat, NEW ip \in DOMAIN buckets, ip \notin DOMAIN Cleaned(at),
         NEW m \in Int, m = at + regained[ip]
  PROVE  at >= upto[ip] /\ Since(ip) <= m /\ Even(passed[ip], MaxRps * TPS, m)
<1> USE DEF RtInv
<1> PICK b : b = MaxRps * TPS /\ b \in Nat
  BY Products
<1> PICK x, y : x = buckets[ip].tokens /\ y = buckets[ip].last
  OBVIOUS
<1> PICK l : l = Since(ip)
  OBVIOUS
<1> PICK p : p = passed[ip]
  OBVIOUS
<1> PICK z : z = regained[ip]
  OBVIOUS
<1>1. ip \in Ips /\ y = upto[ip] /\ buckets[ip] \in [tokens : 0 .. b, last : Nat]
  BY DEF RtType
<1>2. x \in 0 .. b /\ y \in Nat /\ z \in Nat /\ l = y + z /\ p \in Seq(Int)
  BY <1>1 DEF RtType, Since
<1>3. Even(p, x, l)
  BY <1>1 DEF Tokens
<1>4. AtLeast(at - y, 0) >= IdleLimit
  <2>1. ~(AtLeast(at - y, 0) < IdleLimit)
    BY DEF Cleaned
  <2> QED BY <2>1, <1>2, RateAssumption DEF AtLeast
<1>5. TPS <= at - y /\ l \in Int /\ m - l = at - y /\ l <= m
  <2>1. m = at + z
    BY ONLY m = at + regained[ip], z = regained[ip]
  <2>2. IdleLimit \in Nat /\ TPS \in Nat /\ 0 < TPS /\ TPS <= IdleLimit
    BY ONLY RateAssumption, ClockAssumption
  <2> QED BY ONLY <1>2, <1>4, <2>1, <2>2, at \in Nat DEF AtLeast
<1>6. b <= MaxRps * (m - l) /\ MaxRps * (m - l) \in Int
  <2>1. TPS \in Int /\ m - l \in Int /\ TPS <= m - l
    BY ONLY <1>5, ClockAssumption, m \in Int
  <2> QED BY ONLY <2>1, b = MaxRps * TPS, Products
<1>7. b = AtMost(x + MaxRps * (m - l), MaxRps * TPS)
  BY ONLY <1>2, <1>6, b = MaxRps * TPS, b \in Nat DEF AtMost
<1>8. Even(p, b, m)
  BY ONLY <1>2, <1>3, <1>5, <1>7, b = MaxRps * TPS, m \in Int, RefillEven
<1>9. at >= y
  BY ONLY <1>2, <1>5, ClockAssumption, at \in Nat
<1>10. Since(ip) <= m
  BY ONLY <1>5, l = Since(ip)
<1>11. Even(passed[ip], MaxRps * TPS, m)
  BY ONLY <1>8, p = passed[ip], b = MaxRps * TPS
<1> QED BY ONLY <1>1, <1>9, <1>10, <1>11

\* The refill of check(), whatever clock the request has read.
LEMMA RefilledEven ==
  ASSUME RtInv, NEW at \in Nat, NEW ip \in Ips, NEW b,
         b = IF ip \in DOMAIN Cleaned(at) THEN Cleaned(at)[ip] ELSE [tokens |-> MaxRps * TPS, last |-> at],
         NEW m \in Int, m = at + (regained[ip] + AtLeast(upto[ip] - at, 0)),
         NEW t, t = AtMost(b.tokens + MaxRps * AtLeast(at - b.last, 0), MaxRps * TPS)
  PROVE  Since(ip) <= m /\ t \in 0 .. MaxRps * TPS /\ Even(passed[ip], t, m)
<1> USE DEF RtInv
<1> PICK d : d = MaxRps * TPS /\ d \in Nat
  BY Products
<1> PICK y, z : y = upto[ip] /\ z = regained[ip] /\ y \in Nat /\ z \in Nat
  BY DEF RtType
<1> PICK l : l = Since(ip)
  OBVIOUS
<1> PICK p : p = passed[ip]
  OBVIOUS
<1> PICK k : k = Tokens(ip)
  OBVIOUS
<1>1. l = y + z /\ p \in Seq(Int) /\ Even(p, k, l)
  BY DEF Since, RtType
<1>2. m - l = AtLeast(at - y, 0) /\ l <= m /\ l \in Int
  <2>1. m = at + (z + AtLeast(y - at, 0))
    BY ONLY m = at + (regained[ip] + AtLeast(upto[ip] - at, 0)), y = upto[ip], z = regained[ip]
  <2> QED BY ONLY <1>1, <2>1, y \in Nat, z \in Nat, at \in Nat DEF AtLeast
<1>3. CASE ip \in DOMAIN Cleaned(at)
  <2>1. ip \in DOMAIN buckets /\ b = buckets[ip]
    BY <1>3 DEF Cleaned
  <2>2. buckets[ip] \in [tokens : 0 .. d, last : Nat] /\ buckets[ip].last = y
    BY <2>1 DEF RtType
  <2>3. b.tokens = k /\ b.last = y /\ k \in 0 .. d
    BY <2>1, <2>2 DEF Tokens
  <2>4. t = AtMost(k + MaxRps * (m - l), MaxRps * TPS)
    BY ONLY <1>2, <2>3, t = AtMost(b.tokens + MaxRps * AtLeast(at - b.last, 0), MaxRps * TPS)
  <2>5. t \in 0 .. MaxRps * TPS /\ Even(p, t, m)
    BY ONLY <1>1, <1>2, <2>3, <2>4, d = MaxRps * TPS, m \in Int, RefillEven
  <2> QED BY <1>2, <2>5
<1>4. CASE ip \notin DOMAIN Cleaned(at)
  <2>1. b.tokens = d /\ b.last = at
    BY <1>4
  <2>2. t = d
    <3>1. AtLeast(at - at, 0) = 0
      BY ONLY at \in Nat DEF AtLeast
    <3>2. MaxRps * 0 = 0
      BY RateAssumption
    <3> QED BY ONLY <2>1, <3>1, <3>2, d = MaxRps * TPS, d \in Nat,
                    t = AtMost(b.tokens + MaxRps * AtLeast(at - b.last, 0), MaxRps * TPS) DEF AtMost
  <2>3. CASE ip \in DOMAIN buckets
    <3> PICK n : n = at + regained[ip] /\ n \in Int
      OBVIOUS
    <3>1. at >= upto[ip] /\ Even(passed[ip], MaxRps * TPS, n)
      BY ONLY <1>4, <2>3, RtInv, at \in Nat, n = at + regained[ip], n \in Int, CleanedFull
    <3>2. n = m
      BY ONLY <3>1, n = at + regained[ip], m = at + (regained[ip] + AtLeast(upto[ip] - at, 0)), y = upto[ip], z = regained[ip],
              y \in Nat, z \in Nat, at \in Nat DEF AtLeast
    <3> QED BY <1>2, <2>2, <3>1, <3>2
  <2>4. CASE ip \notin DOMAIN buckets
    <3>1. k = d /\ k \in 0 .. MaxRps * TPS
      BY <2>4 DEF Tokens
    <3>2. MaxRps * (m - l) >= 0 /\ MaxRps * (m - l) \in Int
      <4>1. m - l \in Int /\ 0 <= m - l
        BY ONLY <1>2, m \in Int
      <4>2. MaxRps * 0 <= MaxRps * (m - l) /\ MaxRps * 0 = 0 /\ MaxRps * (m - l) \in Int
        BY ONLY <4>1, Products
      <4> QED BY ONLY <4>2
    <3>3. t = AtMost(k + MaxRps * (m - l), MaxRps * TPS)
      BY ONLY <2>2, <3>1, <3>2, d = MaxRps * TPS, d \in Nat DEF AtMost
    <3>4. t \in 0 .. MaxRps * TPS /\ Even(p, t, m)
      BY ONLY <1>1, <1>2, <3>1, <3>3, m \in Int, RefillEven
    <3> QED BY <1>2, <3>4
  <2> QED BY <2>3, <2>4
<1> QED BY <1>3, <1>4

\* When a bucket has no token left, the whole burst went within a second.
LEMMA ShortBucket ==
  ASSUME NEW p \in Seq(Int), NEW t \in Nat, t < TPS, NEW m \in Int, Owes(p, t, m)
  PROVE  Cardinality(Recent(p, m - TPS)) >= MaxRps
<1> PICK c : c = Cardinality(Recent(p, m - TPS)) /\ c \in Nat
  BY RecentFinite
<1>1. t + TPS * c >= AtMost(MaxRps * TPS, MaxRps * (m - (m - TPS)))
  BY ClockAssumption DEF Owes
<1>2. m - (m - TPS) = TPS
  BY ClockAssumption
<1>3. t + TPS * c >= MaxRps * TPS
  BY <1>1, <1>2 DEF AtMost
<1>4. ASSUME c <= MaxRps - 1 PROVE FALSE
  <2>1. \A x, y \in Int, z \in Nat : x <= y => z * x <= z * y
    OBVIOUS
  <2>2. TPS * c <= TPS * (MaxRps - 1)
    <3>1. c \in Int /\ MaxRps - 1 \in Int /\ TPS \in Nat
      BY RateAssumption, ClockAssumption
    <3> QED BY ONLY <1>4, <2>1, <3>1
  <2>3. \A x, z \in Int : z * (x - 1) = x * z - z
    OBVIOUS
  <2>4. TPS * (MaxRps - 1) = MaxRps * TPS - TPS
    BY <2>3, RateAssumption, ClockAssumption
  <2> QED BY <1>3, <2>2, <2>4, Products, ClockAssumption
<1> QED BY <1>4, RateAssumption

\* RateLimiter::check, once it has the lock.
LEMMA CheckStep ==
  ASSUME RtInv, NEW c \in Callers, Check(c)
  PROVE  RtInv'
<1> USE DEF RtInv
<1> PICK b : b = MaxRps * TPS /\ b \in Nat
  BY Products
<1> PICK ip, at : ip = calls[c].ip /\ at = calls[c].at
  OBVIOUS
<1> PICK map : map = Cleaned(at)
  OBVIOUS
<1>t. calls[c] \in [ip : Ips \cup {Nobody}, at : Nat] /\ ip # Nobody
  BY DEF RtType, Check
<1>i. ip \in Ips /\ at \in Nat
  BY <1>t
<1> PICK p : p = passed[ip]
  OBVIOUS
<1> PICK y, z : y = upto[ip] /\ z = regained[ip] /\ y \in Nat /\ z \in Nat
  BY <1>i DEF RtType
<1> PICK again : again = z + AtLeast(y - at, 0)
  OBVIOUS
<1> PICK m : m = at + again
  OBVIOUS
<1>0. /\ now \in Nat /\ p \in Seq(Int) /\ now' = now /\ TPS \in Nat /\ TPS > 0 /\ again \in Nat /\ z <= again /\ m \in Nat
      /\ Since(ip) = y + z
  <2>1. now \in Nat /\ p \in Seq(Int) /\ now' = now /\ TPS \in Nat /\ TPS > 0 /\ Since(ip) = y + z
    BY <1>i, ClockAssumption DEF RtType, Check, Since
  <2>2. again \in Nat /\ z <= again
    BY ONLY <1>i, again = z + AtLeast(y - at, 0), y \in Nat, z \in Nat DEF AtLeast
  <2> QED BY ONLY <1>i, <2>1, <2>2, m = at + again
<1> PICK q : q = Append(p, m)
  OBVIOUS
<1>q. /\ q \in Seq(Int) /\ Len(q) = Len(p) + 1 /\ q[Len(p) + 1] = m /\ Len(p) \in Nat
      /\ \A i \in 1 .. Len(p) : q[i] = p[i]
  BY ONLY <1>0, q = Append(p, m)
<1> PICK bk : bk = IF ip \in DOMAIN map THEN map[ip] ELSE [tokens |-> MaxRps * TPS, last |-> at]
  OBVIOUS
<1> PICK t : t = AtMost(bk.tokens + MaxRps * AtLeast(at - bk.last, 0), MaxRps * TPS)
  OBVIOUS
<1>2. Since(ip) <= m /\ t \in 0 .. b /\ Even(p, t, m)
  <2>1. m = at + (regained[ip] + AtLeast(upto[ip] - at, 0)) /\ m \in Int
    BY <1>0
  <2>2. bk = IF ip \in DOMAIN Cleaned(at) THEN Cleaned(at)[ip] ELSE [tokens |-> MaxRps * TPS, last |-> at]
    OBVIOUS
  <2>3. Since(ip) <= m /\ t \in 0 .. MaxRps * TPS /\ Even(passed[ip], t, m)
    BY ONLY <1>i, <2>1, <2>2, RtInv, t = AtMost(bk.tokens + MaxRps * AtLeast(at - bk.last, 0), MaxRps * TPS), RefilledEven
  <2> QED BY <2>3
<1> PICK u : u = IF t >= TPS THEN t - TPS ELSE t
  OBVIOUS
<1>3. /\ buckets' = [i \in DOMAIN map \cup {ip} |-> IF i = ip THEN [tokens |-> u, last |-> at] ELSE map[i]]
      /\ upto' = [i \in Ips |-> IF i = ip \/ i \in DOMAIN buckets \ DOMAIN map THEN at ELSE upto[i]]
      /\ regained' = [regained EXCEPT ![ip] = again]
      /\ calls' = [calls EXCEPT ![c] = NoCall]
      /\ t >= TPS => passed' = [passed EXCEPT ![ip] = q] /\ refused' = refused
      /\ ~(t >= TPS) => passed' = passed /\ refused' = [refused EXCEPT ![ip] = m]
  BY DEF Check
<1>4. /\ t >= TPS => passed'[ip] = q
      /\ ~(t >= TPS) => passed'[ip] = p
      /\ \A j \in Ips \ {ip} : passed'[j] = passed[j]
      /\ passed' \in [Ips -> Seq(Int)] /\ refused' \in [Ips -> Int]
  <2>1. m \in Int /\ passed \in [Ips -> Seq(Int)] /\ refused \in [Ips -> Int]
    BY <1>0 DEF RtType
  <2>2. CASE t >= TPS
    BY ONLY <1>i, <1>3, <1>q, <2>1, <2>2
  <2>3. CASE ~(t >= TPS)
    BY ONLY <1>i, <1>3, <1>q, <2>1, <2>3, p = passed[ip]
  <2> QED BY ONLY <2>2, <2>3
<1>5. u \in 0 .. b /\ Even(passed'[ip], u, m)
  <2>1. CASE t >= TPS
    <3>1. t - TPS \in 0 .. b /\ Even(q, t - TPS, m)
      BY ONLY <1>0, <1>2, <2>1, b = MaxRps * TPS, q = Append(p, m), TakeEven
    <3>2. u = t - TPS /\ passed'[ip] = q
      BY <1>4, <2>1
    <3> QED BY ONLY <3>1, <3>2
  <2>2. CASE ~(t >= TPS)
    BY <1>2, <1>4, <2>2
  <2> QED BY <2>1, <2>2
<1>m. \A j \in DOMAIN map : j \in DOMAIN buckets /\ map[j] = buckets[j]
  BY DEF Cleaned
<1>6. /\ Tokens(ip)' = u /\ Since(ip)' = m
      /\ \A j \in Ips \ {ip} : IF j \in DOMAIN buckets \ DOMAIN map THEN Tokens(j)' = b /\ Since(j)' = at + regained[j]
                                                  ELSE Tokens(j)' = Tokens(j) /\ Since(j)' = Since(j)
  <2>1. Tokens(ip)' = u
    BY <1>3 DEF Tokens
  <2>2. upto'[ip] = at /\ regained'[ip] = again
    BY <1>i, <1>3 DEF RtType
  <2>3. Since(ip)' = m
    BY <2>2 DEF Since
  <2>4. ASSUME NEW j \in Ips, j # ip
        PROVE IF j \in DOMAIN buckets \ DOMAIN map THEN Tokens(j)' = b /\ Since(j)' = at + regained[j]
                                                  ELSE Tokens(j)' = Tokens(j) /\ Since(j)' = Since(j)
    <3>1. regained'[j] = regained[j]
      BY <1>i, <1>3, <2>4 DEF RtType
    <3>2. CASE j \in DOMAIN buckets \ DOMAIN map
      <4>1. upto'[j] = at /\ j \notin DOMAIN buckets'
        BY <1>3, <2>4, <3>2
      <4> QED BY <3>1, <3>2, <4>1 DEF Tokens, Since
    <3>3. CASE j \notin DOMAIN buckets \ DOMAIN map
      <4>1. upto'[j] = upto[j]
        BY <1>3, <2>4, <3>3
      <4>2. j \in DOMAIN buckets <=> j \in DOMAIN buckets'
        BY <1>3, <1>m, <2>4, <3>3
      <4>3. j \in DOMAIN buckets' => buckets'[j] = buckets[j]
        BY <1>3, <1>m, <2>4, <3>3
      <4> QED BY <3>1, <3>3, <4>1, <4>2, <4>3 DEF Tokens, Since
    <3> QED BY <3>2, <3>3
  <2> QED BY <2>1, <2>3, <2>4
<1>c. ASSUME NEW j \in Ips, j # ip, j \in DOMAIN buckets \ DOMAIN map
      PROVE  at >= upto[j] /\ Since(j) <= Since(j)' /\ Even(passed[j], b, Since(j)')
  <2> PICK n : n = at + regained[j]
    OBVIOUS
  <2>1. n \in Int /\ Since(j)' = n
    BY <1>i, <1>6, <1>c DEF RtType
  <2>2. j \in DOMAIN buckets /\ j \notin DOMAIN Cleaned(at)
    BY <1>c
  <2>3. at >= upto[j] /\ Since(j) <= n /\ Even(passed[j], MaxRps * TPS, n)
    BY ONLY <1>i, <2>1, <2>2, RtInv, n = at + regained[j], CleanedFull
  <2> QED BY <2>1, <2>3
<1>7. ASSUME NEW j \in Ips PROVE Even(passed'[j], Tokens(j)', Since(j)') /\ Since(j) <= Since(j)' /\ Since(j)' \in Int
  <2>0. Since(j) \in Int /\ m \in Int
    BY <1>0 DEF Since, RtType
  <2>1. CASE j = ip
    BY ONLY <1>0, <1>2, <1>5, <1>6, <2>1
  <2>2. CASE j # ip /\ j \in DOMAIN buckets \ DOMAIN map
    <3>1. Since(j)' = at + regained[j] /\ regained[j] \in Nat
      BY <1>6, <2>2 DEF RtType
    <3>2. passed'[j] = passed[j] /\ Tokens(j)' = b
      BY <1>4, <1>6, <2>2
    <3> QED BY <1>i, <1>c, <2>2, <3>1, <3>2
  <2>3. CASE j # ip /\ j \notin DOMAIN buckets \ DOMAIN map
    <3>1. Even(passed[j], Tokens(j), Since(j))
      BY DEF RtInv
    <3>2. passed'[j] = passed[j] /\ Tokens(j)' = Tokens(j) /\ Since(j)' = Since(j)
      BY ONLY <1>4, <1>6, <2>3, j \in Ips
    <3> QED BY ONLY <2>0, <3>1, <3>2
  <2> QED BY <2>1, <2>2, <2>3
<1>8. \A j \in Ips : \A i \in 1 .. Len(passed'[j]) : passed'[j][i] <= Since(j)'
  <2> SUFFICES ASSUME NEW j \in Ips, NEW i \in 1 .. Len(passed'[j]) PROVE passed'[j][i] <= Since(j)'
    OBVIOUS
  <2>1. \A x \in 1 .. Len(passed[j]) : passed[j][x] <= Since(j) /\ passed[j][x] \in Int
    BY DEF RtType
  <2>a. Since(j) <= Since(j)' /\ Since(j) \in Int /\ Since(j)' \in Int
    BY <1>7 DEF Since, RtType
  <2>2. CASE j = ip /\ t >= TPS
    <3>1. passed'[j] = q /\ Since(j)' = m /\ \A x \in 1 .. Len(p) : p[x] <= m
      <4>1. \A x \in 1 .. Len(p) : p[x] <= Since(j) /\ p[x] \in Int
        BY <2>1, <2>2
      <4>2. passed'[j] = q /\ Since(j)' = m
        BY ONLY <1>4, <1>6, <2>2
      <4> QED BY ONLY <1>0, <2>a, <4>1, <4>2
    <3>2. i \in 1 .. Len(p) \/ i = Len(p) + 1
      <4>1. i \in 1 .. Len(q)
        BY <3>1
      <4> QED BY ONLY <1>q, <4>1
    <3>3. CASE i \in 1 .. Len(p)
      BY ONLY <1>q, <3>1, <3>3
    <3>4. CASE i = Len(p) + 1
      BY ONLY <1>0, <1>q, <3>1, <3>4
    <3> QED BY ONLY <3>2, <3>3, <3>4
  <2>3. CASE ~(j = ip /\ t >= TPS)
    <3>1. passed'[j] = passed[j]
      BY <1>4, <2>3
    <3>2. i \in 1 .. Len(passed[j]) /\ passed'[j][i] = passed[j][i]
      BY <3>1
    <3>3. passed[j][i] <= Since(j) /\ passed[j][i] \in Int
      BY <2>1, <3>2
    <3> QED BY ONLY <2>a, <3>2, <3>3
  <2> QED BY <2>2, <2>3
<1>9. RtType'
  <2>1. \A j \in DOMAIN map : map[j] \in [tokens : 0 .. b, last : Nat] /\ map[j].last = upto[j] /\ j \in Ips
    BY <1>m DEF RtType
  <2>2. \A j \in DOMAIN buckets' : buckets'[j] \in [tokens : 0 .. b, last : Nat]
    BY <1>i, <1>3, <1>5, <2>1
  <2>3. buckets' \in [DOMAIN buckets' -> [tokens : 0 .. b, last : Nat]]
    BY <1>3, <2>2
  <2>4. \A j \in DOMAIN buckets' : j \in Ips /\ buckets'[j].last = upto'[j]
    BY <1>i, <1>3, <2>1
  <2>5. upto' \in [Ips -> Nat]
    BY <1>i, <1>3 DEF RtType
  <2>6. regained' \in [Ips -> Nat]
    BY <1>i, <1>0, <1>3 DEF RtType
  <2>7. calls' \in [Callers -> [ip : Ips \cup {Nobody}, at : Nat]]
    BY <1>3 DEF RtType, NoCall
  <2> QED BY <1>0, <1>4, <1>8, <2>3, <2>4, <2>5, <2>6, <2>7 DEF RtType
<1>10. AtMostRate'
  <2> SUFFICES ASSUME NEW x \in Ips, NEW i \in 1 .. Len(passed'[x]), NEW j \in 1 .. Len(passed'[x]), i <= j
               PROVE  (j - i + 1) * TPS <= MaxRps * (TPS + passed'[x][j] - passed'[x][i])
    BY DEF AtMostRate
  <2>1. CASE x # ip \/ ~(t >= TPS)
    BY <1>4, <2>1 DEF LimitsEachAlone, AtMostRate
  <2>2. CASE x = ip /\ t >= TPS /\ j <= Len(p)
    <3>1. passed'[x] = q /\ i \in 1 .. Len(p) /\ j \in 1 .. Len(p)
      <4>1. passed'[x] = q
        BY ONLY <1>4, <2>2
      <4>2. i \in 1 .. Len(q) /\ j \in 1 .. Len(q)
        BY <4>1
      <4> QED BY ONLY <1>q, <2>2, <4>1, <4>2, i <= j
    <3>2. (j - i + 1) * TPS <= MaxRps * (TPS + p[j] - p[i])
      BY <1>i, <3>1 DEF LimitsEachAlone, AtMostRate
    <3> QED BY ONLY <1>q, <3>1, <3>2
  <2>3. CASE x = ip /\ t >= TPS /\ j = Len(p) + 1
    <3>1. Len(q) = j /\ q[j] = m /\ i \in 1 .. Len(q) /\ q[i] \in Int /\ passed'[x] = q
      <4>1. passed'[x] = q
        BY ONLY <1>4, <2>3
      <4>2. i \in 1 .. Len(q)
        BY <4>1
      <4> QED BY ONLY <1>q, <2>3, <4>1, <4>2
    <3>2. (j - i + 1) * TPS + u <= MaxRps * (TPS + m - q[i])
      BY <1>5, <2>3, <3>1 DEF Even, Pays
    <3>3. (j - i + 1) * TPS \in Int /\ MaxRps * (TPS + m - q[i]) \in Int
      <4>1. j - i + 1 \in Int /\ TPS + m - q[i] \in Int
        BY ONLY <1>0, <1>q, <3>1
      <4> QED BY ONLY <4>1, Products
    <3>4. (j - i + 1) * TPS <= MaxRps * (TPS + m - q[i])
      BY ONLY <1>5, <3>2, <3>3
    <3> QED BY ONLY <3>1, <3>4
  <2>4. x = ip /\ t >= TPS => j <= Len(p) \/ j = Len(p) + 1
    <3>1. x = ip /\ t >= TPS => j \in 1 .. Len(q)
      BY ONLY <1>4, j \in 1 .. Len(passed'[x])
    <3> QED BY ONLY <1>q, <3>1
  <2> QED BY ONLY <2>1, <2>2, <2>3, <2>4
<1>11. RefusedForOwnSake'
  <2> DEFINE W(x, r) == {i \in 1 .. Len(x) : x[i] > r - TPS /\ x[i] <= r}
  <2> SUFFICES ASSUME NEW x \in Ips, refused'[x] # -1
               PROVE  Cardinality(W(passed'[x], refused'[x])) >= MaxRps
    BY DEF RefusedForOwnSake
  <2>1. CASE x # ip
    <3>1. refused'[x] = refused[x] /\ passed'[x] = passed[x]
      BY <1>3, <1>4, <2>1 DEF RtType
    <3>2. refused[x] # -1 => Cardinality(W(passed[x], refused[x])) >= MaxRps
      BY DEF LimitsEachAlone, RefusedForOwnSake
    <3> HIDE DEF W
    <3> QED BY ONLY <3>1, <3>2, refused'[x] # -1
  <2>2. CASE x = ip /\ ~(t >= TPS)
    <3>1. refused'[x] = m /\ passed'[x] = p
      BY <1>3, <1>4, <2>2 DEF RtType
    <3>a. \A i \in 1 .. Len(p) : p[i] \in Int /\ p[i] <= m
      <4>1. \A i \in 1 .. Len(p) : p[i] <= Since(ip) /\ p[i] \in Int
        BY <1>i DEF RtType
      <4> QED BY ONLY <1>0, <1>2, <4>1, y \in Nat, z \in Nat
    <3>2. W(p, m) = Recent(p, m - TPS)
      BY <1>0, <3>a DEF Recent
    <3>3. Cardinality(Recent(p, m - TPS)) >= MaxRps
      <4>1. t \in Nat /\ t < TPS /\ m \in Int /\ Owes(p, t, m)
        BY ONLY <1>0, <1>2, <2>2, b \in Nat DEF Even
      <4> QED BY ONLY <1>0, <4>1, ShortBucket
    <3> QED BY <3>1, <3>2, <3>3
  <2>3. CASE x = ip /\ t >= TPS
    <3> PICK r : r = refused[ip] /\ r \in Int
      BY <1>i DEF RtType
    <3>1. refused'[x] = r /\ passed'[x] = q
      BY <1>3, <1>4, <2>3
    <3>2. W(p, r) \subseteq W(q, r)
      BY ONLY <1>q DEF W
    <3>3. Cardinality(W(p, r)) >= MaxRps
      BY <2>3, <3>1 DEF LimitsEachAlone, RefusedForOwnSake
    <3>4. IsFiniteSet(W(q, r))
      <4>1. IsFiniteSet(1 .. Len(q))
        BY ONLY <1>q, FS_Interval
      <4>2. W(q, r) \subseteq 1 .. Len(q)
        BY ONLY TRUE DEF W
      <4> QED BY ONLY <4>1, <4>2, FS_Subset
    <3> HIDE DEF W
    <3>5. Cardinality(W(p, r)) <= Cardinality(W(q, r)) /\ Cardinality(W(p, r)) \in Nat /\ Cardinality(W(q, r)) \in Nat
      BY ONLY <3>2, <3>4, FS_Subset, FS_CardinalityType
    <3> QED BY <3>1, <3>3, <3>5, RateAssumption
  <2> QED BY <2>1, <2>2, <2>3
<1> QED BY <1>7, <1>9, <1>10, <1>11 DEF LimitsEachAlone

\* Time passes, or a request reads the clock.
LEMMA RtClockStep ==
  ASSUME RtInv, UNCHANGED <<buckets, passed, refused, upto, regained>>, now' \in Nat,
         calls' \in [Callers -> [ip : Ips \cup {Nobody}, at : Nat]]
  PROVE  RtInv'
<1>1. RtType'
  BY DEF RtInv, RtType, Since
<1>2. LimitsEachAlone'
  BY DEF RtInv, LimitsEachAlone, AtMostRate, RefusedForOwnSake
<1>3. \A ip \in Ips : Tokens(ip)' = Tokens(ip) /\ Since(ip)' = Since(ip)
  BY DEF Tokens, Since
<1> QED BY <1>1, <1>2, <1>3 DEF RtInv

LEMMA RtInvHolds == Spec => []RtInv
<1>1. Init => RtInv
  <2> SUFFICES ASSUME Init PROVE RtInv
    OBVIOUS
  <2> USE DEF Init, RateInit, ClockInit, NoBuckets
  <2>0. \A ip \in Ips : passed[ip] = << >> /\ Tokens(ip) = MaxRps * TPS /\ Since(ip) = 0
    BY DEF Tokens, Since
  <2>1. RtType
    BY <2>0 DEF RtType, NoCall
  <2>2. LimitsEachAlone
    BY DEF LimitsEachAlone, AtMostRate, RefusedForOwnSake
  <2>3. ASSUME NEW ip \in Ips PROVE Even(passed[ip], Tokens(ip), Since(ip))
    <3>2. Pays(<< >>, MaxRps * TPS, 0)
      BY DEF Pays
    <3>3. ASSUME NEW s \in Int
          PROVE  MaxRps * TPS + TPS * Cardinality(Recent(<< >>, s)) >= AtMost(MaxRps * TPS, MaxRps * (0 - s))
      <4>1. Recent(<< >>, s) = {}
        BY DEF Recent
      <4>2. Cardinality(Recent(<< >>, s)) = 0
        BY <4>1, FS_EmptySet
      <4>3. TPS * 0 = 0 /\ MaxRps * TPS \in Nat /\ MaxRps * (0 - s) \in Int
        BY Products
      <4> QED BY <4>2, <4>3 DEF AtMost
    <3> QED BY <2>0, <3>2, <3>3 DEF Even, Owes
  <2> QED BY <2>1, <2>2, <2>3 DEF RtInv
<1>2. RtInv /\ [Next]_vars => RtInv'
  <2> SUFFICES ASSUME RtInv, [Next]_vars PROVE RtInv'
    OBVIOUS
  <2>0. now \in Nat /\ calls \in [Callers -> [ip : Ips \cup {Nobody}, at : Nat]]
    BY DEF RtInv, RtType
  <2>1. ASSUME UNCHANGED rateVars, now' = now \/ now' = now + 1 PROVE RtInv'
    BY <2>0, <2>1, RtClockStep DEF rateVars
  <2>2. ASSUME NEW c \in Callers, Enter(c) PROVE RtInv'
    BY <2>0, <2>2, RtClockStep DEF Enter
  <2>3. ASSUME NEW c \in Callers, Check(c) PROVE RtInv'
    BY <2>3, CheckStep
  <2>4. CASE part = "throttle" /\ ThrottleNext /\ UNCHANGED rateVars
    BY <2>1, <2>4 DEF ThrottleNext, Charge, Acquire, Foreground, UpdateConfig, ClockTick
  <2>5. CASE part = "latency" /\ LatNext /\ UNCHANGED rateVars
    BY <2>1, <2>5 DEF LatNext, BeginRecord, BeginP99, CheckDue, Lock, ZeroBuckets, ZeroCountAndTurn, ZeroOldBuckets,
                      ZeroOldCount, Stamp, Load, AddBucket, AddCount, Answer
  <2> QED BY <2>1, <2>2, <2>3, <2>4, <2>5 DEF Next, vars, RateNext, ClockTick
<1> QED BY <1>1, <1>2, PTL DEF Spec

\* RateLimiter::check: no address ever gets more than its rate, although idle
\* buckets are thrown away and requests are held up between the clock and the
\* lock, and none is refused on account of others; both in the address's time,
\* which runs ahead of the clock by what was refilled twice.
THEOREM LimitsStaySeparate == Spec => []LimitsEachAlone
<1>1. RtInv => LimitsEachAlone
  BY DEF RtInv
<1> QED BY <1>1, RtInvHolds, PTL

-----------------------------------------------------------------------------
(* The latency window: the inductive invariant. *)

Turning == {"zero", "zero_count", "zero_old", "zero_old_count", "stamp"}
Reader == [pc : {"idle", "check", "lock", "load", "add", "count", "read"} \cup Turning, op : {"none", "record", "p99"},
           at : Nat, e : {0, 1}]

LtType ==
  /\ now \in Nat /\ cur \in {0, 1} /\ start \in Nat /\ start <= now /\ samples \in Nat /\ races \in Nat
  /\ raced \subseteq Threads /\ counts \in [{0, 1} -> Nat] /\ hist = [e \in {0, 1} |-> hist[e]]
  /\ \A e \in {0, 1} : IsFiniteSet(hist[e]) /\ \A x \in hist[e] : x[2] \in Nat /\ x[2] <= samples /\ x[3] \in Nat
  /\ thr \in [Threads -> Reader] /\ \A t \in Threads : thr[t].at <= now

\* One thread rotates, the one that holds the mutex.
LtRot ==
  /\ rot \in Threads \cup {Free}
  /\ \A t \in Threads : /\ thr[t].pc \in Turning <=> rot = t
                        /\ thr[t].pc \in Turning => start + Window <= thr[t].at

\* A sample is counted as one: no two samples of a thread have one number.
LtFresh ==
  \A t \in Threads :
    /\ thr[t].pc = "add" => thr[t].op = "record"
    /\ thr[t].op = "record" /\ thr[t].pc # "count" => \A e \in {0, 1} : \A x \in hist[e] : x[1] = t => x[2] < samples

Stage == IF rot = Free THEN "free" ELSE thr[rot].pc
NewStart == thr[rot].at
Younger(e, m) == \A x \in hist[e] : x[3] >= m

\* How old the samples of the epochs are, at every stage of a rotation.
LtTimes ==
  /\ Stage \in {"free", "zero", "zero_count"} => Younger(cur, start)
  /\ Stage \in {"free", "zero"} => Younger(1 - cur, start - 2 * Window + 1)
  /\ Stage = "zero_count" => Younger(1 - cur, NewStart)
  /\ Stage \in {"zero_old", "zero_old_count", "stamp"} => Younger(cur, NewStart)
  /\ Stage = "zero_old_count" => Younger(1 - cur, NewStart)
  /\ Stage = "stamp" => Younger(1 - cur, NewStart - 2 * Window + 1)
LtDue == \A t \in Threads : thr[t].pc \in {"load", "add", "count", "read"} => thr[t].at - start < Window

\* The records that have added to a bucket of e and not yet to its count.
Pend(e) == {t \in Threads : thr[t].pc = "count" /\ thr[t].e = e}
Slack(e) == races + Cardinality(Pend(e) \cap raced)
Tracks(e) == LET n == counts[e] + Cardinality(Pend(e)) - Cardinality(hist[e]) IN n <= Slack(e) /\ 0 - n <= Slack(e)
LtCounts ==
  /\ Tracks(cur)
  /\ Stage \notin {"zero_count", "zero_old_count"} => Tracks(1 - cur)
  /\ Stage \in {"zero_count", "zero_old_count"} => Cardinality(hist[1 - cur]) <= Slack(1 - cur)
  /\ Stage \in Turning \ {"zero"} => Adding \subseteq raced

LtInv == LtType /\ LtRot /\ LtFresh /\ LtTimes /\ LtDue /\ LtCounts

-----------------------------------------------------------------------------
(* The latency window: the steps. *)

LEMMA PendFinite ==
  ASSUME NEW e, NEW S
  PROVE  /\ IsFiniteSet(Pend(e)) /\ Cardinality(Pend(e)) \in Nat
         /\ IsFiniteSet(Pend(e) \cap S) /\ Cardinality(Pend(e) \cap S) \in Nat
<1>1. Pend(e) \subseteq Threads /\ Pend(e) \cap S \subseteq Threads
  BY DEF Pend
<1> QED BY <1>1, LatencyAssumption, FS_Subset, FS_CardinalityType

\* A step of t that leaves the epochs alone.
LEMMA QuietStep ==
  ASSUME LtInv, NEW t \in Threads, NEW q \in Reader, thr' = [thr EXCEPT ![t] = q], thr[t].pc # "count", q.pc # "count",
         q.at <= now, raced' \subseteq Threads, raced' \ {t} = raced \ {t},
         UNCHANGED <<now, cur, start, hist, counts, races>>, samples' \in Nat, samples <= samples',
         thr[t].pc \notin Turning,
         \/ rot' = rot /\ q.pc \notin Turning
         \/ rot = Free /\ rot' = t /\ q.pc = "zero" /\ start + Window <= q.at,
         q.pc = "add" => q.op = "record" /\ (rot # Free => t \in raced'),
         q.op = "record" => samples < samples' \/ (thr[t].op = "record" /\ thr[t].pc # "count"),
         q.pc \in {"load", "add", "read"} => q.at - start < Window
  PROVE  LtInv'
<1> USE DEF LtInv
<1>0. /\ thr'[t] = q /\ (\A u \in Threads \ {t} : thr'[u] = thr[u]) /\ thr' \in [Threads -> Reader]
      /\ hist' = hist /\ counts' = counts /\ cur' = cur /\ start' = start /\ now' = now /\ races' = races
  BY DEF LtType
<1>1. LtType'
  <2>1. \A e \in {0, 1} : \A x \in hist[e] : x[2] \in Nat /\ x[2] <= samples'
    BY DEF LtType
  <2>2. \A u \in Threads : thr'[u].at <= now
    BY <1>0 DEF LtType
  <2> QED BY <1>0, <2>1, <2>2 DEF LtType
<1>2. LtRot'
  BY <1>0, LatencyAssumption DEF LtRot, Turning
<1>3. LtFresh'
  <2> SUFFICES ASSUME NEW u \in Threads
               PROVE  /\ thr'[u].pc = "add" => thr'[u].op = "record"
                      /\ thr'[u].op = "record" /\ thr'[u].pc # "count" =>
                           \A e \in {0, 1} : \A x \in hist[e] : x[1] = u => x[2] < samples'
    BY <1>0 DEF LtFresh
  <2>1. \A e \in {0, 1} : \A x \in hist[e] : x[2] \in Nat /\ x[2] <= samples /\ samples \in Nat
    BY DEF LtType
  <2>2. CASE u = t
    BY <1>0, <2>1, <2>2 DEF LtFresh
  <2>3. CASE u # t
    BY <1>0, <2>1, <2>3 DEF LtFresh
  <2> QED BY <2>2, <2>3
<1>4. \/ Stage' = Stage /\ (Stage # "free" => NewStart' = NewStart)
      \/ Stage = "free" /\ Stage' = "zero"
  BY <1>0, LatencyAssumption DEF Stage, NewStart, LtRot
<1>5. LtTimes'
  BY <1>0, <1>4 DEF LtTimes, Younger
<1>6. LtDue'
  BY <1>0 DEF LtDue, Turning
<1>7. LtCounts'
  <2>1. \A e : Pend(e)' = Pend(e) /\ t \notin Pend(e)
    BY <1>0 DEF Pend
  <2>2. \A e : Pend(e)' \cap raced' = Pend(e) \cap raced
    BY <2>1
  <2>3. \A e : Slack(e)' = Slack(e) /\ Tracks(e)' = Tracks(e)
    BY <1>0, <2>1, <2>2 DEF Slack, Tracks
  <2>4. Stage' \in Turning \ {"zero"} => Adding' \subseteq raced'
    <3> SUFFICES ASSUME Stage' \in Turning \ {"zero"}, NEW u \in Adding' PROVE u \in raced'
      OBVIOUS
    <3>1. Stage \in Turning \ {"zero"} /\ rot # Free
      BY <1>4 DEF Stage, Turning
    <3>2. CASE u = t
      BY <1>0, <3>1, <3>2 DEF Adding
    <3>3. CASE u # t
      BY <1>0, <3>1, <3>3 DEF Adding, LtCounts
    <3> QED BY <3>2, <3>3
  <2> QED BY <1>0, <1>4, <2>3, <2>4 DEF LtCounts, Turning
<1> QED BY <1>1, <1>2, <1>3, <1>5, <1>6, <1>7

\* A step of the thread t that rotates, in general: who is adding has raced it.
LEMMA TurnFacts ==
  ASSUME LtInv, NEW t \in Threads, NEW p \in Turning \cup {"load"}, thr[t].pc \in Turning, Rotating(t, p), races' = races
  PROVE  /\ rot = t /\ rot # Free /\ Stage = thr[t].pc /\ NewStart = thr[t].at
         /\ start + Window <= thr[t].at /\ thr[t].at <= now /\ thr[t].at \in Nat
         /\ thr'[t].pc = p /\ thr'[t].at = thr[t].at /\ thr'[t].op = thr[t].op
         /\ \A u \in Threads \ {t} : thr'[u] = thr[u]
         /\ thr' \in [Threads -> Reader] /\ raced' \subseteq Threads
         /\ Adding' \subseteq raced'
         /\ \A e : /\ Pend(e)' = Pend(e) /\ Pend(e) \cap raced' = Pend(e)
                   /\ Slack(e)' = races + Cardinality(Pend(e)) /\ Slack(e)' \in Nat /\ Slack(e) \in Nat /\ Slack(e) <= Slack(e)'
<1> USE DEF LtInv
<1>1. rot = t /\ rot # Free /\ start + Window <= thr[t].at
  BY LatencyAssumption DEF LtRot
<1>2. thr[t] \in Reader /\ thr[t].at <= now /\ races \in Nat
  BY DEF LtType
<1>3. thr' = [thr EXCEPT ![t] = [thr[t] EXCEPT !.pc = p]] /\ raced' = raced \cup Adding
  BY DEF Rotating, Go
<1> PICK q : q = [thr[t] EXCEPT !.pc = p]
  OBVIOUS
<1>4. q \in Reader /\ q.pc = p /\ q.at = thr[t].at /\ q.op = thr[t].op
  BY <1>2 DEF Reader
<1>5. thr'[t] = q /\ (\A u \in Threads \ {t} : thr'[u] = thr[u]) /\ thr' \in [Threads -> Reader]
  BY <1>3, <1>4 DEF LtType
<1>6. raced' \subseteq Threads /\ Adding' = Adding
  BY <1>3, <1>4, <1>5 DEF LtType, Adding, Turning
<1>7. ASSUME NEW e
      PROVE  /\ Pend(e)' = Pend(e) /\ Pend(e) \cap raced' = Pend(e)
             /\ Slack(e)' = races + Cardinality(Pend(e)) /\ Slack(e)' \in Nat /\ Slack(e) \in Nat /\ Slack(e) <= Slack(e)'
  <2>1. Pend(e)' = Pend(e)
    BY <1>4, <1>5 DEF Pend, Turning
  <2>2. Pend(e) \subseteq Adding
    BY DEF Pend, Adding
  <2>3. Pend(e) \cap raced' = Pend(e)
    BY <1>3, <2>2
  <2>4. Cardinality(Pend(e) \cap raced) <= Cardinality(Pend(e))
    BY PendFinite, FS_Subset
  <2> QED BY <1>2, <2>1, <2>3, <2>4, PendFinite DEF Slack
<1>8. thr[t].at \in Nat /\ Stage = thr[t].pc /\ NewStart = thr[t].at /\ Adding' \subseteq raced'
  BY <1>1, <1>2, <1>3, <1>6 DEF Stage, NewStart, Reader
<1> QED BY <1>1, <1>2, <1>4, <1>5, <1>6, <1>7, <1>8

\* What a step of a rotation leaves alone, until it ends.
LEMMA TurnStep ==
  ASSUME LtInv, NEW t \in Threads, NEW p \in Turning, thr[t].pc \in Turning, Rotating(t, p),
         hist' = [e \in {0, 1} |-> hist'[e]], \A e \in {0, 1} : hist'[e] \subseteq hist[e],
         counts' \in [{0, 1} -> Nat], cur' \in {0, 1}, UNCHANGED <<now, start, rot, samples, races>>
  PROVE  LtType' /\ LtRot' /\ LtFresh' /\ LtDue' /\ Stage' = p /\ NewStart' = NewStart
<1> USE DEF LtInv
<1>1. /\ rot = t /\ rot # Free /\ NewStart = thr[t].at /\ start + Window <= thr[t].at
      /\ thr'[t].pc = p /\ thr'[t].at = thr[t].at /\ thr'[t].op = thr[t].op
      /\ (\A u \in Threads \ {t} : thr'[u] = thr[u]) /\ thr' \in [Threads -> Reader] /\ raced' \subseteq Threads
  BY TurnFacts
<1>2. LtType'
  <2>1. \A e \in {0, 1} : IsFiniteSet(hist'[e])
    BY FS_Subset DEF LtType
  <2>2. \A e \in {0, 1} : \A x \in hist'[e] : x[2] \in Nat /\ x[2] <= samples /\ x[3] \in Nat
    BY DEF LtType
  <2>3. \A u \in Threads : thr'[u].at <= now
    BY <1>1 DEF LtType
  <2> QED BY <1>1, <2>1, <2>2, <2>3 DEF LtType
<1>3. LtRot'
  BY <1>1 DEF LtRot
<1>4. LtFresh'
  <2>1. p # "add" /\ p # "count" /\ thr[t].pc # "add" /\ thr[t].pc # "count"
    BY DEF Turning
  <2> SUFFICES ASSUME NEW u \in Threads
               PROVE  /\ thr'[u].pc = "add" => thr'[u].op = "record"
                      /\ thr'[u].op = "record" /\ thr'[u].pc # "count" =>
                           \A e \in {0, 1} : \A x \in hist'[e] : x[1] = u => x[2] < samples
    BY DEF LtFresh
  <2> QED BY <1>1, <2>1 DEF LtFresh
<1>5. LtDue'
  BY <1>1 DEF LtDue, Turning
<1> QED BY <1>1, <1>2, <1>3, <1>4, <1>5 DEF Stage, NewStart

\* maybe_rotate clears the buckets of the older epoch.
LEMMA BucketsCleared ==
  ASSUME LtInv, NEW t \in Threads, ZeroBuckets(t) \/ ZeroOldBuckets(t)
  PROVE  LtInv'
<1> USE DEF LtInv
<1> PICK p : p = IF thr[t].pc = "zero" THEN "zero_count" ELSE "zero_old_count"
  OBVIOUS
<1>0. /\ thr[t].pc \in {"zero", "zero_old"} /\ Rotating(t, p) /\ hist' = [hist EXCEPT ![1 - cur] = {}]
      /\ UNCHANGED <<now, cur, start, counts, rot, samples, races>>
  BY DEF ZeroBuckets, ZeroOldBuckets
<1>1. thr[t].pc \in Turning /\ p \in Turning /\ cur \in {0, 1} /\ 1 - cur \in {0, 1} /\ cur # 1 - cur
  BY <1>0 DEF Turning, LtType
<1>2. hist'[cur] = hist[cur] /\ hist'[1 - cur] = {} /\ hist' = [e \in {0, 1} |-> hist'[e]]
  BY <1>0, <1>1 DEF LtType
<1>3. \A e \in {0, 1} : hist'[e] \subseteq hist[e]
  BY <1>1, <1>2
<1>4. LtType' /\ LtRot' /\ LtFresh' /\ LtDue' /\ Stage' = p /\ NewStart' = NewStart
  BY <1>0, <1>1, <1>2, <1>3, TurnStep DEF LtType
<1>5. /\ Stage = thr[t].pc /\ NewStart = thr[t].at /\ Adding' \subseteq raced'
      /\ \A e : /\ Pend(e)' = Pend(e) /\ Slack(e)' \in Nat /\ Slack(e) \in Nat /\ Slack(e) <= Slack(e)'
  BY <1>0, <1>1, TurnFacts
<1>6. LtTimes'
  BY <1>0, <1>1, <1>2, <1>4, <1>5 DEF LtTimes, Younger
<1>7. LtCounts'
  <2>1. Cardinality(hist[cur]) \in Nat /\ Cardinality(Pend(cur)) \in Nat /\ counts[cur] \in Nat
    BY <1>1, PendFinite, FS_CardinalityType DEF LtType
  <2>2. Tracks(cur)'
    <3>1. Tracks(cur)
      BY DEF LtCounts
    <3> QED BY <1>0, <1>1, <1>2, <1>5, <2>1, <3>1 DEF Tracks
  <2>3. Cardinality(hist'[1 - cur]) = 0
    BY <1>2, FS_EmptySet
  <2> QED BY <1>0, <1>1, <1>4, <1>5, <2>2, <2>3 DEF LtCounts
<1> QED BY <1>4, <1>6, <1>7

\* ... and then its count; the first time the epochs change places.
LEMMA CountCleared ==
  ASSUME LtInv, NEW t \in Threads, ZeroCountAndTurn(t) \/ ZeroOldCount(t)
  PROVE  LtInv'
<1> USE DEF LtInv
<1> PICK p : p = IF thr[t].pc = "zero_count" /\ StaleBoth(t) THEN "zero_old" ELSE "stamp"
  OBVIOUS
<1> PICK c : c = IF thr[t].pc = "zero_count" THEN 1 - cur ELSE cur
  OBVIOUS
<1> PICK o : o = 1 - cur
  OBVIOUS
<1>0. /\ thr[t].pc \in {"zero_count", "zero_old_count"} /\ Rotating(t, p) /\ counts' = [counts EXCEPT ![o] = 0]
      /\ cur' = c /\ UNCHANGED <<now, start, hist, rot, samples, races>>
  BY DEF ZeroCountAndTurn, ZeroOldCount
<1>1. /\ thr[t].pc \in Turning /\ p \in Turning /\ cur \in {0, 1} /\ o \in {0, 1} /\ cur # o /\ c \in {0, 1}
      /\ 1 - o = cur /\ {c, 1 - c} = {o, cur}
  BY <1>0 DEF Turning, LtType
<1>2. counts'[o] = 0 /\ counts'[cur] = counts[cur] /\ counts' \in [{0, 1} -> Nat] /\ hist' = [e \in {0, 1} |-> hist'[e]]
  BY <1>0, <1>1 DEF LtType
<1>4. LtType' /\ LtRot' /\ LtFresh' /\ LtDue' /\ Stage' = p /\ NewStart' = NewStart
  BY <1>0, <1>1, <1>2, TurnStep
<1>5. /\ Stage = thr[t].pc /\ NewStart = thr[t].at /\ Adding' \subseteq raced' /\ start + Window <= NewStart
      /\ NewStart \in Nat /\ start \in Nat /\ races \in Nat
      /\ \A e : /\ Pend(e)' = Pend(e) /\ Slack(e)' \in Nat /\ Slack(e) \in Nat /\ Slack(e) <= Slack(e)'
                /\ Slack(e)' = races + Cardinality(Pend(e))
  BY <1>0, <1>1, TurnFacts DEF LtType
<1>6. LtTimes'
  <2>0. \A e \in {0, 1} : \A x \in hist[e] : x[3] \in Nat
    BY DEF LtType
  <2>1. CASE thr[t].pc = "zero_count"
    <3>1. Younger(cur, start) /\ Younger(o, NewStart) /\ c = o /\ 1 - c = cur
      BY <1>1, <1>5, <2>1 DEF LtTimes
    <3>2. p = "stamp" => NewStart - start < 2 * Window
      BY <1>5, <2>1, LatencyAssumption DEF StaleBoth
    <3>3. p = "stamp" => Younger(cur, NewStart - 2 * Window + 1)
      BY <1>1, <1>5, <2>0, <3>1, <3>2, LatencyAssumption DEF Younger
    <3> QED BY <1>0, <1>4, <3>1, <3>3 DEF LtTimes, Younger
  <2>2. CASE thr[t].pc = "zero_old_count"
    <3>1. Younger(cur, NewStart) /\ Younger(o, NewStart) /\ c = cur /\ p = "stamp"
      BY <1>1, <1>5, <2>2 DEF LtTimes
    <3>2. Younger(o, NewStart - 2 * Window + 1)
      BY <1>1, <1>5, <2>0, <3>1, LatencyAssumption DEF Younger
    <3> QED BY <1>0, <1>4, <3>1, <3>2 DEF LtTimes, Younger
  <2> QED BY <1>0, <2>1, <2>2
<1>7. LtCounts'
  <2>1. \A e \in {0, 1} : Cardinality(hist[e]) \in Nat /\ Cardinality(Pend(e)) \in Nat /\ counts[e] \in Nat
    BY PendFinite, FS_CardinalityType DEF LtType
  <2>2. Tracks(cur) /\ Cardinality(hist[o]) <= Slack(o)
    BY <1>0, <1>5 DEF LtCounts
  <2>3. ASSUME NEW e \in {0, 1} PROVE Tracks(e)'
    <3>1. CASE e = cur
      BY <1>0, <1>1, <1>2, <1>5, <2>1, <2>2, <3>1 DEF Tracks
    <3>2. CASE e = o
      BY <1>0, <1>1, <1>2, <1>5, <2>1, <2>2, <3>2 DEF Tracks
    <3> QED BY <1>1, <3>1, <3>2
  <2>4. Tracks(c)' /\ Tracks(1 - c)'
    BY <1>1, <2>3
  <2>5. p \notin {"zero_count", "zero_old_count"}
    OBVIOUS
  <2> QED BY <1>0, <1>4, <1>5, <2>4, <2>5 DEF LtCounts, Tracks, Slack, Pend
<1> QED BY <1>4, <1>6, <1>7

\* ... and ends with the new start of the window.
LEMMA StampStep ==
  ASSUME LtInv, NEW t \in Threads, Stamp(t)
  PROVE  LtInv'
<1> USE DEF LtInv
<1>0. /\ thr[t].pc = "stamp" /\ Rotating(t, "load") /\ start' = thr[t].at /\ rot' = Free
      /\ UNCHANGED <<now, cur, hist, counts, samples, races>>
  BY DEF Stamp
<1>1. thr[t].pc \in Turning /\ "load" \in Turning \cup {"load"} /\ cur \in {0, 1} /\ 1 - cur \in {0, 1}
  BY <1>0 DEF Turning, LtType
<1>2. /\ rot = t /\ rot # Free /\ Stage = thr[t].pc /\ NewStart = thr[t].at
      /\ start + Window <= thr[t].at /\ thr[t].at <= now /\ thr[t].at \in Nat
      /\ thr'[t].pc = "load" /\ thr'[t].at = thr[t].at /\ thr'[t].op = thr[t].op
      /\ \A u \in Threads \ {t} : thr'[u] = thr[u]
      /\ thr' \in [Threads -> Reader] /\ raced' \subseteq Threads
  BY <1>0, <1>1, TurnFacts
<1>3. \A e : Pend(e)' = Pend(e) /\ Slack(e)' \in Nat /\ Slack(e) \in Nat /\ Slack(e) <= Slack(e)'
  BY <1>0, <1>1, TurnFacts
<1>4. LtType'
  <2>1. \A u \in Threads : thr'[u].at <= now
    BY <1>2 DEF LtType
  <2> QED BY <1>0, <1>2, <2>1 DEF LtType
<1>5. LtRot'
  BY <1>0, <1>2, LatencyAssumption DEF LtRot, Turning
<1>6. LtFresh'
  <2> SUFFICES ASSUME NEW u \in Threads
               PROVE  /\ thr'[u].pc = "add" => thr'[u].op = "record"
                      /\ thr'[u].op = "record" /\ thr'[u].pc # "count" =>
                           \A e \in {0, 1} : \A x \in hist[e] : x[1] = u => x[2] < samples
    BY <1>0 DEF LtFresh
  <2> QED BY <1>0, <1>2 DEF LtFresh
<1>7. LtDue'
  <2> SUFFICES ASSUME NEW u \in Threads, thr'[u].pc \in {"load", "add", "count", "read"} PROVE thr'[u].at - thr[t].at < Window
    BY <1>0 DEF LtDue
  <2>1. CASE u = t
    BY <1>2, <2>1, LatencyAssumption
  <2>2. CASE u # t
    <3>1. thr[u].at - start < Window /\ thr'[u].at = thr[u].at /\ thr[u].at \in Nat /\ start \in Nat
      BY <1>2, <2>2 DEF LtDue, LtType, Reader
    <3> QED BY <1>2, <3>1, LatencyAssumption
  <2> QED BY <2>1, <2>2
<1>8. LtTimes'
  <2>1. Younger(cur, NewStart) /\ Younger(1 - cur, NewStart - 2 * Window + 1)
    BY <1>0, <1>2 DEF LtTimes
  <2>2. Stage' = "free"
    BY <1>0 DEF Stage
  <2> QED BY <1>0, <1>2, <2>1, <2>2 DEF LtTimes, Younger
<1>9. LtCounts'
  <2>0. Stage' = "free"
    BY <1>0 DEF Stage
  <2>1. \A e \in {0, 1} : Cardinality(hist[e]) \in Nat /\ Cardinality(Pend(e)) \in Nat /\ counts[e] \in Nat
    BY PendFinite, FS_CardinalityType DEF LtType
  <2>2. Tracks(cur) /\ Tracks(1 - cur)
    BY <1>0, <1>2 DEF LtCounts
  <2>3. \A e \in {0, 1} : Tracks(e) => Tracks(e)'
    BY <1>0, <1>3, <2>1 DEF Tracks
  <2>4. Tracks(cur)' /\ Tracks(1 - cur)'
    <3> PICK c, o : c = cur /\ o = 1 - cur
      OBVIOUS
    <3>1. Tracks(c)' /\ Tracks(o)'
      BY <1>1, <2>2, <2>3
    <3> QED BY <1>0, <3>1 DEF Tracks, Slack, Pend
  <2> QED BY <2>0, <2>4 DEF LtCounts, Turning
<1> QED BY <1>4, <1>5, <1>6, <1>7, <1>8, <1>9

\* record_at adds to the bucket of the epoch it loaded.
LEMMA AddBucketStep ==
  ASSUME LtInv, NEW t \in Threads, AddBucket(t)
  PROVE  LtInv'
<1> USE DEF LtInv
<1> PICK e \in {0, 1} : e = thr[t].e
  BY DEF LtType, Reader
<1> PICK y : y = <<t, samples, now>>
  OBVIOUS
<1>0. /\ thr[t].pc = "add" /\ hist' = [hist EXCEPT ![e] = @ \cup {y}] /\ thr' = [thr EXCEPT ![t] = [thr[t] EXCEPT !.pc = "count"]]
      /\ UNCHANGED <<now, cur, start, counts, rot, samples, raced, races>>
  BY DEF AddBucket, Go
<1>1. y[1] = t /\ y[2] = samples /\ y[3] = now /\ samples \in Nat /\ now \in Nat /\ start <= now /\ start \in Nat
  BY DEF LtType
<1>2. thr[t] \in Reader
  BY DEF LtType
<1> PICK q : q = [thr[t] EXCEPT !.pc = "count"]
  OBVIOUS
<1>3. q \in Reader /\ q.pc = "count" /\ q.e = e /\ q.at = thr[t].at /\ q.op = thr[t].op
  BY <1>2 DEF Reader
<1>4. thr'[t] = q /\ (\A u \in Threads \ {t} : thr'[u] = thr[u]) /\ thr' \in [Threads -> Reader]
  BY <1>0, <1>3 DEF LtType
<1>5. /\ hist'[e] = hist[e] \cup {y} /\ (\A f \in {0, 1} \ {e} : hist'[f] = hist[f])
      /\ hist' = [f \in {0, 1} |-> hist'[f]]
  BY <1>0 DEF LtType
<1>6. y \notin hist[e]
  BY <1>0, <1>1 DEF LtFresh
<1>7. /\ IsFiniteSet(hist'[e]) /\ Cardinality(hist'[e]) = Cardinality(hist[e]) + 1
  BY <1>5, <1>6, CountUp DEF LtType
<1>8. LtType'
  <2>1. \A f \in {0, 1} : IsFiniteSet(hist'[f]) /\ \A x \in hist'[f] : x[2] \in Nat /\ x[2] <= samples /\ x[3] \in Nat
    <3> TAKE f \in {0, 1}
    <3>1. IsFiniteSet(hist[f]) /\ \A x \in hist[f] : x[2] \in Nat /\ x[2] <= samples /\ x[3] \in Nat
      BY DEF LtType
    <3>2. CASE f = e
      <4>1. \A x \in hist'[f] : x \in hist[f] \/ x = y
        BY <1>5, <3>2
      <4>2. y[2] \in Nat /\ y[2] <= samples /\ y[3] \in Nat
        BY <1>1
      <4>3. \A x \in hist'[f] : x[2] \in Nat /\ x[2] <= samples /\ x[3] \in Nat
        BY ONLY <3>1, <4>1, <4>2
      <4> QED BY <1>7, <3>2, <4>3
    <3>3. CASE f # e
      BY <1>5, <3>1, <3>3
    <3> QED BY <3>2, <3>3
  <2>2. \A u \in Threads : thr'[u].at <= now
    BY <1>3, <1>4 DEF LtType
  <2> QED BY <1>0, <1>4, <1>5, <2>1, <2>2 DEF LtType
<1>9. LtRot'
  BY <1>0, <1>3, <1>4 DEF LtRot, Turning
<1>10. LtFresh'
  <2> SUFFICES ASSUME NEW u \in Threads
               PROVE  /\ thr'[u].pc = "add" => thr'[u].op = "record"
                      /\ thr'[u].op = "record" /\ thr'[u].pc # "count" =>
                           \A f \in {0, 1} : \A x \in hist'[f] : x[1] = u => x[2] < samples
    BY <1>0 DEF LtFresh
  <2>1. CASE u = t
    BY <1>3, <1>4, <2>1
  <2>2. CASE u # t
    BY <1>1, <1>4, <1>5, <2>2 DEF LtFresh
  <2> QED BY <2>1, <2>2
<1>11. LtDue'
  BY <1>0, <1>3, <1>4 DEF LtDue
<1>12. /\ Stage' = Stage /\ (Stage # "free" => NewStart' = NewStart /\ NewStart <= now /\ NewStart \in Nat)
  <2>1. CASE rot = Free
    BY <1>0, <2>1 DEF Stage
  <2>2. CASE rot # Free
    <3>1. rot \in Threads /\ rot # t
      BY <1>0, <2>2 DEF LtRot, Turning
    <3>2. thr[rot].at <= now /\ thr[rot].at \in Nat
      BY <3>1 DEF LtType, Reader
    <3> QED BY <1>0, <1>4, <2>2, <3>1, <3>2 DEF Stage, NewStart
  <2> QED BY <2>1, <2>2
<1>13. LtTimes'
  <2>1. \A f \in {0, 1} : \A m \in Int : m <= now /\ Younger(f, m) => \A x \in hist'[f] : x[3] >= m
    BY <1>1, <1>5 DEF Younger
  <2>2. cur \in {0, 1} /\ 1 - cur \in {0, 1} /\ start \in Int /\ start - 2 * Window + 1 \in Int /\ start - 2 * Window + 1 <= now
    BY <1>1, LatencyAssumption DEF LtType
  <2>3. Stage # "free" => NewStart \in Int /\ NewStart - 2 * Window + 1 \in Int /\ NewStart - 2 * Window + 1 <= now
    BY <1>1, <1>12, LatencyAssumption
  <2> QED BY <1>0, <1>1, <1>12, <2>1, <2>2, <2>3 DEF LtTimes, Younger
<1>14. LtCounts'
  <2>1. t \notin Pend(e) /\ Pend(e)' = Pend(e) \cup {t} /\ \A f \in {0, 1} \ {e} : Pend(f)' = Pend(f)
    BY <1>0, <1>3, <1>4 DEF Pend
  <2>2. Cardinality(Pend(e)') = Cardinality(Pend(e)) + 1
    BY <2>1, PendFinite, CountUp
  <2>3. /\ t \in raced => Slack(e)' = Slack(e) + 1
        /\ t \notin raced => Slack(e)' = Slack(e)
        /\ Slack(e) \in Nat
    <3> PICK n \in Nat : n = Cardinality(Pend(e) \cap raced)
      BY PendFinite
    <3>0. races \in Nat /\ races' = races /\ raced' = raced
      BY <1>0 DEF LtType
    <3>1. CASE t \in raced
      <4>1. Pend(e)' \cap raced = (Pend(e) \cap raced) \cup {t} /\ t \notin Pend(e) \cap raced
        BY <2>1, <3>1
      <4>2. Cardinality(Pend(e)' \cap raced) = Cardinality(Pend(e) \cap raced) + 1
        BY <4>1, PendFinite, CountUp
      <4> QED BY <3>0, <3>1, <4>2 DEF Slack
    <3>2. CASE t \notin raced
      <4>1. Pend(e)' \cap raced = Pend(e) \cap raced
        BY <2>1, <3>2
      <4> QED BY <3>0, <3>2, <4>1 DEF Slack
    <3> QED BY <3>1, <3>2
  <2>4. \A f \in {0, 1} : Cardinality(hist[f]) \in Nat /\ Cardinality(Pend(f)) \in Nat /\ counts[f] \in Nat
    BY PendFinite, FS_CardinalityType DEF LtType
  <2>5. \A f \in {0, 1} \ {e} : Slack(f)' = Slack(f)
    BY <1>0, <2>1 DEF Slack
  <2>6. ASSUME NEW f \in {0, 1}, Tracks(f) PROVE Tracks(f)'
    <3>1. CASE f = e
      BY <1>0, <1>7, <2>2, <2>3, <2>4, <2>6, <3>1 DEF Tracks
    <3>2. CASE f # e
      BY <1>0, <1>5, <2>1, <2>5, <2>6, <3>2 DEF Tracks
    <3> QED BY <3>1, <3>2
  <2>7. Stage \in Turning \ {"zero"} => t \in raced
    BY <1>0 DEF LtCounts, Adding
  <2>8. ASSUME NEW f \in {0, 1}, Stage \in {"zero_count", "zero_old_count"}, Cardinality(hist[f]) <= Slack(f)
        PROVE  Cardinality(hist'[f]) <= Slack(f)'
    <3>1. t \in raced
      BY <2>7, <2>8 DEF Turning
    <3>2. CASE f = e
      BY <1>7, <2>3, <2>4, <2>8, <3>1, <3>2
    <3>3. CASE f # e
      BY <1>5, <2>5, <2>8, <3>3
    <3> QED BY <3>2, <3>3
  <2>9. Adding' = Adding
    BY <1>0, <1>3, <1>4 DEF Adding
  <2> PICK c, o : c = cur /\ o = 1 - cur /\ c \in {0, 1} /\ o \in {0, 1}
    BY DEF LtType
  <2>10. /\ Tracks(c)'
         /\ Stage \notin {"zero_count", "zero_old_count"} => Tracks(o)'
         /\ Stage \in {"zero_count", "zero_old_count"} => Cardinality(hist'[o]) <= Slack(o)'
    BY <2>6, <2>8 DEF LtCounts
  <2> QED BY <1>0, <1>12, <2>9, <2>10 DEF LtCounts, Tracks, Slack, Pend
<1> QED BY <1>8, <1>9, <1>10, <1>11, <1>13, <1>14

\* ... and then to its count.
LEMMA AddCountStep ==
  ASSUME LtInv, NEW t \in Threads, AddCount(t)
  PROVE  LtInv'
<1> USE DEF LtInv
<1> PICK e \in {0, 1} : e = thr[t].e
  BY DEF LtType, Reader
<1>0. /\ thr[t].pc = "count" /\ counts' = [counts EXCEPT ![e] = @ + 1] /\ thr' = [thr EXCEPT ![t] = LatIdle]
      /\ races' = races + (IF t \in raced THEN 1 ELSE 0) /\ raced' = raced \ {t}
      /\ UNCHANGED <<now, cur, start, hist, rot, samples>>
  BY DEF AddCount
<1>1. LatIdle \in Reader /\ LatIdle.pc = "idle" /\ LatIdle.op = "none" /\ LatIdle.at = 0
  BY DEF LatIdle, Reader
<1>2. thr'[t] = LatIdle /\ (\A u \in Threads \ {t} : thr'[u] = thr[u]) /\ thr' \in [Threads -> Reader]
  BY <1>0, <1>1 DEF LtType
<1>3. /\ counts'[e] = counts[e] + 1 /\ counts' \in [{0, 1} -> Nat] /\ \A f \in {0, 1} \ {e} : counts'[f] = counts[f]
  BY <1>0 DEF LtType
<1>4. races \in Nat /\ races' \in Nat /\ (t \in raced => races' = races + 1) /\ (t \notin raced => races' = races)
  BY <1>0 DEF LtType
<1>5. LtType'
  <2>1. \A u \in Threads : thr'[u].at <= now
    BY <1>1, <1>2 DEF LtType
  <2> QED BY <1>0, <1>2, <1>3, <1>4, <2>1 DEF LtType
<1>6. LtRot'
  BY <1>0, <1>1, <1>2 DEF LtRot, Turning
<1>7. LtFresh'
  BY <1>0, <1>1, <1>2 DEF LtFresh
<1>8. LtDue'
  BY <1>0, <1>1, <1>2 DEF LtDue
<1>9. /\ Stage' = Stage /\ (Stage # "free" => NewStart' = NewStart)
  <2>1. CASE rot = Free
    BY <1>0, <2>1 DEF Stage
  <2>2. CASE rot # Free
    <3>1. rot \in Threads /\ rot # t
      BY <1>0, <2>2 DEF LtRot, Turning
    <3> QED BY <1>0, <1>2, <2>2, <3>1 DEF Stage, NewStart
  <2> QED BY <2>1, <2>2
<1>10. LtTimes'
  BY <1>0, <1>9 DEF LtTimes, Younger
<1>11. LtCounts'
  <2>1. t \in Pend(e) /\ Pend(e)' = Pend(e) \ {t} /\ \A f \in {0, 1} \ {e} : Pend(f)' = Pend(f) /\ t \notin Pend(f)
    BY <1>0, <1>1, <1>2 DEF Pend
  <2> PICK p \in Nat : p = Cardinality(Pend(e))
    BY PendFinite
  <2>2. Cardinality(Pend(e)') = p - 1
    BY <2>1, PendFinite, CountDown
  <2>3. Slack(e)' = Slack(e) /\ Slack(e) \in Nat
    <3> PICK n \in Nat : n = Cardinality(Pend(e) \cap raced)
      BY PendFinite
    <3>1. CASE t \in raced
      <4>1. Pend(e)' \cap raced' = (Pend(e) \cap raced) \ {t} /\ t \in Pend(e) \cap raced
        BY <1>0, <2>1, <3>1
      <4>2. Cardinality(Pend(e)' \cap raced') = n - 1
        BY <4>1, PendFinite, CountDown
      <4> QED BY <1>4, <3>1, <4>2 DEF Slack
    <3>2. CASE t \notin raced
      <4>1. Pend(e)' \cap raced' = Pend(e) \cap raced
        BY <1>0, <2>1, <3>2
      <4>2. Cardinality(Pend(e)' \cap raced') = n
        BY <4>1
      <4> QED BY <1>4, <3>2, <4>2 DEF Slack
    <3> QED BY <3>1, <3>2
  <2>4. \A f \in {0, 1} : Cardinality(hist[f]) \in Nat /\ Cardinality(Pend(f)) \in Nat /\ counts[f] \in Nat
    BY PendFinite, FS_CardinalityType DEF LtType
  <2>5. \A f \in {0, 1} \ {e} : Slack(f)' \in Nat /\ Slack(f) \in Nat /\ Slack(f) <= Slack(f)'
    <3> TAKE f \in {0, 1} \ {e}
    <3> PICK n \in Nat : n = Cardinality(Pend(f) \cap raced)
      BY PendFinite
    <3>1. Pend(f)' \cap raced' = Pend(f) \cap raced
      BY <1>0, <2>1
    <3>2. Cardinality(Pend(f)' \cap raced') = n
      BY <3>1
    <3>3. races <= races'
      BY <1>4
    <3> QED BY <1>4, <3>2, <3>3 DEF Slack
  <2>6. ASSUME NEW f \in {0, 1}, Tracks(f) PROVE Tracks(f)'
    <3>1. CASE f = e
      BY <1>0, <1>3, <2>2, <2>3, <2>4, <2>6, <3>1 DEF Tracks
    <3>2. CASE f # e
      BY <1>0, <1>3, <2>1, <2>4, <2>5, <2>6, <3>2 DEF Tracks
    <3> QED BY <3>1, <3>2
  <2>8. ASSUME NEW f \in {0, 1}, Cardinality(hist[f]) <= Slack(f) PROVE Cardinality(hist'[f]) <= Slack(f)'
    BY <1>0, <2>3, <2>4, <2>5, <2>8
  <2>9. Adding' = Adding \ {t}
    BY <1>0, <1>1, <1>2 DEF Adding
  <2> PICK c, o : c = cur /\ o = 1 - cur /\ c \in {0, 1} /\ o \in {0, 1}
    BY DEF LtType
  <2>10. /\ Tracks(c)'
         /\ Stage \notin {"zero_count", "zero_old_count"} => Tracks(o)'
         /\ Stage \in {"zero_count", "zero_old_count"} => Cardinality(hist'[o]) <= Slack(o)'
    BY <2>6, <2>8 DEF LtCounts
  <2> QED BY <1>0, <1>9, <2>9, <2>10 DEF LtCounts, Tracks, Slack, Pend
<1> QED BY <1>5, <1>6, <1>7, <1>8, <1>10, <1>11

\* The steps that take the time, look and load, or end.
LEMMA LookStep ==
  ASSUME LtInv, NEW t \in Threads,
         BeginRecord(t) \/ BeginP99(t) \/ CheckDue(t) \/ Lock(t) \/ Load(t) \/ Answer(t)
  PROVE  LtInv'
<1> USE DEF LtInv
<1>0. /\ thr[t] \in Reader /\ thr[t].at <= now /\ now \in Nat /\ start \in Nat /\ cur \in {0, 1} /\ raced \subseteq Threads
      /\ samples \in Nat /\ Window \in Nat \ {0}
  BY LatencyAssumption DEF LtType
<1>1. CASE BeginRecord(t) \/ BeginP99(t)
  <2> PICK o : o \in {"record", "p99"} /\ ((BeginRecord(t) /\ o = "record") \/ (BeginP99(t) /\ o = "p99"))
    BY <1>1
  <2> PICK q : q = [LatIdle EXCEPT !.pc = "check", !.op = o, !.at = now]
    OBVIOUS
  <2>0. q \in Reader /\ q.pc = "check" /\ q.at = now /\ q.op = o
    BY <1>0 DEF LatIdle, Reader
  <2>1. /\ thr' = [thr EXCEPT ![t] = q] /\ thr[t].pc = "idle"
        /\ (q.op = "record" => samples' = samples + 1) /\ samples' \in Nat /\ samples <= samples'
    <3>1. CASE BeginRecord(t) /\ o = "record"
      BY <1>0, <2>0, <3>1 DEF BeginRecord
    <3>2. CASE BeginP99(t) /\ o = "p99"
      BY <1>0, <2>0, <3>2 DEF BeginP99
    <3> QED BY <3>1, <3>2
  <2>2. UNCHANGED <<now, cur, start, hist, counts, races, rot, raced>>
    BY <1>1 DEF BeginRecord, BeginP99
  <2>3. /\ thr[t].pc # "count" /\ q.pc # "count" /\ q.at <= now /\ thr[t].pc \notin Turning /\ q.pc \notin Turning
        /\ raced' \ {t} = raced \ {t} /\ raced' \subseteq Threads /\ (q.op = "record" => samples < samples')
    BY <1>0, <2>0, <2>1, <2>2 DEF Turning
  <2> QED BY <2>0, <2>1, <2>2, <2>3, QuietStep
<1>2. CASE CheckDue(t) \/ Lock(t)
  <2> PICK p : p = IF Due(t) THEN IF thr[t].pc = "check" THEN "lock" ELSE "zero" ELSE "load"
    OBVIOUS
  <2> PICK q : q = [thr[t] EXCEPT !.pc = p]
    OBVIOUS
  <2>1. /\ thr[t].pc \in {"check", "lock"} /\ thr' = [thr EXCEPT ![t] = q]
        /\ UNCHANGED <<now, cur, start, hist, counts, races, raced, samples>>
        /\ (rot' = rot /\ p # "zero") \/ (rot = Free /\ rot' = t /\ p = "zero")
    BY <1>2 DEF CheckDue, Lock, Go
  <2>2. q \in Reader /\ q.pc = p /\ q.at = thr[t].at /\ q.op = thr[t].op /\ p \in {"lock", "zero", "load"} /\ thr[t].at \in Nat
    BY <1>0 DEF Reader, Turning
  <2>3. /\ p = "zero" => start + Window <= q.at
        /\ p = "load" => q.at - start < Window
    BY <1>0, <2>2 DEF Due, AtLeast
  <2>4. /\ thr[t].pc # "count" /\ q.pc # "count" /\ q.at <= now /\ thr[t].pc \notin Turning
        /\ raced' \ {t} = raced \ {t} /\ raced' \subseteq Threads /\ samples' \in Nat /\ samples <= samples'
        /\ (q.op = "record" => thr[t].op = "record") /\ q.pc \notin {"add", "read"} /\ (p # "zero" => q.pc \notin Turning)
    BY <1>0, <2>1, <2>2 DEF Turning
  <2> QED BY <2>1, <2>2, <2>3, <2>4, QuietStep
<1>3. CASE Load(t)
  <2> PICK p : p = IF thr[t].op = "record" THEN "add" ELSE "read"
    OBVIOUS
  <2> PICK q : q = [thr[t] EXCEPT !.pc = p, !.e = cur]
    OBVIOUS
  <2>1. /\ thr[t].pc = "load" /\ thr' = [thr EXCEPT ![t] = q]
        /\ raced' = (IF rot = Free THEN raced ELSE raced \cup {t})
        /\ UNCHANGED <<now, cur, start, hist, counts, races, rot, samples>>
    BY <1>0, <1>3 DEF Load, Reader, LtType
  <2>2. q \in Reader /\ q.pc = p /\ q.at = thr[t].at /\ q.op = thr[t].op
    BY <1>0 DEF Reader
  <2>3. q.at - start < Window
    BY <2>1, <2>2 DEF LtDue
  <2>4. /\ thr[t].pc # "count" /\ q.pc # "count" /\ q.at <= now /\ thr[t].pc \notin Turning /\ q.pc \notin Turning
        /\ raced' \ {t} = raced \ {t} /\ raced' \subseteq Threads /\ samples' \in Nat /\ samples <= samples'
        /\ (q.op = "record" => thr[t].op = "record")
        /\ (q.pc = "add" => q.op = "record" /\ (rot # Free => t \in raced'))
    BY <1>0, <2>1, <2>2 DEF Turning
  <2> QED BY <2>1, <2>2, <2>3, <2>4, QuietStep
<1>4. CASE Answer(t)
  <2>1. LatIdle \in Reader /\ LatIdle.pc = "idle" /\ LatIdle.op = "none" /\ LatIdle.at = 0
    BY DEF LatIdle, Reader
  <2>2. /\ thr[t].pc = "read" /\ thr' = [thr EXCEPT ![t] = LatIdle] /\ raced' = raced \ {t}
        /\ UNCHANGED <<now, cur, start, hist, counts, races, rot, samples>>
    BY <1>4 DEF Answer
  <2>3. /\ thr[t].pc # "count" /\ LatIdle.pc # "count" /\ LatIdle.at <= now /\ thr[t].pc \notin Turning
        /\ LatIdle.pc \notin Turning /\ raced' \ {t} = raced \ {t} /\ raced' \subseteq Threads
        /\ samples' \in Nat /\ samples <= samples'
    BY <1>0, <2>1, <2>2 DEF Turning
  <2> QED BY <2>1, <2>2, <2>3, QuietStep
<1> QED BY <1>1, <1>2, <1>3, <1>4

LEMMA LtClockStep ==
  ASSUME LtInv, UNCHANGED latVars, now' \in Nat, now <= now'
  PROVE  LtInv'
<1> USE DEF LtInv, latVars
<1>1. LtType'
  <2>1. start <= now' /\ \A t \in Threads : thr[t].at <= now'
    BY DEF LtType, Reader
  <2> QED BY <2>1 DEF LtType
<1>2. LtRot' /\ LtFresh' /\ LtDue'
  BY DEF LtRot, LtFresh, LtDue
<1>3. LtTimes'
  BY DEF LtTimes, Younger, Stage, NewStart
<1>4. LtCounts'
  BY DEF LtCounts, Tracks, Slack, Pend, Stage, Adding
<1> QED BY <1>1, <1>2, <1>3, <1>4

LEMMA LtInvInit == LatInit /\ ClockInit => LtInv
<1> SUFFICES ASSUME LatInit, ClockInit PROVE LtInv
  OBVIOUS
<1> USE LatencyAssumption DEF LatInit, ClockInit
<1>0. \A t \in Threads : thr[t].pc = "idle" /\ thr[t].op = "none" /\ thr[t].at = 0 /\ thr[t] \in Reader
  BY DEF LatIdle, Reader
<1>1. LtType
  <2>1. \A e \in {0, 1} : hist[e] = {} /\ IsFiniteSet({})
    BY FS_EmptySet
  <2> QED BY <1>0, <2>1 DEF LtType
<1>2. LtRot /\ LtFresh /\ LtDue
  BY <1>0 DEF LtRot, LtFresh, LtDue, Turning
<1>3. LtTimes
  BY DEF LtTimes, Younger, Stage
<1>4. LtCounts
  <2>1. \A e : Pend(e) = {} /\ Pend(e) \cap raced = {}
    BY <1>0 DEF Pend
  <2>2. \A e \in {0, 1} : Cardinality(Pend(e)) = 0 /\ Cardinality(Pend(e) \cap raced) = 0 /\ Cardinality(hist[e]) = 0
    BY <2>1, FS_EmptySet
  <2>3. \A e \in {0, 1} : Tracks(e)
    BY <2>2 DEF Tracks, Slack
  <2> QED BY <2>3 DEF LtCounts, Stage, Turning
<1> QED BY <1>1, <1>2, <1>3, <1>4 DEF LtInv

LEMMA LtInvHolds == Spec => []LtInv
<1>1. Init => LtInv
  BY LtInvInit DEF Init
<1>2. LtInv /\ [Next]_vars => LtInv'
  <2> SUFFICES ASSUME LtInv, [Next]_vars PROVE LtInv'
    OBVIOUS
  <2>0. now \in Nat
    BY DEF LtInv, LtType
  <2>1. ASSUME UNCHANGED latVars, now' = now \/ now' = now + 1 PROVE LtInv'
    BY <2>0, <2>1, LtClockStep
  <2>2. CASE LatNext
    BY <2>1, <2>2, LookStep, BucketsCleared, CountCleared, StampStep, AddBucketStep, AddCountStep DEF LatNext
  <2>3. CASE ThrottleNext /\ UNCHANGED latVars
    BY <2>1, <2>3 DEF ThrottleNext, Charge, Acquire, Foreground, UpdateConfig, ClockTick
  <2>4. CASE RateNext /\ UNCHANGED latVars
    BY <2>1, <2>4 DEF RateNext, Enter, Check, ClockTick
  <2> QED BY <2>1, <2>2, <2>3, <2>4 DEF Next, vars
<1> QED BY <1>1, <1>2, PTL DEF Spec

\* LatencyWindow: with any number of threads recording without a lock, a p99
\* never rests on a sample of more than three windows less two ticks, and when
\* nobody is in the middle of anything buckets and counts differ by what raced
\* a rotation at most.
THEOREM WindowStaysSound == Spec => []WindowSound
<1>1. LtInv => OnlyRecentSamples
  <2> SUFFICES ASSUME LtInv, NEW t \in Threads, thr[t].pc = "read", rot = Free, NEW x \in Samples
               PROVE  thr[t].at - x[3] <= 3 * Window - 2
    BY DEF OnlyRecentSamples
  <2>1. /\ thr[t].at - start < Window /\ thr[t].at \in Nat /\ start \in Nat /\ Window \in Nat /\ 1 <= Window
        /\ cur \in {0, 1} /\ 1 - cur \in {0, 1} /\ Samples = hist[cur] \cup hist[1 - cur]
    BY LatencyAssumption DEF LtInv, LtDue, LtType, Reader, Samples
  <2>2. x[3] \in Nat
    BY DEF LtInv, LtType, Samples
  <2>3. x[3] >= start \/ x[3] >= start - 2 * Window + 1
    BY <2>1 DEF LtInv, LtTimes, Younger, Stage
  <2> QED BY ONLY <2>1, <2>2, <2>3
<1>2. LtInv => CountsFollowBuckets
  <2> SUFFICES ASSUME LtInv, \A t \in Threads : thr[t].pc \in {"idle", "check", "load", "read"}, NEW e \in {0, 1}
               PROVE  counts[e] - Cardinality(hist[e]) \in - races .. races
    BY DEF CountsFollowBuckets
  <2>1. rot = Free
    BY DEF LtInv, LtRot, Turning
  <2>2. Pend(e) = {} /\ Pend(e) \cap raced = {}
    BY DEF Pend
  <2>3. Cardinality(Pend(e)) = 0 /\ Cardinality(Pend(e) \cap raced) = 0
    BY <2>2, FS_EmptySet
  <2>4. Cardinality(hist[e]) \in Nat /\ counts[e] \in Nat /\ races \in Nat
    BY FS_CardinalityType DEF LtInv, LtType
  <2>5. Tracks(e)
    BY <2>1 DEF LtInv, LtCounts, Stage, LtType
  <2> QED BY <2>3, <2>4, <2>5 DEF Tracks, Slack
<1> QED BY <1>1, <1>2, LtInvHolds, PTL DEF WindowSound

-----------------------------------------------------------------------------
(* The budget of background work: the limits. *)

Crowd == Cardinality(BgTasks)
Chunk == Max(Chunks) * TPS

\* A finite set of natural numbers has a greatest element.
LEMMA GreatestOf ==
  ASSUME NEW S \in SUBSET Nat, IsFiniteSet(S), S # {}
  PROVE  Max(S) \in S /\ \A y \in S : Max(S) >= y
<1> DEFINE F == {T \in SUBSET S : \E m \in Nat : \A x \in T : x <= m}
<1>1. {} \in F
  OBVIOUS
<1>2. ASSUME NEW T \in SUBSET S, NEW x \in S, T \in F, x \notin T PROVE T \cup {x} \in F
  <2>1. PICK m \in Nat : \A y \in T : y <= m
    BY <1>2
  <2>2. x \in Nat /\ m + x \in Nat /\ \A y \in T \cup {x} : y \in Nat /\ y <= m + x
    BY <2>1
  <2> QED BY <2>2
<1>3. S \in F
  <2> HIDE DEF F
  <2> QED BY <1>1, <1>2, FiniteInd
<1> QED BY <1>3, MaxIsGreatest

\* What the products of whole numbers obey.
LEMMA Scale ==
  ASSUME NEW a \in Nat
  PROVE  /\ \A x, y \in Int : a * x \in Int /\ a * (x + y) = a * x + a * y /\ a * (x - y) = a * x - a * y
         /\ \A x, y \in Int : x <= y => a * x <= a * y
<1>1. \A x \in Int : a * x \in Int
  OBVIOUS
<1>2. \A x, y \in Int : a * (x + y) = a * x + a * y /\ a * (x - y) = a * x - a * y
  OBVIOUS
<1>3. \A x, y \in Int : x <= y => a * x <= a * y
  <2> SUFFICES ASSUME NEW x \in Int, NEW y \in Int, x <= y PROVE a * x <= a * y
    OBVIOUS
  <2>1. PICK z \in Nat : z = y - x
    OBVIOUS
  <2>2. a * z \in Nat /\ a * z = a * y - a * x
    BY <1>2, <2>1
  <2> QED BY <1>1, <2>2
<1> QED BY <1>1, <1>2, <1>3

\* The limits of throttle.rs, and what a task charges at once.
LEMMA LimitsAre ==
  /\ Crowd \in Nat /\ Chunk \in Nat /\ TPS \in Nat /\ TPS > 0 /\ BgMin \in Nat /\ BgMax \in Nat
  /\ \A c \in Reloads : c.min \in Nat /\ c.max \in Nat
  /\ \A n \in Chunks : n \in Nat /\ n > 0 /\ n * TPS \in Nat /\ n * TPS > 0 /\ n * TPS <= Chunk
<1>0. TPS \in Nat /\ TPS > 0
  BY ClockAssumption
<1>1. BgMax \in Nat /\ BgMin \in Nat /\ \A c \in Reloads : c.max \in Nat /\ c.min \in Nat
  BY ThrottleAssumption
<1>7. Crowd \in Nat
  BY ThrottleAssumption, FS_CardinalityType DEF Crowd
<1>8. Max(Chunks) \in Chunks /\ \A n \in Chunks : n <= Max(Chunks)
  BY ThrottleAssumption, GreatestOf
<1>9. Chunk \in Nat /\ \A n \in Chunks : n \in Nat /\ n > 0 /\ n * TPS \in Nat /\ n * TPS > 0 /\ n * TPS <= Chunk
  <2>1. \A n \in Chunks : n \in Nat /\ n > 0
    BY ThrottleAssumption
  <2> SUFFICES ASSUME NEW n \in Chunks PROVE Chunk \in Nat /\ n * TPS \in Nat /\ n * TPS > 0 /\ n * TPS <= Chunk
    BY <2>1, <1>8
  <2>2. PICK m \in Nat : m = Max(Chunks) /\ n <= m
    BY <1>8, <2>1
  <2>3. m * TPS = TPS * m /\ n * TPS = TPS * n /\ TPS * n \in Nat /\ TPS * m \in Nat
    BY <1>0, <2>1
  <2>4. TPS * n <= TPS * m /\ TPS * 1 <= TPS * n /\ TPS * 1 = TPS
    BY <1>0, <2>1, <2>2, Scale
  <2> QED BY <1>0, <2>2, <2>3, <2>4 DEF Chunk
<1> QED BY <1>0, <1>1, <1>7, <1>9

\* How far the rate may go: hi and lo bound the limits of the start and those
\* of every configuration that was applied.
Within(hi, lo) ==
  /\ BgMax <= hi /\ BgMin <= hi /\ lo <= BgMax /\ lo <= BgMin
  /\ \A c \in came : c.min <= hi /\ lo <= c.max

\* The bounds that Paced names are such bounds.
LEMMA HighestLowest ==
  ASSUME came \subseteq Reloads
  PROVE  Highest \in Nat /\ Lowest \in Nat /\ Within(Highest, Lowest)
<1>1. \A c \in came : c.max \in Nat /\ c.min \in Nat
  BY ThrottleAssumption
<1> DEFINE S == {BgMax, BgMin} \cup {c.min : c \in came}
           T == {BgMax, BgMin} \cup {c.max : c \in came}
<1>2. S \in SUBSET Nat /\ BgMax \in S /\ BgMin \in S /\ \A c \in came : c.min \in S
  BY <1>1, ThrottleAssumption
<1>3. IsFiniteSet(S)
  <2>1. IsFiniteSet(came)
    BY ThrottleAssumption, FS_Subset
  <2>2. IsFiniteSet({c.min : c \in came})
    <3> DEFINE f == [c \in came |-> c.min]
    <3>1. f \in Surjection(came, {c.min : c \in came})
      BY DEF Surjection
    <3> QED BY <2>1, <3>1, FS_Surjection
  <2>3. IsFiniteSet({BgMax, BgMin})
    <3>1. IsFiniteSet({BgMax}) /\ IsFiniteSet({BgMin})
      BY FS_Singleton
    <3>2. {BgMax, BgMin} = {BgMax} \cup {BgMin}
      OBVIOUS
    <3> QED BY <3>1, <3>2, FS_Union
  <2> QED BY <2>2, <2>3, FS_Union
<1>4. T \in SUBSET Nat /\ BgMax \in T /\ BgMin \in T /\ \A c \in came : c.max \in T
  BY <1>1, ThrottleAssumption
<1>5. Highest = Max(S) /\ Lowest = Min(T)
  BY DEF Highest, Lowest
<1> HIDE DEF S, T
<1>6. Max(S) \in S /\ \A x \in S : x <= Max(S)
  BY ONLY <1>2, <1>3, GreatestOf
<1>7. Min(T) \in T /\ \A x \in T : Min(T) <= x
  BY ONLY <1>4, MinIsLeast
<1> QED BY <1>2, <1>4, <1>5, <1>6, <1>7 DEF Within

-----------------------------------------------------------------------------
(* The budget of background work: its arithmetic. *)

\* acquire_delay(): the debt after a charge of n tokens, x ticks later: what
\* the debt was, y ticks later, and the charge.
LEMMA DebtGrows ==
  ASSUME NEW low \in Nat, NEW j \in Nat, NEW base \in Nat, NEW k \in Nat, NEW tok \in Int, NEW bal \in Int,
         NEW n \in Nat, n <= j, NEW e \in Nat, NEW x \in Nat, NEW y \in Nat, y <= e + x,
         - bal <= n - tok - low * e \/ - bal <= n,
         low * (- tok - low * y) <= base + (low * j) * k
  PROVE  low * (- bal - low * x) <= base + (low * j) * (k + 1)
<1> PICK ly \in Int, le \in Int, lx \in Int : ly = low * y /\ le = low * e /\ lx = low * x
  BY Scale
<1>1. ly <= le + lx /\ 0 <= lx
  <2>1. low * y <= low * (e + x) /\ low * (e + x) = low * e + low * x /\ low * 0 <= low * x /\ low * 0 = 0
    BY Scale
  <2> QED BY <2>1
<1>a. - bal - lx \in Int /\ - tok - ly \in Int
  OBVIOUS
<1> PICK d \in Int : d = - bal - lx
  BY ONLY <1>a
<1> PICK g \in Int : g = - tok - ly
  BY ONLY <1>a
<1> PICK lj \in Nat : lj = low * j
  OBVIOUS
<1> PICK ljk \in Nat : ljk = lj * k
  OBVIOUS
<1>2. lj * (k + 1) = ljk + lj
  <2>1. lj * (k + 1) = lj * k + lj * 1 /\ lj * 1 = lj
    BY Scale
  <2> QED BY <2>1
<1>3. low * g <= base + ljk /\ low * g \in Int
  BY Scale
<1>4. low * n <= lj /\ low * n \in Int
  BY Scale
<1>5. low * d <= low * g + low * n \/ low * d <= low * n
  <2>1. d <= g + n \/ d <= n
    BY <1>1
  <2>2. low * (g + n) = low * g + low * n
    BY Scale
  <2>3. d <= g + n => low * d <= low * (g + n)
    BY Scale
  <2>4. d <= n => low * d <= low * n
    BY Scale
  <2> QED BY <2>1, <2>2, <2>3, <2>4
<1>6. low * d \in Int
  BY Scale
<1>7. low * d <= base + (ljk + lj)
  BY <1>3, <1>4, <1>5, <1>6
<1>8. d = - bal - low * x
  OBVIOUS
<1> QED BY <1>2, <1>7, <1>8

\* A sleep that pays off a debt at the highest rate pays off a part of it at the
\* lowest; what is left is no more than debts of the greatest size leave.
LEMMA PaidPart ==
  ASSUME NEW high \in Nat, NEW low \in Nat, 0 < low, low <= high, NEW d \in Nat, NEW c \in Nat, NEW m \in Nat,
         d <= high * c, low * d <= m * high
  PROVE  low * (d - low * c) <= m * (high - low)
<1> DEFINE a == low * (d - low * c)
           b == m * (high - low)
<1>1. high * a <= high * b
  <2>1. high * a = low * (high * d - low * (high * c))
    OBVIOUS
  <2>2. low * (high * d - low * (high * c)) <= low * (high * d - low * d)
    <3>1. low * d <= low * (high * c) /\ low * d \in Int /\ high * c \in Int /\ low * (high * c) \in Int /\ high * d \in Int
      BY Scale
    <3>2. high * d - low * (high * c) <= high * d - low * d
      BY <3>1
    <3> QED BY <3>1, <3>2, Scale
  <2>3. low * (high * d - low * d) = (high - low) * (low * d)
    OBVIOUS
  <2>4. (high - low) * (low * d) <= (high - low) * (m * high)
    <3>1. high - low \in Nat /\ low * d \in Int /\ m * high \in Int
      OBVIOUS
    <3> QED BY <3>1, Scale
  <2>5. (high - low) * (m * high) = high * b
    OBVIOUS
  <2>6. high * a \in Int /\ high * b \in Int /\ low * (high * d - low * d) \in Int
    OBVIOUS
  <2> HIDE DEF a, b
  <2> QED BY <2>1, <2>2, <2>3, <2>4, <2>5, <2>6
<1>2. a \in Int /\ b \in Int
  OBVIOUS
<1>3. a <= b
  <2> HIDE DEF a, b
  <2> SUFFICES ASSUME b + 1 <= a PROVE FALSE
    BY <1>2
  <2>1. high * (b + 1) <= high * a /\ high * (b + 1) = high * b + high * 1 /\ high * 1 = high
    BY <1>2, Scale
  <2> QED BY <1>1, <1>2, <2>1, Scale
<1> QED BY <1>3

\* CeilDiv: a division that rounds up.
LEMMA RoundsUp ==
  ASSUME NEW a \in Nat, NEW b \in Nat, b > 0, NEW c, c = CeilDiv(a, b)
  PROVE  /\ c \in Nat /\ a <= b * c
         /\ \A m \in Nat : a <= b * m => c <= m
<1>1. c \in Int /\ b * c <= a + b - 1 /\ a + b - 1 < b * c + b
  BY DEF CeilDiv
<1>2. b * c \in Int /\ a <= b * c
  BY <1>1
<1>3. ASSUME NEW m \in Int, m < c, a <= b * m PROVE FALSE
  <2>1. b * (m + 1) <= b * c /\ b * (m + 1) = b * m + b * 1 /\ b * 1 = b /\ b * m \in Int
    BY <1>1, <1>3, Scale
  <2> QED BY <1>1, <1>2, <1>3, <2>1
<1>4. c >= 0
  <2> SUFFICES ASSUME c <= -1 PROVE FALSE
    BY <1>1
  <2>1. b * c <= b * (-1) /\ b * (-1) = - b
    BY <1>1, Scale
  <2> QED BY <1>1, <1>2, <2>1
<1> QED BY <1>1, <1>2, <1>3, <1>4

\* acquire_delay(): the sleep at a rate between the limits.
LEMMA SleepIs ==
  ASSUME NEW high \in Nat, NEW low \in Nat, 0 < low, low <= high, NEW d \in Nat, NEW r \in Nat, low <= r, r <= high,
         NEW m \in Nat, low * d <= m * high, NEW c, c = CeilDiv(d, r)
  PROVE  /\ c \in Nat /\ d <= high * c /\ d <= r * c
         /\ c <= CeilDiv(m * high, low * low)
<1>1. c \in Nat /\ d <= r * c /\ \A x \in Nat : d <= r * x => c <= x
  BY RoundsUp
<1>2. d <= high * c
  <2>1. c * r <= c * high /\ c * r = r * c /\ c * high = high * c /\ r * c \in Int /\ high * c \in Int
    BY <1>1, Scale
  <2> QED BY <1>1, <2>1
<1>3. m * high \in Nat /\ low * low \in Nat /\ low * low > 0
  <2>1. low * 1 <= low * low /\ low * 1 = low
    BY Scale
  <2> QED BY <2>1
<1> PICK p \in Nat : p = m * high
  BY <1>3
<1> PICK q \in Nat : q = low * low /\ q > 0
  BY <1>3
<1> PICK t \in Nat : t = CeilDiv(p, q) /\ p <= q * t
  BY RoundsUp
<1>4. d <= low * t
  <2> PICK u \in Int : u = low * t
    OBVIOUS
  <2>1. low * u = (low * low) * t
    OBVIOUS
  <2>2. low * d <= low * u /\ low * d \in Int /\ low * u \in Int
    BY <1>3, <2>1
  <2> SUFFICES ASSUME u + 1 <= d PROVE FALSE
    OBVIOUS
  <2>3. low * (u + 1) <= low * d /\ low * (u + 1) = low * u + low * 1 /\ low * 1 = low
    BY Scale
  <2> QED BY <2>2, <2>3
<1>5. d <= r * t
  <2>1. t * low <= t * r /\ t * low = low * t /\ t * r = r * t /\ r * t \in Int /\ low * t \in Int
    BY Scale
  <2> QED BY <1>4, <2>1
<1> QED BY <1>1, <1>2, <1>5

-----------------------------------------------------------------------------
(* The budget of background work: the inductive invariant. *)

\* Tasks that still sleep at time w, and tasks that read the clock after w or
\* sleep beyond it.
Asleep(w) == {u \in BgTasks : task[u].wake > w}
Until(u) == IF task[u].bytes # 0 THEN task[u].at ELSE task[u].wake
Behind(w) == {u \in BgTasks : Until(u) > w}

Charging == [bytes : {0} \cup Chunks, at : Nat, fg : Nat, wake : Nat]

ThType(hi, lo) ==
  /\ now \in Nat /\ rate \in Nat /\ lo <= rate /\ rate <= hi
  /\ tokens \in Int /\ refilled \in Nat /\ refilled <= now /\ fg \in Nat /\ spent \in Nat /\ twice \in Nat
  /\ task \in [BgTasks -> Charging]
  /\ \A u \in BgTasks : task[u].at <= now /\ (task[u].bytes # 0 => task[u].wake = 0)

\* The balance and what was spent come from the burst and the refills.
ThSpent(hi) == spent * TPS + tokens <= hi * (TPS + refilled + twice)

\* If nothing more were charged until w, only tasks that still sleep then would
\* have spent more than was refilled.
ThBudget(hi) ==
  \A w \in Nat : w >= now => spent * TPS <= hi * (TPS + w + twice) + Chunk * Cardinality(Asleep(w))

\* Nor would the debt that the lowest rate leaves at w be more than what falls
\* of the rate leave unpaid, and a chunk of each task behind w.
ThDebt(hi, lo) ==
  \A w \in Nat : w >= refilled =>
    lo * (- tokens - lo * (w - refilled))
      <= (Crowd * Chunk) * (hi - lo) + (lo * Chunk) * Cardinality(Behind(w))

ThNaps(hi, lo) == \A u \in BgTasks : task[u].wake - now <= CeilDiv((Crowd * Chunk) * hi, lo * lo)

\* With a lowest rate of 0 a charge may panic, and nothing bounds the debt.
ThInv(hi, lo) == ThType(hi, lo) /\ ThSpent(hi) /\ ThBudget(hi) /\ (lo > 0 => ThDebt(hi, lo) /\ ThNaps(hi, lo))

\* Whatever bounds hold of the configurations that came.
ThAll == came \subseteq Reloads /\ \A hi, lo \in Nat : Within(hi, lo) => ThInv(hi, lo)

\* Sets of tasks are finite.
LEMMA CountTasks ==
  ASSUME NEW S \in SUBSET BgTasks
  PROVE  IsFiniteSet(S) /\ Cardinality(S) \in Nat /\ Cardinality(S) <= Crowd
BY ThrottleAssumption, FS_Subset, FS_CardinalityType DEF Crowd

\* Fewer tasks sleep at a later time.
LEMMA FewerLater ==
  ASSUME NEW hi \in Nat, NEW lo \in Nat, ThInv(hi, lo), NEW v \in Nat, NEW w \in Nat, v <= w
  PROVE  /\ Cardinality(Asleep(w)) \in Nat /\ Cardinality(Asleep(w)) <= Cardinality(Asleep(v)) /\ Cardinality(Asleep(v)) \in Nat
         /\ Cardinality(Behind(w)) \in Nat /\ Cardinality(Behind(w)) <= Cardinality(Behind(v)) /\ Cardinality(Behind(v)) \in Nat
<1>0. \A u \in BgTasks : task[u].wake \in Nat /\ Until(u) \in Nat
  BY DEF ThInv, ThType, Charging, Until
<1>1. Asleep(v) \in SUBSET BgTasks /\ Asleep(w) \in SUBSET Asleep(v)
  BY <1>0 DEF Asleep
<1>2. Behind(v) \in SUBSET BgTasks /\ Behind(w) \in SUBSET Behind(v)
  BY <1>0 DEF Behind
<1>3. IsFiniteSet(Asleep(v)) /\ IsFiniteSet(Behind(v)) /\ Cardinality(Asleep(v)) \in Nat /\ Cardinality(Behind(v)) \in Nat
  BY <1>1, <1>2, CountTasks
<1>4. Cardinality(Asleep(w)) \in Nat /\ Cardinality(Behind(w)) \in Nat
  BY <1>1, <1>2, CountTasks
<1> QED BY <1>1, <1>2, <1>3, <1>4, FS_Subset

\* The longest sleep is a whole number of ticks.
LEMMA NapIs ==
  ASSUME NEW hi \in Nat, NEW lo \in Nat, lo > 0
  PROVE  CeilDiv((Crowd * Chunk) * hi, lo * lo) \in Nat
<1>1. lo * 1 <= lo * lo /\ lo * 1 = lo
  BY Scale
<1>2. (Crowd * Chunk) * hi \in Nat /\ lo * lo \in Nat /\ lo * lo > 0
  BY <1>1, LimitsAre
<1> QED BY <1>2, RoundsUp

\* One more task.
LEMMA OneMore ==
  ASSUME NEW S \in SUBSET BgTasks, NEW t \in BgTasks, t \notin S
  PROVE  Cardinality(S \cup {t}) = Cardinality(S) + 1 /\ Cardinality(S) + 1 <= Crowd /\ Cardinality(S) \in Nat
<1>1. IsFiniteSet(S) /\ Cardinality(S) \in Nat
  BY CountTasks
<1>2. Cardinality(S \cup {t}) = Cardinality(S) + 1
  BY <1>1, FS_AddElement
<1>3. S \cup {t} \in SUBSET BgTasks
  OBVIOUS
<1> QED BY <1>1, <1>2, <1>3, CountTasks

\* Steps that charge nothing and end no sleep: time, the load, a reload.
LEMMA ThKeeps ==
  ASSUME NEW hi \in Nat, NEW lo \in Nat, ThInv(hi, lo), UNCHANGED <<tokens, refilled, task, spent, twice>>,
         now' \in Nat, now <= now', fg' \in Nat, rate' \in Nat, lo <= rate', rate' <= hi
  PROVE  ThInv(hi, lo)'
<1>1. ThType(hi, lo)'
  <2>1. \A u \in BgTasks : task'[u].at <= now' /\ (task'[u].bytes # 0 => task'[u].wake = 0)
    <3>1. \A u \in BgTasks : task[u].at \in Nat /\ task[u].at <= now /\ now \in Nat
      BY DEF ThInv, ThType, Charging
    <3>2. \A u \in BgTasks : task[u].bytes # 0 => task[u].wake = 0
      BY DEF ThInv, ThType
    <3> QED BY <3>1, <3>2
  <2>2. refilled <= now'
    BY DEF ThInv, ThType
  <2> QED BY <2>1, <2>2 DEF ThInv, ThType
<1>2. ThSpent(hi)' /\ (lo > 0 => ThDebt(hi, lo)')
  BY DEF ThInv, ThSpent, ThDebt, Behind, Until
<1>3. ThBudget(hi)'
  <2>1. \A w \in Nat : w >= now' => w >= now
    BY DEF ThInv, ThType
  <2>2. \A w : Asleep(w)' = Asleep(w)
    BY DEF Asleep
  <2> QED BY <2>1, <2>2 DEF ThInv, ThBudget
<1>4. ASSUME lo > 0 PROVE ThNaps(hi, lo)'
  <2> PICK nap \in Nat : nap = CeilDiv((Crowd * Chunk) * hi, lo * lo)
    BY <1>4, NapIs
  <2>2. \A u \in BgTasks : task[u].wake \in Nat /\ now \in Nat /\ task[u].wake - now <= nap
    BY <1>4 DEF ThInv, ThType, ThNaps, Charging
  <2>3. \A u \in BgTasks : task'[u].wake - now' <= nap
    BY <2>2
  <2> QED BY <2>3 DEF ThNaps
<1> QED BY <1>1, <1>2, <1>3, <1>4 DEF ThInv

\* acquire(): reading the clock.
LEMMA ChargeStep ==
  ASSUME NEW hi \in Nat, NEW lo \in Nat, ThInv(hi, lo), NEW t \in BgTasks, Charge(t)
  PROVE  ThInv(hi, lo)'
<1> PICK n \in Chunks : /\ task[t].bytes = 0 /\ task[t].wake <= now
                        /\ task' = [task EXCEPT ![t] = [bytes |-> n, at |-> now, fg |-> fg, wake |-> 0]]
                        /\ UNCHANGED <<now, rate, tokens, refilled, fg, spent, twice>>
  BY DEF Charge
<1>0. now \in Nat /\ fg \in Nat /\ task \in [BgTasks -> Charging] /\ n \in Nat /\ n > 0 /\ task[t].wake \in Nat
  BY LimitsAre DEF ThInv, ThType, Charging
<1>1. ThType(hi, lo)'
  <2>1. [bytes |-> n, at |-> now, fg |-> fg, wake |-> 0] \in Charging
    BY <1>0 DEF Charging
  <2>2. task' \in [BgTasks -> Charging]
    BY <1>0, <2>1
  <2>3. \A u \in BgTasks : task'[u].at <= now /\ (task'[u].bytes # 0 => task'[u].wake = 0)
    BY <1>0 DEF ThInv, ThType
  <2> QED BY <2>2, <2>3 DEF ThInv, ThType
<1>2. ThSpent(hi)'
  BY DEF ThInv, ThSpent
<1>3. ThBudget(hi)'
  <2>1. \A w \in Nat : w >= now => Asleep(w)' = Asleep(w)
    BY <1>0 DEF Asleep
  <2> QED BY <2>1 DEF ThInv, ThBudget
<1>4. ASSUME lo > 0 PROVE ThDebt(hi, lo)'
  <2> SUFFICES ASSUME NEW w \in Nat, w >= refilled
               PROVE  lo * (- tokens - lo * (w - refilled))
                        <= (Crowd * Chunk) * (hi - lo) + (lo * Chunk) * Cardinality(Behind(w)')
    BY DEF ThDebt
  <2>1. Behind(w) \in SUBSET Behind(w)' /\ Behind(w)' \in SUBSET BgTasks
    BY <1>0 DEF Behind, Until
  <2> PICK i \in Nat, j \in Nat : i = Cardinality(Behind(w)) /\ j = Cardinality(Behind(w)') /\ i <= j
    BY <2>1, CountTasks, FS_Subset
  <2> PICK c \in Nat : c = lo * Chunk
    BY LimitsAre
  <2> PICK base \in Int : base = (Crowd * Chunk) * (hi - lo)
    BY LimitsAre
  <2> PICK x \in Int : x = lo * (- tokens - lo * (w - refilled))
    <3>1. lo \in Nat /\ tokens \in Int /\ w - refilled \in Int
      BY LimitsAre DEF ThInv, ThType
    <3>2. - tokens - lo * (w - refilled) \in Int
      BY ONLY <3>1
    <3> QED BY <3>1, <3>2
  <2>2. c * i <= c * j /\ c * i \in Int /\ c * j \in Int
    BY Scale
  <2>3. x <= base + c * i
    BY <1>4 DEF ThInv, ThDebt
  <2>4. x <= base + c * j
    BY ONLY <2>2, <2>3, x \in Int, base \in Int
  <2> QED BY <2>4
<1>5. ASSUME lo > 0 PROVE ThNaps(hi, lo)'
  <2> PICK nap \in Nat : nap = CeilDiv((Crowd * Chunk) * hi, lo * lo)
    BY <1>5, NapIs
  <2>2. \A u \in BgTasks : task[u].wake - now <= nap
    BY <1>5 DEF ThInv, ThNaps
  <2>3. \A u \in BgTasks : task'[u].wake - now <= nap
    BY <1>0, <2>2
  <2> QED BY <2>3 DEF ThNaps
<1> QED BY <1>1, <1>2, <1>3, <1>4, <1>5 DEF ThInv

\* acquire_delay(): the rate stays between the limits.
LEMMA RateIs ==
  ASSUME NEW hi \in Nat, NEW lo \in Nat, Within(hi, lo), ThInv(hi, lo), NEW q, NEW win
  PROVE  Adjusted(q, win) \in Nat /\ lo <= Adjusted(q, win) /\ Adjusted(q, win) <= hi
<1>0. /\ rate \in Nat /\ lo <= rate /\ rate <= hi /\ lo \in Nat /\ hi \in Nat
      /\ BgMin \in Nat /\ BgMax \in Nat /\ lo <= BgMin /\ lo <= BgMax /\ BgMin <= hi /\ BgMax <= hi
  BY LimitsAre DEF Within, ThInv, ThType
<1>1. CASE Adjusted(q, win) = AtLeast(rate \div 2, BgMin)
  <2>1. rate \div 2 \in Nat /\ rate \div 2 <= rate
    BY ONLY <1>0
  <2> QED BY ONLY <1>0, <1>1, <2>1 DEF AtLeast
<1>2. CASE Adjusted(q, win) = AtMost(rate + BgMax \div 10, BgMax)
  <2>1. BgMax \div 10 \in Nat
    BY ONLY <1>0
  <2> QED BY ONLY <1>0, <1>2, <2>1 DEF AtMost
<1> QED BY <1>1, <1>2 DEF Adjusted

\* acquire(): the charge.
LEMMA AcquireStep ==
  ASSUME NEW hi \in Nat, NEW lo \in Nat, Within(hi, lo), ThInv(hi, lo), NEW t \in BgTasks, Acquire(t)
  PROVE  ThInv(hi, lo)'
<1> PICK q : q = task[t]
  OBVIOUS
<1> PICK a : a = q.at
  OBVIOUS
<1>1. /\ q \in Charging /\ q.bytes # 0 /\ q.bytes \in Chunks /\ q.wake = 0 /\ a \in Nat /\ a <= now /\ now \in Nat
      /\ tokens \in Int /\ refilled \in Nat /\ spent \in Nat /\ twice \in Nat /\ task \in [BgTasks -> Charging]
  BY DEF ThInv, ThType, Acquire, Charging
<1> PICK b \in Nat : b = q.bytes
  BY <1>1, LimitsAre
<1> PICK n \in Nat : n = b * TPS /\ n <= Chunk /\ n > 0
  BY <1>1, LimitsAre
<1> PICK e \in Nat : e = AtLeast(a - refilled, 0)
  BY <1>1 DEF AtLeast
<1> PICK h \in Nat : h = AtLeast(refilled - a, 0)
  BY <1>1 DEF AtLeast
<1> PICK high \in Nat, low \in Nat, j \in Nat, crowd \in Nat :
      high = hi /\ low = lo /\ j = Chunk /\ crowd = Crowd /\ low <= high
  <2>1. lo <= hi
    BY LimitsAre DEF Within
  <2> QED BY <2>1, LimitsAre
<1> PICK r \in Nat : /\ low <= r /\ r <= high /\ rate' = r
                     /\ tokens' = AtMost(tokens + r * e, r * TPS) - n
                     /\ task' = [task EXCEPT ![t] = [bytes |-> 0, at |-> 0, fg |-> 0,
                                                     wake |-> now + IF r = 0 THEN 0 ELSE CeilDiv(AtLeast(- tokens', 0), r)]]
                     /\ spent' = spent + IF r = 0 THEN 0 ELSE b
  <2> PICK win : win = AtLeast(q.at - observed, 0)
    OBVIOUS
  <2> PICK r : r = IF win >= TPS THEN Adjusted(q, win) ELSE rate
    OBVIOUS
  <2>a. rate' = r /\ tokens' = AtMost(tokens + r * e, r * TPS) - n
    BY Zenon DEF Acquire
  <2>b. task' = [task EXCEPT ![t] = [bytes |-> 0, at |-> 0, fg |-> 0,
                                     wake |-> now + IF r = 0 THEN 0 ELSE CeilDiv(AtLeast(- tokens', 0), r)]]
    BY Zenon DEF Acquire
  <2>c. spent' = IF r = 0 THEN spent ELSE spent + b
    <3>1. IF r = 0 THEN spent' = spent ELSE spent' = spent + q.bytes
      BY Zenon DEF Acquire
    <3> QED BY <3>1
  <2>1. /\ r = IF win >= TPS THEN Adjusted(q, win) ELSE rate
        /\ rate' = r /\ tokens' = AtMost(tokens + r * e, r * TPS) - n
        /\ task' = [task EXCEPT ![t] = [bytes |-> 0, at |-> 0, fg |-> 0,
                                       wake |-> now + IF r = 0 THEN 0 ELSE CeilDiv(AtLeast(- tokens', 0), r)]]
        /\ spent' = IF r = 0 THEN spent ELSE spent + b
    BY <2>a, <2>b, <2>c
  <2>2. r \in Nat /\ low <= r /\ r <= high
    <3>1. CASE r = Adjusted(q, win)
      BY <3>1, RateIs
    <3>2. CASE r = rate
      BY <3>2 DEF ThInv, ThType
    <3> QED BY <2>1, <3>1, <3>2
  <2>3. spent' = spent + IF r = 0 THEN 0 ELSE b
    BY ONLY <1>1, <2>c, b \in Nat
  <2> QED BY <2>1, <2>2, <2>3
<1>2. refilled' = a /\ twice' = twice + h /\ now' = now /\ fg' = fg
  BY Zenon DEF Acquire
<1> PICK bal \in Int : bal = tokens'
  <2>1. tokens + r * e \in Int /\ r * TPS \in Int
    BY <1>1, LimitsAre
  <2> QED BY <2>1 DEF AtMost
<1>3. bal <= tokens + r * e - n /\ (- bal <= n - tokens - low * e \/ - bal <= n)
  <2> PICK x \in Nat, y \in Nat, z \in Nat : x = r * e /\ y = r * TPS /\ z = low * e
    <3>1. \A x, y \in Nat : x * y \in Nat
      OBVIOUS
    <3>2. r * e \in Nat /\ r * TPS \in Nat /\ low * e \in Nat
      BY <3>1, LimitsAre
    <3> QED BY <3>2
  <2>1. z <= x
    <3>1. e * low <= e * r /\ e * low = low * e /\ e * r = r * e
      BY Scale
    <3> QED BY <3>1
  <2>2. bal = AtMost(tokens + x, y) - n
    OBVIOUS
  <2>3. bal <= tokens + x - n /\ (- bal <= n - tokens - z \/ - bal <= n)
    BY ONLY <1>1, <2>1, <2>2, bal \in Int, n \in Nat, x \in Nat, y \in Nat, z \in Nat DEF AtMost
  <2> QED BY <2>3
<1> PICK base \in Nat, m \in Nat : m = crowd * j /\ base = m * (high - low)
  OBVIOUS
\* The tasks behind w, when this one is done.
<1>4. ASSUME 0 < low, NEW w \in Nat, w >= a
      PROVE  /\ t \notin Behind(w) /\ Cardinality(Behind(w)) + 1 <= crowd /\ Cardinality(Behind(w)) \in Nat
             /\ low * (- bal - low * (w - a)) <= base + (low * j) * (Cardinality(Behind(w)) + 1)
  <2>1. t \notin Behind(w) /\ Behind(w) \in SUBSET BgTasks
    BY <1>1, <1>4 DEF Behind, Until
  <2>2. Cardinality(Behind(w)) + 1 <= crowd /\ Cardinality(Behind(w)) \in Nat
    BY <2>1, OneMore
  <2> PICK v \in Nat : v = IF w >= refilled THEN w ELSE refilled
    BY <1>1
  <2> PICK k \in Nat, l \in Nat : k = Cardinality(Behind(w)) /\ l = Cardinality(Behind(v)) /\ l <= k
    <3>1. w <= v
      BY <1>1
    <3>2. Cardinality(Behind(v)) \in Nat /\ Cardinality(Behind(v)) <= Cardinality(Behind(w))
      BY <3>1, FewerLater
    <3> QED BY <2>2, <3>2
  <2> PICK x \in Nat, y \in Nat : x = w - a /\ y = v - refilled /\ y <= e + x
    <3>1. e >= a - refilled /\ refilled \in Nat /\ a \in Nat
      BY ONLY <1>1, e \in Nat, e = AtLeast(a - refilled, 0) DEF AtLeast
    <3>2. w - a \in Nat /\ v - refilled \in Nat /\ v - refilled <= e + (w - a)
      BY ONLY <1>4, <3>1, v \in Nat, v = IF w >= refilled THEN w ELSE refilled, e \in Nat
    <3> QED BY ONLY <3>2
  <2>3. low * (- tokens - low * y) <= base + (low * j) * l
    <3>1. lo * (- tokens - lo * (v - refilled)) <= (Crowd * Chunk) * (hi - lo) + (lo * Chunk) * Cardinality(Behind(v))
      <4>1. ThDebt(hi, lo)
        BY <1>4 DEF ThInv
      <4>2. v >= refilled
        BY ONLY <1>1, v \in Nat, v = IF w >= refilled THEN w ELSE refilled, w \in Nat
      <4> QED BY ONLY <4>1, <4>2, v \in Nat DEF ThDebt
    <3> QED BY ONLY <3>1, low = lo, high = hi, j = Chunk, crowd = Crowd, m = crowd * j, base = m * (high - low),
                    l = Cardinality(Behind(v)), y = v - refilled
  <2>4. (low * j) * l <= (low * j) * k
    <3>1. low * j \in Nat
      OBVIOUS
    <3> QED BY <3>1, Scale
  <2>5. low * (- tokens - low * y) <= base + (low * j) * k
    <3> PICK c \in Int, d \in Int, f \in Int : c = low * (- tokens - low * y) /\ d = (low * j) * l /\ f = (low * j) * k
      <4>1. tokens \in Int
        BY <1>1
      <4>2. low * y \in Int /\ low * j \in Int
        OBVIOUS
      <4>3. - tokens - low * y \in Int /\ (low * j) * l \in Int /\ (low * j) * k \in Int
        BY ONLY <4>1, <4>2, l \in Nat, k \in Nat
      <4>4. low * (- tokens - low * y) \in Int
        BY ONLY <4>3, low \in Nat
      <4> QED BY ONLY <4>3, <4>4
    <3> QED BY ONLY <2>3, <2>4, base \in Nat, c \in Int, d \in Int, f \in Int,
                    c = low * (- tokens - low * y), d = (low * j) * l, f = (low * j) * k
  <2>6. low * (- bal - low * x) <= base + (low * j) * (k + 1)
    <3>1. tokens \in Int /\ n <= j
      BY <1>1
    <3> QED BY ONLY <1>3, <2>5, <3>1, DebtGrows, low \in Nat, j \in Nat, base \in Nat, k \in Nat, bal \in Int, n \in Nat,
                    e \in Nat, x \in Nat, y \in Nat, y <= e + x
  <2> QED BY <2>1, <2>2, <2>6
\* What it sleeps for.
<1> PICK d \in Nat : d = AtLeast(- bal, 0)
  BY DEF AtLeast
<1>5. ASSUME 0 < low PROVE low * d <= m * high
  <2>1. CASE d = 0
    <3>1. low * d = 0 /\ m * high \in Nat
      BY <2>1
    <3> QED BY <3>1
  <2>2. CASE d = - bal
    <3> PICK k \in Nat : k = Cardinality(Behind(a)) /\ k + 1 <= crowd
      BY <1>1, <1>4, <1>5
    <3>1. low * (- bal - low * (a - a)) <= base + (low * j) * (k + 1)
      BY <1>1, <1>4, <1>5
    <3>2. - bal - low * (a - a) = d
      <4>1. a - a = 0 /\ low * 0 = 0
        BY <1>1
      <4> QED BY <2>2, <4>1
    <3>3. (low * j) * (k + 1) <= (low * j) * crowd
      <4>1. low * j \in Nat
        OBVIOUS
      <4> QED BY <4>1, Scale
    <3>4. base + (low * j) * crowd = m * high
      BY ONLY base = m * (high - low), m = crowd * j, high \in Nat, low \in Nat, j \in Nat, crowd \in Nat, m \in Nat
    <3>5. low * d <= base + (low * j) * crowd
      <4> PICK x \in Int, y \in Int, z \in Int : x = low * d /\ y = (low * j) * (k + 1) /\ z = (low * j) * crowd
        OBVIOUS
      <4> QED BY <3>1, <3>2, <3>3
    <3> QED BY <3>4, <3>5
  <2> QED BY <2>1, <2>2 DEF AtLeast
<1> PICK c \in Nat : /\ c = IF r = 0 THEN 0 ELSE CeilDiv(d, r)
                     /\ r # 0 => d <= high * c
                     /\ 0 < low => d <= high * c /\ c <= CeilDiv(m * high, low * low)
  <2>1. CASE r = 0
    BY <2>1
  <2>2. CASE r # 0
    <3> PICK x : x = CeilDiv(d, r)
      OBVIOUS
    <3>1. x \in Nat /\ d <= r * x
      BY ONLY <2>2, x = CeilDiv(d, r), d \in Nat, r \in Nat, RoundsUp
    <3>2. d <= high * x
      <4>1. x * r <= x * high /\ x * r = r * x /\ x * high = high * x /\ x * r \in Int /\ x * high \in Int
        BY <3>1, Scale
      <4> QED BY <3>1, <4>1
    <3>3. 0 < low => x <= CeilDiv(m * high, low * low)
      BY ONLY <1>5, SleepIs, high \in Nat, low \in Nat, low <= high, d \in Nat, r \in Nat, low <= r, r <= high, m \in Nat,
              x = CeilDiv(d, r)
    <3> QED BY ONLY <2>2, <3>1, <3>2, <3>3, x = CeilDiv(d, r)
  <2> QED BY <2>1, <2>2
<1>6. task' = [task EXCEPT ![t] = [bytes |-> 0, at |-> 0, fg |-> 0, wake |-> now + c]] /\ now + c \in Nat
  BY <1>1
<1>7. task'[t].wake = now + c /\ task'[t].bytes = 0 /\ task'[t].at = 0 /\ \A u \in BgTasks \ {t} : task'[u] = task[u]
  BY <1>1, <1>6
<1>8. ThType(hi, lo)'
  <2>1. task' \in [BgTasks -> Charging]
    <3>1. [bytes |-> 0, at |-> 0, fg |-> 0, wake |-> now + c] \in Charging
      BY <1>6 DEF Charging
    <3> QED BY <1>1, <1>6, <3>1
  <2>2. \A u \in BgTasks : task'[u].at <= now /\ (task'[u].bytes # 0 => task'[u].wake = 0)
    <3> SUFFICES ASSUME NEW u \in BgTasks PROVE task'[u].at <= now /\ (task'[u].bytes # 0 => task'[u].wake = 0)
      OBVIOUS
    <3>1. CASE u = t
      BY <1>1, <1>7, <3>1
    <3>2. CASE u # t
      BY <1>7, <3>2 DEF ThInv, ThType
    <3> QED BY <3>1, <3>2
  <2>3. fg \in Nat /\ spent' \in Nat /\ twice + h \in Nat /\ bal \in Int
    BY <1>1 DEF ThInv, ThType
  <2> QED BY <1>1, <1>2, <2>1, <2>2, <2>3 DEF ThType
<1>9. ThSpent(hi)'
  <2>1. spent * TPS + tokens <= high * (TPS + refilled + twice)
    BY DEF ThInv, ThSpent
  <2>2. (spent + b) * TPS = spent * TPS + n /\ spent * TPS \in Int /\ TPS \in Nat
    <3>1. TPS \in Nat
      BY LimitsAre
    <3>2. spent * TPS = TPS * spent /\ (spent + b) * TPS = TPS * (spent + b) /\ b * TPS = TPS * b
      BY ONLY <1>1, <3>1, b \in Nat
    <3>3. TPS * (spent + b) = TPS * spent + TPS * b /\ TPS * spent \in Int
      BY ONLY <1>1, <3>1, b \in Nat, Scale
    <3> QED BY ONLY <3>1, <3>2, <3>3, n = b * TPS
  <2>3. r * e <= high * e /\ r * e \in Int /\ high * e \in Int
    <3>1. e * r <= e * high /\ e * r = r * e /\ e * high = high * e /\ e * r \in Int /\ e * high \in Int
      BY Scale
    <3> QED BY <3>1
  <2>4. high * (TPS + a + (twice + h)) = high * (TPS + refilled + twice) + high * e
    <3>1. a + h = refilled + e
      BY <1>1 DEF AtLeast
    <3>2. TPS + a + (twice + h) = (TPS + refilled + twice) + e
      BY ONLY <1>1, <2>2, <3>1, e \in Nat, h \in Nat
    <3>3. TPS + refilled + twice \in Int
      BY ONLY <1>1, <2>2
    <3> QED BY <3>2, <3>3, Scale
  <2>5. high * (TPS + refilled + twice) \in Int
    BY <1>1, <2>2
  <2>6. (spent + b) * TPS + bal <= high * (TPS + a + (twice + h))
    BY ONLY <1>1, <1>3, <2>1, <2>2, <2>3, <2>4, <2>5, bal \in Int, n \in Nat
  <2>7. spent' * TPS <= (spent + b) * TPS
    <3>0. TPS \in Nat
      BY LimitsAre
    <3>1. spent' <= spent + b /\ spent' \in Nat /\ spent + b \in Nat /\ TPS \in Nat
      BY ONLY <1>1, <3>0, b \in Nat, spent' = spent + IF r = 0 THEN 0 ELSE b
    <3>2. TPS * spent' <= TPS * (spent + b) /\ TPS * spent' = spent' * TPS /\ TPS * (spent + b) = (spent + b) * TPS
      BY ONLY <3>1, Scale
    <3> QED BY ONLY <3>2
  <2>8. spent' * TPS + bal <= high * (TPS + a + (twice + h))
    <3> PICK x, y : x = spent' * TPS /\ y = (spent + b) * TPS
      OBVIOUS
    <3>1. x \in Int /\ y \in Int
      BY <1>1, <2>2
    <3> PICK z \in Int : z = high * (TPS + a + (twice + h))
      BY <1>1, <2>2
    <3> QED BY ONLY <2>6, <2>7, <3>1, x = spent' * TPS, y = (spent + b) * TPS, z = high * (TPS + a + (twice + h)),
                    z \in Int, bal \in Int
  <2> QED BY <1>2, <2>8 DEF ThSpent
\* A charge that is slept off, and one more task asleep until then; or a panic.
<1>10. ThBudget(hi)'
  <2> SUFFICES ASSUME NEW w \in Nat, w >= now
               PROVE  spent' * TPS <= high * (TPS + w + (twice + h)) + j * Cardinality(Asleep(w)')
    BY <1>2 DEF ThBudget
  <2>p. CASE r = 0
    <3>1. spent' = spent /\ Asleep(w)' = Asleep(w)
      BY <1>1, <1>7, <2>p DEF Asleep
    <3> PICK k \in Nat : k = Cardinality(Asleep(w))
      BY CountTasks DEF Asleep
    <3>2. spent * TPS <= high * (TPS + w + twice) + j * k
      BY DEF ThInv, ThBudget
    <3>3. TPS \in Nat
      BY LimitsAre
    <3> PICK x \in Int, y \in Int, z \in Int, v \in Int :
          x = high * (TPS + w + twice) /\ y = high * (TPS + w + (twice + h)) /\ z = j * k /\ v = spent * TPS
      BY <1>1, <3>3
    <3>4. x <= y
      <4>1. TPS + w + twice \in Int /\ TPS + w + (twice + h) \in Int /\ TPS + w + twice <= TPS + w + (twice + h)
        BY ONLY <1>1, <3>3, w \in Nat, h \in Nat
      <4> QED BY <4>1, Scale
    <3>5. v <= y + z
      BY <3>2, <3>4
    <3> QED BY <3>1, <3>5
  <2>q. r # 0 => spent' = spent + b /\ d <= high * c
    OBVIOUS
  <2> PICK s \in Int, s2 \in Int : s = spent * TPS /\ s2 = (spent + b) * TPS /\ s2 = s + n
    <3>1. TPS \in Nat
      BY LimitsAre
    <3>2. spent * TPS = TPS * spent /\ (spent + b) * TPS = TPS * (spent + b) /\ b * TPS = TPS * b
      BY ONLY <1>1, <3>1, b \in Nat
    <3>3. TPS * (spent + b) = TPS * spent + TPS * b /\ TPS * spent \in Int /\ TPS * (spent + b) \in Int
      BY ONLY <1>1, <3>1, b \in Nat, Scale
    <3> QED BY ONLY <3>2, <3>3, n = b * TPS
  <2>0. Asleep(w)' \in SUBSET BgTasks /\ Asleep(w) \in SUBSET BgTasks /\ t \notin Asleep(w) /\ TPS \in Nat
    BY <1>1, LimitsAre DEF Asleep
  <2>1. CASE r # 0 /\ w < now + c
    <3>1. Asleep(w)' = Asleep(w) \cup {t}
      BY <1>1, <1>7, <2>1 DEF Asleep
    <3> PICK k \in Nat : k = Cardinality(Asleep(w)) /\ Cardinality(Asleep(w)') = k + 1
      BY <2>0, <3>1, OneMore
    <3>2. s <= high * (TPS + w + twice) + j * k
      BY DEF ThInv, ThBudget
    <3>3. high * (TPS + w + twice) <= high * (TPS + w + (twice + h))
      <4>1. TPS + w + twice \in Int /\ TPS + w + (twice + h) \in Int /\ TPS + w + twice <= TPS + w + (twice + h)
        BY ONLY <1>1, <2>0, w \in Nat, h \in Nat
      <4> QED BY <4>1, Scale
    <3>4. j * (k + 1) = j * k + j
      BY Scale
    <3> PICK x \in Int, y \in Int, z \in Int :
          x = high * (TPS + w + twice) /\ y = high * (TPS + w + (twice + h)) /\ z = j * k
      <4>1. TPS + w + twice \in Int /\ TPS + w + (twice + h) \in Int
        BY ONLY <1>1, <2>0, w \in Nat, h \in Nat
      <4>2. high * (TPS + w + twice) \in Int /\ high * (TPS + w + (twice + h)) \in Int /\ j * k \in Int
        BY ONLY <4>1, high \in Nat, j \in Nat, k \in Nat, Scale
      <4> QED BY ONLY <4>2
    <3>5. s2 <= y + (z + j)
      BY <3>2, <3>3
    <3> QED BY <2>q, <2>1, <3>4, <3>5
  <2>2. CASE r # 0 /\ w >= now + c
    <3> PICK k \in Nat : k = Cardinality(Asleep(w)')
      BY <2>0, CountTasks
    <3>1. j * k \in Nat
      OBVIOUS
    <3>2. s2 + bal <= high * (TPS + a + (twice + h))
      BY <1>2, <1>9, <2>q, <2>2 DEF ThSpent
    <3>3. high * (TPS + w + (twice + h)) >= high * (TPS + a + (twice + h)) + high * c
      <4>1. TPS + a + (twice + h) \in Int /\ TPS + w + (twice + h) \in Int
            /\ TPS + a + (twice + h) + c <= TPS + w + (twice + h)
        BY <1>1, <2>0, <2>2
      <4> PICK x \in Int, y \in Int : x = TPS + a + (twice + h) /\ y = TPS + w + (twice + h) /\ x + c <= y
        BY <4>1
      <4>2. high * (x + c) <= high * y /\ high * (x + c) = high * x + high * c
            /\ high * x \in Int /\ high * c \in Int /\ high * y \in Int
        BY ONLY Scale, high \in Nat, x \in Int, y \in Int, c \in Nat, x + c <= y
      <4> QED BY <4>2
    <3>4. bal + high * c >= 0
      <4>1. d >= - bal
        BY DEF AtLeast
      <4>2. high * c \in Int /\ d <= high * c
        BY <2>q, <2>2
      <4> QED BY <4>1, <4>2
    <3> PICK x \in Int, y \in Int, z \in Int :
          x = high * (TPS + a + (twice + h)) /\ y = high * (TPS + w + (twice + h)) /\ z = high * c
      <4>1. TPS + a + (twice + h) \in Int /\ TPS + w + (twice + h) \in Int
        BY ONLY <1>1, <2>0, w \in Nat, h \in Nat
      <4>2. high * (TPS + a + (twice + h)) \in Int /\ high * (TPS + w + (twice + h)) \in Int /\ high * c \in Int
        BY ONLY <4>1, high \in Nat, c \in Nat, Scale
      <4> QED BY ONLY <4>2
    <3> PICK v \in Nat : v = j * k
      BY <3>1
    <3>5. s2 <= y + v
      BY <3>2, <3>3, <3>4
    <3> QED BY <2>q, <2>2, <3>5
  <2> QED BY <1>1, <2>p, <2>1, <2>2
\* A debt that has grown by one charge, until it is slept off in part.
<1>11. ASSUME 0 < low PROVE ThDebt(hi, lo)'
  <2> SUFFICES ASSUME NEW w \in Nat, w >= a
               PROVE  low * (- bal - low * (w - a)) <= base + (low * j) * Cardinality(Behind(w)')
    BY <1>2 DEF ThDebt
  <2>0. Behind(w)' \in SUBSET BgTasks /\ Behind(w) \in SUBSET BgTasks
    BY DEF Behind
  <2>1. CASE w < now + c
    <3>1. Behind(w)' = Behind(w) \cup {t}
      BY <1>1, <1>4, <1>7, <1>11, <2>1 DEF Behind, Until
    <3>2. Cardinality(Behind(w)') = Cardinality(Behind(w)) + 1
      BY <1>4, <1>11, <2>0, <3>1, OneMore
    <3> QED BY <1>4, <1>11, <3>2
  <2>2. CASE w >= now + c
    <3> PICK k \in Nat : k = Cardinality(Behind(w)')
      BY <2>0, CountTasks
    <3> PICK v \in Nat : v = (low * j) * k
      <4>1. low * j \in Nat
        OBVIOUS
      <4> QED BY <4>1
    <3>1. low * (d - low * c) <= base
      <4>1. low * (d - low * c) <= m * (high - low)
        BY ONLY <1>5, <1>11, PaidPart, high \in Nat, low \in Nat, low <= high, d \in Nat, c \in Nat, m \in Nat,
                0 < low => d <= high * c /\ c <= CeilDiv(m * high, low * low)
      <4> QED BY <4>1
    <3>2. - bal - low * (w - a) \in Int /\ d - low * c \in Int /\ - bal - low * (w - a) <= d - low * c
      <4>1. low * c <= low * (w - a) /\ low * c \in Int /\ low * (w - a) \in Int
        <5>1. c <= w - a /\ w - a \in Int
          BY ONLY <1>1, <2>2, w \in Nat, c \in Nat
        <5> QED BY <5>1, Scale
      <4>2. d >= - bal
        BY DEF AtLeast
      <4> QED BY <4>1, <4>2
    <3>3. low * (- bal - low * (w - a)) <= low * (d - low * c)
          /\ low * (- bal - low * (w - a)) \in Int /\ low * (d - low * c) \in Int
      BY <3>2, Scale
    <3>4. low * (- bal - low * (w - a)) <= base + v
      BY <3>1, <3>3
    <3> QED BY <3>4
  <2> QED BY <1>1, <2>1, <2>2
<1>12. ASSUME 0 < low PROVE ThNaps(hi, lo)'
  <2> PICK nap \in Nat : nap = CeilDiv((Crowd * Chunk) * hi, lo * lo)
    BY <1>12, NapIs
  <2>1. c <= nap
    BY <1>12
  <2>2. \A u \in BgTasks : task[u].wake - now <= nap
    BY <1>12 DEF ThInv, ThNaps
  <2>3. ASSUME NEW u \in BgTasks PROVE task'[u].wake - now <= nap
    <3>1. CASE u = t
      BY <1>1, <1>7, <2>1, <3>1
    <3>2. CASE u # t
      BY <1>7, <2>2, <3>2
    <3> QED BY <3>1, <3>2
  <2> QED BY <1>2, <2>3 DEF ThNaps
<1> QED BY <1>8, <1>9, <1>10, <1>11, <1>12 DEF ThInv

LEMMA ThAllHolds == Spec => []ThAll
<1>1. Init => ThAll
  <2> SUFFICES ASSUME Init, NEW hi \in Nat, NEW lo \in Nat, Within(hi, lo) PROVE ThInv(hi, lo)
    BY DEF ThAll, Init, ThrottleInit
  <2>0. /\ now = 0 /\ rate = BgMax /\ tokens = BgMax * TPS /\ refilled = 0 /\ fg = 0 /\ spent = 0 /\ twice = 0
        /\ task = [t \in BgTasks |-> [bytes |-> 0, at |-> 0, fg |-> 0, wake |-> 0]]
    BY DEF Init, ClockInit, ThrottleInit
  <2> PICK m \in Nat, h \in Nat, l \in Nat, j \in Nat, n \in Nat :
        m = BgMax /\ h = hi /\ l = lo /\ j = Chunk /\ n = Crowd /\ l <= m /\ m <= h
    BY LimitsAre DEF Within
  <2> PICK s \in Nat : s = TPS /\ s > 0
    BY LimitsAre
  <2> PICK x \in Nat : x = m * s
    OBVIOUS
  <2>1. ThType(hi, lo)
    <3>1. \A u \in BgTasks : task[u] = [bytes |-> 0, at |-> 0, fg |-> 0, wake |-> 0]
      BY <2>0
    <3>2. task \in [BgTasks -> Charging]
      BY <2>0 DEF Charging
    <3> QED BY <2>0, <3>1, <3>2 DEF ThType
  <2>2. ThSpent(hi)
    <3>1. s * m <= s * h /\ s * m = x /\ s * h = h * s /\ h * s \in Int
      BY Scale
    <3>2. 0 * s = 0 /\ s + 0 + 0 = s
      OBVIOUS
    <3> QED BY <2>0, <3>1, <3>2 DEF ThSpent
  <2>3. ThBudget(hi)
    <3> SUFFICES ASSUME NEW w \in Nat PROVE 0 * s <= h * (s + w + 0) + j * Cardinality(Asleep(w))
      BY <2>0 DEF ThBudget
    <3> PICK k \in Nat : k = Cardinality(Asleep(w))
      BY CountTasks DEF Asleep
    <3>1. h * (s + w + 0) \in Nat /\ j * k \in Nat /\ 0 * s = 0
      OBVIOUS
    <3> QED BY <3>1
  <2>4. ThDebt(hi, lo)
    <3> SUFFICES ASSUME NEW w \in Nat PROVE l * (- x - l * (w - 0)) <= (n * j) * (h - l) + (l * j) * Cardinality(Behind(w))
      BY <2>0 DEF ThDebt
    <3> PICK k \in Nat : k = Cardinality(Behind(w))
      BY CountTasks DEF Behind
    <3>1. (n * j) * (h - l) \in Nat /\ (l * j) * k \in Nat
      <4>1. \A y, z \in Nat : y * z \in Nat
        OBVIOUS
      <4>2. n * j \in Nat /\ h - l \in Nat /\ l * j \in Nat
        BY <4>1
      <4> QED BY <4>1, <4>2
    <3> PICK y \in Nat, z \in Nat : y = (n * j) * (h - l) /\ z = (l * j) * k
      BY <3>1
    <3>2. l * (- x - l * (w - 0)) <= l * 0 /\ l * 0 = 0 /\ l * (- x - l * (w - 0)) \in Int
      <4>1. l * w \in Nat /\ w - 0 = w
        OBVIOUS
      <4>2. - x - l * (w - 0) \in Int /\ - x - l * (w - 0) <= 0
        BY <4>1
      <4> QED BY <4>2, Scale
    <3>3. l * (- x - l * (w - 0)) <= y + z
      BY ONLY <3>2, y \in Nat, z \in Nat
    <3> QED BY <3>3
  <2>5. ASSUME lo > 0 PROVE ThNaps(hi, lo)
    <3>1. \A u \in BgTasks : task[u].wake - now = 0
      BY <2>0
    <3>2. CeilDiv((Crowd * Chunk) * hi, lo * lo) \in Nat
      BY <2>5, NapIs
    <3> QED BY ONLY <3>1, <3>2 DEF ThNaps
  <2> QED BY <2>1, <2>2, <2>3, <2>4, <2>5 DEF ThInv
<1>2. ThAll /\ [Next]_vars => ThAll'
  <2> SUFFICES ASSUME ThAll, [Next]_vars PROVE ThAll'
    OBVIOUS
  <2>0. ASSUME NEW hi \in Nat, NEW lo \in Nat, Within(hi, lo)
        PROVE  ThInv(hi, lo) /\ now \in Nat /\ rate \in Nat /\ lo <= rate /\ rate <= hi /\ fg \in Nat
    BY <2>0 DEF ThAll, ThInv, ThType
  <2>a. ASSUME UNCHANGED came, \A hi, lo \in Nat : Within(hi, lo) => ThInv(hi, lo)' PROVE ThAll'
    BY <2>a DEF ThAll, Within
  <2>1. ASSUME UNCHANGED throttleVars, now' = now \/ now' = now + 1 PROVE ThAll'
    <3>1. ASSUME NEW hi \in Nat, NEW lo \in Nat, Within(hi, lo) PROVE ThInv(hi, lo)'
      BY <2>0, <2>1, <3>1, ThKeeps DEF throttleVars
    <3> QED BY <2>1, <2>a, <3>1 DEF throttleVars
  <2>2. ASSUME NEW t \in BgTasks, Charge(t) PROVE ThAll'
    <3>1. ASSUME NEW hi \in Nat, NEW lo \in Nat, Within(hi, lo) PROVE ThInv(hi, lo)'
      BY <2>0, <2>2, <3>1, ChargeStep
    <3> QED BY <2>2, <2>a, <3>1 DEF Charge
  <2>3. ASSUME NEW t \in BgTasks, Acquire(t) PROVE ThAll'
    <3>1. ASSUME NEW hi \in Nat, NEW lo \in Nat, Within(hi, lo) PROVE ThInv(hi, lo)'
      BY <2>0, <2>3, <3>1, AcquireStep
    <3>2. UNCHANGED came
      BY <2>3 DEF Acquire
    <3> QED BY <2>a, <3>1, <3>2
  <2>4. CASE Foreground
    <3>1. ASSUME NEW hi \in Nat, NEW lo \in Nat, Within(hi, lo) PROVE ThInv(hi, lo)'
      BY <2>0, <2>4, <3>1, ThKeeps DEF Foreground
    <3> QED BY <2>4, <2>a, <3>1 DEF Foreground
  <2>5. CASE UpdateConfig
    <3> PICK x \in Reloads :
          /\ IF x.min > x.max THEN UNCHANGED <<rate, came>>
             ELSE rate' = AtLeast(x.min, AtMost(rate, x.max)) /\ came' = came \cup {x}
          /\ UNCHANGED <<now, tokens, refilled, fg, task, spent, twice>>
      BY <2>5 DEF UpdateConfig
    <3>0. x.min \in Nat /\ x.max \in Nat
      BY LimitsAre
    <3>1. came' \subseteq Reloads /\ \A c \in came : c \in came'
      BY DEF ThAll
    <3>2. ASSUME NEW hi \in Nat, NEW lo \in Nat, Within(hi, lo)' PROVE ThInv(hi, lo)'
      <4>1. Within(hi, lo)
        BY <3>1, <3>2 DEF Within
      <4>2. ThInv(hi, lo) /\ now \in Nat /\ rate \in Nat /\ lo <= rate /\ rate <= hi /\ fg \in Nat
        BY <2>0, <4>1
      <4>3. CASE x.min > x.max
        BY <4>2, <4>3, ThKeeps
      <4>4. CASE ~ (x.min > x.max)
        <5>1. x.min <= hi /\ lo <= x.max /\ rate' = AtLeast(x.min, AtMost(rate, x.max))
          BY <3>2, <4>4 DEF Within
        <5>2. rate' \in Nat /\ lo <= rate' /\ rate' <= hi
          BY ONLY <3>0, <4>2, <5>1, hi \in Nat, lo \in Nat DEF AtLeast, AtMost
        <5> QED BY <4>2, <5>2, ThKeeps
      <4> QED BY <4>3, <4>4
    <3> QED BY <3>1, <3>2 DEF ThAll
  <2>6. CASE part = "latency" /\ LatNext /\ UNCHANGED throttleVars
    BY <2>1, <2>6 DEF LatNext, BeginRecord, BeginP99, CheckDue, Lock, ZeroBuckets, ZeroCountAndTurn, ZeroOldBuckets,
                      ZeroOldCount, Stamp, Load, AddBucket, AddCount, Answer
  <2>7. CASE part = "rate" /\ RateNext /\ UNCHANGED throttleVars
    BY <2>1, <2>7 DEF RateNext, Enter, Check, ClockTick
  <2>8. CASE part = "throttle" /\ ThrottleNext
    BY <2>1, <2>2, <2>3, <2>4, <2>5, <2>8 DEF ThrottleNext, ClockTick
  <2> QED BY <2>1, <2>6, <2>7, <2>8 DEF Next, vars
<1> QED BY <1>1, <1>2, PTL DEF Spec

\* BgThrottle: background tasks stay within their budget however many there
\* are, whatever limits they start with and whatever a reload brings, zeros and
\* a minimum above the maximum included; and none is put to sleep for good as
\* long as no reload brings a maximum of 0.
THEOREM BackgroundStaysPaced == Spec => []Paced
<1>1. ThAll => Paced
  <2> SUFFICES ASSUME ThAll PROVE Paced
    OBVIOUS
  <2> PICK hi \in Nat, lo \in Nat : hi = Highest /\ lo = Lowest /\ ThInv(hi, lo)
    <3>1. Highest \in Nat /\ Lowest \in Nat /\ Within(Highest, Lowest)
      BY HighestLowest DEF ThAll
    <3>2. ThInv(Highest, Lowest)
      BY <3>1 DEF ThAll
    <3> QED BY <3>1, <3>2
  <2>1. BudgetKept
    <3>1. now \in Nat /\ spent \in Nat /\ twice \in Nat
      BY DEF ThInv, ThType
    <3>2. spent * TPS <= hi * (TPS + now + twice) + Chunk * Cardinality(Asleep(now))
      BY <3>1 DEF ThInv, ThBudget
    <3> PICK k \in Nat, n \in Nat : k = Cardinality(Asleep(now)) /\ n = Crowd /\ k <= n
      BY CountTasks, LimitsAre DEF Asleep
    <3> PICK j \in Nat, h \in Nat, s \in Nat : j = Chunk /\ h = hi /\ s = TPS
      BY LimitsAre
    <3>3. j * k <= j * n /\ j * k \in Int /\ j * n \in Int
      BY Scale
    <3> PICK x \in Int, y \in Int : x = spent * s /\ y = h * (s + now + twice)
      BY <3>1
    <3>4. x <= y + j * n
      BY <3>2, <3>3
    <3>5. j * n = Cardinality(BgTasks) * Max(Chunks) * TPS
      <4> PICK z \in Nat : z = Max(Chunks)
        BY ThrottleAssumption, GreatestOf
      <4>1. j = z * s
        BY DEF Chunk
      <4>2. (z * s) * n = n * z * s
        OBVIOUS
      <4> QED BY <4>1, <4>2 DEF Crowd
    <3> QED BY <3>4, <3>5 DEF BudgetKept
  <2>2. NeverStarved
    BY DEF ThInv, ThNaps, NeverStarved, Crowd, Chunk
  <2> QED BY <2>1, <2>2 DEF Paced
<1> QED BY <1>1, ThAllHolds, PTL
=============================================================================
