--------------------------- MODULE CacheTierProofs ---------------------------
(***************************************************************************)
(* Proofs about CacheTier for all keys, bodies, threads and limits.        *)
(***************************************************************************)
EXTENDS CacheTier, TLAPS, FiniteSetTheorems

-----------------------------------------------------------------------------
(* The inductive invariant. *)

\* The threads that may still write a record to the cache.
Writers == {t \in Threads : pc[t] \in {"cache", "heal", "pool", "populate"}}

\* Segments fill up one after the other, and Begin left room for every writer.
SegShape ==
  /\ size[cactive] <= SegRecs
  /\ \A s \in SegIds : s > cactive => size[s] = 0
  /\ (MaxSegId - cactive + 1) * SegRecs - size[cactive] >= Cardinality(Writers)

\* What the place of a thread says about its operation.
ThreadShape ==
  \A t \in Threads :
    /\ pc[t] = "idle" <=> op[t] = "none"
    /\ pc[t] # "idle" => key[t] \in Keys
    /\ pc[t] \in {"wait", "cache", "heal", "pool", "publish", "remove"} => op[t] = "get"
    /\ pc[t] = "delete" <=> op[t] = "delete"

\* Every body in the pool, in a good copy, in hand or answered is one the pool
\* has held under that key.
Held ==
  /\ \A k \in Keys : pool[k] \in ever[k] \cup {None} /\ copy[k] \in ever[k] \cup {None, Bad}
  /\ \A k \in Keys : done[k].res = "Ok" => done[k].body \in ever[k]
  /\ \A t \in Threads : pc[t] = "populate" => val[t] \in ever[key[t]]
  /\ \A t \in Threads : ans[t].res = "Ok" => key[t] \in Keys /\ ans[t].body \in ever[key[t]]

\* A put or delete of k that has changed the pool and not yet the copy.
Owes(t, k) == key[t] = k /\ (pc[t] = "delete" \/ (pc[t] = "populate" /\ op[t] = "put"))

\* A key that no change left behind: what is about to be written to the cache
\* is the pool's body, and a copy is it too unless somebody is about to change it.
Agree ==
  \A k \in Keys \ raced :
    /\ \A t \in Threads : Populating(t, k) => val[t] = pool[k]
    /\ copy[k] \notin {None, Bad} => copy[k] = pool[k] \/ \E t \in Threads : Owes(t, k)

Inv == TypeOK /\ SegShape /\ ThreadShape /\ OneReaderPerKey /\ Held /\ Agree
-----------------------------------------------------------------------------
(* The pieces the actions are built from. *)

\* Bodies put under a key are bodies, and neither None nor Bad.
LEMMA BodyFacts ==
  ASSUME NEW k \in Keys
  PROVE  BodyOf[k] \subseteq Bodies /\ None \notin Bodies /\ Bad \notin Bodies /\ None # Bad
BY CacheAssumption DEF Bodies

LEMMA AnswerFacts ==
  /\ NotFound \in Answer /\ Failed \in Answer /\ NoAnswer.res = "none"
  /\ \A b \in Bodies : Found(b) \in Answer /\ Found(b).res = "Ok" /\ Found(b).body = b
  /\ NotFound.res = "NotFound" /\ Failed.res = "Io"
BY DEF Answer, NotFound, Failed, Found, NoAnswer

\* What a file holds is counted by natural numbers.
LEMMA FileSizeType ==
  ASSUME TypeOK, NEW s \in SegIds
  PROVE  FileSize(s) \in Nat
<1>1. size[s] \in Nat /\ BodySize + HeaderSize \in Nat
  BY CacheAssumption DEF TypeOK
<1>2. \A x, y \in Nat : x * y \in Nat
  OBVIOUS
<1> QED BY <1>1, <1>2 DEF FileSize

LEMMA DataBytesType ==
  ASSUME TypeOK
  PROVE  DataBytes \in Nat
<1> DEFINE file(s) == {s} \X (1 .. size[s])
<1>1. \A s \in SegIds : IsFiniteSet(file(s))
  <2> TAKE s \in SegIds
  <2>1. IsFiniteSet({s})
    BY FS_Singleton
  <2>2. IsFiniteSet(1 .. size[s])
    BY FS_Interval DEF TypeOK
  <2> QED BY <2>1, <2>2, FS_Product
<1>2. IsFiniteSet({file(s) : s \in SegIds})
  <2>1. IsFiniteSet(SegIds)
    BY FS_Interval, CacheAssumption DEF SegIds
  <2> DEFINE F == [s \in SegIds |-> file(s)]
             T == {file(s) : s \in SegIds}
  <2>2. F \in Surjection(SegIds, T)
    BY DEF Surjection
  <2> QED BY <2>1, <2>2, FS_Surjection
<1>3. IsFiniteSet(Records)
  <2>1. \A T \in {file(s) : s \in SegIds} : IsFiniteSet(T)
    BY <1>1
  <2>2. Records = UNION {file(s) : s \in SegIds}
    BY DEF Records
  <2> HIDE DEF file
  <2> QED BY <1>2, <2>1, <2>2, FS_UNION
<1>4. Cardinality(Records) \in Nat /\ BodySize + HeaderSize \in Nat
  BY <1>3, FS_CardinalityType, CacheAssumption
<1>5. \A x, y \in Nat : x * y \in Nat
  OBVIOUS
<1> QED BY <1>4, <1>5 DEF DataBytes

\* The room Begin left is enough for a writer's record.
LEMMA PopulateRoom ==
  ASSUME TypeOK, SegShape, NEW t \in Writers
  PROVE  LET s == IF CacheFull THEN cactive + 1 ELSE cactive
         IN  s \in SegIds
<1> USE CacheAssumption
<1>1. IsFiniteSet(Writers)
  BY FS_Subset DEF Writers
<1>2. Cardinality(Writers) \in Nat /\ Cardinality(Writers) # 0
  BY <1>1, FS_CardinalityType, FS_EmptySet
<1>3. cactive \in Nat /\ cactive <= MaxSegId /\ size[cactive] \in Nat
  BY DEF TypeOK, SegIds
<1>4. ASSUME CacheFull PROVE cactive < MaxSegId
  <2>1. SUFFICES ASSUME cactive = MaxSegId PROVE FALSE
    BY <1>3
  <2>2. (MaxSegId - cactive + 1) * SegRecs = SegRecs
    <3>1. MaxSegId - cactive + 1 = 1
      BY <2>1, <1>3
    <3> QED BY <3>1
  <2> QED BY <2>2, <1>2, <1>3, <1>4 DEF SegShape, CacheFull
<1> QED BY <1>3, <1>4 DEF SegIds

-----------------------------------------------------------------------------
(* Steps that leave most of the state alone. *)

\* An eviction empties a sealed file: the active one and the room stay.
LEMMA RoomShrinks ==
  ASSUME TypeOK, SegShape, UNCHANGED cactive, size'[cactive] = size[cactive],
         \A s \in SegIds : size'[s] \in {size[s], 0}, Writers' \subseteq Writers
  PROVE  SegShape'
<1>1. IsFiniteSet(Writers)
  BY FS_Subset, CacheAssumption DEF Writers
<1>2. Cardinality(Writers') <= Cardinality(Writers)
  BY <1>1, FS_Subset
<1>3. Cardinality(Writers) \in Nat /\ Cardinality(Writers') \in Nat
  BY <1>1, FS_Subset, FS_CardinalityType
<1> DEFINE room == (MaxSegId - cactive + 1) * SegRecs - size[cactive]
<1>4. room \in Int
  <2>1. cactive \in Int /\ size[cactive] \in Nat /\ MaxSegId \in Int /\ SegRecs \in Int
    BY CacheAssumption DEF TypeOK, SegIds
  <2>2. \A x, y \in Int : x * y \in Int
    OBVIOUS
  <2> QED BY <2>1, <2>2
<1>5. room' = room
  OBVIOUS
<1>6. room >= Cardinality(Writers)
  BY DEF SegShape
<1>7. room' >= Cardinality(Writers')
  <2> HIDE DEF room
  <2> QED BY <1>2, <1>3, <1>4, <1>5, <1>6
<1>8. \A s \in SegIds : s > cactive => size'[s] = 0
  BY DEF SegShape
<1>9. size'[cactive'] <= SegRecs
  BY DEF SegShape
<1> QED BY <1>7, <1>8, <1>9 DEF SegShape

\* Nobody becomes a writer and no file changes: the room stays.
LEMMA RoomKept ==
  ASSUME TypeOK, SegShape, UNCHANGED <<size, cactive>>, Writers' \subseteq Writers
  PROVE  SegShape'
BY RoomShrinks

\* A writer's record takes one place of the room, and the writer stops being one.
LEMMA PopulateSeg ==
  ASSUME TypeOK, SegShape, NEW t \in Threads, Populate(t)
  PROVE  SegShape'
<1> USE CacheAssumption
<1> DEFINE s == IF CacheFull THEN cactive + 1 ELSE cactive
           left == MaxSegId - cactive + 1
<1>1. t \in Writers /\ Writers' = Writers \ {t}
  BY DEF Populate, Goto, Writers, TypeOK
<1>2. IsFiniteSet(Writers)
  BY FS_Subset DEF Writers
<1>3. Cardinality(Writers') = Cardinality(Writers) - 1 /\ Cardinality(Writers) \in Nat
  BY <1>1, <1>2, FS_RemoveElement, FS_CardinalityType
<1>4. s \in SegIds
  BY <1>1, PopulateRoom
<1>5. size' = [size EXCEPT ![s] = @ + 1] /\ cactive' = s
  BY DEF Populate
<1>6. cactive \in Nat /\ cactive <= MaxSegId /\ size[cactive] \in Nat /\ size[cactive] <= SegRecs
  BY DEF TypeOK, SegIds, SegShape
<1>7. \A x \in SegIds : x > s => size'[x] = 0
  BY <1>4, <1>5, <1>6 DEF SegShape, TypeOK, SegIds
<1>8. left * SegRecs - size[cactive] >= Cardinality(Writers)
  BY DEF SegShape
<1>9. left \in Nat /\ left * SegRecs \in Int
  <2>1. left \in Nat
    BY <1>6
  <2>2. \A x, y \in Nat : x * y \in Int
    OBVIOUS
  <2> HIDE DEF left
  <2> QED BY <2>1, <2>2
<1>10. CASE CacheFull
  <2>1. s = cactive + 1 /\ size[cactive] = SegRecs
    BY <1>10, <1>6 DEF CacheFull
  <2>2. size'[s] = 1
    BY <1>4, <1>5, <1>6, <2>1 DEF SegShape, TypeOK, SegIds
  <2>3. (left - 1) * SegRecs = left * SegRecs - SegRecs
    <3>1. \A x, y \in Int : (x - 1) * y = x * y - y
      OBVIOUS
    <3> HIDE DEF left
    <3> QED BY <3>1, <1>9
  <2>4. MaxSegId - s + 1 = left - 1
    BY <2>1, <1>6
  <2>5. (left - 1) * SegRecs - 1 >= Cardinality(Writers')
    <3> HIDE DEF left
    <3> QED BY <1>3, <1>8, <1>9, <2>1, <2>3
  <2>6. (MaxSegId - s + 1) * SegRecs - size'[s] >= Cardinality(Writers')
    BY <2>2, <2>4, <2>5
  <2> HIDE DEF s, left
  <2> QED BY <1>5, <1>7, <2>2, <2>6 DEF SegShape
<1>11. CASE ~CacheFull
  <2>1. s = cactive /\ size[cactive] < SegRecs
    BY <1>11, <1>6 DEF CacheFull
  <2>2. size'[s] = size[cactive] + 1
    BY <1>4, <1>5, <1>6, <2>1 DEF TypeOK
  <2>3. left * SegRecs - size'[s] >= Cardinality(Writers')
    <3> HIDE DEF left, s
    <3> QED BY <1>3, <1>6, <1>8, <1>9, <2>2
  <2>4. size'[s] <= SegRecs
    BY <1>6, <2>1, <2>2
  <2> HIDE DEF s
  <2> QED BY <1>5, <1>7, <2>1, <2>3, <2>4 DEF SegShape
<1> QED BY <1>10, <1>11

\* An operation begins only where a record is free beyond those of the writers.
LEMMA BeginRoom ==
  ASSUME TypeOK, SegShape, Room, UNCHANGED <<size, cactive>>,
         NEW t \in Threads, NEW p, pc' = [pc EXCEPT ![t] = p]
  PROVE  SegShape'
<1>1. IsFiniteSet(Writers)
  BY FS_Subset, CacheAssumption DEF Writers
<1>2. IsFiniteSet(Writers \cup {t}) /\ Cardinality(Writers \cup {t}) <= Cardinality(Writers) + 1
  <2>1. Cardinality(Writers) \in Nat
    BY <1>1, FS_CardinalityType
  <2>2. /\ IsFiniteSet(Writers \cup {t})
        /\ Cardinality(Writers \cup {t}) = Cardinality(Writers) \/ Cardinality(Writers \cup {t}) = Cardinality(Writers) + 1
    BY <1>1, FS_AddElement
  <2> QED BY <2>1, <2>2
<1>3. Writers' \subseteq Writers \cup {t}
  BY DEF Writers, TypeOK
<1>4. Cardinality(Writers') <= Cardinality(Writers \cup {t})
  BY <1>2, <1>3, FS_Subset
<1>5. /\ Cardinality(Writers) \in Nat /\ Cardinality(Writers') \in Nat
      /\ Cardinality(Writers \cup {t}) \in Nat
  BY <1>1, <1>2, <1>3, FS_Subset, FS_CardinalityType
<1> DEFINE room == (MaxSegId - cactive + 1) * SegRecs - size[cactive]
<1>6. room \in Int
  <2>1. cactive \in Int /\ size[cactive] \in Nat /\ MaxSegId \in Int /\ SegRecs \in Int
    BY CacheAssumption DEF TypeOK, SegIds
  <2>2. \A x, y \in Int : x * y \in Int
    OBVIOUS
  <2> QED BY <2>1, <2>2
<1>7. room' = room
  OBVIOUS
<1>8. room > Cardinality(Writers)
  BY DEF Room, Writers
<1>9. room' >= Cardinality(Writers')
  <2> HIDE DEF room
  <2> QED BY <1>2, <1>4, <1>5, <1>6, <1>7, <1>8
<1> QED BY <1>9 DEF SegShape

\* A thread moves on inside its operation and nothing but its place, the
\* counters of the eviction and the faults change.
LEMMA MovesOn ==
  ASSUME Inv, NEW t \in Threads, NEW p \in {"heal", "pool", "publish", "evict", "load", "store", "low"},
         pc' = [pc EXCEPT ![t] = p], pc[t] \notin {"idle", "wait", "delete"},
         p \in {"heal", "pool"} => pc[t] \in {"cache", "heal"},
         p = "publish" => op[t] = "get",
         pc[t] = "populate" => op[t] = "get",
         UNCHANGED <<store, flightv, op, key, val, ans, ever, raced>>,
         bytes' \in Nat, freed' \in [Threads -> Nat], cur' \in [Threads -> Nat],
         rots' \in Nat, errors' \in Nat, restarts' \in Nat
  PROVE  Inv'
<1> USE DEF Inv
<1>1. TypeOK'
  BY DEF TypeOK, store, flightv
<1>2. SegShape'
  <2>1. Writers' \subseteq Writers
    BY DEF Writers, TypeOK
  <2> QED BY <2>1, RoomKept DEF store
<1>3. ThreadShape'
  BY DEF ThreadShape, TypeOK
<1>4. OneReaderPerKey'
  BY DEF OneReaderPerKey, Leads, TypeOK, flightv
<1>5. Held'
  BY DEF Held, TypeOK, store, flightv
<1>6. Agree'
  <2> SUFFICES ASSUME NEW k \in Keys \ raced
               PROVE  /\ \A u \in Threads : Populating(u, k)' => val'[u] = pool'[k]
                      /\ copy'[k] \notin {None, Bad} => copy'[k] = pool'[k] \/ \E u \in Threads : Owes(u, k)'
    BY DEF Agree
  <2>1. \A u \in Threads : (Populating(u, k)' => Populating(u, k)) /\ (Owes(u, k) => Owes(u, k)')
    BY DEF Populating, Owes, TypeOK
  <2> QED BY <2>1 DEF Agree, store
<1> QED BY <1>1, <1>2, <1>3, <1>4, <1>5, <1>6

\* A thread whose operation owes the cache nothing returns its answer a.
LEMMA Returns ==
  ASSUME Inv, NEW t \in Threads, NEW a \in Answer \cup {NoAnswer}, Return(t, a),
         \A k \in Keys \ raced' : ~Owes(t, k), a \in {ans[t], NoAnswer},
         pc[t] # "idle",
         op[t] = "get" => pc[t] = "wait",
         UNCHANGED <<store, flightv, key, ever>>, raced \subseteq raced', raced' \subseteq Keys,
         bytes' \in Nat, freed' \in [Threads -> Nat], cur' \in [Threads -> Nat],
         rots' \in Nat, errors' \in Nat, restarts' \in Nat
  PROVE  Inv'
<1> USE DEF Inv, Return, Goto
<1>1. TypeOK'
  BY DEF TypeOK, store, flightv
<1>2. SegShape'
  <2>1. Writers' \subseteq Writers
    BY DEF Writers, TypeOK
  <2> QED BY <2>1, RoomKept DEF store
<1>3. ThreadShape'
  BY DEF ThreadShape, TypeOK
<1>4. OneReaderPerKey'
  BY DEF OneReaderPerKey, Leads, TypeOK, flightv
<1>5. Held'
  BY AnswerFacts DEF Held, TypeOK, store, flightv
<1>6. Agree'
  <2> SUFFICES ASSUME NEW k \in Keys \ raced'
               PROVE  /\ \A u \in Threads : Populating(u, k)' => val'[u] = pool'[k]
                      /\ copy'[k] \notin {None, Bad} => copy'[k] = pool'[k] \/ \E u \in Threads : Owes(u, k)'
    BY DEF Agree
  <2>1. \A u \in Threads : (Populating(u, k)' => Populating(u, k) /\ u # t) /\ (Owes(u, k) => Owes(u, k)')
    BY DEF Populating, Owes, TypeOK
  <2> QED BY <2>1 DEF Agree, store, TypeOK
<1> QED BY <1>1, <1>2, <1>3, <1>4, <1>5, <1>6

-----------------------------------------------------------------------------
(* One lemma per step, or per group of steps that differ in their places. *)

\* The counter of errors is the only fault counter that a failing call moves.
LEMMA ErrorTypes ==
  ASSUME TypeOK, Error
  PROVE  rots' \in Nat /\ errors' \in Nat /\ restarts' \in Nat
BY DEF TypeOK, Error

\* After a populate a get goes on to publish and a put returns.
LEMMA AfterPopulateStep ==
  ASSUME Inv, NEW t \in Threads, AfterPopulate(t), pc[t] \in {"populate", "evict", "low"},
         UNCHANGED <<store, flightv, key, ever>>,
         raced \subseteq raced', raced' \subseteq Keys,
         op[t] = "get" => raced' = raced,
         pc[t] = "populate" /\ op[t] = "put" => key[t] \in raced',
         bytes' \in Nat, freed' \in [Threads -> Nat], cur' \in [Threads -> Nat],
         rots' \in Nat, errors' \in Nat, restarts' \in Nat
  PROVE  Inv'
<1>1. CASE op[t] = "get"
  BY <1>1, MovesOn DEF AfterPopulate, Goto
<1>2. CASE op[t] # "get"
  <2>1. Return(t, NoAnswer)
    BY <1>2 DEF AfterPopulate
  <2>2. \A k \in Keys \ raced' : ~Owes(t, k)
    BY DEF Owes
  <2> QED BY <1>2, <2>1, <2>2, Returns
<1> QED BY <1>1, <1>2

LEMMA EvictionSteps ==
  ASSUME Inv, NEW t \in Threads,
         \/ AddBytes(t) \/ EvictNothing(t) \/ LoadBytes(t) \/ StoreBytes(t)
         \/ CheckLow(t) \/ EvictFails(t) \/ PopulateFails(t)
  PROVE  Inv'
<1> USE DEF Inv, evictv, fault
<1>1. CASE AddBytes(t)
  <2>1. bytes + BodySize \in Nat
    BY CacheAssumption DEF TypeOK
  <2> QED BY <1>1, <2>1, MovesOn DEF AddBytes, Goto, TypeOK
<1>2. CASE EvictNothing(t)
  BY <1>2, AfterPopulateStep DEF EvictNothing, TypeOK
<1>3. CASE LoadBytes(t)
  BY <1>3, MovesOn DEF LoadBytes, Goto, TypeOK
<1>4. CASE StoreBytes(t)
  <2>1. LessFreed(t) \in Nat
    BY DEF LessFreed, TypeOK
  <2> QED BY <1>4, <2>1, MovesOn DEF StoreBytes, Goto, TypeOK
<1>5. CASE CheckLow(t)
  <2>1. CASE bytes <= Low
    BY <1>5, <2>1, AfterPopulateStep DEF CheckLow, TypeOK
  <2>2. CASE ~(bytes <= Low)
    BY <1>5, <2>2, MovesOn DEF CheckLow, Goto, TypeOK
  <2> QED BY <2>1, <2>2
<1>6. CASE EvictFails(t)
  BY <1>6, ErrorTypes, AfterPopulateStep DEF EvictFails, TypeOK
<1>7. CASE PopulateFails(t)
  <2>1. key[t] \in Keys
    BY <1>7 DEF PopulateFails, ThreadShape
  <2> QED BY <1>7, <2>1, ErrorTypes, AfterPopulateStep DEF PopulateFails, TypeOK
<1> QED BY <1>1, <1>2, <1>3, <1>4, <1>5, <1>6, <1>7

\* The read through the cache up to the pool, as far as it only moves on.
LEMMA ReadSteps ==
  ASSUME Inv, NEW t \in Threads, GetCacheFails(t) \/ GetHealFails(t) \/ Wake(t) \/ DeleteCacheFails(t)
  PROVE  Inv'
<1> USE DEF Inv, evictv, fault
<1>1. CASE GetCacheFails(t)
  BY <1>1, ErrorTypes, MovesOn DEF GetCacheFails, Goto, TypeOK
<1>2. CASE GetHealFails(t)
  BY <1>2, ErrorTypes, MovesOn DEF GetHealFails, Goto, TypeOK
<1>3. CASE Wake(t)
  <2>1. \A k \in Keys \ raced' : ~Owes(t, k)
    BY <1>3 DEF Owes, Wake
  <2>2. ans[t] \in Answer \cup {NoAnswer}
    BY DEF TypeOK
  <2> QED BY <1>3, <2>1, <2>2, Returns DEF Wake, TypeOK
<1>4. CASE DeleteCacheFails(t)
  <2>1. key[t] \in Keys /\ op[t] = "delete"
    BY <1>4 DEF DeleteCacheFails, ThreadShape
  <2>2. raced' = raced \cup {key[t]}
    BY <1>4 DEF DeleteCacheFails, NoteRace
  <2>3. \A k \in Keys \ raced' : ~Owes(t, k)
    BY <2>2 DEF Owes
  <2> QED BY <1>4, <2>1, <2>2, <2>3, ErrorTypes, Returns DEF DeleteCacheFails, TypeOK
<1> QED BY <1>1, <1>2, <1>3, <1>4

LEMMA GetBeginStep ==
  ASSUME Inv, NEW t \in Threads, NEW k \in Keys, Room, GetBegin(t, k)
  PROVE  Inv'
<1> USE DEF Inv, GetBegin, Join, Goto
<1>1. TypeOK'
  BY DEF TypeOK, store, flightv, evictv, fault
<1>2. SegShape'
  BY BeginRoom DEF store, TypeOK
<1>3. ThreadShape'
  BY DEF ThreadShape, TypeOK
<1>4. OneReaderPerKey'
  BY CacheAssumption DEF OneReaderPerKey, Leads, TypeOK, flightv, ThreadShape
<1>5. Held'
  BY AnswerFacts DEF Held, TypeOK, store, flightv
<1>6. Agree'
  <2> SUFFICES ASSUME NEW j \in Keys \ raced
               PROVE  /\ \A u \in Threads : Populating(u, j)' => val'[u] = pool'[j]
                      /\ copy'[j] \notin {None, Bad} => copy'[j] = pool'[j] \/ \E u \in Threads : Owes(u, j)'
    BY DEF Agree
  <2>1. \A u \in Threads : (Populating(u, j)' => Populating(u, j)) /\ (Owes(u, j) => Owes(u, j)')
    BY DEF Populating, Owes, TypeOK
  <2> QED BY <2>1 DEF Agree, store
<1> QED BY <1>1, <1>2, <1>3, <1>4, <1>5, <1>6

\* A copy the cache engine serves is the answer.
LEMMA GetCacheStep ==
  ASSUME Inv, NEW t \in Threads, GetCache(t)
  PROVE  Inv'
<1> USE DEF Inv, GetCache, Goto
<1>0. key[t] \in Keys /\ op[t] = "get"
  BY DEF ThreadShape
<1>1. TypeOK'
  BY <1>0, AnswerFacts DEF TypeOK, store, flightv, evictv, fault, Serves
<1>2. SegShape'
  <2>1. Writers' \subseteq Writers
    BY DEF Writers, TypeOK
  <2> QED BY <2>1, RoomKept DEF store
<1>3. ThreadShape'
  BY <1>0 DEF ThreadShape, TypeOK
<1>4. OneReaderPerKey'
  BY DEF OneReaderPerKey, Leads, TypeOK, flightv, ThreadShape
<1>5. Held'
  BY <1>0, AnswerFacts, CacheAssumption DEF Held, TypeOK, store, flightv, Serves
<1>6. Agree'
  <2> SUFFICES ASSUME NEW j \in Keys \ raced'
               PROVE  /\ \A u \in Threads : Populating(u, j)' => val'[u] = pool'[j]
                      /\ copy'[j] \notin {None, Bad} => copy'[j] = pool'[j] \/ \E u \in Threads : Owes(u, j)'
    BY DEF Agree
  <2>1. \A u \in Threads : (Populating(u, j)' => Populating(u, j)) /\ (Owes(u, j) => Owes(u, j)')
    BY DEF Populating, Owes, TypeOK
  <2> QED BY <2>1 DEF Agree, store
<1> QED BY <1>1, <1>2, <1>3, <1>4, <1>5, <1>6

\* Self-heal: the copy is gone.
LEMMA GetHealStep ==
  ASSUME Inv, NEW t \in Threads, GetHeal(t)
  PROVE  Inv'
<1> USE DEF Inv, GetHeal, Goto
<1>0. key[t] \in Keys /\ op[t] = "get"
  BY DEF ThreadShape
<1>1. TypeOK'
  BY <1>0 DEF TypeOK, flightv, evictv, fault
<1>2. SegShape'
  <2>1. Writers' \subseteq Writers
    BY DEF Writers, TypeOK
  <2> QED BY <2>1, RoomKept
<1>3. ThreadShape'
  BY <1>0 DEF ThreadShape, TypeOK
<1>4. OneReaderPerKey'
  BY DEF OneReaderPerKey, Leads, TypeOK, flightv, ThreadShape
<1>5. Held'
  BY <1>0, AnswerFacts DEF Held, TypeOK, flightv
<1>6. Agree'
  <2> SUFFICES ASSUME NEW j \in Keys \ raced'
               PROVE  /\ \A u \in Threads : Populating(u, j)' => val'[u] = pool'[j]
                      /\ copy'[j] \notin {None, Bad} => copy'[j] = pool'[j] \/ \E u \in Threads : Owes(u, j)'
    BY DEF Agree
  <2>1. \A u \in Threads : (Populating(u, j)' => Populating(u, j)) /\ (Owes(u, j) => Owes(u, j)')
    BY DEF Populating, Owes, TypeOK
  <2> QED BY <2>1, <1>0 DEF Agree, TypeOK
<1> QED BY <1>1, <1>2, <1>3, <1>4, <1>5, <1>6

\* The pool answers; its body is in hand for the cache.
LEMMA GetPoolStep ==
  ASSUME Inv, NEW t \in Threads, GetPool(t)
  PROVE  Inv'
<1> USE DEF Inv, GetPool, Goto
<1>0. key[t] \in Keys /\ op[t] = "get"
  BY DEF ThreadShape
<1>1. TypeOK'
  BY <1>0, AnswerFacts DEF TypeOK, store, flightv, evictv, fault
<1>2. SegShape'
  <2>1. Writers' \subseteq Writers
    BY DEF Writers, TypeOK
  <2> QED BY <2>1, RoomKept DEF store
<1>3. ThreadShape'
  BY <1>0 DEF ThreadShape, TypeOK
<1>4. OneReaderPerKey'
  BY DEF OneReaderPerKey, Leads, TypeOK, flightv, ThreadShape
<1>5. Held'
  BY <1>0, AnswerFacts DEF Held, TypeOK, store, flightv
<1>6. Agree'
  <2> SUFFICES ASSUME NEW j \in Keys \ raced'
               PROVE  /\ \A u \in Threads : Populating(u, j)' => val'[u] = pool'[j]
                      /\ copy'[j] \notin {None, Bad} => copy'[j] = pool'[j] \/ \E u \in Threads : Owes(u, j)'
    BY DEF Agree
  <2>1. \A u \in Threads : Populating(u, j)' => (Populating(u, j) /\ u # t) \/ (u = t /\ key[t] = j)
    BY DEF Populating, TypeOK
  <2>2. \A u \in Threads : Owes(u, j) => Owes(u, j)'
    BY DEF Owes, TypeOK
  <2>3. Populating(t, j)' => val'[t] = pool[key[t]]
    BY DEF Populating, TypeOK
  <2> QED BY <2>1, <2>2, <2>3 DEF Agree, store, TypeOK
<1> QED BY <1>1, <1>2, <1>3, <1>4, <1>5, <1>6

\* The error of the pool is the answer.
LEMMA GetPoolFailsStep ==
  ASSUME Inv, NEW t \in Threads, GetPoolFails(t)
  PROVE  Inv'
<1> USE DEF Inv, GetPoolFails, Goto
<1>0. key[t] \in Keys /\ op[t] = "get"
  BY DEF ThreadShape
<1>1. TypeOK'
  BY <1>0, AnswerFacts, ErrorTypes DEF TypeOK, store, flightv, evictv
<1>2. SegShape'
  <2>1. Writers' \subseteq Writers
    BY DEF Writers, TypeOK
  <2> QED BY <2>1, RoomKept DEF store
<1>3. ThreadShape'
  BY <1>0 DEF ThreadShape, TypeOK
<1>4. OneReaderPerKey'
  BY DEF OneReaderPerKey, Leads, TypeOK, flightv, ThreadShape
<1>5. Held'
  BY AnswerFacts DEF Held, TypeOK, store, flightv
<1>6. Agree'
  <2> SUFFICES ASSUME NEW j \in Keys \ raced'
               PROVE  /\ \A u \in Threads : Populating(u, j)' => val'[u] = pool'[j]
                      /\ copy'[j] \notin {None, Bad} => copy'[j] = pool'[j] \/ \E u \in Threads : Owes(u, j)'
    BY DEF Agree
  <2>1. \A u \in Threads : (Populating(u, j)' => Populating(u, j)) /\ (Owes(u, j) => Owes(u, j)')
    BY DEF Populating, Owes, TypeOK
  <2> QED BY <2>1 DEF Agree, store
<1> QED BY <1>1, <1>2, <1>3, <1>4, <1>5, <1>6

\* The leader's answer goes to the flight and to its followers.
LEMMA PublishStep ==
  ASSUME Inv, NEW t \in Threads, Publish(t)
  PROVE  Inv'
<1> USE DEF Inv, Publish, Published, Goto
<1>0. key[t] \in Keys /\ op[t] = "get"
  BY DEF ThreadShape
<1>1. TypeOK'
  BY <1>0 DEF TypeOK, store, flightv, evictv, fault
<1>2. SegShape'
  <2>1. Writers' \subseteq Writers
    BY DEF Writers, TypeOK
  <2> QED BY <2>1, RoomKept DEF store
<1>3. ThreadShape'
  BY <1>0 DEF ThreadShape, TypeOK
<1>4. OneReaderPerKey'
  BY <1>0 DEF OneReaderPerKey, Leads, TypeOK, ThreadShape
<1>5. Held'
  BY <1>0 DEF Held, TypeOK, store
<1>6. Agree'
  <2> SUFFICES ASSUME NEW j \in Keys \ raced'
               PROVE  /\ \A u \in Threads : Populating(u, j)' => val'[u] = pool'[j]
                      /\ copy'[j] \notin {None, Bad} => copy'[j] = pool'[j] \/ \E u \in Threads : Owes(u, j)'
    BY DEF Agree
  <2>1. \A u \in Threads : (Populating(u, j)' => Populating(u, j)) /\ (Owes(u, j) => Owes(u, j)')
    BY DEF Populating, Owes, TypeOK
  <2> QED BY <2>1 DEF Agree, store
<1> QED BY <1>1, <1>2, <1>3, <1>4, <1>5, <1>6

\* The flight leaves the map; its leader was the only reader of the key.
LEMMA RemoveStep ==
  ASSUME Inv, NEW t \in Threads, Remove(t)
  PROVE  Inv'
<1> USE DEF Inv, Remove, Return, Goto
<1>0. key[t] \in Keys /\ op[t] = "get"
  BY DEF ThreadShape
<1>1. TypeOK'
  BY <1>0 DEF TypeOK, store, evictv, fault
<1>2. SegShape'
  <2>1. Writers' \subseteq Writers
    BY DEF Writers, TypeOK
  <2> QED BY <2>1, RoomKept DEF store
<1>3. ThreadShape'
  BY <1>0 DEF ThreadShape, TypeOK
<1>4. OneReaderPerKey'
  BY <1>0, CacheAssumption DEF OneReaderPerKey, Leads, TypeOK, ThreadShape
<1>5. Held'
  BY <1>0, AnswerFacts DEF Held, TypeOK, store
<1>6. Agree'
  <2> SUFFICES ASSUME NEW j \in Keys \ raced'
               PROVE  /\ \A u \in Threads : Populating(u, j)' => val'[u] = pool'[j]
                      /\ copy'[j] \notin {None, Bad} => copy'[j] = pool'[j] \/ \E u \in Threads : Owes(u, j)'
    BY DEF Agree
  <2>1. \A u \in Threads : (Populating(u, j)' => Populating(u, j) /\ u # t) /\ (Owes(u, j) => Owes(u, j)')
    BY DEF Populating, Owes, TypeOK
  <2> QED BY <2>1 DEF Agree, store, TypeOK
<1> QED BY <1>1, <1>2, <1>3, <1>4, <1>5, <1>6

-----------------------------------------------------------------------------
(* Changes of the pool. *)

\* What a change of the pool's body does to the bodies held so far.
LEMMA SetPoolFacts ==
  ASSUME TypeOK, NEW k \in Keys, NEW b \in BodyOf[k] \cup {None}, SetPool(k, b)
  PROVE  /\ pool' \in [Keys -> Bodies \cup {None}] /\ ever' \in [Keys -> SUBSET Bodies]
         /\ pool'[k] = b /\ \A j \in Keys \ {k} : pool'[j] = pool[j]
         /\ \A j \in Keys : ever[j] \subseteq ever'[j]
         /\ b # None => b \in ever'[k]
BY BodyFacts DEF SetPool, TypeOK

\* put: the pool has the body, the cache not yet.
LEMMA PutPoolStep ==
  ASSUME Inv, NEW t \in Threads, NEW k \in Keys, NEW b \in BodyOf[k], Room, PutPool(t, k, b)
  PROVE  Inv'
<1> USE DEF Inv, PutPool, Return, Goto
<1>a. /\ pool' \in [Keys -> Bodies \cup {None}] /\ ever' \in [Keys -> SUBSET Bodies]
      /\ pool'[k] = b /\ \A j \in Keys \ {k} : pool'[j] = pool[j]
      /\ \A j \in Keys : ever[j] \subseteq ever'[j]
      /\ b # None => b \in ever'[k]
  BY SetPoolFacts
<1>b. /\ raced' \subseteq Keys /\ raced \subseteq raced'
      /\ k \notin raced' => b \notin Small /\ \A u \in Threads : ~Populating(u, k)
  BY DEF NoteRace, TypeOK
<1>c. b # None
  BY BodyFacts
<1>1. TypeOK'
  BY <1>a, <1>b, BodyFacts, SMTT(30) DEF TypeOK, flightv, evictv, fault
<1>2. SegShape'
  BY BeginRoom
<1>3. ThreadShape'
  BY DEF ThreadShape, TypeOK
<1>4. OneReaderPerKey'
  BY DEF OneReaderPerKey, Leads, TypeOK, flightv, ThreadShape
<1>5. Held'
  <2>1. \A j \in Keys : pool'[j] \in ever'[j] \cup {None} /\ copy'[j] \in ever'[j] \cup {None, Bad}
    BY <1>a, <1>c DEF Held
  <2>2. \A j \in Keys : done'[j].res = "Ok" => done'[j].body \in ever'[j]
    BY <1>a DEF Held, flightv
  <2>3. \A u \in Threads : pc'[u] = "populate" => val'[u] \in ever'[key'[u]]
    BY <1>a, <1>c DEF Held, ThreadShape, TypeOK
  <2>4. ans'[t].res # "Ok" /\ \A u \in Threads \ {t} : ans'[u] = ans[u] /\ key'[u] = key[u]
    BY AnswerFacts DEF TypeOK
  <2>5. \A u \in Threads : ans'[u].res = "Ok" => key'[u] \in Keys /\ ans'[u].body \in ever'[key'[u]]
    BY <1>a, <2>4 DEF Held
  <2> QED BY <2>1, <2>2, <2>3, <2>5 DEF Held
<1>6. Agree'
  <2> SUFFICES ASSUME NEW j \in Keys \ raced'
               PROVE  /\ \A u \in Threads : Populating(u, j)' => val'[u] = pool'[j]
                      /\ copy'[j] \notin {None, Bad} => copy'[j] = pool'[j] \/ \E u \in Threads : Owes(u, j)'
    BY DEF Agree
  <2>1. CASE j = k
    <3>1. b \notin Small /\ \A u \in Threads : ~Populating(u, k)
      BY <1>b, <2>1
    <3>2. Owes(t, k)'
      BY <3>1 DEF Owes, TypeOK
    <3>3. \A u \in Threads : Populating(u, k)' => u = t
      BY <3>1 DEF Populating, TypeOK
    <3>4. val'[t] = b
      BY <3>1 DEF TypeOK
    <3> QED BY <2>1, <3>2, <3>3, <3>4, <1>a
  <2>2. CASE j # k
    <3>1. \A u \in Threads : (Populating(u, j)' => Populating(u, j) /\ u # t) /\ (Owes(u, j) => Owes(u, j)')
      BY <2>2 DEF Populating, Owes, TypeOK
    <3> QED BY <2>2, <3>1, <1>a, <1>b DEF Agree, TypeOK
  <2> QED BY <2>1, <2>2
<1> QED BY <1>1, <1>2, <1>3, <1>4, <1>5, <1>6

\* delete: the pool has no body any more, the copy is still there.
LEMMA DeletePoolStep ==
  ASSUME Inv, NEW t \in Threads, NEW k \in Keys, Room, DeletePool(t, k)
  PROVE  Inv'
<1> USE DEF Inv, DeletePool, Goto
<1>a. /\ pool' \in [Keys -> Bodies \cup {None}] /\ ever' \in [Keys -> SUBSET Bodies]
      /\ pool'[k] = None /\ \A j \in Keys \ {k} : pool'[j] = pool[j]
      /\ \A j \in Keys : ever[j] \subseteq ever'[j]
  BY SetPoolFacts
<1>b. /\ raced' \subseteq Keys /\ raced \subseteq raced'
      /\ k \notin raced' => \A u \in Threads : ~Populating(u, k)
  BY DEF NoteRace, TypeOK
<1>1. TypeOK'
  BY <1>a, <1>b DEF TypeOK, flightv, evictv, fault
<1>2. SegShape'
  BY BeginRoom
<1>3. ThreadShape'
  BY DEF ThreadShape, TypeOK
<1>4. OneReaderPerKey'
  BY DEF OneReaderPerKey, Leads, TypeOK, flightv, ThreadShape
<1>5. Held'
  <2>1. \A j \in Keys : pool'[j] \in ever'[j] \cup {None} /\ copy'[j] \in ever'[j] \cup {None, Bad}
    BY <1>a DEF Held
  <2>2. \A j \in Keys : done'[j].res = "Ok" => done'[j].body \in ever'[j]
    BY <1>a DEF Held, flightv
  <2>3. \A u \in Threads : pc'[u] = "populate" => val'[u] \in ever'[key'[u]]
    BY <1>a DEF Held, ThreadShape, TypeOK
  <2>4. ans'[t].res # "Ok" /\ \A u \in Threads \ {t} : ans'[u] = ans[u] /\ key'[u] = key[u]
    BY AnswerFacts DEF TypeOK
  <2>5. \A u \in Threads : ans'[u].res = "Ok" => key'[u] \in Keys /\ ans'[u].body \in ever'[key'[u]]
    BY <1>a, <2>4 DEF Held
  <2> QED BY <2>1, <2>2, <2>3, <2>5 DEF Held
<1>6. Agree'
  <2> SUFFICES ASSUME NEW j \in Keys \ raced'
               PROVE  /\ \A u \in Threads : Populating(u, j)' => val'[u] = pool'[j]
                      /\ copy'[j] \notin {None, Bad} => copy'[j] = pool'[j] \/ \E u \in Threads : Owes(u, j)'
    BY DEF Agree
  <2>1. CASE j = k
    <3>1. Owes(t, k)' /\ \A u \in Threads : ~Populating(u, k)'
      BY <1>b, <2>1 DEF Owes, Populating, TypeOK
    <3> QED BY <2>1, <3>1
  <2>2. CASE j # k
    <3>1. \A u \in Threads : (Populating(u, j)' => Populating(u, j) /\ u # t) /\ (Owes(u, j) => Owes(u, j)')
      BY <2>2 DEF Populating, Owes, TypeOK
    <3> QED BY <2>2, <3>1, <1>a, <1>b DEF Agree, TypeOK
  <2> QED BY <2>1, <2>2
<1> QED BY <1>1, <1>2, <1>3, <1>4, <1>5, <1>6

\* A failing put or delete of the pool may have changed its body.
LEMMA PoolFailsStep ==
  ASSUME Inv, NEW t \in Threads, NEW k \in Keys, NEW b \in BodyOf[k] \cup {None}, PoolFails(t, k, b)
  PROVE  Inv'
<1> USE DEF Inv, PoolFails
<1>a. /\ pool' \in [Keys -> Bodies \cup {None}] /\ ever' \in [Keys -> SUBSET Bodies]
      /\ \A j \in Keys \ {k} : pool'[j] = pool[j]
      /\ pool'[k] # pool[k] => pool'[k] = b /\ (b # None => b \in ever'[k])
      /\ \A j \in Keys : ever[j] \subseteq ever'[j]
  <2>1. CASE SetPool(k, b)
    BY <2>1, SetPoolFacts
  <2>2. CASE UNCHANGED <<pool, ever, raced>>
    BY <2>2 DEF TypeOK
  <2> QED BY <2>1, <2>2
<1>b. /\ raced' \subseteq Keys /\ raced \subseteq raced' /\ (k \notin raced' => pool' = pool)
  BY DEF NoteRace, TypeOK
<1>1. TypeOK'
  BY <1>a, <1>b, AnswerFacts, ErrorTypes DEF TypeOK, flightv, evictv
<1>2. SegShape'
  <2>1. Writers' \subseteq Writers
    BY DEF Writers, TypeOK
  <2> QED BY <2>1, RoomKept
<1>3. ThreadShape'
  BY DEF ThreadShape, TypeOK
<1>4. OneReaderPerKey'
  BY DEF OneReaderPerKey, Leads, TypeOK, flightv, ThreadShape
<1>5. Held'
  <2>1. \A j \in Keys : pool'[j] \in ever'[j] \cup {None} /\ copy'[j] \in ever'[j] \cup {None, Bad}
    BY <1>a DEF Held, TypeOK
  <2>2. \A j \in Keys : done'[j].res = "Ok" => done'[j].body \in ever'[j]
    BY <1>a DEF Held, flightv
  <2>3. \A u \in Threads : pc'[u] = "populate" => val'[u] \in ever'[key'[u]]
    BY <1>a DEF Held, ThreadShape, TypeOK
  <2>4. ans'[t].res # "Ok" /\ \A u \in Threads \ {t} : ans'[u] = ans[u] /\ key'[u] = key[u]
    BY AnswerFacts DEF TypeOK
  <2>5. \A u \in Threads : ans'[u].res = "Ok" => key'[u] \in Keys /\ ans'[u].body \in ever'[key'[u]]
    BY <1>a, <2>4 DEF Held
  <2> QED BY <2>1, <2>2, <2>3, <2>5 DEF Held
<1>6. Agree'
  <2> SUFFICES ASSUME NEW j \in Keys \ raced'
               PROVE  /\ \A u \in Threads : Populating(u, j)' => val'[u] = pool'[j]
                      /\ copy'[j] \notin {None, Bad} => copy'[j] = pool'[j] \/ \E u \in Threads : Owes(u, j)'
    BY DEF Agree
  <2>1. \A u \in Threads : (Populating(u, j)' => Populating(u, j)) /\ (Owes(u, j) => Owes(u, j)')
    BY DEF Populating, Owes, TypeOK, ThreadShape
  <2> QED BY <2>1, <1>a, <1>b DEF Agree
<1> QED BY <1>1, <1>2, <1>3, <1>4, <1>5, <1>6

-----------------------------------------------------------------------------
(* Changes of the cache. *)

\* The copy goes after the body of the pool.
LEMMA DeleteCacheStep ==
  ASSUME Inv, NEW t \in Threads, DeleteCache(t)
  PROVE  Inv'
<1> USE DEF Inv, DeleteCache, WithoutCopy, Return, Goto
<1>0. key[t] \in Keys /\ op[t] = "delete"
  BY DEF ThreadShape
<1>1. TypeOK'
  BY <1>0 DEF TypeOK, flightv, evictv, fault
<1>2. SegShape'
  <2>1. Writers' \subseteq Writers
    BY DEF Writers, TypeOK
  <2> QED BY <2>1, RoomKept
<1>3. ThreadShape'
  BY <1>0 DEF ThreadShape, TypeOK
<1>4. OneReaderPerKey'
  BY DEF OneReaderPerKey, Leads, TypeOK, flightv, ThreadShape
<1>5. Held'
  BY <1>0, AnswerFacts DEF Held, TypeOK, flightv
<1>6. Agree'
  <2> SUFFICES ASSUME NEW j \in Keys \ raced'
               PROVE  /\ \A u \in Threads : Populating(u, j)' => val'[u] = pool'[j]
                      /\ copy'[j] \notin {None, Bad} => copy'[j] = pool'[j] \/ \E u \in Threads : Owes(u, j)'
    BY DEF Agree
  <2>1. \A u \in Threads : Populating(u, j)' => Populating(u, j) /\ u # t
    BY DEF Populating, TypeOK
  <2>2. \A u \in Threads : Owes(u, j) => Owes(u, j)' \/ key[t] = j
    BY DEF Owes, TypeOK
  <2> QED BY <2>1, <2>2, <1>0 DEF Agree, TypeOK
<1> QED BY <1>1, <1>2, <1>3, <1>4, <1>5, <1>6

\* cache.put: the body in hand is the copy; it owes nothing any more.
LEMMA PopulateStep ==
  ASSUME Inv, NEW t \in Threads, Populate(t)
  PROVE  Inv'
<1> USE DEF Inv, Populate, Goto
<1>0. key[t] \in Keys /\ val[t] \in ever[key[t]] /\ val[t] \in Bodies
  BY DEF ThreadShape, Held, TypeOK
<1>1. TypeOK'
  <2> DEFINE s == IF CacheFull THEN cactive + 1 ELSE cactive
  <2>1. s \in SegIds
    BY PopulateRoom DEF Writers
  <2> HIDE DEF s
  <2>2. size' = [size EXCEPT ![s] = @ + 1] /\ cactive' = s /\ cseg' = [cseg EXCEPT ![key[t]] = s]
    BY DEF s
  <2> QED BY <1>0, <2>1, <2>2 DEF TypeOK, flightv, evictv, fault
<1>2. SegShape'
  BY PopulateSeg
<1>3. ThreadShape'
  BY <1>0 DEF ThreadShape, TypeOK
<1>4. OneReaderPerKey'
  BY DEF OneReaderPerKey, Leads, TypeOK, flightv, ThreadShape
<1>5. Held'
  BY <1>0, AnswerFacts DEF Held, TypeOK, flightv
<1>6. Agree'
  <2> SUFFICES ASSUME NEW j \in Keys \ raced'
               PROVE  /\ \A u \in Threads : Populating(u, j)' => val'[u] = pool'[j]
                      /\ copy'[j] \notin {None, Bad} => copy'[j] = pool'[j] \/ \E u \in Threads : Owes(u, j)'
    BY DEF Agree
  <2>1. \A u \in Threads : Populating(u, j)' => Populating(u, j)
    BY DEF Populating, TypeOK
  <2>2. \A u \in Threads : Owes(u, j) => Owes(u, j)' \/ key[t] = j
    BY DEF Owes, TypeOK
  <2>3. key[t] = j => copy'[j] = pool[j]
    BY <1>0 DEF Agree, Populating, TypeOK
  <2> QED BY <2>1, <2>2, <2>3, <1>0 DEF Agree, TypeOK
<1> QED BY <1>1, <1>2, <1>3, <1>4, <1>5, <1>6

\* The oldest segment goes with the copies in it.
LEMMA EvictOldestStep ==
  ASSUME Inv, NEW t \in Threads, EvictOldest(t)
  PROVE  Inv'
<1> USE DEF Inv, EvictOldest, Goto
<1>0. PICK s \in CacheSealed :
        /\ freed' = [freed EXCEPT ![t] = FileSize(s)]
        /\ size' = [size EXCEPT ![s] = 0]
        /\ copy' = [k \in Keys |-> IF cseg[k] = s THEN None ELSE copy[k]]
  OBVIOUS
<1>1. TypeOK'
  <2>1. s \in SegIds
    BY DEF CacheSealed
  <2>2. FileSize(s) \in Nat
    BY <2>1, FileSizeType
  <2>3. copy' \in [Keys -> Bodies \cup {None, Bad}]
    BY <1>0 DEF TypeOK
  <2>4. size' \in [SegIds -> Nat] /\ freed' \in [Threads -> Nat]
    BY <1>0, <2>1, <2>2 DEF TypeOK
  <2> QED BY <2>3, <2>4 DEF TypeOK, flightv, fault
<1>2. SegShape'
  <2>1. SegShape /\ UNCHANGED cactive /\ size'[cactive] = size[cactive] /\ \A x \in SegIds : size'[x] \in {size[x], 0}
    BY <1>0 DEF CacheSealed, TypeOK
  <2>2. Writers' \subseteq Writers
    BY DEF Writers, TypeOK
  <2> QED BY <2>1, <2>2, RoomShrinks
<1>3. ThreadShape'
  BY DEF ThreadShape, TypeOK
<1>4. OneReaderPerKey'
  BY DEF OneReaderPerKey, Leads, TypeOK, flightv, ThreadShape
<1>5. Held'
  BY <1>0, AnswerFacts DEF Held, TypeOK, flightv
<1>6. Agree'
  <2> SUFFICES ASSUME NEW j \in Keys \ raced'
               PROVE  /\ \A u \in Threads : Populating(u, j)' => val'[u] = pool'[j]
                      /\ copy'[j] \notin {None, Bad} => copy'[j] = pool'[j] \/ \E u \in Threads : Owes(u, j)'
    BY DEF Agree
  <2>1. \A u \in Threads : (Populating(u, j)' => Populating(u, j)) /\ (Owes(u, j) => Owes(u, j)')
    BY DEF Populating, Owes, TypeOK
  <2>2. copy'[j] \in {copy[j], None}
    BY <1>0
  <2> QED BY <2>1, <2>2 DEF Agree
<1> QED BY <1>1, <1>2, <1>3, <1>4, <1>5, <1>6

\* A copy goes bad: it is never served again.
LEMMA RotStep ==
  ASSUME Inv, NEW k \in Keys, Rot(k)
  PROVE  Inv'
<1> USE DEF Inv, Rot
<1>1. TypeOK'
  BY DEF TypeOK, flightv, evictv
<1>2. SegShape'
  <2>1. Writers' \subseteq Writers
    BY DEF Writers, TypeOK
  <2> QED BY <2>1, RoomKept
<1>3. ThreadShape'
  BY DEF ThreadShape, TypeOK
<1>4. OneReaderPerKey'
  BY DEF OneReaderPerKey, Leads, TypeOK, flightv, ThreadShape
<1>5. Held'
  BY DEF Held, TypeOK, flightv
<1>6. Agree'
  <2> SUFFICES ASSUME NEW j \in Keys \ raced'
               PROVE  /\ \A u \in Threads : Populating(u, j)' => val'[u] = pool'[j]
                      /\ copy'[j] \notin {None, Bad} => copy'[j] = pool'[j] \/ \E u \in Threads : Owes(u, j)'
    BY DEF Agree
  <2>1. \A u \in Threads : (Populating(u, j)' => Populating(u, j)) /\ (Owes(u, j) => Owes(u, j)')
    BY DEF Populating, Owes, TypeOK
  <2> QED BY <2>1 DEF Agree, TypeOK
<1> QED BY <1>1, <1>2, <1>3, <1>4, <1>5, <1>6

\* Every operation is cut off; what it owed the cache is noted.
LEMMA RestartStep ==
  ASSUME Inv, Restart
  PROVE  Inv'
<1> USE DEF Inv, Restart
<1>1. TypeOK'
  <2>1. raced' \subseteq Keys
    BY DEF ThreadShape, TypeOK
  <2> QED BY <2>1, DataBytesType DEF TypeOK, store
<1>2. SegShape'
  <2>1. Writers' \subseteq Writers
    BY DEF Writers, TypeOK
  <2> QED BY <2>1, RoomKept DEF store
<1>3. ThreadShape'
  BY DEF ThreadShape
<1>4. OneReaderPerKey'
  BY DEF OneReaderPerKey, Leads
<1>5. Held'
  BY AnswerFacts DEF Held, store
<1>6. Agree'
  <2> SUFFICES ASSUME NEW j \in Keys \ raced'
               PROVE  /\ \A u \in Threads : Populating(u, j)' => val'[u] = pool'[j]
                      /\ copy'[j] \notin {None, Bad} => copy'[j] = pool'[j] \/ \E u \in Threads : Owes(u, j)'
    BY DEF Agree
  <2>1. \A u \in Threads : ~Populating(u, j)' /\ ~Owes(u, j)
    BY DEF Populating, Owes
  <2> QED BY <2>1 DEF Agree, store, TypeOK
<1> QED BY <1>1, <1>2, <1>3, <1>4, <1>5, <1>6

-----------------------------------------------------------------------------
(* The theorems. *)

LEMMA InvInit == Init => Inv
<1> SUFFICES ASSUME Init PROVE Inv
  OBVIOUS
<1> USE CacheAssumption DEF Init
<1>1. TypeOK
  BY DEF TypeOK, SegIds
<1>2. SegShape
  <2>1. Writers = {}
    BY DEF Writers
  <2>2. Cardinality(Writers) = 0
    BY <2>1, FS_EmptySet
  <2>3. cactive = 0 /\ size[cactive] = 0 /\ \A s \in SegIds : size[s] = 0
    BY DEF SegIds
  <2>4. (MaxSegId - 0 + 1) * SegRecs \in Nat
    <3>1. MaxSegId - 0 + 1 \in Nat /\ SegRecs \in Nat
      OBVIOUS
    <3>2. \A x, y \in Nat : x * y \in Nat
      OBVIOUS
    <3> QED BY <3>1, <3>2
  <2> DEFINE all == (MaxSegId - 0 + 1) * SegRecs
  <2>5. all - size[cactive] >= Cardinality(Writers)
    <3> HIDE DEF all
    <3>1. all \in Nat
      BY <2>4 DEF all
    <3> QED BY <3>1, <2>2, <2>3
  <2> QED BY <2>3, <2>5 DEF SegShape
<1>3. ThreadShape /\ OneReaderPerKey
  BY DEF ThreadShape, OneReaderPerKey, Leads
<1>4. Held
  BY AnswerFacts DEF Held
<1>5. Agree
  BY DEF Agree, Populating
<1> QED BY <1>1, <1>2, <1>3, <1>4, <1>5 DEF Inv

LEMMA InvNext == Inv /\ [Next]_vars => Inv'
<1> SUFFICES ASSUME Inv, [Next]_vars PROVE Inv'
  OBVIOUS
<1>1. ASSUME NEW t \in Threads, Begin(t) PROVE Inv'
  BY <1>1, GetBeginStep, DeletePoolStep, PutPoolStep DEF Begin
<1>2. ASSUME NEW t \in Threads, Continue(t) PROVE Inv'
  BY <1>2, GetCacheStep, GetHealStep, GetPoolStep, PublishStep, RemoveStep, ReadSteps, DeleteCacheStep,
     PopulateStep, EvictionSteps, EvictOldestStep DEF Continue
<1>3. ASSUME NEW t \in Threads, CallFails(t) PROVE Inv'
  BY <1>3, ReadSteps, GetPoolFailsStep, EvictionSteps, PoolFailsStep DEF CallFails
<1>4. CASE UNCHANGED vars
  <2> USE <1>4 DEF vars, store, flightv, evictv, fault
  <2>1. TypeOK' /\ ThreadShape' /\ OneReaderPerKey' /\ Held'
    BY DEF Inv, TypeOK, ThreadShape, OneReaderPerKey, Leads, Held
  <2>2. SegShape'
    BY DEF Inv, SegShape, Writers
  <2>3. Agree'
    BY DEF Inv, Agree, Populating, Owes
  <2> QED BY <2>1, <2>2, <2>3 DEF Inv
<1> QED BY <1>1, <1>2, <1>3, <1>4, RotStep, RestartStep DEF Next

\* The inductive invariant holds in every reachable state of the cache tier,
\* whatever threads, failures, evictions and restarts do.
THEOREM InvHolds == Spec => []Inv
BY InvInit, InvNext, PTL DEF Spec

\* CacheTier::get coalesces concurrent gets: a key has at most one thread
\* between the inflight map and the removal, and the byte counter, loaded and
\* stored in two accesses, stays a natural number.
THEOREM SingleFlightHolds == Spec => []SingleFlight
<1>1. Inv => SingleFlight
  BY DEF Inv, SingleFlight
<1> QED BY <1>1, InvHolds, PTL

\* A get answers with a body the pool has held under its key.
THEOREM AnswersStaySound == Spec => []AnswersWerePut
<1>1. Inv => AnswersWerePut
  BY DEF Inv, Held, AnswersWerePut
<1> QED BY <1>1, InvHolds, PTL

\* Once nobody works on a key, its copy is the pool's body, unless a change
\* was left behind.
THEOREM CopiesStayCurrent == Spec => []CacheAgrees
<1>1. Inv => CacheAgrees
  <2> SUFFICES ASSUME Inv, NEW k \in Keys, Quiet(k), k \notin raced, copy[k] \notin {None, Bad}
               PROVE  copy[k] = pool[k]
    BY DEF CacheAgrees
  <2>1. \A t \in Threads : ~Owes(t, k)
    BY DEF Inv, ThreadShape, Quiet, Owes
  <2> QED BY <2>1 DEF Inv, Agree
<1> QED BY <1>1, InvHolds, PTL
=============================================================================
