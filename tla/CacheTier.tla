------------------------------ MODULE CacheTier ------------------------------
(***************************************************************************)
(* The NVMe read leg in front of the pool: read-through with single-flight *)
(* coalescing of concurrent gets of a key, write-through, self-healing of  *)
(* bad copies and FIFO eviction by whole segments.  Source:                *)
(* crates/ozd-app/src/cache.rs.  The pool is a map with atomic operations  *)
(* (its failures are errors of the call); the cache engine is DiskEngine   *)
(* reduced to which copy a key has and in which segment file it lies.      *)
(*                                                                         *)
(* A thread runs one operation at a time; a step is one call of the pool   *)
(* or of the cache engine, one critical section, or one atomic access.     *)
(* The result of a flight is written once, so it is handed to the          *)
(* followers in the step that publishes it.                                *)
(***************************************************************************)
EXTENDS Integers, FiniteSets

CONSTANTS
  Keys, BodyOf,   \* BodyOf[k]: the bodies callers put under k
  Small,          \* the bodies below min_size: never cached
  None, Bad,      \* no body; a copy that fails its checksum
  Threads,
  MaxBytes,       \* cfg.max_bytes, 0 = no eviction
  BodySize, HeaderSize, \* what a record adds to the counter / besides that to its file
  SegRecs,        \* segment_max_size of the cache engine, in records
  MaxSegId,       \* bound on segment ids
  MaxRots, MaxErrors, MaxRestarts \* bounds: copies gone bad, failed calls, restarts

SegIds == 0 .. MaxSegId
Bodies == UNION {BodyOf[k] : k \in Keys}

ASSUME CacheAssumption ==
  /\ MaxBytes \in Nat /\ BodySize \in Nat \ {0} /\ HeaderSize \in Nat
  /\ SegRecs \in Nat \ {0} /\ MaxSegId \in Nat /\ MaxRots \in Nat /\ MaxErrors \in Nat /\ MaxRestarts \in Nat
  /\ IsFiniteSet(Threads) /\ None \notin Keys
  /\ None \notin Bodies \cup Threads /\ Bad \notin Bodies /\ Bad # None

Answer == [res : {"Ok", "NotFound", "Io"}, body : Bodies \cup {Bad, None}]
NoAnswer == [res |-> "none", body |-> None]
Found(b) == [res |-> "Ok", body |-> b]
NotFound == [res |-> "NotFound", body |-> None]
Failed == [res |-> "Io", body |-> None]

VARIABLES
  pool,           \* the inner store: key -> body or None
  copy, cseg,     \* the cache engine: key -> body, Bad or None, and its segment
  size, cactive,  \* records per cache segment file (0: no file), active segment
  bytes,          \* CacheTier.bytes
  inflight, done, \* key -> leader of the flight or None, and Flight.done
  pc, op, key,    \* per thread
  val, ans,       \* body in hand, answer of the current or last get
  freed, cur,     \* maybe_evict: freed and cur
  rots, errors, restarts, \* faults so far
  ever,           \* history: bodies the pool has held per key
  raced           \* history: keys whose copy a put or delete left behind: the
                  \* pool's body changed under a populate, the call on the cache
                  \* failed or was cut off, or the new body is too small to cache

store == <<pool, copy, cseg, size, cactive>>
flightv == <<inflight, done>>
evictv == <<freed, cur, bytes>>
fault == <<rots, errors, restarts>>
vars == <<store, evictv, flightv, pc, op, key, val, ans, fault, ever, raced>>

Init ==
  /\ pool = [k \in Keys |-> None] /\ copy = [k \in Keys |-> None] /\ cseg = [k \in Keys |-> 0]
  /\ size = [s \in SegIds |-> 0] /\ cactive = 0 /\ bytes = 0
  /\ inflight = [k \in Keys |-> None] /\ done = [k \in Keys |-> NoAnswer]
  /\ pc = [t \in Threads |-> "idle"] /\ op = [t \in Threads |-> "none"]
  /\ key = [t \in Threads |-> None] /\ val = [t \in Threads |-> None]
  /\ ans = [t \in Threads |-> NoAnswer]
  /\ freed = [t \in Threads |-> 0] /\ cur = [t \in Threads |-> 0]
  /\ rots = 0 /\ errors = 0 /\ restarts = 0
  /\ ever = [k \in Keys |-> {}] /\ raced = {}

-----------------------------------------------------------------------------
Goto(t, p) == pc' = [pc EXCEPT ![t] = p]
Error == errors < MaxErrors /\ errors' = errors + 1 /\ UNCHANGED <<rots, restarts>>

\* The operation is over; its locals are dropped.
Return(t, a) ==
  /\ Goto(t, "idle")
  /\ op' = [op EXCEPT ![t] = "none"] /\ val' = [val EXCEPT ![t] = None]
  /\ ans' = [ans EXCEPT ![t] = a]

\* A get's leader publishes its answer; a put returns.
AfterPopulate(t) ==
  IF op[t] = "get" THEN Goto(t, "publish") /\ UNCHANGED <<op, val, ans>> ELSE Return(t, NoAnswer)

\* A thread has a body of k in hand that it is about to write to the cache.
Populating(t, k) == pc[t] = "populate" /\ key[t] = k

\* The pool's body of k becomes b.
SetPool(k, b) ==
  /\ pool' = [pool EXCEPT ![k] = b]
  /\ ever' = [ever EXCEPT ![k] = @ \cup ({b} \ {None})]

\* The change of k is not followed by one of its copy, or overtakes another.
NoteRace(k, leftBehind) ==
  raced' = IF leftBehind \/ \E t \in Threads : Populating(t, k) THEN raced \cup {k} ELSE raced

-----------------------------------------------------------------------------
(* get *)

\* Mutant: a follower does not join, everyone reads for himself.
JoinAlone(t, k) ==
  /\ inflight' = [inflight EXCEPT ![k] = t] /\ done' = [done EXCEPT ![k] = NoAnswer]
  /\ Goto(t, "cache") /\ ans' = [ans EXCEPT ![t] = NoAnswer]

\* The critical section on the inflight map: lead a new flight or join one.
Join(t, k) ==
  IF inflight[k] = None
  THEN /\ inflight' = [inflight EXCEPT ![k] = t] /\ done' = [done EXCEPT ![k] = NoAnswer]
       /\ Goto(t, "cache") /\ ans' = [ans EXCEPT ![t] = NoAnswer]
  ELSE /\ Goto(t, "wait") /\ ans' = [ans EXCEPT ![t] = done[k]]
       /\ UNCHANGED flightv

GetBegin(t, k) ==
  /\ pc[t] = "idle"
  /\ op' = [op EXCEPT ![t] = "get"] /\ key' = [key EXCEPT ![t] = k]
  /\ Join(t, k)
  /\ UNCHANGED <<store, evictv, val, fault, ever, raced>>

\* Mutant: the copy is served without a checksum.
ServesUnchecked(b) == b # None

\* The cache engine serves only a copy that passes its checksum.
Serves(b) == b \notin {None, Bad}

GetCache(t) ==
  LET c == copy[key[t]]
  IN /\ pc[t] = "cache"
     /\ IF Serves(c) THEN Goto(t, "publish") /\ ans' = [ans EXCEPT ![t] = Found(c)]
        ELSE Goto(t, IF c = None THEN "pool" ELSE "heal") /\ UNCHANGED ans
     /\ UNCHANGED <<store, evictv, flightv, op, key, val, fault, ever, raced>>

\* An error of the cache engine other than NotFound is taken for a bad copy.
GetCacheFails(t) ==
  /\ pc[t] = "cache" /\ Error
  /\ Goto(t, "heal")
  /\ UNCHANGED <<store, evictv, flightv, op, key, val, ans, ever, raced>>

\* Self-heal: the bad copy is deleted before the pool is asked.
GetHeal(t) ==
  /\ pc[t] = "heal"
  /\ copy' = [copy EXCEPT ![key[t]] = None]
  /\ Goto(t, "pool")
  /\ UNCHANGED <<pool, cseg, size, cactive, evictv, flightv, op, key, val, ans, fault, ever, raced>>

\* The error of that delete is ignored.
GetHealFails(t) ==
  /\ pc[t] = "heal" /\ Error
  /\ Goto(t, "pool")
  /\ UNCHANGED <<store, evictv, flightv, op, key, val, ans, ever, raced>>

GetPool(t) ==
  LET b == pool[key[t]]
  IN /\ pc[t] = "pool"
     /\ ans' = [ans EXCEPT ![t] = IF b = None THEN NotFound ELSE Found(b)]
     /\ IF b = None \/ b \in Small
        THEN Goto(t, "publish") /\ UNCHANGED val
        ELSE Goto(t, "populate") /\ val' = [val EXCEPT ![t] = b]
     /\ UNCHANGED <<store, evictv, flightv, op, key, fault, ever, raced>>

GetPoolFails(t) ==
  /\ pc[t] = "pool" /\ Error
  /\ Goto(t, "publish") /\ ans' = [ans EXCEPT ![t] = Failed]
  /\ UNCHANGED <<store, evictv, flightv, op, key, val, ever, raced>>

\* Mutant: a failed read is not published.
PublishSuccess(t) == IF ans[t].res = "Ok" THEN ans[t] ELSE NoAnswer

\* What the leader writes to Flight.done: the body, or the error as a string.
Published(t) == ans[t]

Publish(t) ==
  LET k == key[t]
      followers == {u \in Threads : pc[u] = "wait" /\ key[u] = k /\ ans[u] = NoAnswer}
  IN /\ pc[t] = "publish"
     /\ done' = [done EXCEPT ![k] = Published(t)]
     /\ ans' = [u \in Threads |-> IF u \in followers THEN Published(t) ELSE ans[u]]
     /\ Goto(t, "remove")
     /\ UNCHANGED <<store, evictv, inflight, op, key, val, fault, ever, raced>>

\* The flight leaves the map after its result is there.
Remove(t) ==
  /\ pc[t] = "remove"
  /\ inflight' = [inflight EXCEPT ![key[t]] = None]
  /\ Return(t, ans[t])
  /\ UNCHANGED <<store, evictv, done, key, fault, ever, raced>>

\* A follower wakes up once done is set.
Wake(t) ==
  /\ pc[t] = "wait" /\ ans[t] # NoAnswer
  /\ Return(t, ans[t])
  /\ UNCHANGED <<store, evictv, flightv, key, fault, ever, raced>>

-----------------------------------------------------------------------------
(* put and delete *)

PutPool(t, k, b) ==
  /\ pc[t] = "idle"
  /\ key' = [key EXCEPT ![t] = k]
  /\ SetPool(k, b) /\ NoteRace(k, b \in Small)
  /\ IF b \in Small
     THEN Return(t, NoAnswer)
     ELSE Goto(t, "populate") /\ op' = [op EXCEPT ![t] = "put"] /\ val' = [val EXCEPT ![t] = b]
          /\ ans' = [ans EXCEPT ![t] = NoAnswer]
  /\ UNCHANGED <<copy, cseg, size, cactive, evictv, flightv, fault>>

DeletePool(t, k) ==
  /\ pc[t] = "idle"
  /\ key' = [key EXCEPT ![t] = k] /\ op' = [op EXCEPT ![t] = "delete"]
  /\ SetPool(k, None) /\ NoteRace(k, FALSE)
  /\ Goto(t, "delete")
  /\ ans' = [ans EXCEPT ![t] = NoAnswer]
  /\ UNCHANGED <<copy, cseg, size, cactive, evictv, flightv, val, fault>>

\* The pool's put or delete fails, before or after its effect: `?` returns the
\* error and the cache is left alone.
PoolFails(t, k, b) ==
  /\ pc[t] = "idle" /\ Error
  /\ key' = [key EXCEPT ![t] = k] /\ ans' = [ans EXCEPT ![t] = Failed]
  /\ (SetPool(k, b) /\ NoteRace(k, TRUE)) \/ UNCHANGED <<pool, ever, raced>>
  /\ UNCHANGED <<copy, cseg, size, cactive, evictv, flightv, pc, op, val>>

\* Mutant: the copy stays.
CopyKept(k) == copy

WithoutCopy(k) == [copy EXCEPT ![k] = None]

\* The cache copy goes after the pool's body.
DeleteCache(t) ==
  /\ pc[t] = "delete"
  /\ copy' = WithoutCopy(key[t])
  /\ Return(t, NoAnswer)
  /\ UNCHANGED <<pool, cseg, size, cactive, evictv, flightv, key, fault, ever, raced>>

\* The error of cache.delete is ignored.
DeleteCacheFails(t) ==
  /\ pc[t] = "delete" /\ Error
  /\ Return(t, NoAnswer)
  /\ NoteRace(key[t], TRUE)
  /\ UNCHANGED <<store, evictv, flightv, key, ever>>

-----------------------------------------------------------------------------
(* populate and maybe_evict *)

CacheFull == size[cactive] >= SegRecs

\* cache.put: the body goes to the active segment of the cache engine.
Populate(t) ==
  LET s == IF CacheFull THEN cactive + 1 ELSE cactive
  IN /\ pc[t] = "populate"
     /\ copy' = [copy EXCEPT ![key[t]] = val[t]] /\ cseg' = [cseg EXCEPT ![key[t]] = s]
     /\ size' = [size EXCEPT ![s] = @ + 1] /\ cactive' = s
     /\ Goto(t, "add")
     /\ UNCHANGED <<pool, evictv, flightv, op, key, val, ans, fault, ever, raced>>

\* A failed populate is not fatal.
PopulateFails(t) ==
  /\ pc[t] = "populate" /\ Error
  /\ AfterPopulate(t)
  /\ raced' = IF op[t] = "put" THEN raced \cup {key[t]} ELSE raced
  /\ UNCHANGED <<store, evictv, flightv, key, ever>>

AddBytes(t) ==
  /\ pc[t] = "add"
  /\ bytes' = bytes + BodySize
  /\ Goto(t, "evict")
  /\ UNCHANGED <<store, freed, cur, flightv, op, key, val, ans, fault, ever, raced>>

FileSize(s) == size[s] * (BodySize + HeaderSize)
CacheSealed == {s \in SegIds : s # cactive /\ size[s] > 0}
Low == MaxBytes - MaxBytes \div 10

\* Nothing to evict: off, within the budget, or only the active segment left.
EvictNothing(t) ==
  /\ pc[t] = "evict"
  /\ MaxBytes = 0 \/ bytes <= MaxBytes \/ CacheSealed = {}
  /\ AfterPopulate(t)
  /\ UNCHANGED <<store, evictv, flightv, key, fault, ever, raced>>

\* evict_oldest_segment: the file and the copies in it go.
EvictOldest(t) ==
  /\ pc[t] = "evict" /\ MaxBytes > 0 /\ bytes > MaxBytes
  /\ \E s \in CacheSealed :
       /\ \A u \in CacheSealed : s <= u
       /\ freed' = [freed EXCEPT ![t] = FileSize(s)]
       /\ size' = [size EXCEPT ![s] = 0]
       /\ copy' = [k \in Keys |-> IF cseg[k] = s THEN None ELSE copy[k]]
  /\ Goto(t, "load")
  /\ UNCHANGED <<pool, cseg, cactive, cur, bytes, flightv, op, key, val, ans, fault, ever, raced>>

EvictFails(t) ==
  /\ pc[t] = "evict" /\ MaxBytes > 0 /\ bytes > MaxBytes /\ Error
  /\ AfterPopulate(t)
  /\ UNCHANGED <<store, evictv, flightv, key, ever, raced>>

\* The counter is loaded and stored in two accesses, not decremented.
LoadBytes(t) ==
  /\ pc[t] = "load"
  /\ cur' = [cur EXCEPT ![t] = bytes]
  /\ Goto(t, "store")
  /\ UNCHANGED <<store, freed, bytes, flightv, op, key, val, ans, fault, ever, raced>>

\* saturating_sub: files hold headers that were never added.
LessFreed(t) == IF freed[t] > cur[t] THEN 0 ELSE cur[t] - freed[t]

StoreBytes(t) ==
  /\ pc[t] = "store"
  /\ bytes' = LessFreed(t)
  /\ freed' = [freed EXCEPT ![t] = 0] /\ cur' = [cur EXCEPT ![t] = 0]
  /\ Goto(t, "low")
  /\ UNCHANGED <<store, flightv, op, key, val, ans, fault, ever, raced>>

\* Below the low mark the loop ends, otherwise its condition is asked again.
CheckLow(t) ==
  /\ pc[t] = "low"
  /\ IF bytes <= Low THEN AfterPopulate(t) ELSE Goto(t, "evict") /\ UNCHANGED <<op, val, ans>>
  /\ UNCHANGED <<store, evictv, flightv, key, fault, ever, raced>>

\* A copy on the NVMe goes bad.
Rot(k) ==
  /\ rots < MaxRots /\ copy[k] \notin {None, Bad}
  /\ rots' = rots + 1 /\ UNCHANGED <<errors, restarts>>
  /\ copy' = [copy EXCEPT ![k] = Bad]
  /\ UNCHANGED <<pool, cseg, size, cactive, evictv, flightv, pc, op, key, val, ans, ever, raced>>

\* The size of all files; records are of one size.
Records == UNION {{s} \X (1 .. size[s]) : s \in SegIds}
DataBytes == Cardinality(Records) * (BodySize + HeaderSize)

\* The daemon stops and starts again: every operation is cut off where it is,
\* the counter is taken from the cache files (CacheTier::new).
Restart ==
  /\ restarts < MaxRestarts
  /\ restarts' = restarts + 1
  /\ bytes' = DataBytes
  /\ inflight' = [k \in Keys |-> None] /\ done' = [k \in Keys |-> NoAnswer]
  /\ pc' = [t \in Threads |-> "idle"] /\ op' = [t \in Threads |-> "none"]
  /\ key' = [t \in Threads |-> None] /\ val' = [t \in Threads |-> None]
  /\ ans' = [t \in Threads |-> NoAnswer]
  /\ freed' = [t \in Threads |-> 0] /\ cur' = [t \in Threads |-> 0]
  /\ raced' = raced \cup {key[t] : t \in {u \in Threads : pc[u] \in {"populate", "delete"}}}
  /\ UNCHANGED <<store, rots, errors, ever>>

\* Bound: an operation starts only while MaxSegId leaves room for its record
\* and for those of the operations under way, each of which writes at most one.
Room ==
  (MaxSegId - cactive + 1) * SegRecs - size[cactive]
    > Cardinality({t \in Threads : pc[t] \in {"cache", "heal", "pool", "populate"}})

Begin(t) ==
  \E k \in Keys : Room /\ (GetBegin(t, k) \/ DeletePool(t, k) \/ \E b \in BodyOf[k] : PutPool(t, k, b))
Continue(t) ==
  \/ GetCache(t) \/ GetHeal(t) \/ GetPool(t) \/ Publish(t) \/ Remove(t) \/ Wake(t) \/ DeleteCache(t)
  \/ Populate(t) \/ AddBytes(t)
  \/ EvictNothing(t) \/ EvictOldest(t) \/ LoadBytes(t) \/ StoreBytes(t) \/ CheckLow(t)
CallFails(t) ==
  \/ GetCacheFails(t) \/ GetHealFails(t) \/ GetPoolFails(t)
  \/ DeleteCacheFails(t) \/ PopulateFails(t) \/ EvictFails(t)
  \/ \E k \in Keys : \E b \in BodyOf[k] \cup {None} : PoolFails(t, k, b)

Next ==
  \/ \E t \in Threads : Begin(t) \/ Continue(t) \/ CallFails(t)
  \/ \E k \in Keys : Rot(k)
  \/ Restart

Spec == Init /\ [][Next]_vars
\* A thread that is inside an operation runs on.
FairSpec == Spec /\ \A t \in Threads : WF_vars(Continue(t))

-----------------------------------------------------------------------------
\* Every variable of the cache has its type; the byte counter, an unsigned
\* integer in the code, never goes below zero.
TypeOK ==
  /\ pool \in [Keys -> Bodies \cup {None}] /\ copy \in [Keys -> Bodies \cup {None, Bad}]
  /\ cseg \in [Keys -> SegIds] /\ size \in [SegIds -> Nat] /\ cactive \in SegIds /\ bytes \in Nat
  /\ inflight \in [Keys -> Threads \cup {None}] /\ done \in [Keys -> Answer \cup {NoAnswer}]
  /\ pc \in [Threads -> {"idle", "wait", "cache", "heal", "pool", "publish", "remove", "delete",
                         "populate", "add", "evict", "load", "store", "low"}]
  /\ op \in [Threads -> {"none", "get", "put", "delete"}] /\ key \in [Threads -> Keys \cup {None}]
  /\ val \in [Threads -> Bodies \cup {None}] /\ ans \in [Threads -> Answer \cup {NoAnswer}]
  /\ freed \in [Threads -> Nat] /\ cur \in [Threads -> Nat]
  /\ rots \in Nat /\ errors \in Nat /\ restarts \in Nat
  /\ ever \in [Keys -> SUBSET Bodies]
  /\ raced \subseteq Keys

Leads(t, k) == op[t] = "get" /\ key[t] = k /\ pc[t] \notin {"idle", "wait"}

\* "A hundred concurrent GETs = ONE read from disk" (#144): a key has at most
\* one thread between the inflight map and the removal, the one in the map.
OneReaderPerKey == \A k \in Keys, t \in Threads : Leads(t, k) => inflight[k] = t

\* Whatever evictions, self-heals and races did to the copy, a get answers
\* with a body the pool has held under that key, never with a bad copy.
AnswersWerePut ==
  \A t \in Threads : ans[t].res = "Ok" => ans[t].body \in ever[key[t]]

Quiet(k) == \A t \in Threads : op[t] = "none" \/ key[t] # k

\* The order "pool first, then the copy" of put and delete: once nobody works
\* on a key, its copy is the pool's body, unless a change of the pool's body met a
\* populate, a failing call or a restart, or was too small to be cached.
CacheAgrees ==
  \A k \in Keys : Quiet(k) /\ k \notin raced /\ copy[k] \notin {None, Bad} => copy[k] = pool[k]

\* No get waits forever: a follower is woken whatever the leader's read ended
\* with, and the eviction loop ends.
GetsReturn == \A t \in Threads : (op[t] = "get") ~> (op[t] = "none")

\* Single flight: on top of the types (the byte counter never goes below zero,
\* although it is loaded and stored in two accesses), one reader per key.
SingleFlight == TypeOK /\ OneReaderPerKey
=============================================================================
