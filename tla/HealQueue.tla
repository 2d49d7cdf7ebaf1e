------------------------------ MODULE HealQueue ------------------------------
(***************************************************************************)
(* The queue of keys to repair and its drain (HealQueue, enqueue_heal and  *)
(* mrf_drain of crates/ozd-app/src/pool.rs, the drain loop of              *)
(* crates/ozd-daemon/src/main.rs).  The binary heap is the sequence of its *)
(* items in push order, so that an item's seq is its place; copies left    *)
(* behind by an upgrade of the importance stay in it until they surface.   *)
(*                                                                         *)
(* A step is one push or pop under the queue's lock, one atomic access to  *)
(* a disk's slot counter, or one call of repair_key.  The lock is held     *)
(* from the first to the last pop of a batch, and for the whole requeue.   *)
(***************************************************************************)
EXTENDS Integers, FiniteSets, FiniteSetsExt, Sequences, SequencesExt

CONSTANTS
  Keys, Disks,
  TargetsOf,      \* replicas_for: key -> sequence of its disks
  Prios,          \* HealPriority, as numbers from 1
  Cap,            \* HealQueue::CAP
  Parallelism,    \* cfg.heal_parallelism
  MaxPerShard,    \* cfg.heal_max_per_shard
  MaxBatch,       \* the argument of mrf_drain
  MaxAsks,        \* bound on requests from outside
  MaxTroubles     \* bound on disks down and keys without a source at a time

ASSUME HealAssumption ==
  /\ IsFiniteSet(Keys)
  /\ TargetsOf \in [Keys -> Seq(Disks)]
  /\ \A k \in Keys : IsInjective(TargetsOf[k])   \* the top disks of a ranking
  /\ Prios \subseteq Nat \ {0} /\ \E top \in Prios : \A p \in Prios : p <= top
  /\ Cap \in Nat \ {0} /\ Parallelism \in Nat \ {0} /\ MaxPerShard \in Nat \ {0}
  /\ MaxBatch \in Nat \ {0} /\ MaxAsks \in Nat /\ MaxTroubles \in Nat

VARIABLES
  heap, dedup,    \* items [key, prio] in push order; key -> prio, 0: absent
  phase,          \* of the drain: idle, pop, work, requeue
  batch, next,    \* keys taken, the shared index of the next one
  wpc, item, held, ok, \* per worker: where it is, its index, its slots, the repair's result
  inflight,       \* disk -> slots taken
  deferred,       \* items to push again
  down,           \* disks whose calls fail
  sourceless,     \* keys no disk has a readable body of, nor enough pieces
  asks

queue == <<heap, dedup>>
workers == <<wpc, item, held, ok>>
vars == <<heap, dedup, phase, batch, next, wpc, item, held, ok, inflight, deferred, down, sourceless, asks>>

W == 1 .. Parallelism
Item == [key : Keys, prio : Prios]
Queued == {k \in Keys : dedup[k] # 0}
KeyOf(w) == batch[item[w]].key
Targets(w) == TargetsOf[KeyOf(w)]
\* The queue's lock is free between a batch and the requeue.
Unlocked == phase \in {"idle", "work"}

Init ==
  /\ heap = << >> /\ dedup = [k \in Keys |-> 0]
  /\ phase = "idle" /\ batch = << >> /\ next = 1
  /\ wpc = [w \in W |-> "done"] /\ item = [w \in W |-> 0]
  /\ held = [w \in W |-> {}] /\ ok = [w \in W |-> FALSE]
  /\ inflight = [d \in Disks |-> 0] /\ deferred = << >>
  /\ down = {} /\ sourceless = {} /\ asks = 0

-----------------------------------------------------------------------------
(* The queue. *)

\* An upgrade of a queued key is accepted at the cap, a new key is not.
Accepts(k, p) == dedup[k] < p /\ (dedup[k] # 0 \/ Cardinality(Queued) < Cap)

\* Mutant: an upgrade changes the map and leaves the old heap item in charge.
PushUpgradeInPlace(k, p) ==
  IF Accepts(k, p)
  THEN /\ dedup' = [dedup EXCEPT ![k] = p]
       /\ heap' = IF dedup[k] = 0 THEN Append(heap, [key |-> k, prio |-> p]) ELSE heap
  ELSE UNCHANGED queue

Push(k, p) ==
  IF Accepts(k, p)
  THEN /\ dedup' = [dedup EXCEPT ![k] = p]
       /\ heap' = Append(heap, [key |-> k, prio |-> p])
  ELSE UNCHANGED queue

\* HealItem::cmp: the higher importance first, then the older item.
Top ==
  CHOOSE i \in DOMAIN heap : \A j \in DOMAIN heap :
    heap[j].prio < heap[i].prio \/ (heap[j].prio = heap[i].prio /\ i <= j)

Ask(k, p) ==
  /\ Unlocked /\ asks < MaxAsks
  /\ Push(k, p)
  /\ asks' = asks + 1
  /\ UNCHANGED <<phase, batch, next, workers, inflight, deferred, down, sourceless>>

-----------------------------------------------------------------------------
(* The drain. *)

Tick ==
  /\ phase = "idle" /\ Queued # {}
  /\ phase' = "pop"
  /\ UNCHANGED <<queue, batch, next, workers, inflight, deferred, down, sourceless, asks>>

\* One turn of pop's loop: an item that differs from the map is a stale copy.
Pop ==
  /\ phase = "pop" /\ heap # << >> /\ Len(batch) < MaxBatch
  /\ heap' = RemoveAt(heap, Top)
  /\ IF dedup[heap[Top].key] = heap[Top].prio
     THEN batch' = Append(batch, heap[Top]) /\ dedup' = [dedup EXCEPT ![heap[Top].key] = 0]
     ELSE UNCHANGED <<batch, dedup>>
  /\ UNCHANGED <<phase, next, workers, inflight, deferred, down, sourceless, asks>>

StartWorkers ==
  /\ phase = "pop" /\ (heap = << >> \/ Len(batch) = MaxBatch)
  /\ phase' = IF batch = << >> THEN "idle" ELSE "work"
  /\ wpc' = [w \in W |-> IF w <= Len(batch) THEN "take" ELSE "done"]
  /\ inflight' = [d \in Disks |-> 0]
  /\ UNCHANGED <<queue, batch, next, item, held, ok, deferred, down, sourceless, asks>>

Take(w) ==
  /\ phase = "work" /\ wpc[w] = "take"
  /\ next' = next + 1
  /\ IF next <= Len(batch)
     THEN wpc' = [wpc EXCEPT ![w] = "slot"] /\ item' = [item EXCEPT ![w] = next]
     ELSE wpc' = [wpc EXCEPT ![w] = "done"] /\ UNCHANGED item
  /\ UNCHANGED <<queue, phase, batch, held, ok, inflight, deferred, down, sourceless, asks>>

\* Mutant: one slot more than the limit.
SlotUnchecked(w) ==
  /\ wpc[w] = "slot" /\ Cardinality(held[w]) < Len(Targets(w))
  /\ LET t == Targets(w)[Cardinality(held[w]) + 1]
     IN  /\ inflight' = [inflight EXCEPT ![t] = @ + 1]
         /\ IF inflight[t] > MaxPerShard
            THEN wpc' = [wpc EXCEPT ![w] = "over"] /\ UNCHANGED held
            ELSE held' = [held EXCEPT ![w] = @ \cup {t}] /\ UNCHANGED wpc
  /\ UNCHANGED <<queue, phase, batch, next, item, ok, deferred, down, sourceless, asks>>

\* fetch_add on the counter of the next disk of the key.
Slot(w) ==
  /\ wpc[w] = "slot" /\ Cardinality(held[w]) < Len(Targets(w))
  /\ LET t == Targets(w)[Cardinality(held[w]) + 1]
     IN  /\ inflight' = [inflight EXCEPT ![t] = @ + 1]
         /\ IF inflight[t] >= MaxPerShard
            THEN wpc' = [wpc EXCEPT ![w] = "over"] /\ UNCHANGED held
            ELSE held' = [held EXCEPT ![w] = @ \cup {t}] /\ UNCHANGED wpc
  /\ UNCHANGED <<queue, phase, batch, next, item, ok, deferred, down, sourceless, asks>>

\* The disk is busy: give back the slot taken too many.
GiveBack(w) ==
  /\ wpc[w] = "over"
  /\ inflight' = [inflight EXCEPT ![Targets(w)[Cardinality(held[w]) + 1]] = @ - 1]
  /\ wpc' = [wpc EXCEPT ![w] = "release"]
  /\ UNCHANGED <<queue, phase, batch, next, item, held, ok, deferred, down, sourceless, asks>>

\* repair_key: nothing is left to do (the targets have the key, or what was
\* missing was written), or a call failed, or no readable source was found.
\* Which disks have the key lies outside this module: a disk that is down may
\* be the only source, and a healthy key needs none.
Repair(w) ==
  /\ wpc[w] = "slot" /\ Cardinality(held[w]) = Len(Targets(w))
  /\ \E r \in BOOLEAN :
       /\ r => Range(Targets(w)) \cap down = {} /\ KeyOf(w) \notin sourceless
       /\ down = {} /\ KeyOf(w) \notin sourceless => r
       /\ ok' = [ok EXCEPT ![w] = r]
  /\ wpc' = [wpc EXCEPT ![w] = "release"]
  /\ UNCHANGED <<queue, phase, batch, next, item, held, inflight, deferred, down, sourceless, asks>>

Release(w) ==
  /\ wpc[w] = "release" /\ held[w] # {}
  /\ LET d == SelectInSeq(Targets(w), LAMBDA t : t \in held[w])
     IN  /\ inflight' = [inflight EXCEPT ![Targets(w)[d]] = @ - 1]
         /\ held' = [held EXCEPT ![w] = @ \ {Targets(w)[d]}]
  /\ UNCHANGED <<queue, phase, batch, next, wpc, item, ok, deferred, down, sourceless, asks>>

\* Mutant: a key that was not healed is dropped.
ResolveForgets(w) ==
  /\ wpc[w] = "release" /\ held[w] = {}
  /\ wpc' = [wpc EXCEPT ![w] = "take"]
  /\ item' = [item EXCEPT ![w] = 0] /\ ok' = [ok EXCEPT ![w] = FALSE]
  /\ UNCHANGED <<queue, phase, batch, next, held, inflight, deferred, down, sourceless, asks>>

Resolve(w) ==
  /\ wpc[w] = "release" /\ held[w] = {}
  /\ deferred' = IF ok[w] THEN deferred ELSE Append(deferred, batch[item[w]])
  /\ wpc' = [wpc EXCEPT ![w] = "take"]
  /\ item' = [item EXCEPT ![w] = 0] /\ ok' = [ok EXCEPT ![w] = FALSE]
  /\ UNCHANGED <<queue, phase, batch, next, held, inflight, down, sourceless, asks>>

\* The scope has joined its threads.
Join ==
  /\ phase = "work" /\ \A w \in W : wpc[w] = "done"
  /\ phase' = "requeue" /\ batch' = << >> /\ next' = 1
  /\ UNCHANGED <<queue, workers, inflight, deferred, down, sourceless, asks>>

Requeue ==
  /\ phase = "requeue" /\ deferred # << >>
  /\ Push(Head(deferred).key, Head(deferred).prio)
  /\ deferred' = Tail(deferred)
  /\ UNCHANGED <<phase, batch, next, workers, inflight, down, sourceless, asks>>

EndDrain ==
  /\ phase = "requeue" /\ deferred = << >>
  /\ phase' = "idle"
  /\ UNCHANGED <<queue, batch, next, workers, inflight, deferred, down, sourceless, asks>>

Room == Cardinality(down) + Cardinality(sourceless) < MaxTroubles

\* A disk fails or comes back.
Flip(d) ==
  /\ \/ d \in down /\ down' = down \ {d}
     \/ d \notin down /\ Room /\ down' = down \cup {d}
  /\ UNCHANGED <<queue, phase, batch, next, workers, inflight, deferred, sourceless, asks>>

\* The key is deleted, or its last readable copy goes; it is put again.
Source(k) ==
  /\ \/ k \in sourceless /\ sourceless' = sourceless \ {k}
     \/ k \notin sourceless /\ Room /\ sourceless' = sourceless \cup {k}
  /\ UNCHANGED <<queue, phase, batch, next, workers, inflight, deferred, down, asks>>

Trouble == (\E d \in Disks : Flip(d)) \/ (\E k \in Keys : Source(k))

Work(w) == Take(w) \/ Slot(w) \/ GiveBack(w) \/ Repair(w) \/ Release(w) \/ Resolve(w)
Drain == Tick \/ Pop \/ StartWorkers \/ Join \/ Requeue \/ EndDrain

Next ==
  \/ \E k \in Keys, p \in Prios : Ask(k, p)
  \/ Drain
  \/ \E w \in W : Work(w)
  \/ Trouble

Spec == Init /\ [][Next]_vars

\* The loop is woken by its timer every five seconds; threads are scheduled
\* and every call returns.
Fairness == WF_vars(Drain) /\ \A w \in W : WF_vars(Work(w))
FairSpec == Spec /\ Fairness

-----------------------------------------------------------------------------
(* Properties. *)

\* Domains of the queue, of the drain's locals and of the counters.
TypeOK ==
  /\ heap \in Seq(Item) /\ dedup \in [Keys -> Prios \cup {0}]
  /\ phase \in {"idle", "pop", "work", "requeue"}
  /\ batch \in Seq(Item) /\ next \in Nat /\ deferred \in Seq(Item)
  /\ wpc \in [W -> {"take", "slot", "over", "release", "done"}]
  /\ item \in [W -> 0 .. MaxBatch] /\ held \in [W -> SUBSET Disks] /\ ok \in [W -> BOOLEAN]
  /\ inflight \in [Disks -> 0 .. MaxPerShard + Parallelism]
  /\ down \subseteq Disks /\ sourceless \subseteq Keys /\ asks \in 0 .. MaxAsks

\* Every key in the dedup map has a heap item of the same importance
\* (HealQueue::push, pop): without one the key would never be popped, and
\* every further request for it would be refused as a duplicate.
QueuedIsReachable ==
  \A k \in Queued : \E i \in DOMAIN heap : heap[i] = [key |-> k, prio |-> dedup[k]]

\* A slot counter is the number of workers that hold the disk or are about
\* to give it back (mrf_drain), and never more than MaxPerShard repairs run
\* on one disk at a time, whatever the order of the atomic accesses.
Bulkhead ==
  \A d \in Disks :
    /\ inflight[d] = Cardinality({w \in W : d \in held[w]})
         + Cardinality({w \in W : wpc[w] = "over" /\ Targets(w)[Cardinality(held[w]) + 1] = d})
    /\ Cardinality({w \in W : d \in held[w]}) <= MaxPerShard

\* Two workers never repair the same key at the same time, although the key
\* can be asked for again while its repair runs and stale copies of it lie in
\* the heap (pop removes a key from the map with its first item).
OneRepairPerKey ==
  \A v, w \in W : v # w /\ wpc[v] \in {"slot", "over", "release"} /\ wpc[w] \in {"slot", "over", "release"}
    => KeyOf(v) # KeyOf(w)

\* A batch holds the most important requests: nothing left in the queue
\* outranks what was taken (HealItem::cmp with the stale copies skipped).
BatchOutranksRest ==
  phase = "pop" => \A i \in DOMAIN batch, k \in Queued : dedup[k] <= batch[i].prio

\* Where a request for k can be: the queue, the batch, a worker, the deferred.
Unresolved(i) == i >= next \/ \E w \in W : wpc[w] \in {"slot", "over", "release"} /\ item[w] = i
Outstanding(k) ==
  Max({dedup[k]} \cup {batch[i].prio : i \in {j \in DOMAIN batch : batch[j].key = k /\ Unresolved(j)}}
                 \cup {deferred[i].prio : i \in {j \in DOMAIN deferred : deferred[j].key = k}})

\* The requests as HealRequests sees them.
Requests == INSTANCE HealRequests WITH
  req <- [k \in Keys |-> Outstanding(k)],
  fixed <- {KeyOf(w) : w \in {v \in W : wpc[v] = "release" /\ ok[v]}}

\* Refinement: the queue, its drain and the requeue keep every request at its
\* importance until a repair of the key succeeded, or the queue overflowed
\* (push at CAP drops a deferred key).
KeepsRequests == Requests!Spec

\* A request that is alone, whose disks answer and whose key has a readable
\* source does not wait forever: it is neither stuck in the queue nor deferred by
\* the drain again and again.  (Without a source repair_key fails on healthy
\* disks too, and mrf_drain pushes the key again for ever.)
LoneRequestServed ==
  \A k \in Keys : ~ <>[](down = {} /\ k \notin sourceless /\ {j \in Keys : Outstanding(j) # 0} = {k})

\* The queue stays sound under pushes, upgrades, pops and workers: no key is in
\* the map without its item, none is repaired twice at a time, and a batch holds
\* what matters most.
QueueSound == TypeOK /\ QueuedIsReachable /\ OneRepairPerKey /\ BatchOutranksRest
=============================================================================
