# ozd: a TLA+ model of the store

ozd is an object store for one node with many disks: every disk has an engine
of append-only segment files and a redb index, a pool spreads keys over the
disks by weighted rendezvous hashing (mirrored or erasure coded), a cache tier
on NVMe sits in front of the pool, and a daemon runs the background loops
(garbage collection, scrub, heal, monitoring). This directory holds TLA+
modules of the parts where threads, crashes, files and clocks meet, TLC models of
them, and TLAPS proofs.

## 1. Inventory

Paths are under `src/crates/`. "Hard" names what a unit test hardly reaches.

| Component | State | Operations | Interacts with | Hard | Correct means |
|---|---|---|---|---|---|
| Disk engine (`ozd-engine/src/lib.rs`) | redb tables addr, inline, meta (discard counters), cursor | put, get, delete, flush, gc_once, sweep_orphans, evict_oldest_segment, open | segment writer behind a mutex, directory of files, index transactions | put in two halves, lock-free scans, index and files changed in separate steps, kill and power loss | an acked row leads to its body; a pass never changes what a key leads to; garbage is counted once; dead files go |
| Segment writer (`ozd-engine/src/segment.rs`) | active file, len, flush_offset, seg.meta | append, flush, rotate, failover_rotate, open with tail scan | the engine | torn tail, failover, order of sync and meta | a synced record is never lost; offsets are those of the file |
| Cache tier (`ozd-app/src/cache.rs`) | cache engine, byte counter, map of flights | get, put, delete, populate, maybe_evict, restart | pool, a disk engine | populate racing put/delete, followers waiting, counter without atomic update | answers were put; one reader per key; a quiet copy equals the pool |
| Pool, mirror (`ozd-app/src/pool.rs`) | R copies per key, heal queue, cursors | put_body, get_inner, repair_key_mirror, resilver, scrub, delete, list | engines, placement, heal queue | legs fail one by one, handoff, hedged reads, stale copies | an acked write is readable with R-1 disks down; repair converges |
| Heal queue (`pool.rs`) | heap, dedup map, seq | push, pop, mrf_drain | repair_key | cap, upgrade with stale heap entries, bulkhead slots | no queued key is forgotten; priority order; slots are returned |
| Pool, erasure (`pool.rs`, `erasure.rs`) | K+M pieces per key | put_ec, gather_ec, repair_key_ec, migrate_key | engines | mixed versions, migration in place | readable at every point of a migration |
| Topology (`pool.rs`, `health.rs`, `diskslow.rs`) | statuses, slow flags, TTL cache | observe, set_shard_status, topology | monitors, placement | a late store of an old topology | a faulted disk leaves placement |
| Placement (`placement.rs`) | none | select | pool | full and suspect disks | ranking is a permutation of the eligible disks |
| Throttle (`throttle.rs`) | tokens, rate | acquire_delay, update_config | all background work | debt, limits changed at run time | rate stays within its limits |
| Latency, metrics | two epochs of buckets and counts, counters | record, p99 | pool | rotation without stopping the recorders | p99 of recent reads |
| Verified reads, CAR (`verified.rs`, `car.rs`) | none / bounded channel | range reads, import | pool | a stalled producer or consumer | every block imported once |
| Daemon (`ozd-daemon/src/main.rs`) | tasks, shutdown flag, in-flight counter | start, monitors, scrub/migrate/drain/GC loops, shutdown | everything | drain racing a put, degraded start, loops that die | nothing acked before the final flush is lost; loops come round |
| Admin API (`ozd-admin/src/lib.rs`) | snapshot directories | resilver, scrub, migrate, gc, CAR, snapshots, retention | pool, engine files | hard links while segments rotate and go | a snapshot holds what was acked; retention keeps the newest |
| Gateway (`ozd-ipfs/src/lib.rs`) | outboards as pool keys | put, get with ranges, delete, ListObjectsV2 | pool | body and outboard written and read one by one | a range lies in its body and matches it |
| Rate limiter (`ozd-ipfs/src/ratelimit.rs`) | bucket per address | check, cleanup | gateway | a bucket dropped while in use | rate per address, nobody refused for others |
| ZFS adapter (`ozd-zfs`), benchmark client | none | zpool status; load | monitors | a command that hangs | a pool's state reaches its shard |

`PROJECT.json` lists the same parts with their status, and the hazards at the
lines where they bite.

## 2. Plan

| Step | Modules | State |
|---|---|---|
| 1 | `DiskEngine`, `EngineClaims`, `EngineDurability` | done |
| 2 | `CacheTier` | done |
| 3 | `HealQueue`, which implements the abstract `HealRequests` | done |
| 4 | `MirrorPool`: one key on R of N shards | done |
| 5 | `ErasurePool`: one key in K+M pieces, and its migration | done |
| 6 | `HealthFsm`, `Placement`, composed in `Topology` | done |
| 7 | `Walks`, composed with `CarImport` | done |
| 8 | `Throttle`, `RateLimit`, `LatencyWindow`, `Gateway`, `Snapshots` over one `Clock`, gathered in `Service` | done |
| 9 | `Segment`: byte-level appends, ENOSPC with ballast, failover, a lost `seg.meta`, rotten records under a scan | open |
| 10 | `DiskEngineProofs`, `CacheTierProofs`, `HealQueueProofs`, `MirrorPoolProofs`, `ErasurePoolProofs`, `ServiceProofs`, `TopologyProofs`, `WalksProofs` | done |
| 11 | proofs of `StaysReadable` and `SurvivesOneLoss` of `ErasurePool` | not provable: they do not hold for every budget of faults, see section 13 |

How the modules stand to each other: `DiskEngine` is one disk, with its files;
`MirrorPool` and `ErasurePool` take a disk as the one copy or piece it holds of
a key and a step as one call of it; `Sorting` is the sorted list that placement,
disk-slow monitor and listings share; the pools take their rankings as `Topology` shows
`Placement` to give them, and keep of `HealQueue` whether their key is asked for.
`Walks` visits keys, what a visit does is in the pool modules; `CarImport`
extends it and adds keys while walks run. `Gateway` takes a put, get or delete of
the pool as a step. `CacheTier` does so too.

## 3. DiskEngine

One disk. A step is what the code does between two points where another thread
may run: one index transaction, one critical section of the writer mutex, one
directory operation.

| Variables | Code |
|---|---|
| `files`, `body`, `synced` | segment files in the directory, their records, how much of each a power loss cannot take |
| `active`, `wlen`, `flushOffset`, `unflushed`, `meta` | `SegmentWriter` and `seg.meta` |
| `addr`, `inline`, `discard` | the redb tables |
| `ppc …`, `rpc …`, `gpc …` | program counter and locals of put, get, and of a collector or evictor |
| `kills`, `powers`, `ioErrors` | faults so far, bounded by constants |
| `raced`, `lost`, `skewed` | history: rows committed behind a reclaimer's liveness read (or into a file it took from the writer), rows whose unsynced body a power loss took or that a failed index read hid, segments reopened with a len that is not their file's |
| `durable`, `copies` | history of `EngineDurability`: keys whose present version reached the disk, and the rows that version has had |
| `exposed`, `presumed` | history of `EngineDurability`: keys that an unlink without a flush left without a copy on the disk, and records that a restart after a kill took for flushed |

A record is one unit long and an offset is the position of a record in its
segment. `SegAppend` is the whole of `append_with_flags` with the rotation and
the periodic flush inside it. A put is `PutAppend` then `PutCommit`; small
bodies take `PutInline`. `gc_once` is `GcBegin`, `GcPick`, `GcOpen`, then per
record `GcCheck`, `GcAppend`, `GcCas`, then `GcAccount`, `GcFlush`, `GcUnlink`,
`GcClear` and, in every fifth pass (`SweepEvery`), the sweep. `sealed_segments`
is two steps, because the mutex is released between the read of the active id
and the directory listing. Several collectors stand for the background loop and
the admin request; those in `Loops` die as the loop does when it unwraps a
missing victim. `Kill` and `PowerLoss` drop every thread and run the recovery of
`open`; a power loss leaves of each file any prefix that holds its synced part.

### Properties

* `RowsReadable`: a visible row leads to its body. The exceptions are named by
  the history variables and explained under "Exceptions" below.
* `GarbageCounted`: each record of a file is live, in flight or counted once, as
  long as no call fails, nothing crashes and nothing is evicted. A failed commit or
  a crash leaves records that are not counted (the sweep finds them), and
  `evict_oldest_segment` drops rows without counting their records.
* `GcKeepsBodies`: a pass never changes what a key leads to.
* `UnchangedRowIsLost`: get gives up on an unchanged row only for a lost body.
* `GetReturnsOwnBody`: never another key's body, not even where new records take
  the place of lost ones.
* `CopyStaysOnDisk`: a version that reached the disk keeps a copy there, until it
  is replaced.
* `DeadSegmentGoes`: a sealed file without references goes away while the
  background loop lives (and the bound on segment ids leaves room to append).

### Exceptions

The history variables stand for behaviours the code really has, which the
properties exclude by name:

* `raced`: a put or a collector appends to a segment and commits its row in a
  later transaction. A reclaimer that has judged the segment in between will
  unlink it. The same happens when a rotation
  falls between the two halves of `sealed_segments`: the new active file is
  then on the list of sealed ones.
* `lost`: a record whose row is committed but whose bytes are not yet synced at
  a power loss (also the collector's copy, whose row commits before the flush),
  and a row whose lookup fails in `gc_once` or `evict_oldest_segment`, where an
  error counts as "not alive".
* `skewed`: a segment that `open` created anew because its file was gone, while
  `seg.meta` still names an offset in it: the writer's len is not the file's.

`CopyStaysOnDisk` has two exceptions of its own, both found by taking them away:

* `exposed`: a collector moves a record and commits its row; before it flushes, the
  sweep of another pass finds the old segment without references and unlinks it.
  `gc_once` flushes before its own unlink, `sweep_orphans` and
  `evict_oldest_segment` do not.
* `presumed`: after a kill `open` takes the length of the file for flushed
  (`segment.rs:246`), so the flush before the next unlink does nothing, and a power
  loss takes the moved copy.

An eviction removes the rows of the keys its scan collected, wherever they point
by then (`EvictTxn`); the row of a put that came in between goes too. This makes
the body unreachable, never a row unreadable, so no property forbids it.

### Abstractions

* Record size is one: the discard ratio compares counts of records, where the
  code compares stored bytes with a file size that includes headers.
* The discard counters of all candidates are read with the listing (`GcPick`).
* The eviction's scan looks up all keys in one step.
* A record becomes visible to a scan as a whole; unlink and the rename of
  `seg.meta` are durable.
* A failed append (ENOSPC, ballast, failover) is not modelled; a failed index
  transaction, lookup, unlink or flush is.
* Compression and the era bit are carried by the row and change no control.

## 4. CacheTier

Threads run get, put and delete on the cache in front of the pool. The pool is
an atomic map whose calls may fail before or after their effect; the cache
engine is reduced to which copy a key has and in which segment file it lies.
Steps are single calls, critical sections and single atomic accesses: `get` is
`Join` (lead or follow), `GetCache`, `GetHeal`, `GetPool`, `Populate`,
`AddBytes`, the eviction loop (`EvictOldest`, `LoadBytes`, `StoreBytes`,
`CheckLow`), `Publish`, `Remove`; a follower waits for `Publish`. `Rot` makes a
copy fail its checksum, `Restart` cuts every operation off. `Room` bounds the
number of records ever written.

* `SingleFlight`: one reader per key through errors and evictions, and a byte
  counter that never goes below zero (in the type invariant).
* `AnswersWerePut`: a get answers with a body the pool has held.
* `CacheAgrees`: a quiet key's copy is the pool's body, except for the keys in
  `raced`: the pool changed while somebody had the old body in hand, the call on
  the cache failed or was cut off by a restart, or the new body is below
  `min_size`, where put leaves the old copy as it is.
* `GetsReturn`: no get waits for ever.

## 5. HealQueue and HealRequests

The heap is the sequence of its items in push order, `dedup` the map; an upgrade
of the importance leaves a stale item behind, `Pop` skips it. `Tick` starts
`mrf_drain`: a batch is popped under the lock, workers take indexes from a shared
counter (`Take`), slots disk by disk (`Slot`, one atomic increment; `GiveBack`
when it was one too many), call `Repair`, `Release` and `Resolve`; `Requeue`
pushes the deferred and failed keys again under the lock.

`HealRequests` is what the callers rely on: a key asked for stays asked for, at
the highest importance anybody gave it, until a repair of it succeeded, and only
an overflow may lose it. `KeepsRequests` is the refinement (`INSTANCE
HealRequests WITH`): a request is in the map, in the batch, with a worker or among
the deferred ones.

* `QueueSound`: every key of the map has its item (else it would be refused as a
  duplicate for ever), two workers never repair the same key, and a batch holds
  the most important requests.
* `Bulkhead`: slot counters are exact, no disk gets more repairs than its cap.
* `LoneRequestServed`: a request without rivals, on disks that answer and with a
  readable source, is served. With rivals two workers can defer each other's keys
  again and again, and a key of which no disk has a readable copy (`sourceless`:
  `repair_key` returns an error, `pool.rs:566`, 694) is put back after every drain
  for ever, so more cannot be promised.

`Repair` may succeed when the targets answer and there is a source, must when no disk
is down and there is one, and fails otherwise. Disks (`Flip`) and sources (`Source`)
come and go, at most `MaxTroubles` of them being gone at a time.

## 6. MirrorPool

One key. `copy[s]` is what a shard holds, `Bad` a record that fails its checksum.
put is `PutLeg` per shard in any order, `StartHandoff`, `Handoff` shard by shard,
`EndPut` (quorum, heal request); a lookup follows its call order with `Look`,
`Hedge` puts a second leg in flight, `GiveUp` and `Answer` end it; delete goes
through all shards and ignores errors; a repair (from the drain, the resilver or
the scrub, which first drops the bad copy) is `HasNext`, `SourceNext`, `CopyNext`,
`EndRepair`. Shards fail and come back (`Flip`), the ranking moves (`Move`), a
copy rots (`Rot`).

* `BodiesSound`: no call carries a body that failed its checksum, and an
  acknowledged body stays on some shard until a delete.
* `NothingOverlooked`: a lookup that says NotFound missed no shard that held a
  body and answered all along.
* `CopiesAgree`: with writes one at a time that reach their shards and a ranking
  at rest, copies never differ; otherwise (`blurred`) they may, see section 12.
* `HandoffHeals`: a put that lost a replica gets it back without being asked.

## 7. ErasurePool

One large key. A cell is empty, unreadable, a body, or piece i of a body;
`ec_decode` gives the body when the K pieces it uses are of one body and a
`Mixture` otherwise: the arithmetic of the code is a library. The get is `Probe`,
`GatherLeg`, `GatherNext` (further ranks, then parity), `ProbeOthers`, `Stray`;
the repair (`StartDrain`, `StartResilver`, or `StartScrub`, which waits for its
budget before `Drop` deletes the record) diagnoses the era and takes the mirror
path (all `MirrorHas` first, then `MirrorPut`) or the EC path; how it failed decides
who asks for it again (`EndRepair`); the migration
writes the tail (`TailPut`), reads it back (`Canary`), overwrites the heads one by
one (`HeadPut`, `HeadCanary`), removes strays, or rolls back. `Crash` drops all
calls.

* `PiecesSound`: while the ranking rests, a target holds only the piece of its rank.
* `StaysReadable`: a get is answered at every point of a migration, a repair or a
  scrub, also where two of them overlap, and after a crash in the middle of one. It
  promises this of puts that no other put, delete or migration of the key crossed
  (`held`), and not of a get that met the key half a body and half in pieces when a
  record had been lost to rot (`mixed`, `rotted`; see section 12).
* `SurvivesOneLoss`: with the pieces in place, a get returns the latest body with
  one shard down.
* `SurvivesFault` (run `ec_survives_fault`, violated): the same when placement also
  drops the shard, see section 12.

## 8. Topology, HealthFsm, Placement

`HealthFsm` is the table of `health.rs` and the reading of a zpool status.
`Placement` ranks by the product of weight (free bytes, a hundredth of them for a
Suspect disk) and the key's lot at the shard, a constant, where the code computes
-w / ln(h) in floating point. The ranking is `Sorted` of module `Sorting`, whose
i-th element is the one with i - 1 before it: what a sort of a total order
returns, in a form the provers can use. `Topology` composes them: the ZFS monitor (`Look`,
`Hang`, `Clear`, `SetCap`), the disk-slow monitor (`Measure`, `Flag`,
`ClearSlow`) with averages that recorders load and store in two accesses, and
callers of `topology()` that read statuses, capacities and flags one after
the other and store the result in the cache.

* `TopologySound`: a disk that did not open is no target (unless a zpool vouches
  for it), fewer than half of the disks are slow at once, a fault leaves
  the order of the other disks alone.
* `StaleAtMostTtl`: an old status lives at most one TTL after the calls that
  overlapped the change.
* `Hysteresis`, `Recovers`: status changes follow runs of observations, and a disk
  whose zpool stays clean is Online in the end.

## 9. Walks and CarImport

`List` is the engine's page over its two tables; a walk lists shard by shard or
merges the shards' pages, visits the keys, and saves its cursor. `resident` (in
the cursor and the walk) is history: copies that have stayed since the first page.
A client of S3 may name a start-after of its own. When it lies before the prefix
the scan stops at the first key between the two and the page is empty; `FromToken`
takes that for granted (the client is owed nothing then) and `PassExact` does not
speak of it. `CarImport` is a reader, a bounded channel and workers; an archive is
a header and frames with what is wrong with them; `bad_hash` is a sha2-256 that
differs, the only hash the code compares.

* `PassExact`: a finished pass visited every key that stayed, and an export or
  listing names none twice, through crashes, errors, steps of two requests on one
  cursor, and keys that come and go.
* `CursorTrailsWork`: a saved cursor never passes unvisited keys.
* `PassesComeRound`: migration loop and scrub loop reach first and last key again
  and again.
* `ReportAddsUp`: no frame without a CID, and with `verify` none whose body differs
  from it, is put, also by an import that gives up halfway (`imp.put` is history);
  a report adds up to the frames, and one without errors leaves every sound frame
  in the store.
* `ImportReturns`: reader and workers end on every way out.

## 10. Service

Five parts that share nothing but the clock. A behaviour of `Service` runs one of
them (`part`), so their state spaces add up and do not multiply. Time is counted
in ticks, `TPS` to the second.

* `Throttle`, `Paced`: what background tasks were charged stays within the
  ceiling for the time passed plus one second of burst and a chunk per task. The
  clock is read before the lock, so some time is refilled twice (`twice`). No task
  sleeps longer than one chunk of every task takes at the lowest rate, times the
  ratio of the highest rate to the lowest: a sleep is computed from the rate of the
  moment, and tasks whose rate fell meanwhile wake in debt and charge again. Nothing
  validates the limits, so a reload may bring zeros or a minimum above the maximum:
  `clamp` then panics and takes the reload task along, and at a rate of 0 a charge
  panics (`panics`, at most `MaxPanics`) instead of sleeping. The bounds are those of
  the code: the limits of the start, which a reload does not replace (section 12), and
  the clamped rates the reloads that came (`came`) may have left (`Highest`,
  `Lowest`). The second part is void once a reload brought a maximum of 0.
* `RateLimit`, `LimitsEachAlone`: over every interval an address gets at most its
  rate and burst, also across the cleanup, and a refused address has used its rate
  itself. `Enter` reads the clock and `Check` takes the lock later, so a request held
  up in between turns a bucket's time back and the same ticks are refilled twice. The
  intervals are therefore taken in a stretched time, the clock plus the ticks refilled
  twice (`regained`); it is the clock where no request overtakes another.
* `LatencyWindow`, `WindowSound`: no sample older than three windows less two ticks
  counts (an epoch lives for less than two windows and is then kept for less than one;
  the bound is reached), and counts differ from buckets by at most the records that
  raced a rotation.
* `Gateway`: `RangesSound`: a range lies within its body for every header and
  length, and "integrity" is answered only under a key put with two bodies.
  `DrainFlushesAll`: after a clean drain and flush only puts that were between
  gate and counter (`late`) can be unflushed. `DrainEnds`: the drain and the flush
  come to an end however long puts hang. The exit of the process is not promised: it
  waits for the open connections (section 12).
* `Snapshots`: a link may fail for any reason, and the answer is OK all the same;
  `missed` is what failed. `SnapshotComplete`: a snapshot that is answered for has
  every record acknowledged before it, wherever the collector moves records between
  its links, but for the records of files whose link failed, and unless it was
  deleted meanwhile. `RetentionKeepsNewest`: a snapshot that was answered for (`kept`)
  keeps every directory and link it had, whatever is unlinked, made or deleted
  beside it, until it is deleted by id or delete_old finds `keep` other directories
  as new by the clock. This needs the names of `chrono_lite` to order directories as
  the clock does over the ends of leap days, months and years. The other directories
  may be empty (section 12).

## 11. Runs, bounds, fairness

All constants are in the `.cfg` files, compound ones in the MC modules.

| Run | Instance |
|---|---|
| `engine_gc` | 2 putters (symmetric), 1 collector with sweep, 2 keys, 2 segments of 2 records |
| `engine_faults` | putter, reader, evictor, 2 keys, segments of 1 record, kill, power loss, I/O error |
| `engine_liveness` | background loop, 1 key with an inline body, 3 segments of 2 records, I/O error |
| `engine_durability` | putter, reader, collector, 1 key, 2 segments of 2 records, power loss, no kill (section 12); failed calls are in the two runs above |
| `cache_tier` | 2 threads, 1 key with 2 bodies (one below `min_size`), 3 segments, rot, failed call, restart |
| `heal_queue` | 3 keys on 2 disks in opposite orders, 2 priorities, cap 2, 2 workers, 1 slot per disk, batch 2, 3 requests, 1 disk down or 1 key without a source at a time |
| `mirror_pool` | 3 shards, R = 2, quorum 2, 2 bodies, 2 clients, 1 healer, 2 rankings |
| `ec_pool` | 4 shards, 2+1 pieces, R = 2, quorum 3, 2 clients and 2 healers (both symmetric) |
| `topology` | 3 disks (1 with a zpool), starts with no disk, disk 1 or disk 3 dead, TTL 1, 2 callers, 2 recorders |
| `walks` | 4 keys, 2 disks, batch 1, 2 requests, prefix of 3 keys, 2 import workers, channel of 1, with and without a `NullEngine` on disk 1 |
| `service` | 2 ticks a second; 2 tasks, chunks of 7, rates 5 to 10, one of 4 reloads (lower, higher, a maximum below the minimum, zeros), 2 panics, 3 ticks; 2 addresses, 2 callers, 2 a second, 5 requests; 2 recorders, a window of 2 ticks, 5 ticks; 2 connections, 3 bodies (one empty), 7 headers, 2 disks; 2 snapshot requests, 2 disks, 2 segments, 2 calendars, 4 scenarios |
| `ec_survives_fault` | 4 shards, 2+1 pieces, 1 client, one failure and one change of ranking; expected to fail |

Checked properties that are conjunctions (`QueueSound`, `PassExact`, ...) consist
of named parts with their own comments.

*Bounds.* Two segments to rotate between and one to move records to, a key that is
overwritten while it is collected, a crash with an unsynced tail, a cache that
evicts with two callers inside, two workers that need the same two disks, one more
shard than targets, a page of one key so that every key is a page boundary. In the
pool, topology, walk, gateway and snapshot modules the kinds of events are bounded
by `Budgets`: `Init` picks one scenario (how many puts, failures, moves, ...) and
each event uses up its share. A scenario combines the two or three kinds that
matter to each other; all kinds at once would only add interleavings of unrelated
steps. Deadlock is not checked, because a behaviour ends when its bounds are used
up. Every property has a mutant of a mapped definition that breaks it
(`PROJECT.json`).

*Fairness* is weak everywhere, and nothing is assumed of callers that have not
begun.

| Specification | Fair | Because |
|---|---|---|
| `EngineClaims!FairSpec` | steps of a collector | the daemon's loop ticks for ever; inside a pass a thread that can run does |
| `CacheTier!FairSpec` | a thread inside an operation | calls return |
| `HealQueue!FairSpec` | the drain and its workers | woken every five seconds; calls return |
| `MirrorPool!FairSpec` | clients inside a call, the healer with its drain | the same |
| `Topology!FairSpec` | the two monitors | tokio intervals; a hung command is given up after its timeout |
| `CarImport!CarFairSpec` | migration loop, scrub loop, the import's threads | intervals; threads run until they end |
| `Service!FairSpec` | the shutdown task | polls every 50 ms; requests may hang |

## 12. Observations

*Erasure coding after a fault* (run `ec_survives_fault`, `pool.rs:1370`).
`gather_ec` chooses ranks to read with `slots[*r].is_none()`, which compares a rank
with a piece index. Once a failed disk is marked Faulted it leaves the ranking and
later ranks shift by one. With 2+1 pieces the probe at rank 0 then fills slot 1, so
rank 1, which holds piece 2, is taken for filled and not read; the stray scan
leaves the targets out, and get fails although K pieces are on shards that answer,
until a resilver has moved the pieces.

The following came up while modelling. The models contain these behaviours, and
the properties name them as exceptions or do not speak about them.

* Engine. A put can commit a row into a segment that was sealed and swept between
  its two halves (`lib.rs:471` says a sealed segment gets no new reference); after
  a kill the tail scan brings back deleted or overwritten bodies (`lib.rs:200`
  calls recovery idempotent); after a kill the collector's flush is a no-op,
  because the reopened writer takes unsynced bytes for flushed (`segment.rs:246`);
  the GC loop ends for good when it unwraps a missing victim (`main.rs:828`); with
  two collectors the sweep of one can unlink a segment whose live record the other
  has moved but not flushed.
* Cache. A populate after a delete leaves a copy of the deleted body
  (`cache.rs:108`).
* Heal queue. A stale heap item can be taken for a later request of the same
  importance, which breaks first-come order within a priority; stale items
  accumulate; the queue is in memory only; a key without a readable source goes
  round through every drain for ever.
* Mirror. The fallback scan ignores errors, so NotFound may mean "not reachable";
  has() fails on any shard error; a repair racing a put can write the older body;
  a stale replica is never repaired, because has() is true for it; a scrub can
  delete a copy that was overwritten after it was read.
* Erasure. A get during an EC put over a mirrored key may find neither a body nor K
  pieces; with R = 3, K = 2, M = 1 a migrating object is
  unreadable after the first head; a crash in the head phase plus one lost disk is
  unreadable; while the heads are overwritten `gather_ec` passes over the bodies
  that targets still hold, so the key is readable throughout only if a tail of
  K + M - R pieces and one head reach K (R <= M + 1), and a record lost to rot then
  fails the get, where the comment at `pool.rs:1162` counts on "a body leg or K
  pieces"; a repair that read an old body before a delete and a put writes it over
  new pieces; with K <= R a missing tail is not noticed; an overwrite with a
  failed leg can leave pieces of two bodies. A migration that crosses a put can
  destroy what the put was acknowledged for: it reads the old body, its canary
  finds a piece of the new one at a tail rank and rolls back by deleting every tail
  rank (`pool.rs:1154`), the new pieces among them. With 3+2 pieces and quorum
  4 fewer than K are left, where the comment at `pool.rs:1046` promises a readable
  object at any point. A repair can undo a sound put: pieces handed off by an
  earlier put stay on their spares, an overwrite does not remove them, and
  `repair_key_ec` takes them when too few targets answer (`pool.rs:600`); it then
  rebuilds from pieces of two bodies and writes the result over a piece of the
  present one (5 shards, 2+1 pieces, two puts, two shards that fail and one of
  them back before the repair writes).
* Topology. A shard that failed to open but whose zpool is clean is set Online by
  the monitor's first tick (`main.rs:616`) and puts go to its `NullEngine`; a disk
  flagged slow gets no reads, so its average does not recover; with two disks none
  is ever slow; a full disk drops out of the ranking reads use too.
* Walks. A resilver that resumes at a stored cursor reports the whole pass as done;
  with a `NullEngine` on `shards[0]` no cursor is kept and the migration never gets
  past its first batch; a key that moves between shards while their pages are
  merged can be missed; max-keys=0 gives a truncated page without a token.
* Gateway and shutdown. Overwriting a large body by a small one (or a failed write
  of the outboard) leaves a stale outboard, and range requests answer 500 from then
  on; a put between gate and counter is acknowledged after the drain's flush;
  delete is neither gated nor counted; the flush stops at the first failing disk.
  The process exits only after the connections that are open: axum waits for them
  when the drain and its flush are done (`main.rs:888`), so a request that hangs holds
  the exit, where `Wiki/WEEKLY-ARCS.md:344` promises a clean exit within 30 s of a
  `kill -TERM`; and only ctrl_c (SIGINT) is listened for.
* Throttle. `update_config` moves the current rate into the new range but keeps
  the old limits (`throttle.rs:134`), although its comment says it updates them and
  W29 of `Wiki/WEEKLY-ARCS.md` that changed parameters apply; the next windows take
  the rate back. `ozd.example.toml` calls `bg_max_bytes_per_sec = 0` "throttling
  off"; brought by a reload, with the default minimum, it makes `clamp` panic and
  ends the reload task, and with a minimum of 0 too every charge panics
  (`from_secs_f64` of an infinite sleep) until the next adjustment of the rate.
* Rate limit. The clock is read before the lock (`ratelimit.rs:53`); a request that
  is overtaken turns `last` back, and the next one is refilled for the same time
  again, so that more than the rate can pass.
* Latency. A p99 can rest on samples almost three windows old, where
  `latency.rs:9` says one to two; the comment at line 95 says a silence of more than
  two windows where the code has two or more.
* Snapshots. Every error of `hard_link` is passed over (`ozd-admin/src/lib.rs:537`):
  with `snapshot_dir` on another file system (EXDEV) an empty snapshot is answered OK.
  A snapshot links the active segment although the comment at line 496 says it does
  not. Retention counts directories: what a failed snapshot left, and in the shared
  layout the directory of a deleted one. After create A, create B, delete B a
  retention of 1 removes A, the only snapshot, where line 664 and W31 of
  `Wiki/WEEKLY-ARCS.md` say all snapshots but the last N. Ids within one second are
  not in order and may collide.

## 13. Proofs

TLC checks the instances of section 11. The theorems hold for every value of the
constants that satisfies the named assumptions of the modules: any number of
threads, keys, shards, segments, requests and faults. In each module the proof is
the same argument: an inductive invariant, one lemma per action that the action
preserves it, and a last step that combines them. Each module begins with what it
needs about finite sets, sequences and minima; because the library's induction
schemes cannot be instantiated here, they derive what is needed (`NatLeast`,
`NatInd`, `FiniteInd`) for sets in place of predicates.

| Module | Theorem | States | Hypothesis besides the assumptions |
|---|---|---|---|
| `DiskEngineProofs` | `InvHolds`, `TypeCorrect`, `RowsStayReadable` | `Inv`, `TypeOK`, `RowsReadable` | |
| | `GetsReturnOwnBodies`, `GivesUpOnLostRows` | `GetReturnsOwnBody`, `UnchangedRowIsLost` | |
| | `PassesKeepBodies` | `GcKeepsBodies` | no kill, no power loss |
| | `PassesKeepSoundRows` | the same for rows not raced or lost | |
| | `CopiesStayOnDisk` | `CopyStaysOnDisk` | |
| | `GarbageIsCounted` | `GarbageCounted` | finite sets of keys, putters, collectors; no eviction, kill, power loss or failed call |
| `CacheTierProofs` | `SingleFlightHolds`, `AnswersStaySound`, `CopiesStayCurrent` | `SingleFlight`, `AnswersWerePut`, `CacheAgrees` | |
| `HealQueueProofs` | `QueueStaysSound`, `BulkheadHolds` | `QueueSound`, `Bulkhead` | |
| | `RequestsKept` | `KeepsRequests`, the refinement of `HealRequests` | |
| `MirrorPoolProofs` | `LookupsMissNothing`, `CopiesStayAgreed` | `NothingOverlooked`, `CopiesAgree` | |
| | `AckedBodiesSurvive` | `BodiesSound` | fewer copies rot than a put must reach |
| `ErasurePoolProofs` | `PiecesStayInPlace` | `PiecesSound` | |
| `TopologyProofs` | `RunsDecide`, `StaleForOneTtl`, `PlacementStaysSound` | `Hysteresis`, `StaleAtMostTtl`, `TopologySound` | |
| `WalksProofs` | `PassesAreExact`, `CursorsTrailWork` | `PassExact`, `CursorTrailsWork` | |
| | `CountsAddUp` | the counters of `ReportAddsUp` | |
| | `ReportsAddUp` | `ReportAddsUp`, with what an import may put | no scenario with an import and deletes |
| `ServiceProofs` | `RangesStaySound` | `RangesSound` | `ObMin > 0` |
| | `DrainLeavesNothing`, `SnapshotsStayComplete` | `DrainFlushesAll`, `SnapshotComplete` | |
| | `LimitsStaySeparate`, `WindowStaysSound` | `LimitsEachAlone`, `WindowSound` | |
| | `BackgroundStaysPaced` | `Paced` | |

*Disk engine.* `RowsReadable` is not inductive: an unlink keeps it only if no
visible row points into the file, and that depends on what the reclaimer did
steps before. `Inv` adds `Order` (ids grow, a copy lies behind its original),
`Aligned` (the writer knows the length of its file, except a skewed one, so an
append never lands on an existing record), `InFlight` (what a put or a collector
is about to commit is on its place), `RowKeys` (a row carries its own key) and
`Shielded`: no reclaimer has turned its back on a visible row that was committed
in time. This is the heart: between its liveness test and its unlink the
collector does not look at the index again, and `Shielded` says that every row
it would destroy has been moved, judged, or is on its list. `engine_faults`
checks `Inv`. For gets `ReadInv` adds what the row in a reader's hand may be by
now: still readable, or in a file that is gone, or raced or lost; a reader that
finds the same row again therefore knows that it is the row that is bad.
`StoredInv` serves `GcKeepsBodies`: every row, and every row about to be written,
leads to the record it was made for, because record places are never reused
while the process lives. After a crash they are: the row of a lost record may
lead to a newer record of the same key until the next commit, and a collector
that moves that record changes what the stale row leads to. Hence the hypothesis
of `PassesKeepBodies`, and `PassesKeepSoundRows` beside it.

`DurableInv` adds to `Inv` what the history is worth. A version's rows are of its
key and the present one is among them (`HistorySound`); a file has nothing
unsynced that the next flush would skip, but for the `presumed` records
(`FlushCovers`), because a segment is synced before it is sealed; and a durable
version has a copy on the disk that no pass is about to unlink (`Safe`), or is
excused by name. When a pass comes to its unlink it has flushed, so the copies it
made are on the disk and take the place of the victim's.

For `GarbageCounted` every step is shown to move at most one record from one of
the five counts to another: an append puts one in flight, a commit makes it live
and its predecessor garbage, a lost race makes the copy garbage. `GarbageInv`
carries what makes each move exact: nothing beyond the segments that exist is
counted (`Ahead`), and a pass remembers the copies it lost until it accounts for
them.

*Cache tier.* `Inv` joins the flight map to the program counters
(`OneReaderPerKey`, `ThreadShape`), the records to the files (`SegShape`, which
carries the byte counter), says of every body in hand that it was put (`Held`),
and, for `CacheAgrees`, that a key outside `raced` has nobody but its current
writer between pool and cache (`Agree`).

*Heal queue.* `Inv` keeps apart the places where a key can be (`KeysApart`:
map, batch, workers, deferred), the items of the heap (`ItemsApart`) and says
what the batch has taken (`BatchTaken`). The refinement maps the importance of a
request to the largest one among those places; every step of queue and drain is
shown to be a step of `HealRequests` or to change nothing there.

*Mirror pool.* The three invariants rest on `Types`, the shapes of calls, and on
what each action does to one call (`Turn`). `LookInv`: a shard that has been
readable all along is among those a lookup has yet to ask or waits for; the
fallback scan covers all shards, and the hedge takes a leg out of the same list.
`AgreeInv`: writers know of each other (`Covered`), so a write that saw no other
saw none, and while nothing blurred the copies, all of them are the latest body
and repairs carry it to replicas. `KeptInv`: there is a set of damaged shards
such that outside it more shards hold a body than may still rot. A put has at
least `Min({Quorum, Len(ranking)})` such shards when it is acknowledged; with as
many rotten copies the last sound one can rot, so the hypothesis is needed.

*Erasure pool.* A piece is written where the call's plan says, and calls last
long, so the invariant is about plans. `Shape` says of every call which of its
legs are ranks, which body it knows, and that what it has counted and what is still
to come fit the number of shards together. `Plan` says that, until the ranking
moves, the targets of a call are those of the ranking now, and the spares of a
handoff are nobody's rank. Hence every piece that a put, a repair, a migration or
its rollback stores is `AtHome`, and a deletion or a fault moves none.

*Service.* `GwInv` follows body and outboard of a key and the counter against the
connections. With `ob_min_size = 0` an empty body gets an outboard and its
verified slice is labelled as a range of an empty body; the default is far above
zero. `SnInv` says where each record lies that a snapshot under way owes (`Covers`):
in a segment it has linked or whose link failed, in one that is listed and to come, or
in a file of a disk that is to come; a collection copies a file in full before it is
unlinked, which keeps the last. `RtInv` says that the tokens of a bucket plus its
passed requests stay on the line of the rate (`Even`) from the stretched time up to
which it was refilled, also for an address without a bucket. `LtInv` bounds the age of the
samples of either epoch by the stage of a rotation and counts the threads that
have added to a bucket and not yet to the count.

`ThInv` is stated for two rates hi and lo that all limits so far lie between
(`Within`), and `ThAll` has it for every such pair, because which reloads are still to
come is not known. It counts, in place of a sum over tasks, the tasks that are asleep: at any
time w to come, only a task that still sleeps at w can have spent more than was
refilled by then (`ThBudget`), and of the debt that the lowest rate leaves at w,
`ThDebt` owes one chunk to each task *behind* w, that is with a clock read
after w or a sleep beyond it; the rest is what falls of the rate left unpaid. A
charge moves one task behind the end of its own sleep, which pays the highest
rate's part of the debt (`PaidPart`). That the rest needs the ratio of the rates
came out of this proof: two chunks per task, the bound one expects with a steady
rate, is exceeded when the rate is halved again and again while tasks sleep.

*Topology.* `Inv` joins four parts. Behind each state of a health machine stands
the run of observations that led to it (`Runs`), which gives `Hysteresis`. For
`StaleAtMostTtl` it says what a call of `topology()` may hold by now: statuses
read before a change (`Statused`, `Slowed`) only while the call counts as late
for it, and a cached topology that differs from the statuses has been calm no
longer than its age (`Cached`). `DeadOut` says that a disk that did not open is
Faulted in the pool, in the cache and in every call's hands. For the ranking,
lemmas (`PlacesTaken`, `PlacesGiveOne`) show that a list whose i-th element has i - 1 elements before it
is the only list in that order; taking a Faulted disk out lowers the places of
those behind it and keeps the order. At most half of the disks are slower than
the median, so with a factor of at least one fewer than half exceed it.

*Walks.* A page is the smallest keys of several disks' pages, so what one page
leaves out is the point: M *covers* k up to n when M has k, or n keys before it.
A disk's list covers each of its keys that lie behind the cursor up to the page
size, merging and cutting down to n keys keep this, and a page that is cut off
ends before any covered key that it lacks. `WalksInv` says this of the disks a
walk has asked so far (`Listing`); while the page is worked off, each copy that
stayed has been visited, is still on the page, or lies behind its last key
(`Visiting`); a cursor in hand, on disk or in the scrub loop's vector is
`Chained`: the copies up to it have been visited. Keys that come add nothing to
what is owed, and a removed copy is no longer owed to anybody. For an import,
every frame read so far is counted or with the sender, in the channel or with
a worker, and a worker ends only when the channel is closed and empty (`Counts`);
until a put fails, each sound frame read is under way or in the store
(`Stored`). The second needs that nothing is deleted meanwhile, hence the
hypothesis on the scenarios.

The assumptions were made no stronger than this needs: finite sets of threads,
keys, connections, background tasks, chunk sizes and reloaded configurations, a null value that is none of the data, targets of a key
that are different disks, a bucket that is dropped only when it would be full, at
least one import worker (`car.rs:194` clamps the number), no key in both
tables of an engine at the start, a factor and a sample threshold of the
disk-slow monitor that are at least one, a prefix that some key can have.

*Left to TLC.* Liveness under fairness (`DeadSegmentGoes`, `GetsReturn`,
`LoneRequestServed`, `HandoffHeals`, `Recovers`, `PassesComeRound`,
`ImportReturns`, `DrainEnds`): out of the prover's reach.
`RetentionKeepsNewest`: it rests on the order of calendar names, a computation.
`StaysReadable` and `SurvivesOneLoss`: they hold of the instance of `ec_pool`,
not for all values of the constants. With more replicas than pieces (R > K + M) a
handed-off piece can lie at a rank past the K + M that the read neither gathers nor
counts as a stray; each move of the ranking makes `gather_ec` skip ranks; and with
two puts, one repair and five changes of `down` in one behaviour the repair of
section 12 that mixes two bodies violates `SurvivesOneLoss`. What they promise
therefore holds for few faults at a time, as the budgets of `ec_pool` have them.

## 14. Not modelled

* Segment bytes: torn appends and ENOSPC with the ballast, `failover_rotate`, a
  lost rename of `seg.meta`, a rotten record in the middle of a scan (step 9).
* The index's logical sizes: `set_obj_logical`, `stat_obj`, the era backfill of
  `migrate_key`, compression. They change no control that the properties see.
* Reed-Solomon and hash arithmetic, floating-point scores, request signatures
  (`sigv4.rs`): libraries or pure computations with reference tests of their own.
* HTTP routing, headers, XML and Prometheus text, configuration parsing, CLI
  arguments, `zpool` output and properties: text.
* Admin reports (usage, capacity, structure, config) and `async_adapter.rs`, which
  only read or forward.
* The benchmark client, which is not part of the store.
