------------------------------ MODULE Topology ------------------------------
(***************************************************************************)
(* Who learns of a failing disk, and when.  The ZFS monitor and the        *)
(* disk-slow monitor of the daemon (crates/ozd-daemon/src/main.rs) write   *)
(* statuses, slow flags and capacities into the pool; every operation      *)
(* places its key by a topology that the pool caches for a TTL             *)
(* (crates/ozd-app/src/pool.rs, diskslow.rs).  Time is counted in ticks of *)
(* which TTL make free_space_cache_ttl.                                    *)
(***************************************************************************)
EXTENDS HealthFsm, Placement, FiniteSetsExt

CONSTANTS
  R,                            \* cfg.replicas
  ZfsShards,                    \* disks with a zfs_pool in the configuration
  Starts,                       \* which disks may fail to open at the start
  TTL,
  Total, Frees,                 \* bytes of a disk; how many of them may be free
  Lats, Floor, Factor, MinSamples, \* latencies; abs_floor, rel_factor, min_samples
  Callers, Recorders,           \* operations that need a placement; that finish an I/O
  Events, Budgets               \* bounded kinds of events; how often each may happen, per scenario,
                                \* and which monitors the configuration turns on

ASSUME TopologyAssumption ==
  /\ R \in Shards /\ ZfsShards \subseteq Shards /\ Starts \subseteq SUBSET Shards /\ TTL \in Nat \ {0}
  /\ Total \in Nat /\ Frees \subseteq 0 .. Total /\ Frees # {}
  /\ Lats \subseteq Nat /\ Lats # {} /\ IsFiniteSet(Lats) /\ Floor \in Nat /\ Factor \in Nat \ {0} /\ MinSamples \in Nat \ {0}
  /\ Events = {"fault", "fill", "hang", "call", "tick", "io", "zfs_health", "disk_slow"}
  /\ Budgets \subseteq [Events -> Nat]

VARIABLES
  zpool, free,        \* the disks: zpool status and free bytes
  null,               \* disks whose engine did not open: NullEngine
  zfsm, sfsm,         \* the machines of the two monitors
  mon, dsk,           \* where the two monitor tasks are
  status, slow, caps, \* pool: statuses, slow_flags, cap_overrides
  topo,               \* pool: the cached topology and its age
  proc,               \* calls of topology() under way
  ewma, count, io,    \* DiskSlowMonitor (count up to MinSamples), and samples being recorded
  left,               \* how often each event may still happen
  good, downs, bad,   \* history: healthy observations in a row, Down and bad ones since a healthy one
  calm                \* history: ticks since the last change of the shard and the calls that overlapped it

disks == <<zpool, free, null>>
samples == <<ewma, count, io>>
history == <<good, downs, bad>>
vars == <<zpool, free, null, zfsm, sfsm, mon, dsk, status, slow, caps, topo, proc, ewma, count, io, left, good, downs, bad, calm>>

None == [total |-> -1, free |-> -1]
NoTopo == << >>
Idle == [pc |-> "idle", status |-> << >>, caps |-> << >>, slow |-> << >>, view |-> << >>, late |-> {}]
On(task) == left[task] > 0
Use(e) == left[e] > 0 /\ left' = [left EXCEPT ![e] = @ - 1]

\* The daemon has started with at least R engines; the others are Faulted.
Init ==
  /\ zpool = [s \in Shards |-> [state |-> "ONLINE", errors |-> FALSE]] /\ free = [s \in Shards |-> Max(Frees)]
  /\ null \in {S \in Starts : N - Cardinality(S) >= R}
  /\ zfsm = [s \in Shards |-> NewFsm] /\ sfsm = [s \in Shards |-> NewFsm]
  /\ mon = [at |-> 1, pc |-> "look", cap |-> None] /\ dsk = [at |-> 0, pc |-> "wait", slow |-> {}]
  /\ status = [s \in Shards |-> IF s \in null THEN "Faulted" ELSE "Online"]
  /\ slow = [s \in Shards |-> FALSE] /\ caps = [s \in Shards |-> None] /\ topo = NoTopo
  /\ proc = [p \in Callers |-> Idle]
  /\ ewma = [s \in Shards |-> 0] /\ count = [s \in Shards |-> 0] /\ io = [r \in Recorders |-> [s |-> 0, v |-> 0]]
  /\ left \in Budgets
  /\ good = [s \in Shards |-> 0] /\ downs = [s \in Shards |-> 0] /\ bad = [s \in Shards |-> 0]
  /\ calm = [s \in Shards |-> TTL]

-----------------------------------------------------------------------------
(* set_shard_status, set_shard_slow: the value, then the cache. *)

\* The cache is dropped; calls that are computing one hold an older reading.
Forget(s) ==
  /\ topo' = NoTopo /\ calm' = [calm EXCEPT ![s] = 0]
  /\ proc' = [p \in Callers |-> IF proc[p].pc \in {"caps", "slow", "store"} THEN [proc[p] EXCEPT !.late = @ \cup {s}] ELSE proc[p]]

-----------------------------------------------------------------------------
(* The ZFS monitor: the shards in turn, those without a pool skipped. *)

NextShard(s) == (s % N) + 1

Skip ==
  /\ mon.pc = "look" /\ mon.at \notin ZfsShards
  /\ mon' = [mon EXCEPT !.at = NextShard(mon.at)]
  /\ UNCHANGED <<disks, zfsm, sfsm, dsk, status, slow, caps, topo, proc, samples, left, history, calm>>

\* The observation moves the machine, and its status is set when it differs.
Judge(s, obs, cap) ==
  LET f == Observe(zfsm[s], obs) IN
  /\ zfsm' = [zfsm EXCEPT ![s] = f]
  /\ status' = [status EXCEPT ![s] = StatusOf(f)]
  /\ mon' = [mon EXCEPT !.pc = IF status[s] # StatusOf(f) THEN "clear" ELSE "cap", !.cap = cap]
  /\ good' = [good EXCEPT ![s] = IF obs = "Healthy" THEN IF @ < RecoverAfter THEN @ + 1 ELSE @ ELSE 0]
  /\ downs' = [downs EXCEPT ![s] = IF obs = "Healthy" THEN 0 ELSE IF obs = "Down" /\ @ < SuspectAfter THEN @ + 1 ELSE @]
  /\ bad' = [bad EXCEPT ![s] = IF obs = "Healthy" THEN 0 ELSE IF @ < SuspectAfter THEN @ + 1 ELSE @]
  /\ UNCHANGED <<disks, sfsm, dsk, slow, caps, topo, proc, samples, calm>>

Look ==
  /\ mon.pc = "look" /\ mon.at \in ZfsShards
  /\ Judge(mon.at, Observation(zpool[mon.at]), [total |-> Total, free |-> free[mon.at]])
  /\ UNCHANGED left

\* zpool does not answer within 30 s, the task within 60 s, or the command fails.
Hang ==
  /\ mon.pc = "look" /\ mon.at \in ZfsShards /\ On("zfs_health") /\ Use("hang")
  /\ Judge(mon.at, "Down", None)

Clear ==
  /\ mon.pc = "clear" /\ Forget(mon.at)
  /\ mon' = [mon EXCEPT !.pc = "cap"]
  /\ UNCHANGED <<disks, zfsm, sfsm, dsk, status, slow, caps, samples, left, history>>

\* set_shard_capacity leaves the cache alone.
SetCap ==
  /\ mon.pc = "cap"
  /\ caps' = IF mon.cap = None THEN caps ELSE [caps EXCEPT ![mon.at] = mon.cap]
  /\ mon' = [at |-> NextShard(mon.at), pc |-> "look", cap |-> None]
  /\ UNCHANGED <<disks, zfsm, sfsm, dsk, status, slow, topo, proc, samples, left, history, calm>>

-----------------------------------------------------------------------------
(* Latency samples and the disk-slow monitor. *)

\* record(): counts first, then stores a value made from what it loaded.
Record(r) == \E s \in Shards, l \in Lats :
  /\ Use("io") /\ io[r].s = 0
  /\ count' = [count EXCEPT ![s] = IF @ < MinSamples THEN @ + 1 ELSE @]
  /\ io' = [io EXCEPT ![r] = [s |-> s, v |-> IF count[s] = 0 THEN l ELSE (7 * ewma[s] + l) \div 8]]
  /\ UNCHANGED <<disks, zfsm, sfsm, mon, dsk, status, slow, caps, topo, proc, ewma, history, calm>>

Recorded(r) ==
  /\ io[r].s # 0
  /\ ewma' = [ewma EXCEPT ![io[r].s] = io[r].v]
  /\ io' = [io EXCEPT ![r] = [s |-> 0, v |-> 0]]
  /\ UNCHANGED <<disks, zfsm, sfsm, mon, dsk, status, slow, caps, topo, proc, count, left, history, calm>>

\* verdicts(): against the upper median of the shards with enough samples.
Taking == {s \in Shards : count[s] >= MinSamples}
Median ==
  LET q == Sorted(Taking, LAMBDA a, b : ewma[a] < ewma[b] \/ (ewma[a] = ewma[b] /\ a < b))
  IN  IF q = << >> THEN 0 ELSE ewma[q[(Len(q) \div 2) + 1]]
Slow == {s \in Taking : ewma[s] > Max({Floor, Factor * Median})}

Measure ==
  /\ dsk.pc = "wait"
  /\ dsk' = [at |-> 1, pc |-> "flag", slow |-> Slow]
  /\ UNCHANGED <<disks, zfsm, sfsm, mon, status, slow, caps, topo, proc, samples, left, history, calm>>

DskNext == IF dsk.at = N THEN [at |-> 0, pc |-> "wait", slow |-> {}] ELSE [dsk EXCEPT !.at = @ + 1, !.pc = "flag"]

Flag ==
  LET s == dsk.at
      f == Observe(sfsm[s], IF s \in dsk.slow THEN "Degraded" ELSE "Healthy")
      isSlow == StatusOf(f) # "Online" IN
  /\ dsk.pc = "flag"
  /\ sfsm' = [sfsm EXCEPT ![s] = f] /\ slow' = [slow EXCEPT ![s] = isSlow]
  /\ dsk' = IF slow[s] # isSlow THEN [dsk EXCEPT !.pc = "clear"] ELSE DskNext
  /\ UNCHANGED <<disks, zfsm, mon, status, caps, topo, proc, samples, left, history, calm>>

ClearSlow ==
  /\ dsk.pc = "clear" /\ Forget(dsk.at)
  /\ dsk' = DskNext
  /\ UNCHANGED <<disks, zfsm, sfsm, mon, status, slow, caps, samples, left, history>>

-----------------------------------------------------------------------------
(* topology() *)

\* A slow disk that is Online is placed as Suspect.
StatusView(st, isSlow) == IF st = "Online" /\ isSlow THEN "Suspect" ELSE st

\* A cache younger than the TTL is returned; otherwise the statuses are read.
\* Mutant: the age is not looked at.
CallForever(p) ==
  /\ Use("call") /\ proc[p] = Idle
  /\ proc' = [proc EXCEPT ![p] =
       IF topo # NoTopo THEN [Idle EXCEPT !.pc = "have", !.view = topo.view]
       ELSE [Idle EXCEPT !.pc = "caps", !.status = status]]
  /\ UNCHANGED <<disks, zfsm, sfsm, mon, dsk, status, slow, caps, topo, samples, history, calm>>

Call(p) ==
  /\ Use("call") /\ proc[p] = Idle
  /\ proc' = [proc EXCEPT ![p] =
       IF topo # NoTopo /\ topo.age < TTL THEN [Idle EXCEPT !.pc = "have", !.view = topo.view]
       ELSE [Idle EXCEPT !.pc = "caps", !.status = status]]
  /\ UNCHANGED <<disks, zfsm, sfsm, mon, dsk, status, slow, caps, topo, samples, history, calm>>

ReadCaps(p) ==
  /\ proc[p].pc = "caps"
  /\ proc' = [proc EXCEPT ![p].pc = "slow", ![p].caps = caps]
  /\ UNCHANGED <<disks, zfsm, sfsm, mon, dsk, status, slow, caps, topo, samples, left, history, calm>>

ReadSlow(p) ==
  /\ proc[p].pc = "slow"
  /\ proc' = [proc EXCEPT ![p].pc = "store", ![p].slow = slow]
  /\ UNCHANGED <<disks, zfsm, sfsm, mon, dsk, status, slow, caps, topo, samples, left, history, calm>>

\* Capacities without an override are asked of the engines; then the cache.
Usage(s) == IF s \in null THEN [total |-> 0, free |-> 0] ELSE [total |-> Total, free |-> free[s]]
View(q) ==
  [s \in Shards |->
     LET c == IF q.caps[s] # None THEN q.caps[s] ELSE Usage(s)
     IN  [total |-> c.total, free |-> c.free, status |-> StatusView(q.status[s], q.slow[s])]]

StoreTopo(p) ==
  LET q == proc[p] IN
  /\ q.pc = "store"
  /\ topo' = [view |-> View(q), age |-> 0]
  /\ proc' = [proc EXCEPT ![p] = [Idle EXCEPT !.pc = "have", !.view = View(q)]]
  /\ calm' = [s \in Shards |-> IF s \in q.late THEN 0 ELSE calm[s]]
  /\ UNCHANGED <<disks, zfsm, sfsm, mon, dsk, status, slow, caps, samples, left, history>>

\* The operation goes to select(view, n).
Placed(p) ==
  /\ proc[p].pc = "have"
  /\ proc' = [proc EXCEPT ![p] = Idle]
  /\ UNCHANGED <<disks, zfsm, sfsm, mon, dsk, status, slow, caps, topo, samples, left, history, calm>>

-----------------------------------------------------------------------------
(* Disks and time. *)

Fault(s) ==
  /\ Use("fault") /\ \E z \in Zpools : z # zpool[s] /\ zpool' = [zpool EXCEPT ![s] = z]
  /\ UNCHANGED <<free, null, zfsm, sfsm, mon, dsk, status, slow, caps, topo, proc, samples, history, calm>>

Fill(s) ==
  /\ Use("fill") /\ \E f \in Frees : f # free[s] /\ free' = [free EXCEPT ![s] = f]
  /\ UNCHANGED <<zpool, null, zfsm, sfsm, mon, dsk, status, slow, caps, topo, proc, samples, history, calm>>

\* Only ticks after the overlapping calls have stored count as calm.
Tick ==
  /\ Use("tick")
  /\ topo' = IF topo = NoTopo \/ topo.age = TTL THEN topo ELSE [topo EXCEPT !.age = @ + 1]
  /\ calm' = [s \in Shards |-> IF calm[s] < TTL /\ \A p \in Callers : s \notin proc[p].late THEN calm[s] + 1 ELSE calm[s]]
  /\ UNCHANGED <<disks, zfsm, sfsm, mon, dsk, status, slow, caps, proc, samples, history>>

Monitor == On("zfs_health") /\ (Skip \/ Look \/ Clear \/ SetCap)
DiskSlow == On("disk_slow") /\ (Measure \/ Flag \/ ClearSlow)

Next ==
  \/ Monitor \/ Hang \/ DiskSlow
  \/ \E r \in Recorders : Record(r) \/ Recorded(r)
  \/ \E p \in Callers : Call(p) \/ ReadCaps(p) \/ ReadSlow(p) \/ StoreTopo(p) \/ Placed(p)
  \/ \E s \in ZfsShards : Fault(s)
  \/ \E s \in Shards : Fill(s)
  \/ Tick

Spec == Init /\ [][Next]_vars

\* Both monitors are woken by tokio intervals, and a status command that hangs
\* is given up after its timeout.
Fairness == WF_vars(Monitor) /\ WF_vars(DiskSlow)
FairSpec == Spec /\ Fairness

-----------------------------------------------------------------------------
(* Properties. *)

\* Domains; a latency average stays within the latencies measured although
\* samples overwrite each other, and slowness alone never makes a disk Faulted.
TypeOK ==
  /\ zfsm \in [Shards -> Fsm] /\ sfsm \in [Shards -> Fsm]
  /\ \A s \in Shards : sfsm[s].st \in {"Online", "Suspect"}
  /\ status \in [Shards -> Statuses] /\ slow \in [Shards -> BOOLEAN]
  /\ ewma \in [Shards -> 0 .. Max(Lats)] /\ calm \in [Shards -> 0 .. TTL]
  /\ mon.pc \in {"look", "clear", "cap"} /\ dsk.pc \in {"wait", "flag", "clear"}

\* What a topology read now would say of s, unless a monitor has just written
\* it and not yet dropped the cache.
Current(s) == StatusView(status[s], slow[s])
Changing(s) == (mon.pc = "clear" /\ mon.at = s) \/ (dsk.pc = "clear" /\ dsk.at = s)

\* Dropping the cache after the status keeps stale placements short: once a
\* change has been announced and the calls that overlapped it have stored what
\* they read, no operation places by the old status for longer than one TTL.
StaleAtMostTtl ==
  [][\A p \in Callers, s \in Shards :
       proc[p].pc # "have" /\ proc'[p].pc = "have" /\ calm[s] >= TTL /\ ~ Changing(s)
         => proc'[p].view[s].status = Current(s)]_vars

\* The machine acts on runs of observations, not on single ones (HealthFsm):
\* a disk is trusted again only after RecoverAfter healthy observations in a
\* row, is suspected after SuspectAfter bad ones or a Down, and given up after
\* SuspectAfter Downs without a healthy one between them.
Hysteresis ==
  [][\A s \in Shards : zfsm'[s].st # zfsm[s].st =>
       /\ zfsm'[s].st = "Online" => good'[s] >= RecoverAfter
       /\ zfsm[s].st = "Online" => bad'[s] >= SuspectAfter \/ downs'[s] > 0
       /\ zfsm[s].st = "Suspect" /\ zfsm'[s].st = "Faulted" => downs'[s] >= SuspectAfter]_vars

\* A disk whose engine did not open is no target as long as no zpool vouches
\* for it: latencies and other disks' changes do not bring it back.
DeadShardStaysOut ==
  \A p \in Callers : proc[p].pc = "have" => Range(select(proc[p].view, R)) \cap (null \ ZfsShards) = {}

\* The disk-slow verdict singles out outliers: fewer than half of the disks
\* that take part can be slow at the same time (verdicts with rel_factor >= 1).
MinoritySlow == 2 * Cardinality(Slow) < Cardinality(Taking) \/ Slow = {}

\* Losing one disk moves no other: the ranking of a key without a Faulted disk
\* is the ranking with that disk left out, so copies on the other disks keep
\* their order (select; MirrorPool and ErasurePool take their rankings so).
FaultOnlyRemoves ==
  \A p \in Callers : proc[p].pc = "have" => \A s \in Shards :
    LET v == proc[p].view
    IN  Ranking([v EXCEPT ![s].status = "Faulted"]) = RemoveFirst(Ranking(v), s)

\* A disk whose zpool stays clean is Online in the end, whatever it went
\* through before (HealthFsm, the monitor loop).
Recovers ==
  \A s \in ZfsShards : On("zfs_health") /\ <>[](zpool[s] = [state |-> "ONLINE", errors |-> FALSE]) => <>[](status[s] = "Online")

\* What placement rests on: types, dead disks that stay out, slow verdicts that
\* single out a minority, and faults that leave the order of the others alone.
TopologySound == TypeOK /\ DeadShardStaysOut /\ MinoritySlow /\ FaultOnlyRemoves
=============================================================================
