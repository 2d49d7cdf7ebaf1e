----------------------------- MODULE DiskEngine -----------------------------
(***************************************************************************)
(* One disk of the store: the append-only segment files, the redb index    *)
(* that points into them, and the threads that use both at the same time:  *)
(* put and get callers, the garbage collector (background loop and admin   *)
(* request may overlap), the cache evictor, and a restart after a process  *)
(* kill or a power loss.  Source: crates/ozd-engine/src/lib.rs, with the   *)
(* segment writer (segment.rs) reduced to what the index sees of it.       *)
(*                                                                         *)
(* A step is what the code does between two points where another thread    *)
(* may run: one index transaction, one critical section of the writer      *)
(* mutex, one directory operation.  A record is one unit long, so an       *)
(* offset is the position of a record in its segment, counted from 1.      *)
(***************************************************************************)
EXTENDS Integers, Sequences, FiniteSets

CONSTANTS
  Keys,            \* block keys
  BodyOf,          \* BodyOf[k]: the bodies callers put under k (disjoint per key)
  Small,           \* the bodies below inline_min: stored in the index itself
  None,            \* no row / no body
  Putters,         \* threads inside put_impl
  Readers,         \* threads inside get
  Collectors,      \* threads that run gc_once
  Loops,           \* the collectors that are the daemon's background loop
  Evictors,        \* threads that run evict_oldest_segment
  MaxSegId,        \* bound: segment ids are 0..MaxSegId
  SegMax,          \* segment_max_size, in records
  FsyncItems,      \* fsync_items
  RatioNum, RatioDen, \* discard_ratio = RatioNum / RatioDen
  SweepEvery,      \* sweep_orphans runs in every SweepEvery-th pass (5)
  MaxKills, MaxPowerLosses, MaxIoErrors  \* bounds on the faults of a run

SegIds == 0 .. MaxSegId
Bodies == UNION {BodyOf[k] : k \in Keys}
Gcs == Collectors \cup Evictors

ASSUME BoundsAssumption ==
  /\ MaxSegId \in Nat /\ SegMax \in Nat \ {0} /\ FsyncItems \in Nat \ {0}
  /\ RatioNum \in Nat /\ RatioDen \in Nat \ {0} /\ SweepEvery \in Nat \ {0}
  /\ MaxKills \in Nat /\ MaxPowerLosses \in Nat /\ MaxIoErrors \in Nat
ASSUME NoneAssumption == None \notin Bodies
ASSUME LoopsAssumption == Loops \subseteq Collectors

Record == [key : Keys, body : Bodies]
Address == [seg : SegIds, off : Nat \ {0}]
\* An addr-table row; its CRC covers key and body and stands for them here.
Row == [seg : SegIds, off : Nat \ {0}, key : Keys, body : Bodies]
ASSUME RowAssumption == None \notin Row

VARIABLES
  files,        \* ids of the segment files in the directory
  body,         \* body[s]: the records of s (an open handle outlives an unlink)
  synced,       \* synced[s]: how many records of s a power loss cannot take
  active, wlen, \* SegmentWriter.seg_id and len
  flushOffset,  \* SegmentWriter.flush_offset
  unflushed,    \* SegmentWriter.unflushed_items
  meta,         \* seg.meta on disk: [seg, off]
  addr,         \* table "addr":   key -> row or None
  inline,       \* table "inline": key -> body or None
  discard,      \* table "meta":   discard.N
  ppc, pkey, pbody, pat,              \* put_impl: pc and locals
  rpc, rkey, rrow, rprev, rout,       \* get: pc, key, entry, prev, result
  gcPass,                             \* gc_pass_count modulo SweepEvery
  gpc, gvic, gpos, gat, gorph, gsweep, gdone, \* gc_once: pc, locals; victim_seg
  gact,                               \* sealed_segments: active
  grefs, gtodo, gkeys,                \* sweep_orphans: refs, list; evict: victims
  kills, powers, ioErrors,            \* faults so far
  raced,        \* history: rows committed behind a reclaimer's liveness read
  lost,         \* history: rows whose unsynced body a power loss took, or that a
                \* failed index read hid from a reclaimer
  skewed        \* history: segments reopened with a len that is not their file's

disk == <<files, body, synced, active, wlen, flushOffset, unflushed, meta>>
index == <<addr, inline, discard>>
putv == <<ppc, pkey, pbody, pat>>
getv == <<rpc, rkey, rrow, rprev, rout>>
pass == <<gvic, gpos, gat, gorph, gsweep>>
sweepv == <<gact, grefs, gtodo, gkeys>>
gcv == <<gcPass, gpc, gdone, pass, sweepv>>
faults == <<kills, powers, ioErrors>>
history == <<raced, lost, skewed>>
vars == <<disk, index, putv, getv, gcv, faults, history>>

Init ==
  /\ files = {0} /\ body = [s \in SegIds |-> <<>>] /\ synced = [s \in SegIds |-> 0]
  /\ active = 0 /\ wlen = 0 /\ flushOffset = 0 /\ unflushed = 0 /\ meta = [seg |-> 0, off |-> 0]
  /\ addr = [k \in Keys |-> None] /\ inline = [k \in Keys |-> None]
  /\ discard = [s \in SegIds |-> 0]
  /\ ppc = [p \in Putters |-> "idle"] /\ pkey = [p \in Putters |-> None]
  /\ pbody = [p \in Putters |-> None] /\ pat = [p \in Putters |-> None]
  /\ rpc = [r \in Readers |-> "idle"] /\ rkey = [r \in Readers |-> None]
  /\ rrow = [r \in Readers |-> None] /\ rprev = [r \in Readers |-> None]
  /\ rout = [r \in Readers |-> [res |-> "none", body |-> None]]
  /\ gcPass = 0
  /\ gpc = [g \in Gcs |-> "idle"] /\ gvic = [g \in Gcs |-> 0]
  /\ gpos = [g \in Gcs |-> 1] /\ gat = [g \in Gcs |-> None]
  /\ gorph = [g \in Gcs |-> [s \in SegIds |-> 0]] /\ gsweep = [g \in Gcs |-> FALSE]
  /\ gdone = [g \in Gcs |-> FALSE] /\ grefs = [g \in Gcs |-> {}] /\ gtodo = [g \in Gcs |-> {}]
  /\ gkeys = [g \in Gcs |-> {}] /\ gact = [g \in Gcs |-> 0]
  /\ kills = 0 /\ powers = 0 /\ ioErrors = 0 /\ raced = {} /\ lost = {} /\ skewed = {}

-----------------------------------------------------------------------------
(* The segment writer, as one critical section of its mutex. *)

\* flush() does nothing when it believes the tail is already on disk.
NothingToFlush == flushOffset = wlen /\ unflushed = 0

\* How many records of the active segment are durable once flush() returns.
SyncedByFlush == IF NothingToFlush THEN synced[active] ELSE Len(body[active])

\* SegmentWriter::flush: sync_data, then the recovery point into seg.meta.
Flush ==
  /\ synced' = [synced EXCEPT ![active] = SyncedByFlush]
  /\ flushOffset' = wlen
  /\ unflushed' = 0
  /\ meta' = IF NothingToFlush THEN meta ELSE [seg |-> active, off |-> wlen]
  /\ UNCHANGED <<files, body, active, wlen>>

Full == wlen >= SegMax
TargetSeg == IF Full THEN active + 1 ELSE active
NextAddr == [seg |-> TargetSeg, off |-> IF Full THEN 1 ELSE wlen + 1]

\* append_with_flags: rotate a full segment (flush, new file, new meta),
\* write the record, flush when fsync_items records are pending.  A file that
\* was unlinked under the writer takes the record all the same.
SegAppend(rec) ==
  LET s == TargetSeg
      n == NextAddr.off
      recs == IF Full THEN <<rec>> ELSE Append(body[active], rec)
      items == IF Full THEN 1 ELSE unflushed + 1
      sealedSync == IF Full THEN [synced EXCEPT ![active] = SyncedByFlush] ELSE synced
      doFlush == items >= FsyncItems
  IN /\ s <= MaxSegId
     /\ active' = s /\ wlen' = n
     /\ files' = IF Full THEN files \cup {s} ELSE files
     /\ body' = [body EXCEPT ![s] = recs]
     /\ unflushed' = IF doFlush THEN 0 ELSE items
     /\ flushOffset' = IF doFlush THEN n ELSE IF Full THEN 0 ELSE flushOffset
     /\ synced' = IF doFlush THEN [sealedSync EXCEPT ![s] = Len(recs)] ELSE sealedSync
     /\ meta' = [seg |-> s, off |-> IF doFlush THEN n ELSE IF Full THEN 0 ELSE meta.off]

\* read_record on an open file: the record at the address, checked by CRC.
HasRecord(row) == row.seg \in files /\ row.off <= Len(body[row.seg])
\* Mutant: the checksum is not compared.
CrcIgnored(row) == TRUE
CrcOk(row) == body[row.seg][row.off] = [key |-> row.key, body |-> row.body]
Readable(row) == HasRecord(row) /\ CrcOk(row)

\* lookup prefers the inline table.
Visible(k) == addr[k] # None /\ inline[k] = None
\* Mutant: the offsets are not compared.
SameSegment(row, s, o) == row # None /\ row.seg = s
PointsAt(row, s, o) == row # None /\ row.seg = s /\ row.off = o

MkRow(at, rec) == [seg |-> at.seg, off |-> at.off, key |-> rec.key, body |-> rec.body]
\* Mutant: the garbage is not counted.
BumpForgotten(d, row) == d
Bump(d, row) == IF row = None THEN d ELSE [d EXCEPT ![row.seg] = @ + 1]

\* A reclaimer has already judged the record at this address and will not
\* look at the index again before it unlinks the file.
Past(g, a) ==
  \/ gpc[g] \in {"check", "append", "cas"} /\ gvic[g] = a.seg /\ a.off < gpos[g]
  \/ gpc[g] \in {"account", "flush", "unlink", "evtxn", "evunlink"} /\ gvic[g] = a.seg
  \/ gpc[g] \in {"active", "list"} /\ a.seg \notin grefs[g]
  \/ gpc[g] = "sweep" /\ a.seg \in gtodo[g]
Overtaken(a) == a.seg \notin files \/ a.seg \in skewed \/ \E g \in Gcs : Past(g, a)
NoteCommit(row) == raced' = IF Overtaken(row) THEN raced \cup {row} ELSE raced
-----------------------------------------------------------------------------
(* put, delete, flush: callers of the engine. *)

\* put_impl, first half: the body goes to the active segment.
PutAppend(p, k, b) ==
  /\ ppc[p] = "idle" /\ b \notin Small
  /\ SegAppend([key |-> k, body |-> b])
  /\ ppc' = [ppc EXCEPT ![p] = "commit"]
  /\ pkey' = [pkey EXCEPT ![p] = k] /\ pbody' = [pbody EXCEPT ![p] = b]
  /\ pat' = [pat EXCEPT ![p] = NextAddr]
  /\ UNCHANGED <<index, getv, gcv, faults, history>>

PutReset(p) ==
  /\ ppc' = [ppc EXCEPT ![p] = "idle"]
  /\ pkey' = [pkey EXCEPT ![p] = None] /\ pbody' = [pbody EXCEPT ![p] = None]
  /\ pat' = [pat EXCEPT ![p] = None]

\* put_impl, second half: the index transaction, after which the put is acked.
PutCommit(p) ==
  LET k == pkey[p]
      row == MkRow(pat[p], [key |-> k, body |-> pbody[p]])
  IN /\ ppc[p] = "commit"
     /\ addr' = [addr EXCEPT ![k] = row]
     /\ inline' = [inline EXCEPT ![k] = None]
     /\ discard' = Bump(discard, addr[k])
     /\ NoteCommit(row)
     /\ PutReset(p)
     /\ UNCHANGED <<disk, getv, gcv, faults, lost, skewed>>

\* The index transaction fails: the put is not acked, its record leaks.
PutFails(p) ==
  /\ ppc[p] = "commit" /\ ioErrors < MaxIoErrors
  /\ ioErrors' = ioErrors + 1
  /\ PutReset(p)
  /\ UNCHANGED <<disk, index, getv, gcv, kills, powers, history>>

\* put_impl of a small body: one index transaction, no segment.
PutInline(k, b) ==
  /\ b \in Small
  /\ inline' = [inline EXCEPT ![k] = b]
  /\ addr' = [addr EXCEPT ![k] = None]
  /\ discard' = Bump(discard, addr[k])
  /\ UNCHANGED <<disk, putv, getv, gcv, faults, history>>

\* delete: both rows go in one transaction; the body waits for the collector.
Delete(k) ==
  /\ addr[k] # None \/ inline[k] # None
  /\ addr' = [addr EXCEPT ![k] = None]
  /\ inline' = [inline EXCEPT ![k] = None]
  /\ discard' = Bump(discard, addr[k])
  /\ UNCHANGED <<disk, putv, getv, gcv, faults, history>>

EngineFlush == Flush /\ UNCHANGED <<index, putv, getv, gcv, faults, history>>

-----------------------------------------------------------------------------
(* get: at most two lookups, each followed by a read of the file. *)

GetReturns(r, res, b) ==
  /\ rpc' = [rpc EXCEPT ![r] = "idle"]
  /\ rout' = [rout EXCEPT ![r] = [res |-> res, body |-> b]]

\* The match on lookup(), with rprev the entry of the first attempt.
GetLookup(r, k, prev) ==
  /\ rkey' = [rkey EXCEPT ![r] = k] /\ rprev' = [rprev EXCEPT ![r] = prev]
  /\ IF inline[k] # None
     THEN GetReturns(r, "Ok", inline[k]) /\ UNCHANGED rrow
     ELSE IF addr[k] = None
     THEN GetReturns(r, "NotFound", None) /\ UNCHANGED rrow
     ELSE IF addr[k] = prev
     THEN GetReturns(r, "IoSame", None) /\ UNCHANGED rrow
     ELSE /\ rrow' = [rrow EXCEPT ![r] = addr[k]]
          /\ rpc' = [rpc EXCEPT ![r] = "read"]
          /\ rout' = [rout EXCEPT ![r] = [res |-> "none", body |-> None]]
  /\ UNCHANGED <<disk, index, putv, gcv, faults, history>>

GetBegin(r, k) == rpc[r] = "idle" /\ GetLookup(r, k, None)
GetRetry(r) == rpc[r] = "retry" /\ GetLookup(r, rkey[r], rrow[r])

\* read_record: CRC mismatch is final; any other failure allows one re-lookup.
GetRead(r) ==
  /\ rpc[r] = "read"
  /\ IF HasRecord(rrow[r])
     THEN IF CrcOk(rrow[r])
          THEN GetReturns(r, "Ok", body[rrow[r].seg][rrow[r].off].body)
          ELSE GetReturns(r, "Corrupt", None)
     ELSE IF rprev[r] = None
          THEN rpc' = [rpc EXCEPT ![r] = "retry"] /\ UNCHANGED rout
          ELSE GetReturns(r, "IoMoved", None)
  /\ UNCHANGED <<disk, index, putv, gcv, faults, history, rkey, rrow, rprev>>

-----------------------------------------------------------------------------
(* gc_once: pick a victim, move its live records, unlink it, maybe sweep. *)

\* The part of the pass that has locals ends; the thread goes on at pc.
PassEnds(g, pc) ==
  /\ gpc' = [gpc EXCEPT ![g] = pc]
  /\ gdone' = [gdone EXCEPT ![g] = pc = "snap" /\ gpc[g] = "clear"]
  /\ gvic' = [gvic EXCEPT ![g] = 0] /\ gpos' = [gpos EXCEPT ![g] = 1]
  /\ gat' = [gat EXCEPT ![g] = None] /\ gsweep' = [gsweep EXCEPT ![g] = FALSE]
  /\ gorph' = [gorph EXCEPT ![g] = [s \in SegIds |-> 0]]
GcReturn(g) == PassEnds(g, "idle")
\* Mutant: the pass ends without the sweep.
NoSweepAfter(g, sweep) == PassEnds(g, "idle")
AfterVictim(g, sweep) == PassEnds(g, IF sweep THEN "snap" ELSE "idle")
Goto(g, pc) == gpc' = [gpc EXCEPT ![g] = pc] /\ UNCHANGED gdone

\* sealed_segments(): the id of the active segment is read under the writer's
\* mutex, the directory is listed after the mutex is released.
Sealed(act) == files \ {act}
ReadActive(g) == gact' = [gact EXCEPT ![g] = active]

GcBegin(g) ==
  /\ gpc[g] = "idle"
  /\ gcPass' = (gcPass + 1) % SweepEvery
  /\ gsweep' = [gsweep EXCEPT ![g] = gcPass = 0]
  /\ ReadActive(g)
  /\ Goto(g, "pick")
  /\ UNCHANGED <<disk, index, putv, getv, faults, history, gvic, gpos, gat, gorph, grefs, gtodo, gkeys>>

\* The sealed segments with the largest non-zero discard counter.
Victims(sealed) == {s \in sealed : discard[s] > 0 /\ \A t \in sealed : discard[t] <= discard[s]}
\* discard < ratio * size: the rewrite would not pay off.
BelowRatio(s) == Len(body[s]) > 0 /\ discard[s] * RatioDen < RatioNum * Len(body[s])

GcPick(g) ==
  LET victims == Victims(Sealed(gact[g]))
  IN /\ gpc[g] = "pick"
     /\ gact' = [gact EXCEPT ![g] = 0]
     /\ \/ victims = {} /\ AfterVictim(g, gsweep[g])
        \/ \E s \in victims :
             IF BelowRatio(s)
             THEN AfterVictim(g, gsweep[g])
             ELSE Goto(g, "open") /\ gvic' = [gvic EXCEPT ![g] = s] /\ UNCHANGED <<gpos, gat, gorph, gsweep>>
     /\ UNCHANGED <<disk, index, putv, getv, faults, history, gcPass, grefs, gtodo, gkeys>>

\* scan_segment opens the victim; another pass may have unlinked it already.
GcOpen(g) ==
  /\ gpc[g] = "open"
  /\ IF gvic[g] \in files THEN Goto(g, "check") /\ UNCHANGED pass ELSE GcReturn(g)
  /\ UNCHANGED <<disk, index, putv, getv, faults, history, gcPass, sweepv>>

\* The cheap liveness test outside of a transaction, through lookup().
\* Mutant: the scan has advanced its offset before it asks.
AliveAfterAdvance(k, s, o) == inline[k] = None /\ PointsAt(addr[k], s, o + 1)
Alive(k, s, o) == inline[k] = None /\ PointsAt(addr[k], s, o)

GcCheck(g) ==
  LET s == gvic[g]
      o == gpos[g]
  IN /\ gpc[g] = "check"
     /\ IF o > Len(body[s])
        THEN Goto(g, "account") /\ UNCHANGED gpos
        ELSE IF Alive(body[s][o].key, s, o)
        THEN Goto(g, "append") /\ UNCHANGED gpos
        ELSE gpos' = [gpos EXCEPT ![g] = o + 1] /\ UNCHANGED <<gpc, gdone>>
     /\ UNCHANGED <<disk, index, putv, getv, faults, history, gcPass, gvic, gat, gorph, gsweep, sweepv>>

\* The live record is copied to the active segment as it is.
GcAppend(g) ==
  /\ gpc[g] = "append"
  /\ SegAppend(body[gvic[g]][gpos[g]])
  /\ gat' = [gat EXCEPT ![g] = NextAddr]
  /\ Goto(g, "cas")
  /\ UNCHANGED <<index, putv, getv, faults, history, gcPass, gvic, gpos, gorph, gsweep, sweepv>>

\* A lookup that fails counts as "not alive": the live record is passed over.
GcMisread(g) ==
  LET s == gvic[g]
      o == gpos[g]
  IN /\ gpc[g] = "check" /\ ioErrors < MaxIoErrors
     /\ o <= Len(body[s]) /\ Alive(body[s][o].key, s, o)
     /\ ioErrors' = ioErrors + 1
     /\ gpos' = [gpos EXCEPT ![g] = o + 1]
     /\ lost' = lost \cup {addr[body[s][o].key]}
     /\ UNCHANGED <<disk, index, putv, getv, kills, powers, raced, skewed, gcPass, gpc, gdone, gvic, gat, gorph, gsweep, sweepv>>

\* A failed read, write, transaction or unlink ends the pass or the eviction
\* with an error: nothing after it happens, nor the sweep.
GcFails(g) ==
  /\ gpc[g] \notin {"idle", "active", "list", "dead"}
  /\ gpc[g] = "sweep" => gtodo[g] = {}
  /\ ioErrors < MaxIoErrors
  /\ ioErrors' = ioErrors + 1
  /\ GcReturn(g)
  /\ gact' = [gact EXCEPT ![g] = 0]
  /\ grefs' = [grefs EXCEPT ![g] = {}] /\ gkeys' = [gkeys EXCEPT ![g] = {}]
  /\ UNCHANGED <<disk, index, putv, getv, kills, powers, history, gcPass, gtodo>>

\* Compare-and-set of the row; the loser's copy is remembered as garbage.
GcCas(g) ==
  LET s == gvic[g]
      o == gpos[g]
      rec == body[s][o]
      row == MkRow(gat[g], rec)
  IN /\ gpc[g] = "cas"
     /\ IF PointsAt(addr[rec.key], s, o)
        THEN addr' = [addr EXCEPT ![rec.key] = row] /\ NoteCommit(row) /\ UNCHANGED gorph
        ELSE /\ gorph' = [gorph EXCEPT ![g][gat[g].seg] = @ + 1]
             /\ UNCHANGED <<addr, raced>>
     /\ gpos' = [gpos EXCEPT ![g] = o + 1]
     /\ Goto(g, "check")
     /\ gat' = [gat EXCEPT ![g] = None]
     /\ UNCHANGED <<disk, inline, discard, putv, getv, faults, lost, skewed, gcPass, gvic, gsweep, sweepv>>

\* One transaction for the garbage of all lost races of the pass.
GcAccount(g) ==
  /\ gpc[g] = "account"
  /\ discard' = [s \in SegIds |-> discard[s] + gorph[g][s]]
  /\ gorph' = [gorph EXCEPT ![g] = [s \in SegIds |-> 0]]
  /\ Goto(g, "flush")
  /\ UNCHANGED <<disk, addr, inline, putv, getv, faults, history, gcPass, gvic, gpos, gat, gsweep, sweepv>>

\* Mutant: the copies are not synced before the unlink.
GcFlushSkipped(g) ==
  /\ gpc[g] = "flush"
  /\ Goto(g, "unlink")
  /\ UNCHANGED <<disk, index, putv, getv, faults, history, gcPass, pass, sweepv>>
GcFlush(g) ==
  /\ gpc[g] = "flush"
  /\ Flush
  /\ Goto(g, "unlink")
  /\ UNCHANGED <<index, putv, getv, faults, history, gcPass, pass, sweepv>>

\* remove_file; it fails, and ends the pass, if another pass was faster.
GcUnlink(g) ==
  /\ gpc[g] = "unlink"
  /\ IF gvic[g] \in files
     THEN files' = files \ {gvic[g]} /\ Goto(g, "clear") /\ UNCHANGED pass
     ELSE UNCHANGED files /\ GcReturn(g)
  /\ UNCHANGED <<body, synced, active, wlen, flushOffset, unflushed, meta, index, putv, getv, faults, history, gcPass, sweepv>>

GcClear(g) ==
  /\ gpc[g] = "clear"
  /\ discard' = [discard EXCEPT ![gvic[g]] = 0]
  /\ AfterVictim(g, gsweep[g])
  /\ UNCHANGED <<disk, addr, inline, putv, getv, faults, history, gcPass, sweepv>>

-----------------------------------------------------------------------------
(* sweep_orphans: unlink the sealed files no row refers to. *)

\* referenced_segments(): one read transaction over the addr table.
SweepSnap(g) ==
  /\ gpc[g] = "snap"
  /\ grefs' = [grefs EXCEPT ![g] = {addr[k].seg : k \in {j \in Keys : addr[j] # None}}]
  /\ Goto(g, "active")
  /\ UNCHANGED <<disk, index, putv, getv, faults, history, gcPass, pass, gact, gtodo, gkeys>>

\* sealed_segments(), after the references.
SweepActive(g) ==
  /\ gpc[g] = "active"
  /\ ReadActive(g)
  /\ Goto(g, "list")
  /\ UNCHANGED <<disk, index, putv, getv, faults, history, gcPass, pass, grefs, gtodo, gkeys>>

SweepList(g) ==
  /\ gpc[g] = "list"
  /\ gtodo' = [gtodo EXCEPT ![g] = Sealed(gact[g]) \ grefs[g]]
  /\ grefs' = [grefs EXCEPT ![g] = {}] /\ gact' = [gact EXCEPT ![g] = 0]
  /\ Goto(g, "sweep")
  /\ UNCHANGED <<disk, index, putv, getv, faults, history, gcPass, pass, gkeys>>

\* One remove_file; grefs now collects removed_ids.
SweepUnlink(g, s) ==
  /\ gpc[g] = "sweep" /\ s \in gtodo[g]
  /\ gtodo' = [gtodo EXCEPT ![g] = @ \ {s}]
  /\ files' = files \ {s}
  /\ grefs' = [grefs EXCEPT ![g] = IF s \in files THEN @ \cup {s} ELSE @]
  /\ UNCHANGED <<body, synced, active, wlen, flushOffset, unflushed, meta, index, putv, getv, faults, history, gcPass, gpc, gdone, pass, gact, gkeys>>

\* remove_file fails: a warning, the file stays and the sweep goes on.
SweepKeep(g, s) ==
  /\ gpc[g] = "sweep" /\ s \in gtodo[g] /\ ioErrors < MaxIoErrors
  /\ ioErrors' = ioErrors + 1
  /\ gtodo' = [gtodo EXCEPT ![g] = @ \ {s}]
  /\ UNCHANGED <<disk, index, putv, getv, kills, powers, history, gcPass, gpc, gdone, pass, gact, grefs, gkeys>>

\* gc_once returns.  The background loop then logs victim_seg.unwrap() if the
\* pass removed anything: with orphans only, there is none and the task dies.
GcReport(g) == IF g \in Loops /\ ~gdone[g] /\ grefs[g] # {} THEN "dead" ELSE "idle"

\* One transaction drops the counters of the removed files.
SweepDone(g) ==
  /\ gpc[g] = "sweep" /\ gtodo[g] = {}
  /\ discard' = [s \in SegIds |-> IF s \in grefs[g] THEN 0 ELSE discard[s]]
  /\ grefs' = [grefs EXCEPT ![g] = {}]
  /\ PassEnds(g, GcReport(g))
  /\ UNCHANGED <<disk, addr, inline, putv, getv, faults, history, gcPass, gact, gtodo, gkeys>>

-----------------------------------------------------------------------------
(* evict_oldest_segment: the cache engine drops its oldest sealed file. *)

\* The keys the scan of v collects: those whose row points at the record.
\* Mutant: the scan stops one record early.
RowsIntoShort(v) ==
  {k \in Keys : \E o \in DOMAIN body[v] \ {Len(body[v])} : body[v][o].key = k /\ Alive(k, v, o)}
RowsInto(v) == {k \in Keys : \E o \in DOMAIN body[v] : body[v][o].key = k /\ Alive(k, v, o)}

EvictBegin(g) ==
  /\ gpc[g] = "idle"
  /\ ReadActive(g)
  /\ Goto(g, "evpick")
  /\ UNCHANGED <<disk, index, putv, getv, faults, history, gcPass, pass, grefs, gtodo, gkeys>>

\* No sealed segment: (0, 0).
EvictNone(g) ==
  /\ gpc[g] = "evpick" /\ Sealed(gact[g]) = {}
  /\ gact' = [gact EXCEPT ![g] = 0]
  /\ GcReturn(g)
  /\ UNCHANGED <<disk, index, putv, getv, faults, history, gcPass, grefs, gtodo, gkeys>>

EvictCollect(g, v, missed) ==
  /\ gpc[g] = "evpick" /\ v \in Sealed(gact[g]) /\ \A s \in Sealed(gact[g]) : v <= s
  /\ gact' = [gact EXCEPT ![g] = 0]
  /\ gvic' = [gvic EXCEPT ![g] = v]
  /\ gkeys' = [gkeys EXCEPT ![g] = RowsInto(v) \ missed]
  /\ Goto(g, "evtxn")
  /\ UNCHANGED <<disk, index, putv, getv, gcPass, gpos, gat, gorph, gsweep, grefs, gtodo>>

EvictScan(g) == (\E v \in files : EvictCollect(g, v, {})) /\ UNCHANGED <<faults, history>>

\* One of the lookups fails: its key is not collected.
EvictMisread(g) ==
  \E v \in files : \E k \in RowsInto(v) :
    /\ ioErrors < MaxIoErrors
    /\ ioErrors' = ioErrors + 1
    /\ EvictCollect(g, v, {k})
    /\ lost' = lost \cup {addr[k]}
    /\ UNCHANGED <<kills, powers, raced, skewed>>

\* The rows of the collected keys are removed, wherever they point by now.
EvictTxn(g) ==
  /\ gpc[g] = "evtxn"
  /\ addr' = [k \in Keys |-> IF k \in gkeys[g] THEN None ELSE addr[k]]
  /\ discard' = [discard EXCEPT ![gvic[g]] = 0]
  /\ gkeys' = [gkeys EXCEPT ![g] = {}]
  /\ Goto(g, "evunlink")
  /\ UNCHANGED <<disk, inline, putv, getv, faults, history, gcPass, pass, gact, grefs, gtodo>>

EvictUnlink(g) ==
  /\ gpc[g] = "evunlink"
  /\ files' = files \ {gvic[g]}
  /\ GcReturn(g)
  /\ UNCHANGED <<body, synced, active, wlen, flushOffset, unflushed, meta, index, putv, getv, faults, history, gcPass, sweepv>>

-----------------------------------------------------------------------------
(* A crash takes every thread; DiskEngine::open then recovers the tail. *)

Min2(a, b) == IF a < b THEN a ELSE b
Max2(a, b) == IF a > b THEN a ELSE b

\* The tail rows of key k in the recovered active segment.
TailRows(k, tail, from) ==
  {[seg |-> meta.seg, off |-> o, key |-> k, body |-> tail[o].body] :
     o \in {i \in (from + 1) .. Len(tail) : tail[i].key = k}}

\* Every valid record behind the recovery point is inserted into the addr
\* table in file order: the last one of a key wins.
Recovered(k, tail, from) ==
  LET rows == TailRows(k, tail, from)
      last == {r \in rows : \A q \in rows : q.off <= r.off}
  IN IF last = {} THEN addr[k] ELSE CHOOSE r \in last : TRUE

\* open() creates the active file if it is gone; the writer's len is never
\* below the recovery point.
Reopen(len) ==
  LET tail == IF meta.seg \in files THEN SubSeq(body[meta.seg], 1, len[meta.seg]) ELSE <<>>
      from == Min2(meta.off, Len(tail))
  IN /\ files' = files \cup {meta.seg}
     /\ body' = [s \in SegIds |-> IF s = meta.seg THEN tail
                                  ELSE IF s \in files THEN SubSeq(body[s], 1, len[s]) ELSE body[s]]
     /\ active' = meta.seg
     /\ wlen' = Max2(Len(tail), meta.off) /\ flushOffset' = Max2(Len(tail), meta.off)
     /\ skewed' = IF Len(tail) < meta.off THEN skewed \cup {meta.seg} ELSE skewed
     /\ unflushed' = 0
     /\ addr' = [k \in Keys |-> Recovered(k, tail, from)]
     /\ UNCHANGED <<meta, inline, discard>>
     /\ ppc' = [p \in Putters |-> "idle"] /\ pkey' = [p \in Putters |-> None]
     /\ pbody' = [p \in Putters |-> None] /\ pat' = [p \in Putters |-> None]
     /\ rpc' = [r \in Readers |-> "idle"] /\ rkey' = [r \in Readers |-> None]
     /\ rrow' = [r \in Readers |-> None] /\ rprev' = [r \in Readers |-> None]
     /\ rout' = [r \in Readers |-> [res |-> "none", body |-> None]]
     /\ gcPass' = 0
     /\ gpc' = [g \in Gcs |-> "idle"] /\ gvic' = [g \in Gcs |-> 0]
     /\ gpos' = [g \in Gcs |-> 1] /\ gat' = [g \in Gcs |-> None]
     /\ gorph' = [g \in Gcs |-> [s \in SegIds |-> 0]] /\ gsweep' = [g \in Gcs |-> FALSE]
     /\ gdone' = [g \in Gcs |-> FALSE]
     /\ grefs' = [g \in Gcs |-> {}] /\ gtodo' = [g \in Gcs |-> {}] /\ gkeys' = [g \in Gcs |-> {}]
     /\ gact' = [g \in Gcs |-> 0]

\* The process dies; the page cache, and so every file, survives.
Kill ==
  /\ kills < MaxKills
  /\ kills' = kills + 1
  /\ Reopen([s \in SegIds |-> Len(body[s])])
  /\ synced' = [s \in SegIds |-> IF s = meta.seg /\ s \notin files THEN 0 ELSE synced[s]]
  /\ UNCHANGED <<powers, ioErrors, raced, lost>>

\* The machine dies; of each file any prefix with the synced part survives.
PowerLoss ==
  /\ powers < MaxPowerLosses
  /\ powers' = powers + 1
  /\ \E len \in [SegIds -> 0 .. SegMax] :
       /\ \A s \in SegIds : IF s \in files THEN synced[s] <= len[s] /\ len[s] <= Len(body[s])
                                           ELSE len[s] = 0
       /\ Reopen(len)
       /\ synced' = [s \in SegIds |-> IF s \in files \cup {meta.seg} THEN len[s] ELSE synced[s]]
       /\ lost' = lost \cup {addr[k] : k \in {j \in Keys :
                   addr[j] # None /\ addr[j].seg \in files /\ addr[j].off > len[addr[j].seg]}}
  /\ UNCHANGED <<kills, ioErrors, raced>>

-----------------------------------------------------------------------------
Put == \E p \in Putters : (\E k \in Keys : \E b \in BodyOf[k] : PutAppend(p, k, b)) \/ PutCommit(p) \/ PutFails(p)
IndexOnly == \E k \in Keys : (\E b \in BodyOf[k] : PutInline(k, b)) \/ Delete(k)
Get == \E r \in Readers : (\E k \in Keys : GetBegin(r, k)) \/ GetRead(r) \/ GetRetry(r)
Gc(g) ==
  \/ GcBegin(g) \/ GcPick(g) \/ GcOpen(g) \/ GcCheck(g) \/ GcAppend(g) \/ GcCas(g) \/ GcAccount(g)
  \/ GcFlush(g) \/ GcUnlink(g) \/ GcClear(g)
  \/ SweepSnap(g) \/ SweepActive(g) \/ SweepList(g) \/ (\E s \in SegIds : SweepUnlink(g, s)) \/ SweepDone(g)
Evict(g) == EvictBegin(g) \/ EvictNone(g) \/ EvictScan(g) \/ EvictTxn(g) \/ EvictUnlink(g)
\* What a failing disk or index does to the collectors.
GcFault(g) == GcFails(g) \/ GcMisread(g) \/ \E s \in SegIds : SweepKeep(g, s)
EvictFault(g) == GcFails(g) \/ EvictMisread(g)

Next ==
  \/ Put \/ IndexOnly \/ Get \/ EngineFlush
  \/ \E g \in Collectors : Gc(g) \/ GcFault(g)
  \/ \E g \in Evictors : Evict(g) \/ EvictFault(g)
  \/ Kill \/ PowerLoss

Spec == Init /\ [][Next]_vars

-----------------------------------------------------------------------------
DiskType ==
  /\ files \subseteq SegIds /\ active \in SegIds
  /\ body \in [SegIds -> Seq(Record)]
  /\ synced \in [SegIds -> Nat] /\ wlen \in Nat /\ flushOffset \in Nat /\ unflushed \in Nat
  /\ meta \in [seg : SegIds, off : Nat]

IndexType ==
  /\ addr \in [Keys -> Row \cup {None}] /\ inline \in [Keys -> Bodies \cup {None}]
  /\ discard \in [SegIds -> Nat]

PutType ==
  /\ ppc \in [Putters -> {"idle", "commit"}]
  /\ pkey \in [Putters -> Keys \cup {None}] /\ pbody \in [Putters -> Bodies \cup {None}]
  /\ pat \in [Putters -> Address \cup {None}]
  /\ \A p \in Putters : ppc[p] = "commit" => pkey[p] \in Keys /\ pbody[p] \in Bodies /\ pat[p] \in Address

GetType ==
  /\ rpc \in [Readers -> {"idle", "read", "retry"}] /\ rkey \in [Readers -> Keys \cup {None}]
  /\ rrow \in [Readers -> Row \cup {None}] /\ rprev \in [Readers -> Row \cup {None}]
  /\ rout \in [Readers -> [res : {"none", "Ok", "NotFound", "Corrupt", "IoSame", "IoMoved"},
                           body : Bodies \cup {None}]]
  /\ \A r \in Readers : rpc[r] # "idle" => rkey[r] \in Keys /\ rrow[r] \in Row

GcPcs == {"idle", "pick", "open", "check", "append", "cas", "account", "flush", "unlink", "clear",
          "snap", "active", "list", "sweep", "evpick", "evtxn", "evunlink", "dead"}

GcType ==
  /\ gcPass \in Nat
  /\ gpc \in [Gcs -> GcPcs] /\ gdone \in [Gcs -> BOOLEAN]
  /\ gvic \in [Gcs -> SegIds] /\ gpos \in [Gcs -> Nat \ {0}]
  /\ gat \in [Gcs -> Address \cup {None}]
  /\ gorph \in [Gcs -> [SegIds -> Nat]] /\ gsweep \in [Gcs -> BOOLEAN]
  /\ grefs \in [Gcs -> SUBSET SegIds] /\ gtodo \in [Gcs -> SUBSET SegIds]
  /\ gkeys \in [Gcs -> SUBSET Keys] /\ gact \in [Gcs -> SegIds]
  /\ \A g \in Gcs : gpc[g] = "cas" => gat[g] \in Address

HistoryType ==
  /\ kills \in Nat /\ powers \in Nat /\ ioErrors \in Nat
  /\ raced \subseteq Row /\ lost \subseteq Row /\ skewed \subseteq SegIds

\* Every variable of the engine has its type: offsets start at 1, ids stay in
\* range, and a put that is about to commit holds a key, a body and an address.
TypeOK == DiskType /\ IndexType /\ PutType /\ GetType /\ GcType /\ HistoryType

\* A row callers can see leads to its body, whatever collections, sweeps,
\* evictions, rotations and crashes happened, unless it was committed behind a
\* reclaimer's back or into a file a reclaimer had taken from the writer, its
\* body was still unsynced at a power loss, or the reclaimer could not read
\* the index.
RowsReadable == \A k \in Keys : Visible(k) => Readable(addr[k]) \/ addr[k] \in raced \cup lost

\* get answers only with a body that was put under that key, also after a
\* power loss let a new record take the place of a lost one.
GetReturnsOwnBody ==
  \A r \in Readers : rout[r].res = "Ok" => rout[r].body \in BodyOf[rkey[r]]

\* "The address did not change: the error is real" (get): giving up on a row
\* that is still the same after a failed read happens only for a lost body.
UnchangedRowIsLost ==
  \A r \in Readers : rout[r].res = "IoSame" => rrow[r] \in raced \cup lost

-----------------------------------------------------------------------------
(* The inductive invariant behind RowsReadable. *)

Victim == {"open", "check", "append", "cas", "account", "flush", "unlink", "evtxn", "evunlink"}
Scan == {"check", "append", "cas", "account", "flush", "unlink", "clear"}

\* Ids grow: no file is newer than the active one, and neither is what a
\* reclaimer has chosen; a copy lies behind its original.
Order ==
  /\ meta.seg = active /\ \A s \in files : s <= active
  /\ \A p \in Putters : ppc[p] = "commit" => pat[p].seg <= active
  /\ \A g \in Gcs :
       /\ gpc[g] \in Victim => gvic[g] <= active
       /\ gpc[g] \notin Scan => gpos[g] = 1
       /\ gpc[g] \in {"append", "cas"} => gpos[g] <= Len(body[gvic[g]])
       /\ gpc[g] = "cas" =>
            /\ gat[g].seg <= active
            /\ \/ gvic[g] < gat[g].seg \/ gat[g].seg \in skewed
               \/ gvic[g] = gat[g].seg /\ gpos[g] < gat[g].off

\* The writer knows the length of its file.
Aligned == wlen = Len(body[active]) \/ active \in skewed

\* What a put or a collector is about to commit is there while its file is.
InFlight ==
  /\ \A p \in Putters : ppc[p] = "commit" /\ pat[p].seg \in files \ skewed
       => Readable(MkRow(pat[p], [key |-> pkey[p], body |-> pbody[p]]))
  /\ \A g \in Gcs : gpc[g] = "cas" /\ gat[g].seg \in files \ skewed
       => Readable(MkRow(gat[g], body[gvic[g]][gpos[g]]))

RowKeys == \A k \in Keys : addr[k] # None => addr[k].key = k

\* No reclaimer has turned its back on a visible row that was committed in
\* time: it has not judged the record yet, or has the row on its list.
Shielded ==
  \A k \in Keys, g \in Gcs :
    Visible(k) /\ addr[k] \notin raced \cup lost /\ Past(g, addr[k])
      => gpc[g] = "evtxn" /\ k \in gkeys[g]

\* The inductive invariant of the engine: besides the types, segment ids
\* grow and a copy lies behind its original, the writer knows the length of its
\* file, an appended record is where its put or its collector believes it is
\* until the commit, a row names its own key, a visible row leads to its body,
\* and no reclaimer (gc_once, sweep_orphans, evict_oldest_segment)
\* has judged a record dead that a sound row points to.
Inv == TypeOK /\ Order /\ Aligned /\ InFlight /\ RowKeys /\ RowsReadable /\ Shielded
=============================================================================
