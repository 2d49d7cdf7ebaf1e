---------------------------- MODULE LatencyWindow ---------------------------
(***************************************************************************)
(* The rolling p99 of read latencies (crates/ozd-app/src/latency.rs): two  *)
(* epochs of counters, recorded without a lock, rotated lazily under one.  *)
(* A sample in a bucket is kept as its number and the time it was added.   *)
(***************************************************************************)
EXTENDS Clock

CONSTANTS
  Window,              \* window_us in ticks
  Threads,             \* reads that record or ask for the p99
  MaxSamples, LatTime  \* bounds on samples and on time

Free == "free"

ASSUME LatencyAssumption ==
  /\ Window \in Nat \ {0} /\ MaxSamples \in Nat /\ LatTime \in Nat
  /\ IsFiniteSet(Threads) /\ Free \notin Threads

VARIABLES
  cur, start,          \* cur, epoch_start_us
  hist, counts,        \* per epoch: buckets, count
  rot,                 \* the mutex: the thread that rotates
  thr,                 \* the threads
  samples,             \* samples begun so far
  raced,               \* history: threads under way while a rotation was
  races                \* history: records that were under way during a rotation

latVars == <<cur, start, hist, counts, rot, thr, samples, raced, races>>

LatIdle == [pc |-> "idle", op |-> "none", at |-> 0, e |-> 0]
LatInit ==
  /\ cur = 0 /\ start = 0 /\ hist = [e \in {0, 1} |-> {}] /\ counts = [e \in {0, 1} |-> 0]
  /\ rot = Free /\ thr = [t \in Threads |-> LatIdle] /\ samples = 0 /\ raced = {} /\ races = 0

Go(t, pc) == thr' = [thr EXCEPT ![t].pc = pc]

\* record_at and p99_at take the time first.
BeginRecord(t) ==
  /\ thr[t].pc = "idle" /\ samples < MaxSamples /\ samples' = samples + 1
  /\ thr' = [thr EXCEPT ![t] = [LatIdle EXCEPT !.pc = "check", !.op = "record", !.at = now]]
  /\ UNCHANGED <<now, cur, start, hist, counts, rot, raced, races>>

BeginP99(t) ==
  /\ thr[t].pc = "idle"
  /\ thr' = [thr EXCEPT ![t] = [LatIdle EXCEPT !.pc = "check", !.op = "p99", !.at = now]]
  /\ UNCHANGED <<now, cur, start, hist, counts, rot, samples, raced, races>>

\* maybe_rotate: without the lock first; saturating_sub.
Due(t) == AtLeast(thr[t].at - start, 0) >= Window
CheckDue(t) ==
  /\ thr[t].pc = "check"
  /\ Go(t, IF Due(t) THEN "lock" ELSE "load")
  /\ UNCHANGED <<now, cur, start, hist, counts, rot, samples, raced, races>>

\* Again under the lock.
Lock(t) ==
  /\ thr[t].pc = "lock" /\ rot = Free
  /\ IF Due(t) THEN rot' = t /\ Go(t, "zero") ELSE UNCHANGED rot /\ Go(t, "load")
  /\ UNCHANGED <<now, cur, start, hist, counts, samples, raced, races>>

\* Records that are adding while a rotation takes a step have raced it.
Adding == {u \in Threads : thr[u].pc \in {"add", "count"}}
Rotating(t, pc) == Go(t, pc) /\ raced' = raced \cup Adding

\* Mutant: one moment of silence more.
StaleBothLate(t) == thr[t].at - start > 2 * Window

\* Nobody came for two windows: both epochs are out of date.
StaleBoth(t) == thr[t].at - start >= 2 * Window
ZeroBuckets(t) ==
  /\ thr[t].pc = "zero"
  /\ hist' = [hist EXCEPT ![1 - cur] = {}] /\ Rotating(t, "zero_count")
  /\ UNCHANGED <<now, cur, start, counts, rot, samples, races>>

ZeroCountAndTurn(t) ==
  /\ thr[t].pc = "zero_count"
  /\ counts' = [counts EXCEPT ![1 - cur] = 0] /\ cur' = 1 - cur
  /\ Rotating(t, IF StaleBoth(t) THEN "zero_old" ELSE "stamp")
  /\ UNCHANGED <<now, start, hist, rot, samples, races>>

ZeroOldBuckets(t) ==
  /\ thr[t].pc = "zero_old"
  /\ hist' = [hist EXCEPT ![1 - cur] = {}] /\ Rotating(t, "zero_old_count")
  /\ UNCHANGED <<now, cur, start, counts, rot, samples, races>>

ZeroOldCount(t) ==
  /\ thr[t].pc = "zero_old_count"
  /\ counts' = [counts EXCEPT ![1 - cur] = 0] /\ Rotating(t, "stamp")
  /\ UNCHANGED <<now, cur, start, hist, rot, samples, races>>

Stamp(t) ==
  /\ thr[t].pc = "stamp" /\ start' = thr[t].at /\ rot' = Free /\ Rotating(t, "load")
  /\ UNCHANGED <<now, cur, hist, counts, samples, races>>

\* A record adds to the epoch it loaded, the bucket and then the count.
Load(t) ==
  /\ thr[t].pc = "load"
  /\ thr' = [thr EXCEPT ![t].pc = IF thr[t].op = "record" THEN "add" ELSE "read", ![t].e = cur]
  /\ raced' = IF rot = Free THEN raced ELSE raced \cup {t}
  /\ UNCHANGED <<now, cur, start, hist, counts, rot, samples, races>>

AddBucket(t) ==
  /\ thr[t].pc = "add"
  /\ hist' = [hist EXCEPT ![thr[t].e] = @ \cup {<<t, samples, now>>}] /\ Go(t, "count")
  /\ UNCHANGED <<now, cur, start, counts, rot, samples, raced, races>>

AddCount(t) ==
  /\ thr[t].pc = "count"
  /\ counts' = [counts EXCEPT ![thr[t].e] = @ + 1]
  /\ races' = races + (IF t \in raced THEN 1 ELSE 0)
  /\ thr' = [thr EXCEPT ![t] = LatIdle] /\ raced' = raced \ {t}
  /\ UNCHANGED <<now, cur, start, hist, rot, samples>>

\* p99_at sums both epochs.
Answer(t) ==
  /\ thr[t].pc = "read" /\ thr' = [thr EXCEPT ![t] = LatIdle] /\ raced' = raced \ {t}
  /\ UNCHANGED <<now, cur, start, hist, counts, rot, samples, races>>

LatNext ==
  \/ \E t \in Threads :
       \/ BeginRecord(t) \/ BeginP99(t) \/ CheckDue(t) \/ Lock(t)
       \/ ZeroBuckets(t) \/ ZeroCountAndTurn(t) \/ ZeroOldBuckets(t) \/ ZeroOldCount(t) \/ Stamp(t)
       \/ Load(t) \/ AddBucket(t) \/ AddCount(t) \/ Answer(t)
  \/ now < LatTime /\ now' = now + 1 /\ UNCHANGED latVars

-----------------------------------------------------------------------------
Samples == hist[0] \cup hist[1]

\* A p99 rests on recent reads only, however long nobody asked or recorded.
\* Rotation is lazy: an epoch that is not thrown away lasted less than two
\* windows and is then kept for less than one, so that a sample is at most two
\* ticks short of three windows old, and not of two, as latency.rs:9 has it.
OnlyRecentSamples ==
  \A t \in Threads : thr[t].pc = "read" /\ rot = Free => \A x \in Samples : thr[t].at - x[3] <= 3 * Window - 2

\* Recording without a lock miscounts only what overlaps a rotation: when
\* nobody is in the middle of anything, bucket and count of the two epochs
\* differ by at most the records that raced one.
CountsFollowBuckets ==
  (\A t \in Threads : thr[t].pc \in {"idle", "check", "load", "read"}) =>
    \A e \in {0, 1} : counts[e] - Cardinality(hist[e]) \in - races .. races

\* The window forgets in time and miscounts only what raced a rotation.
WindowSound == OnlyRecentSamples /\ CountsFollowBuckets
=============================================================================
