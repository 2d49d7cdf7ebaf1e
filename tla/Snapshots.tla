----------------------------- MODULE Snapshots ------------------------------
(***************************************************************************)
(* Snapshots of the segment files by hard links, their deletion and their  *)
(* retention (crates/ozd-admin/src/lib.rs), while the engines append,      *)
(* rotate and collect garbage (DiskEngine has those in detail).  A segment *)
(* is its records; a hard link keeps a file that is unlinked elsewhere.    *)
(***************************************************************************)
EXTENDS Integers, FiniteSetsExt, SequencesExt

CONSTANTS
  SShards, MaxSeg,          \* number of disks; segment numbers per disk
  Calendars,                \* sequences of times (seconds) a run may see
  Nonces,                   \* the low bits of the nanoseconds in an id
  Keeps,                    \* ?keep=
  Requests,                 \* admin requests at a time
  SEvents, SBudgets         \* bounded kinds of events, per scenario

ASSUME SnapshotsAssumption ==
  /\ SShards \in Nat \ {0} /\ MaxSeg \in Nat \ {0} /\ Keeps \subseteq Nat \ {0} /\ Nonces \subseteq Nat
  /\ SEvents = {"create", "delete", "old", "append", "rotate", "gc", "fail"} /\ SBudgets \subseteq [SEvents -> Nat]

VARIABLES
  layout,          \* "disk": <data_path>/snapshots/<id>; "shared": <snapshot_dir>/<id>/shard-<i>
  clock, tick,     \* the calendar of this run and the place in it
  files, content,  \* segment files of each disk; the records of each file
  active,          \* the segment that is written
  moving,          \* the segment a collection is moving records out of, or 0
  snaps,           \* snapshot directories by id
  adm,             \* admin requests under way
  acked,           \* records written so far
  kept,            \* history: snapshots that were answered for, and that nobody may miss
  sleft

snapVars == <<layout, clock, tick, files, content, active, moving, snaps, adm, acked, kept, sleft>>

Disk == 1 .. SShards
Segs == 1 .. MaxSeg
Take(e) == sleft[e] > 0 /\ sleft' = [sleft EXCEPT ![e] = @ - 1]
Resting == [op |-> "none", pc |-> "idle", id |-> << >>, disk |-> 0, names |-> {}, todo |-> << >>, owed |-> {}, missed |-> {}, at |-> 0, disturbed |-> FALSE]

SnapInit ==
  /\ layout \in {"disk", "shared"} /\ clock \in Calendars /\ tick = 1
  /\ files = [d \in Disk |-> {1}] /\ content = [d \in Disk |-> [g \in Segs |-> {}]] /\ active = [d \in Disk |-> 1]
  /\ moving = [d \in Disk |-> 0] /\ snaps = << >> /\ adm = [a \in Requests |-> Resting]
  /\ acked = 0 /\ kept = {} /\ sleft \in SBudgets

-----------------------------------------------------------------------------
(* The engines. *)

AppendRecord(d) ==
  /\ Take("append") /\ acked' = acked + 1
  /\ content' = [content EXCEPT ![d][active[d]] = @ \cup {acked + 1}]
  /\ UNCHANGED <<layout, clock, tick, files, active, moving, snaps, adm, kept>>

Rotate(d) ==
  /\ active[d] < MaxSeg /\ Take("rotate")
  /\ active' = [active EXCEPT ![d] = @ + 1] /\ files' = [files EXCEPT ![d] = @ \cup {active[d] + 1}]
  /\ UNCHANGED <<layout, clock, tick, content, moving, snaps, adm, acked, kept>>

\* gc_once: live records go to the active segment, then the victim is unlinked.
Move(d) ==
  /\ moving[d] = 0 /\ Take("gc")
  /\ \E v \in files[d] \ {active[d]} :
       /\ moving' = [moving EXCEPT ![d] = v]
       /\ content' = [content EXCEPT ![d][active[d]] = @ \cup content[d][v]]
  /\ UNCHANGED <<layout, clock, tick, files, active, snaps, adm, acked, kept>>

Unlink(d) ==
  /\ moving[d] # 0
  /\ files' = [files EXCEPT ![d] = @ \ {moving[d]}] /\ moving' = [moving EXCEPT ![d] = 0]
  /\ UNCHANGED <<layout, clock, tick, content, active, snaps, adm, acked, kept, sleft>>

TimePasses ==
  /\ tick < Len(clock) /\ tick' = tick + 1
  /\ UNCHANGED <<layout, clock, files, content, active, moving, snaps, adm, acked, kept, sleft>>

-----------------------------------------------------------------------------
(* Ids: chrono_lite of the second, then the low bits of the nanoseconds. *)

\* Mutant: January and February belong to the year before.
chrono_liteOldYear(secs) ==
  LET days == secs \div 86400
      rem == secs % 86400
      z == days + 719468
      doe == z % 146097
      yoe == (doe - doe \div 1460 + doe \div 36524 - doe \div 146096) \div 365
      doy == doe - (365 * yoe + yoe \div 4 - yoe \div 100)
      mp == (5 * doy + 2) \div 153
      mo == IF mp < 10 THEN mp + 3 ELSE mp - 9
  IN  <<yoe + (z \div 146097) * 400, mo, doy - (153 * mp + 2) \div 5 + 1, rem \div 3600, (rem % 3600) \div 60, rem % 60>>

chrono_lite(secs) ==
  LET days == secs \div 86400
      rem == secs % 86400
      z == days + 719468
      doe == z % 146097
      yoe == (doe - doe \div 1460 + doe \div 36524 - doe \div 146096) \div 365
      doy == doe - (365 * yoe + yoe \div 4 - yoe \div 100)
      mp == (5 * doy + 2) \div 153
      mo == IF mp < 10 THEN mp + 3 ELSE mp - 9
      year == yoe + (z \div 146097) * 400 + (IF mo <= 2 THEN 1 ELSE 0)
  IN  <<year, mo, doy - (153 * mp + 2) \div 5 + 1, rem \div 3600, (rem % 3600) \div 60, rem % 60>>

\* Ids compare as strings of fixed-width fields.
Before(a, b) == \E i \in 1 .. Len(a) : a[i] < b[i] /\ \A j \in 1 .. i - 1 : a[j] = b[j]

\* Directories of an id: those of the disks, and in the shared layout its own.
NoDir == [disks |-> {}, root |-> FALSE, links |-> [d \in Disk |-> {}], at |-> 0]
Of(id) == IF id \in DOMAIN snaps THEN snaps[id] ELSE NoDir
With(id, x) == [i \in DOMAIN snaps \cup {id} |-> IF i = id THEN x ELSE snaps[i]]
Listed == {id \in DOMAIN snaps : IF layout = "shared" THEN snaps[id].root ELSE 1 \in snaps[id].disks}

-----------------------------------------------------------------------------
(* create_snapshot: flush_all (its error ignored), then disk by disk. *)

StartCreate(a) ==
  /\ adm[a].pc = "idle" /\ Take("create")
  /\ \E n \in Nonces :
       adm' = [adm EXCEPT ![a] = [Resting EXCEPT !.op = "create", !.pc = "mkdir", !.id = Append(chrono_lite(clock[tick]), n), !.disk = 1,
                                                 !.owed = 1 .. acked, !.at = clock[tick]]]
  /\ UNCHANGED <<layout, clock, tick, files, content, active, moving, snaps, acked, kept>>

\* A directory that cannot be made, or a disk that cannot be listed, ends it,
\* with what there is left behind.
MakeDir(a) ==
  LET q == adm[a]
      x == Of(q.id)
      made == With(q.id, [x EXCEPT !.disks = @ \cup {q.disk}, !.root = layout = "shared", !.at = q.at]) IN
  /\ q.pc = "mkdir"
  /\ \/ snaps' = made /\ adm' = [adm EXCEPT ![a] = [q EXCEPT !.pc = "link", !.names = files[q.disk]]] /\ UNCHANGED sleft
     \/ snaps' \in {snaps, made} /\ Take("fail") /\ adm' = [adm EXCEPT ![a] = Resting]
  /\ UNCHANGED <<layout, clock, tick, files, content, active, moving, acked, kept>>

\* Mutant: the active segment is left out.
LinkSealed(a) == \E g \in adm[a].names :
  LET q == adm[a]
      x == Of(q.id) IN
  /\ q.pc = "link"
  /\ \/ /\ g \in files[q.disk] /\ q.disk \in x.disks /\ g # active[q.disk]
        /\ snaps' = With(q.id, [x EXCEPT !.links[q.disk] = @ \cup {g}])
        /\ adm' = [adm EXCEPT ![a].names = @ \ {g}] /\ UNCHANGED sleft
     \/ g = active[q.disk] /\ adm' = [adm EXCEPT ![a].names = @ \ {g}] /\ UNCHANGED <<snaps, sleft>>
     \/ /\ adm' = [adm EXCEPT ![a].names = @ \ {g}, ![a].missed = @ \cup {<<q.disk, g>>}] /\ UNCHANGED snaps
        /\ IF g \in files[q.disk] /\ q.disk \in x.disks THEN Take("fail") ELSE UNCHANGED sleft
  /\ UNCHANGED <<layout, clock, tick, files, content, active, moving, acked, kept>>

\* Every error of hard_link is passed over: a file or a directory that is gone,
\* another file system (the shared layout), a full one.
Link(a) == \E g \in adm[a].names :
  LET q == adm[a]
      x == Of(q.id) IN
  /\ q.pc = "link"
  /\ \/ /\ g \in files[q.disk] /\ q.disk \in x.disks
        /\ snaps' = With(q.id, [x EXCEPT !.links[q.disk] = @ \cup {g}])
        /\ adm' = [adm EXCEPT ![a].names = @ \ {g}] /\ UNCHANGED sleft
     \/ /\ adm' = [adm EXCEPT ![a].names = @ \ {g}, ![a].missed = @ \cup {<<q.disk, g>>}] /\ UNCHANGED snaps
        /\ IF g \in files[q.disk] /\ q.disk \in x.disks THEN Take("fail") ELSE UNCHANGED sleft
  /\ UNCHANGED <<layout, clock, tick, files, content, active, moving, acked, kept>>

NextDisk(a) ==
  LET q == adm[a] IN
  /\ q.pc = "link" /\ q.names = {}
  /\ adm' = [adm EXCEPT ![a] = IF q.disk = SShards THEN [q EXCEPT !.pc = "made"] ELSE [q EXCEPT !.pc = "mkdir", !.disk = @ + 1]]
  /\ UNCHANGED <<layout, clock, tick, files, content, active, moving, snaps, acked, kept, sleft>>

\* It is answered OK whatever was missed.
Answered(a) ==
  LET q == adm[a] IN
  /\ q.pc = "made" /\ adm' = [adm EXCEPT ![a] = Resting]
  /\ kept' = IF q.disturbed \/ \E b \in Requests : q.id \in ToSet(adm[b].todo) THEN kept
             ELSE kept \cup {[id |-> q.id, links |-> Of(q.id).links]}
  /\ UNCHANGED <<layout, clock, tick, files, content, active, moving, snaps, acked, sleft>>

-----------------------------------------------------------------------------
(* delete_snapshot and delete_old_snapshots: disk by disk.  The directory of *)
(* an id itself stays in the shared layout.                                  *)

StartDelete(a) ==
  /\ adm[a].pc = "idle" /\ Take("delete")
  /\ \E id \in DOMAIN snaps :
       /\ adm' = [adm EXCEPT ![a] = [Resting EXCEPT !.op = "delete", !.pc = "remove", !.todo = <<id>>, !.disk = 1]]
       /\ kept' = {s \in kept : s.id # id}
  /\ UNCHANGED <<layout, clock, tick, files, content, active, moving, snaps, acked>>

\* By the clock, the other listed ids that are as new.
NoOlder(id) == {y \in Listed \ {id} : snaps[y].at >= snaps[id].at}

\* All but the last keep ids in the order of their names, whatever is in them.
StartDeleteOld(a) ==
  LET ids == SetToSortSeq(Listed, Before) IN
  /\ adm[a].pc = "idle" /\ Take("old")
  /\ \E n \in Keeps :
       LET doomed == SubSeq(ids, 1, Len(ids) - n) IN
       /\ adm' = [adm EXCEPT ![a] = IF Len(ids) <= n THEN Resting
                                    ELSE [Resting EXCEPT !.op = "old", !.pc = "remove", !.todo = doomed, !.disk = 1]]
       /\ kept' = {s \in kept : s.id \notin ToSet(doomed) \/ Cardinality(NoOlder(s.id)) < n}
  /\ UNCHANGED <<layout, clock, tick, files, content, active, moving, snaps, acked>>

RemoveDir(a) ==
  LET q == adm[a]
      id == Head(q.todo)
      x == Of(id) IN
  /\ q.pc = "remove"
  /\ snaps' = IF q.disk \in x.disks THEN With(id, [x EXCEPT !.disks = @ \ {q.disk}, !.links[q.disk] = {}]) ELSE snaps
  /\ adm' = [b \in Requests |-> IF b # a THEN [adm[b] EXCEPT !.disturbed = @ \/ adm[b].id = id]
               ELSE IF q.disk < SShards THEN [q EXCEPT !.disk = @ + 1]
               ELSE IF Len(q.todo) > 1 THEN [q EXCEPT !.disk = 1, !.todo = Tail(@)] ELSE Resting]
  /\ UNCHANGED <<layout, clock, tick, files, content, active, moving, acked, kept, sleft>>

SnapNext ==
  \/ \E d \in Disk : AppendRecord(d) \/ Rotate(d) \/ Move(d) \/ Unlink(d)
  \/ \E a \in Requests : \/ StartCreate(a) \/ MakeDir(a) \/ Link(a) \/ NextDisk(a) \/ Answered(a)
                         \/ StartDelete(a) \/ StartDeleteOld(a) \/ RemoveDir(a)
  \/ TimePasses

-----------------------------------------------------------------------------
\* A snapshot that is answered for holds every record acknowledged before it
\* was asked for, however appends, rotations and collections come between its
\* links (a record may move from segment to segment meanwhile), but for the
\* records of files whose link failed, and unless it was being deleted at the
\* same time.
SnapshotComplete ==
  \A a \in Requests : LET q == adm[a] IN
    q.pc = "made" /\ ~ q.disturbed =>
      \A r \in q.owed : \E d \in Disk, g \in Segs :
        r \in content[d][g] /\ (g \in Of(q.id).links[d] \/ <<d, g>> \in q.missed)

\* What was answered for stays: a snapshot keeps its directories and its links,
\* whatever the engines unlink and other requests create or remove, until it is
\* deleted by its id or delete_old finds keep other directories that are as new
\* by the clock, over the ends of days, months and years that chrono_lite
\* writes into the names.  (What is left of a deleted or failed snapshot counts
\* as a directory.)
RetentionKeepsNewest ==
  \A s \in kept : Of(s.id).disks = Disk /\ \A d \in Disk : s.links[d] \subseteq Of(s.id).links[d]
=============================================================================
