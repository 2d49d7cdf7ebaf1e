------------------------------- MODULE Walks --------------------------------
(***************************************************************************)
(* Walks over all keys of the pool, a page at a time, while keys come and  *)
(* go: resilver, migration, scrub, CAR export, S3 listing                  *)
(* (crates/ozd-app/src/pool.rs and car.rs, crates/ozd-admin/src/lib.rs,    *)
(* crates/ozd-daemon/src/main.rs, crates/ozd-ipfs/src/lib.rs) and the list *)
(* and cursors of the engine (crates/ozd-engine/src/lib.rs).  What a walk  *)
(* does to a key is in MirrorPool and ErasurePool; here a key is visited.  *)
(* Shard 1 of the model is shards[0], which keeps the cursors of the pool. *)
(***************************************************************************)
EXTENDS Naturals, FiniteSetsExt, SequencesExt, Sorting

CONSTANTS
  NK, N,             \* keys 1..NK in byte order; disks
  Lo, Hi,            \* keys Lo..Hi have the prefix of exports and S3 listings
  Batch,             \* keys per page
  Admins,            \* requests that can be served at the same time
  Stores, Nulls,     \* contents of the engines' tables at the start; which disks may be missing
  Events, Budgets    \* bounded kinds of events; how often each may happen, per scenario

Keys == 1 .. NK
Shards == 1 .. N
Jobs == {"resilver", "migrate", "run_scrub", "export", "s3"}
Loops == {"migrate_loop", "scrub_loop"}
Walkers == Admins \cup Loops

ASSUME WalksAssumption ==
  /\ NK \in Nat /\ N \in Nat \ {0} /\ Lo \in Keys /\ Hi \in Lo .. NK /\ Batch \in Nat \ {0}
  /\ Stores \subseteq [addr : [Shards -> SUBSET Keys], inline : [Shards -> SUBSET Keys]] /\ Nulls \subseteq SUBSET Shards
  /\ \A st \in Stores : \A s \in Shards : st.addr[s] \cap st.inline[s] = {}
  /\ Events = Jobs \cup Loops \cup {"import", "add", "remove", "error", "crash"} /\ Budgets \subseteq [Events -> Nat]

VARIABLES
  addr, inline,      \* the tables of each engine
  null,              \* disks with a NullEngine in place
  cursor,            \* T_CURSOR of each engine; "resilver" and "migrate" are used on shard 1
  mem,               \* the scrub loop's cursors vector
  walker,            \* the walks under way
  left               \* how often each event may still happen

vars == <<addr, inline, null, cursor, mem, walker, left>>

Use(e) == left[e] > 0 /\ left' = [left EXCEPT ![e] = @ - 1]
On(task) == left[task] > 0
Has(s) == addr[s] \cup inline[s]

-----------------------------------------------------------------------------
(* Listing. *)

All == Keys
Prefixed == Lo .. Hi
Smallest(S, n) == {k \in S : Cardinality({j \in S : j < k}) < n}

\* A table is read from just after the cursor, or from the prefix, up to the
\* first key that lacks the prefix.
From(T, prefix, after) ==
  LET start == IF after = 0 THEN Min(prefix) ELSE after + 1
  IN  {k \in T : k >= start /\ \A j \in T : start <= j /\ j <= k => j \in prefix}

\* The engine's list: addr up to the limit, all of inline, sorted, truncated.
\* Mutant: the inline table is left out when addr fills the page.
ListAddrFirst(s, prefix, after, limit) ==
  LET a == Smallest(From(addr[s], prefix, after), limit)
  IN  a \cup Smallest(From(inline[s], prefix, after), limit - Cardinality(a))

List(s, prefix, after, limit) ==
  Smallest(Smallest(From(addr[s], prefix, after), limit) \cup From(inline[s], prefix, after), limit)

-----------------------------------------------------------------------------
(* Cursors.  A chain of pages that hand a cursor on remembers (as history)   *)
(* which keys it visited and which copies were in place all along.           *)

Fresh(after) == [at |-> after, seen |-> {}, resident |-> {p \in Shards \X Keys : p[2] \in Has(p[1])}]
NoCursor == [at |-> 0, seen |-> {}, resident |-> {}]
Chain(c) == IF c.at = 0 THEN Fresh(0) ELSE c

Idle == [job |-> "none", pc |-> "idle", at |-> 0, next |-> 0, merged |-> {}, page |-> << >>,
         last |-> 0, done |-> FALSE, seen |-> {}, resident |-> {}, out |-> << >>]
Begin(job, c) == [Idle EXCEPT !.job = job, !.pc = "list", !.at = c.at, !.next = 1, !.seen = c.seen, !.resident = c.resident]

Cursors == {"resilver", "migrate", "scrub"}

Init ==
  /\ null \in Nulls /\ left \in Budgets
  /\ \E st \in Stores :
       /\ addr = [s \in Shards |-> IF s \in null THEN {} ELSE st.addr[s]]
       /\ inline = [s \in Shards |-> IF s \in null THEN {} ELSE st.inline[s]]
  /\ cursor = [s \in Shards |-> [c \in Cursors |-> NoCursor]] /\ mem = [s \in Shards |-> NoCursor]
  /\ walker = [w \in Walkers |-> Idle]

\* save_cursor; a NullEngine keeps nothing, and an error is ignored by all.
Save(s, name, c) ==
  \/ cursor' = (IF s \in null THEN cursor ELSE [cursor EXCEPT ![s][name] = c]) /\ UNCHANGED left
  \/ Use("error") /\ UNCHANGED cursor

-----------------------------------------------------------------------------
(* Requests and loops start. *)

Prefix(job) == IF job \in {"export", "s3"} THEN Prefixed ELSE All
Limit(job) == IF job = "s3" THEN Batch + 1 ELSE Batch

\* resilver_full continues from its cursor.
StartResilver(w) ==
  /\ walker[w] = Idle /\ Use("resilver")
  /\ walker' = [walker EXCEPT ![w] = Begin("resilver", Chain(cursor[1]["resilver"]))]
  /\ UNCHANGED <<addr, inline, null, cursor, mem>>

\* One step from the shared cursor, by a request or by the loop; a cursor that
\* cannot be read counts as none.
StartMigrate(w) ==
  /\ walker[w] = Idle
  /\ IF w = "migrate_loop" THEN On("migrate_loop") ELSE left["migrate"] > 0
  /\ LET spend == IF w = "migrate_loop" THEN left ELSE [left EXCEPT !["migrate"] = @ - 1] IN
     \/ walker' = [walker EXCEPT ![w] = Begin("migrate", Chain(cursor[1]["migrate"]))] /\ left' = spend
     \/ /\ left["error"] > 0 /\ left' = [spend EXCEPT !["error"] = @ - 1]
        /\ walker' = [walker EXCEPT ![w] = Begin("migrate", Fresh(0))]
  /\ UNCHANGED <<addr, inline, null, cursor, mem>>

\* The scrub loop goes from shard to shard; run_scrub looks at the first page.
StartScrubLoop ==
  /\ walker["scrub_loop"] = Idle /\ On("scrub_loop")
  /\ walker' = [walker EXCEPT !["scrub_loop"] = Begin("scrub", Chain(mem[1]))]
  /\ UNCHANGED <<addr, inline, null, cursor, mem, left>>

StartRunScrub(w) ==
  /\ walker[w] = Idle /\ Use("run_scrub")
  /\ walker' = [walker EXCEPT ![w] = Begin("run_scrub", Fresh(0))]
  /\ UNCHANGED <<addr, inline, null, cursor, mem>>

StartExport(w) ==
  /\ walker[w] = Idle /\ Use("export")
  /\ walker' = [walker EXCEPT ![w] = Begin("export", Fresh(0))]
  /\ UNCHANGED <<addr, inline, null, cursor, mem>>

\* A client lists a bucket, perhaps from a start-after of its own.  It is owed
\* the keys after that, but none when it lies before the prefix: the scan then
\* stops at the first key between the two.
FromToken(a) == [Fresh(a) EXCEPT !.resident = {p \in @ : p[2] > a /\ (a = 0 \/ a + 1 >= Lo)}]
StartS3(w) ==
  /\ walker[w] = Idle /\ Use("s3")
  /\ \E a \in 0 .. NK : walker' = [walker EXCEPT ![w] = Begin("s3", FromToken(a))]
  /\ UNCHANGED <<addr, inline, null, cursor, mem>>

-----------------------------------------------------------------------------
(* A page: listed, visited, closed. *)

PerShard(job) == job \in {"scrub", "run_scrub"}

\* The page is the smallest keys of what was merged; S3 asks for one more.
Paged(q, merged) ==
  LET got  == Smallest(merged, Limit(q.job))
      keys == Sorted(IF q.job = "s3" THEN Smallest(got, Batch) ELSE got, <)
  IN  [q EXCEPT !.pc = "visit", !.merged = {}, !.page = keys, !.last = IF keys = << >> THEN 0 ELSE Last(keys),
                !.done = Cardinality(got) < Limit(q.job)]

\* A pool list asks the disks one after the other; a scrub step only its own.
ListShard(w) ==
  LET q == walker[w]
      merged == q.merged \cup List(q.next, Prefix(q.job), q.at, Limit(q.job)) IN
  /\ q.pc = "list"
  /\ walker' = [walker EXCEPT ![w] =
       IF PerShard(q.job) \/ q.next = N THEN Paged(q, merged) ELSE [q EXCEPT !.next = @ + 1, !.merged = merged]]
  /\ UNCHANGED <<addr, inline, null, cursor, mem, left>>

\* The scrub loop takes the next shard; the other walks are over.
NextScrub(q) ==
  IF q.next = N THEN Idle
  ELSE [Begin(q.job, IF q.job = "scrub" THEN Chain(mem[q.next + 1]) ELSE Fresh(0)) EXCEPT !.next = q.next + 1]
After(q) == IF PerShard(q.job) THEN NextScrub(q) ELSE Idle

\* An error of one disk ends the whole walk, cursors stay as they are.
ListFails(w) ==
  /\ walker[w].pc = "list" /\ Use("error")
  /\ walker' = [walker EXCEPT ![w] = After(walker[w])]
  /\ UNCHANGED <<addr, inline, null, cursor, mem>>

\* repair_key, migrate_key, the scrub's read, or the body for the archive: a
\* key that is gone by then is left out of it.
Visit(w) ==
  LET q == walker[w]
      k == Head(q.page)
      there == \E s \in Shards : k \in Has(s) IN
  /\ q.pc = "visit" /\ q.page # << >>
  /\ walker' = [walker EXCEPT ![w] = [q EXCEPT !.page = Tail(@), !.seen = @ \cup {k},
       !.out = IF q.job = "s3" \/ (q.job = "export" /\ there) THEN Append(@, k) ELSE @]]
  /\ UNCHANGED <<addr, inline, null, cursor, mem, left>>

\* A body that cannot be read ends an export.
ReadFails(w) ==
  /\ walker[w].pc = "visit" /\ walker[w].page # << >> /\ walker[w].job = "export" /\ Use("error")
  /\ walker' = [walker EXCEPT ![w] = Idle]
  /\ UNCHANGED <<addr, inline, null, cursor, mem>>

PageOver(q) == q.pc = "visit" /\ q.page = << >>
\* Mutant: the cursor names the next key, though a list starts after it.
MarkNextKey(q) == IF q.done THEN NoCursor ELSE [at |-> q.last + 1, seen |-> q.seen, resident |-> q.resident]
\* Mutant: the last page leaves the cursor where it was.
MarkStays(q) == [at |-> IF q.done THEN q.at ELSE q.last, seen |-> q.seen, resident |-> q.resident]
Mark(q) == IF q.done THEN NoCursor ELSE [at |-> q.last, seen |-> q.seen, resident |-> q.resident]
NextPage(q) == [q EXCEPT !.pc = "list", !.at = q.last, !.next = 1, !.page = << >>]

\* Full walks over the pool go on after their cursor is saved.
EndResilverPage(w) ==
  LET q == walker[w] IN
  /\ PageOver(q) /\ q.job = "resilver"
  /\ Save(1, "resilver", Mark(q))
  /\ walker' = [walker EXCEPT ![w] = IF q.done THEN Idle ELSE NextPage(q)]
  /\ UNCHANGED <<addr, inline, null, mem>>

EndMigrateStep(w) ==
  LET q == walker[w] IN
  /\ PageOver(q) /\ q.job = "migrate"
  /\ Save(1, "migrate", Mark(q))
  /\ walker' = [walker EXCEPT ![w] = Idle]
  /\ UNCHANGED <<addr, inline, null, mem>>

\* The vector first, then the disk's own cursor.
EndScrubPage(w) ==
  LET q == walker[w] IN
  /\ PageOver(q) /\ q.job = "scrub"
  /\ mem' = [mem EXCEPT ![q.next] = Mark(q)]
  /\ walker' = [walker EXCEPT ![w].pc = "save"]
  /\ UNCHANGED <<addr, inline, null, cursor, left>>

SaveScrub(w) ==
  LET q == walker[w] IN
  /\ q.pc = "save"
  /\ Save(q.next, "scrub", mem[q.next])
  /\ walker' = [walker EXCEPT ![w] = NextScrub(q)]
  /\ UNCHANGED <<addr, inline, null, mem>>

\* run_scrub, an export and an S3 client keep no cursor.
EndPage(w) ==
  LET q == walker[w] IN
  /\ PageOver(q) /\ q.job \in {"run_scrub", "export", "s3"}
  /\ walker' = [walker EXCEPT ![w] = IF q.job = "run_scrub" THEN NextScrub(q) ELSE IF q.done THEN Idle ELSE NextPage(q)]
  /\ UNCHANGED <<addr, inline, null, cursor, mem, left>>

-----------------------------------------------------------------------------
(* Keys come and go; the daemon dies and starts again. *)

Without(c, s, k) == [c EXCEPT !.resident = @ \ {<<s, k>>}]

Add(s, k) ==
  /\ s \notin null /\ k \notin Has(s) /\ Use("add")
  /\ \/ addr' = [addr EXCEPT ![s] = @ \cup {k}] /\ UNCHANGED inline
     \/ inline' = [inline EXCEPT ![s] = @ \cup {k}] /\ UNCHANGED addr
  /\ UNCHANGED <<null, cursor, mem, walker>>

Drop(s, k) ==
  /\ k \in Has(s) /\ Use("remove")
  /\ addr' = [addr EXCEPT ![s] = @ \ {k}] /\ inline' = [inline EXCEPT ![s] = @ \ {k}]
  /\ cursor' = [t \in Shards |-> [c \in Cursors |-> Without(cursor[t][c], s, k)]]
  /\ mem' = [t \in Shards |-> Without(mem[t], s, k)]
  /\ walker' = [w \in Walkers |-> Without(walker[w], s, k)]
  /\ UNCHANGED null

Crash ==
  /\ Use("crash")
  /\ walker' = [w \in Walkers |-> Idle]
  /\ mem' = [s \in Shards |-> cursor[s]["scrub"]]
  /\ UNCHANGED <<addr, inline, null, cursor>>

\* What a request does, and the two loops of the daemon.
Request(w) ==
  \/ StartResilver(w) \/ StartMigrate(w) \/ StartRunScrub(w) \/ StartExport(w) \/ StartS3(w)
  \/ ListShard(w) \/ Visit(w) \/ EndResilverPage(w) \/ EndMigrateStep(w) \/ EndPage(w)
MigrateLoop ==
  LET w == "migrate_loop" IN StartMigrate(w) \/ ListShard(w) \/ Visit(w) \/ EndMigrateStep(w)
ScrubLoop ==
  LET w == "scrub_loop" IN StartScrubLoop \/ ListShard(w) \/ Visit(w) \/ EndScrubPage(w) \/ SaveScrub(w)

Running ==
  \/ \E w \in Admins : Request(w) \/ ReadFails(w)
  \/ MigrateLoop \/ ScrubLoop
  \/ \E w \in Walkers : ListFails(w)
  \/ \E s \in Shards, k \in Keys : Add(s, k) \/ Drop(s, k)

Next == Running \/ Crash

Spec == Init /\ [][Next]_vars


-----------------------------------------------------------------------------
(* Properties. *)

\* Domains; a page holds only keys after the cursor it was asked from.
TypeOK ==
  /\ addr \in [Shards -> SUBSET Keys] /\ inline \in [Shards -> SUBSET Keys]
  /\ \A s \in Shards : addr[s] \cap inline[s] = {}
  /\ \A w \in Walkers : LET q == walker[w] IN
       /\ q.job \in Jobs \cup {"scrub", "none"} /\ q.pc \in {"idle", "list", "visit", "save"}
       /\ q.at \in 0 .. NK /\ q.next \in 0 .. N /\ Len(q.page) <= Batch
       /\ \A i \in 1 .. Len(q.page) : q.at < q.page[i] /\ q.page[i] <= q.last

\* What a walk owes its caller: the copies that were in place from the start of
\* its chain of pages.
Owed(q) ==
  {k \in Prefix(q.job) : \E s \in IF PerShard(q.job) THEN {q.next} ELSE Shards : <<s, k>> \in q.resident}

\* A pass misses nothing: when the last page of a resilver, a migration, a
\* scrub, an export or a listing has been worked off, every key with a copy that stayed
\* where it was since the first page has been visited, through crashes, errors,
\* concurrent steps on the same cursor and keys that come and go.
PassComplete ==
  \A w \in Walkers : LET q == walker[w] IN
    PageOver(q) /\ q.done => Owed(q) \subseteq q.seen

\* A saved cursor never runs ahead of the work: a restart that continues after
\* it leaves no key behind that was in place all along.
CursorTrailsWork ==
  \A s \in Shards, c \in Cursors : LET saved == cursor[s][c] IN
    \A d \in IF c = "scrub" THEN {s} ELSE Shards : \A k \in 1 .. saved.at : <<d, k>> \in saved.resident => k \in saved.seen

\* An archive or a listing names its keys in order and none of them twice,
\* over all its pages.
Ordered ==
  \A w \in Walkers : LET o == walker[w].out IN \A i, j \in 1 .. Len(o) : i < j => o[i] < o[j]

\* A walk at its first key, and at the end of its last page.
AtStart(q) == q.pc = "list" /\ q.at = 0
AtEnd(q) == PageOver(q) /\ q.done

\* The migration loop comes round: as long as shards[0] can keep its cursor it
\* starts at the first key and reaches the end again and again; with
\* PassComplete, no key that stays is left out for ever.
MigrationComesRound ==
  On("migrate_loop") /\ 1 \notin null => []<>AtStart(walker["migrate_loop"]) /\ []<>AtEnd(walker["migrate_loop"])

\* So does the scrub, on every disk: latent damage of a record that stays is
\* found.
ScrubComesRound ==
  On("scrub_loop") => \A s \in Shards : LET q == walker["scrub_loop"] IN
    []<>(q.next = s /\ AtStart(q)) /\ []<>(q.next = s /\ AtEnd(q))

\* A pass is exact: it misses no key that stayed and lists none twice.
PassExact == TypeOK /\ PassComplete /\ Ordered

\* Both loops come round again and again.
PassesComeRound == MigrationComesRound /\ ScrubComesRound
=============================================================================
