----------------------------- MODULE ErasurePool -----------------------------
(***************************************************************************)
(* One large key of a pool with erasure coding (crates/ozd-app/src/pool.rs *)
(* and erasure.rs): put as K data and M parity pieces, get that probes for *)
(* the era and gathers pieces, delete, repair, and the migration of a      *)
(* mirrored body to pieces.  Bodies below min_size stay mirrored (module   *)
(* MirrorPool).  A cell of a shard is a whole body or a piece that knows   *)
(* its index; what the code of K pieces yields is the body when they are   *)
(* pieces of one body, and a mixture otherwise.  The index row's logical   *)
(* size, which only stat reads, is left out.                               *)
(***************************************************************************)
EXTENDS Integers, FiniteSets, FiniteSetsExt, Sequences, SequencesExt

CONSTANTS
  N, Rankings,    \* shards, and the orders placement may return
  R, K, M,        \* cfg.replicas, ec.data, ec.parity
  Quorum,         \* ec.write_quorum
  Bodies,
  Clients, Healers,
  Events, Budgets \* bounded kinds of events; how often each may happen, per scenario

Shards == 1 .. N
Total == K + M
Pieces == 1 .. Total
InOrder == [s \in Shards |-> s]

ASSUME ErasureAssumption ==
  /\ N \in Nat /\ R \in 1 .. N /\ K \in Nat \ {0} /\ M \in Nat \ {0} /\ Total <= N /\ Quorum \in K .. Total
  /\ \A r \in Rankings : r \in Seq(Shards) /\ IsInjective(r)
  /\ Events = {"put", "get", "delete", "repair", "migrate", "flip", "move", "rot", "crash"}
  /\ Budgets \subseteq [Events -> Nat]

\* A cell: nothing, an unreadable record, a body (i = 0) or piece i of a body.
Empty == [b |-> "none", i |-> -1]
Rotten == [b |-> "bad", i |-> -1]
Mixture == "mixture"
Whole(b) == [b |-> b, i |-> 0]
Piece(b, i) == [b |-> b, i |-> i]
IsPiece(c) == c.i > 0
IsData(c) == c.i >= 0

VARIABLES
  cell,           \* shard -> cell
  down, ranking,  \* shards whose calls fail; what placement returns
  mrf,            \* the key is in the heal queue
  proc,           \* the calls under way
  left,           \* how often each event may still happen
  over,           \* history per process: kinds of writers it has overlapped
  seen,           \* history per process: what has happened since it began (Observe)
  held,           \* history: a body was stored, crossed by no other write, and not deleted since
  whole,          \* history: the last put was acknowledged and nothing was lost since
  moved,          \* history: placement has changed
  latest, blurred,\* history: the last body put; more than one clean write at a time
  rotted          \* history: a record has been unreadable

data == <<cell, down, ranking>>
history == <<held, whole, moved, latest, blurred>>
vars == <<cell, down, ranking, mrf, proc, left, over, seen, held, whole, moved, latest, blurred, rotted>>

Procs == Clients \cup Healers
NoSlots == [i \in Pieces |-> Empty]
\* slots: pieces in hand; legs: ranks or failed pieces; todo: shards to come;
\* the rest as in MirrorPool.
Idle == [op |-> "none", pc |-> "idle", body |-> "none", targets |-> << >>, legs |-> {},
         todo |-> << >>, slots |-> NoSlots, good |-> 0, bad |-> 0]
Fresh == [down |-> {}, held |-> TRUE, whole |-> TRUE, mixed |-> FALSE]
Writes(q) == q.op \in {"put", "delete", "drain", "resilver", "scrub", "migrate"}

\* ranking_for
First(q, n) == SubSeq(q, 1, Min({n, Len(q)}))
Targets(rk) == First(rk, Total)
Probed(rk) == First(rk, Max({Total, R}))
\* The shards of q that are not in S, in the order of q.
Without(q, S) ==
  LET rest[i \in 0 .. Len(q)] ==
        IF i = 0 THEN << >> ELSE IF q[i] \in S THEN rest[i - 1] ELSE Append(rest[i - 1], q[i])
  IN  rest[Len(q)]
Legs == Min({R, Total})

Get(s) == IF s \in down THEN Empty ELSE cell[s]
Has(s) == s \notin down /\ cell[s] # Empty
Store(s, c) == cell' = IF s \in down THEN cell ELSE [cell EXCEPT ![s] = c]
Counted(q, s) == IF s \in down THEN [q EXCEPT !.bad = @ + 1] ELSE [q EXCEPT !.good = @ + 1]

Use(e) == left[e] > 0 /\ left' = [left EXCEPT ![e] = @ - 1]
Begin(p, q) == proc[p] = Idle /\ proc' = [proc EXCEPT ![p] = q]
Become(p, q) == proc' = [proc EXCEPT ![p] = q]
Finish(p) == proc' = [proc EXCEPT ![p] = Idle]

\* The key is absent, or has been stored by a mirrored pool.
Init ==
  /\ ranking \in Rankings /\ down = {} /\ mrf = FALSE
  /\ \E b \in Bodies \cup {"none"} :
       /\ cell = [s \in Shards |-> IF b # "none" /\ s \in Range(First(ranking, R)) THEN Whole(b) ELSE Empty]
       /\ held = (b # "none") /\ latest = b
  /\ whole = FALSE /\ moved = FALSE /\ blurred = FALSE /\ rotted = FALSE
  /\ proc = [p \in Procs |-> Idle] /\ left \in Budgets
  /\ over = [p \in Procs |-> {}] /\ seen = [p \in Procs |-> Fresh]

-----------------------------------------------------------------------------
(* erasure.rs *)

Present(slots) == {i \in Pieces : IsPiece(slots[i])}
\* ec_decode: the data pieces when all are there, otherwise any K pieces.
Used(slots) ==
  IF 1 .. K \subseteq Present(slots) THEN 1 .. K
  ELSE {i \in Present(slots) : Cardinality({j \in Present(slots) : j < i}) < K}
ec_decode(slots) ==
  IF Cardinality(Present(slots)) < K THEN "none"
  ELSE LET from == {slots[i].b : i \in Used(slots)}
       IN  IF Cardinality(from) = 1 THEN CHOOSE b \in from : TRUE ELSE Mixture

\* A piece goes to the slot of its own index, the first one wins.
Fill(slots, c) == IF IsPiece(c) /\ slots[c.i] = Empty THEN [slots EXCEPT ![c.i] = c] ELSE slots

-----------------------------------------------------------------------------
(* put_ec *)

StartPut(p, b) ==
  /\ Use("put") /\ Len(Targets(ranking)) >= Quorum
  /\ Begin(p, [Idle EXCEPT !.op = "put", !.pc = "legs", !.body = b,
                           !.targets = Targets(ranking), !.legs = 1 .. Len(Targets(ranking))])
  /\ held' = FALSE /\ whole' = FALSE /\ UNCHANGED <<data, mrf, moved, latest, blurred>>

\* Piece i comes back from the shard of rank i; a failed one stays in todo.
PutLeg(p) == \E i \in proc[p].legs :
  LET q == proc[p] s == q.targets[i] IN
  /\ q.pc = "legs"
  /\ Store(s, Piece(q.body, i))
  /\ Become(p, Counted([q EXCEPT !.legs = @ \ {i}, !.todo = IF s \in down THEN Append(@, i) ELSE @], s))
  /\ UNCHANGED <<down, ranking, mrf, left, history>>

\* Handoff: legs is now the set of failed pieces, todo the spares.
StartHandoff(p) ==
  LET q == proc[p] IN
  /\ q.pc = "legs" /\ q.legs = {} /\ q.bad > 0
  /\ Become(p, [q EXCEPT !.pc = "handoff", !.legs = Range(q.todo), !.todo = Without(ranking, Range(q.targets))])
  /\ UNCHANGED <<data, mrf, left, history>>

Handoff(p) == \E i \in proc[p].legs :
  LET q == proc[p] s == Head(q.todo) IN
  /\ q.pc = "handoff" /\ q.todo # << >>
  /\ Store(s, Piece(q.body, i))
  /\ Become(p, [q EXCEPT !.todo = Tail(@), !.legs = IF s \in down THEN @ ELSE @ \ {i},
                         !.good = IF s \in down THEN @ ELSE @ + 1])
  /\ UNCHANGED <<down, ranking, mrf, left, history>>

EndPut(p) ==
  LET q == proc[p] IN
  /\ \/ q.pc = "legs" /\ q.legs = {} /\ q.bad = 0
     \/ q.pc = "handoff" /\ (q.legs = {} \/ q.todo = << >>)
  /\ mrf' = (mrf \/ q.pc = "handoff")
  /\ held' = (q.good >= Quorum /\ over[p] \cap {"put", "delete", "migrate"} = {})
  /\ blurred' = ~ (over[p] = {} /\ ~ blurred /\ (q.pc = "legs" \/ latest \in {"none", q.body}))
  /\ whole' = (q.good >= Quorum /\ ~ blurred') /\ latest' = q.body
  /\ Finish(p) /\ UNCHANGED <<data, left, moved>>

-----------------------------------------------------------------------------
(* get_ec_aware and gather_ec *)

StartGet(p) ==
  /\ Use("get")
  /\ Begin(p, [Idle EXCEPT !.op = "get", !.pc = "probe", !.targets = Probed(ranking), !.todo = Probed(ranking)])
  /\ UNCHANGED <<data, mrf, history>>

\* Ranks among rs still to be read: not the probed one, and not those whose
\* number is that of a piece in hand.
Wanted(q, rs) ==
  {r \in rs : r <= Len(q.targets) /\ r # q.good /\ q.slots[r] = Empty}

\* The next target by rank: a body is the answer, a piece starts the gathering
\* (good is then the probed rank).
Probe(p) ==
  LET q == proc[p] c == Get(Head(q.todo)) rank == Len(q.targets) - Len(q.todo) + 1 IN
  /\ q.pc = "probe" /\ q.todo # << >>
  /\ Become(p,
       IF c.i = 0 THEN [q EXCEPT !.pc = "answer", !.body = c.b]
       ELSE IF IsPiece(c)
       THEN LET g == [q EXCEPT !.pc = "data", !.good = rank, !.slots = Fill(NoSlots, c), !.todo = << >>]
            IN  [g EXCEPT !.legs = Wanted(g, 1 .. K)]
       ELSE [q EXCEPT !.todo = Tail(@)])
  /\ UNCHANGED <<data, mrf, left, history>>

\* One of the parallel reads of a phase comes back.
GatherLeg(p) == \E r \in proc[p].legs :
  LET q == proc[p] IN
  /\ q.op = "get" /\ q.pc \in {"data", "parity"}
  /\ Become(p, [q EXCEPT !.legs = @ \ {r}, !.slots = Fill(@, Get(q.targets[r]))])
  /\ UNCHANGED <<data, mrf, left, history>>

\* Mutant: the parity ranks are not read.
GatherNextNoParity(p) ==
  LET q == proc[p] IN
  /\ q.op = "get" /\ q.pc \in {"data", "parity"} /\ q.legs = {}
  /\ Become(p, [q EXCEPT !.pc = "answer", !.body = ec_decode(q.slots)])
  /\ UNCHANGED <<data, mrf, left, history>>

\* The data pieces suffice, then the parity ranks, then the shards that are no target.
GatherNext(p) ==
  LET q == proc[p] IN
  /\ q.op = "get" /\ q.pc \in {"data", "parity"} /\ q.legs = {}
  /\ Become(p,
       IF q.pc = "data" /\ ~ (1 .. K \subseteq Present(q.slots))
       THEN [q EXCEPT !.pc = "parity", !.legs = Wanted(q, (K + 1) .. Total)]
       ELSE IF Cardinality(Present(q.slots)) < K
       THEN [q EXCEPT !.pc = "stray", !.todo = Without(InOrder, Range(q.targets))]
       ELSE [q EXCEPT !.pc = "answer", !.body = ec_decode(q.slots)])
  /\ UNCHANGED <<data, mrf, left, history>>

\* No target answered: the other shards may have a body, or pieces.
ProbeOthers(p) ==
  LET q == proc[p] IN
  /\ q.pc = "probe" /\ q.todo = << >>
  /\ Become(p, [q EXCEPT !.pc = "stray", !.todo = Without(InOrder, Range(q.targets))])
  /\ UNCHANGED <<data, mrf, left, history>>

Stray(p) ==
  LET q == proc[p] c == Get(Head(q.todo)) IN
  /\ q.op = "get" /\ q.pc = "stray"
  /\ Become(p, IF q.todo = << >> THEN [q EXCEPT !.pc = "answer", !.body = ec_decode(q.slots)]
               ELSE IF c.i = 0 /\ q.good = 0 THEN [q EXCEPT !.pc = "answer", !.body = c.b]
               ELSE [q EXCEPT !.todo = Tail(@), !.slots = Fill(@, c)])
  /\ UNCHANGED <<data, mrf, left, history>>

Answer(p) == proc[p].pc = "answer" /\ Finish(p) /\ UNCHANGED <<data, mrf, left, history>>

-----------------------------------------------------------------------------
(* delete *)

StartDelete(p) ==
  /\ Use("delete") /\ held' = FALSE /\ whole' = FALSE
  /\ Begin(p, [Idle EXCEPT !.op = "delete", !.pc = "del", !.todo = InOrder])
  /\ UNCHANGED <<data, mrf, moved, latest, blurred>>

DeleteNext(p) ==
  LET q == proc[p] s == Head(q.todo) IN
  /\ q.op = "delete" /\ q.todo # << >>
  /\ Store(s, Empty)
  /\ Become(p, Counted([q EXCEPT !.todo = Tail(@)], s))
  /\ UNCHANGED <<down, ranking, mrf, left, history>>

EndDelete(p) ==
  /\ proc[p].op = "delete" /\ proc[p].todo = << >>
  /\ latest' = "none" /\ blurred' = (over[p] # {} \/ proc[p].bad > 0)
  /\ Finish(p) /\ UNCHANGED <<data, mrf, left, held, whole, moved>>

-----------------------------------------------------------------------------
(* repair_key, repair_key_ec and repair_key_mirror with the probed body *)

Check(o) == [Idle EXCEPT !.op = o, !.pc = "has", !.targets = Probed(ranking), !.todo = Targets(ranking)]

\* mrf_drain pops the key and repairs it.
StartDrain(p) ==
  /\ mrf /\ mrf' = FALSE /\ Begin(p, Check("drain"))
  /\ UNCHANGED <<data, left, history>>

\* resilver_step: the key is listed; the list fails when any shard's does.
StartResilver(p) ==
  /\ Use("repair") /\ down = {} /\ (\E s \in Shards : cell[s] # Empty)
  /\ Begin(p, Check("resilver"))
  /\ UNCHANGED <<data, mrf, history>>

\* scrub_step has found the record of shard s unreadable; the budget is waited
\* for before anything is done about it.
StartScrub(p) ==
  /\ Use("repair")
  /\ \E s \in Shards \ down : cell[s] = Rotten
       /\ Begin(p, [Idle EXCEPT !.op = "scrub", !.pc = "drop", !.todo = <<s>>])
  /\ UNCHANGED <<data, mrf, history>>

\* scrub_shard_step deletes the record, whatever it is by now.
Drop(p) ==
  /\ proc[p].pc = "drop"
  /\ Store(Head(proc[p].todo), Empty)
  /\ Become(p, Check("scrub"))
  /\ UNCHANGED <<down, ranking, mrf, left, history>>

\* has() by rank; legs collects the ranks without a record.
HasNext(p) ==
  LET q == proc[p] IN
  /\ q.pc = "has" /\ q.todo # << >>
  /\ Become(p, [q EXCEPT !.todo = Tail(@),
                  !.legs = IF Has(Head(q.todo)) THEN @ ELSE @ \cup {Min({Total, Len(q.targets)}) - Len(q.todo) + 1}])
  /\ UNCHANGED <<data, mrf, left, history>>

\* Nothing missing, or the pattern of a small mirrored body: healthy.
Healthy(q) ==
  LET legs == Min({R, Len(q.targets)})
  IN  q.legs = {} \/ (q.legs \subseteq Pieces \ 1 .. legs /\ Cardinality(q.legs) = Max({0, Total - legs}))
Diagnose(p) ==
  LET q == proc[p] IN
  /\ q.pc = "has" /\ q.todo = << >>
  /\ Become(p, IF Healthy(q) THEN [q EXCEPT !.pc = "end"]
               ELSE [q EXCEPT !.pc = "era", !.todo = q.targets \o Without(InOrder, Range(q.targets)), !.legs = {}])
  /\ UNCHANGED <<data, mrf, left, history>>

\* The first readable record tells the era.
Era(p) ==
  LET q == proc[p] c == Get(Head(q.todo)) IN
  /\ q.pc = "era"
  /\ Become(p, IF q.todo = << >> THEN [q EXCEPT !.pc = "end", !.bad = 1]
               ELSE IF c.i = 0 THEN [q EXCEPT !.pc = "mirror", !.body = c.b, !.targets = << >>, !.todo = First(ranking, R)]
               ELSE IF IsPiece(c) THEN [q EXCEPT !.pc = "collect", !.todo = First(q.targets, Total)]
               ELSE [q EXCEPT !.todo = Tail(@)])
  /\ UNCHANGED <<data, mrf, left, history>>

\* Mirror era: first has() of every replica (targets are now those without a
\* record), then the body is written to them.
MirrorHas(p) ==
  LET q == proc[p] s == Head(q.todo) IN
  /\ q.pc = "mirror"
  /\ Become(p, IF q.todo = << >> THEN [q EXCEPT !.pc = "copy", !.todo = q.targets]
               ELSE [q EXCEPT !.todo = Tail(@), !.targets = IF Has(s) THEN @ ELSE Append(@, s)])
  /\ UNCHANGED <<data, mrf, left, history>>

MirrorPut(p) ==
  LET q == proc[p] s == Head(q.todo) IN
  /\ q.pc = "copy" /\ q.todo # << >>
  /\ Store(s, Whole(q.body))
  /\ Become(p, Counted([q EXCEPT !.todo = Tail(@)], s))
  /\ UNCHANGED <<down, ranking, mrf, left, history>>

\* Piece era: collect the pieces of the targets; legs are the ranks that do
\* not hold their own piece.
Collect(p) ==
  LET q == proc[p] c == Get(Head(q.todo)) r == Min({Total, Len(q.targets)}) - Len(q.todo) + 1 IN
  /\ q.pc = "collect" /\ q.todo # << >>
  /\ Become(p, [q EXCEPT !.todo = Tail(@), !.slots = Fill(@, c), !.legs = IF c.i = r THEN @ ELSE @ \cup {r}])
  /\ UNCHANGED <<data, mrf, left, history>>

\* Too few: look at the other shards.
CollectStray(p) ==
  LET q == proc[p] IN
  /\ q.pc = "collect" /\ q.todo = << >>
  /\ Become(p, IF Cardinality(Present(q.slots)) >= K
               THEN [q EXCEPT !.pc = IF q.legs = {} THEN "end" ELSE "rebuild", !.body = ec_decode(q.slots)]
               ELSE [q EXCEPT !.pc = "strays", !.todo = Without(InOrder, Range(q.targets))])
  /\ UNCHANGED <<data, mrf, left, history>>

StrayNext(p) ==
  LET q == proc[p] IN
  /\ q.pc = "strays"
  /\ Become(p, IF q.todo # << >> THEN [q EXCEPT !.todo = Tail(@), !.slots = Fill(@, Get(Head(q.todo)))]
               ELSE IF Cardinality(Present(q.slots)) < K THEN [q EXCEPT !.pc = "end", !.bad = 1]
               ELSE [q EXCEPT !.pc = "rebuild", !.body = ec_decode(q.slots)])
  /\ UNCHANGED <<data, mrf, left, history>>

\* Mutant: the missing rank gets a copy of a piece in hand.
RebuildCopies(p) ==
  LET q == proc[p] r == Min(q.legs) IN
  /\ q.pc = "rebuild" /\ q.legs # {}
  /\ Store(q.targets[r], q.slots[Min(Present(q.slots))])
  /\ Become(p, Counted([q EXCEPT !.legs = @ \ {r}], q.targets[r]))
  /\ UNCHANGED <<down, ranking, mrf, left, history>>

\* The piece of each rank is encoded anew and written, in rank order.
Rebuild(p) ==
  LET q == proc[p] r == Min(q.legs) IN
  /\ q.pc = "rebuild" /\ q.legs # {}
  /\ Store(q.targets[r], Piece(q.body, r))
  /\ Become(p, Counted([q EXCEPT !.legs = @ \ {r}], q.targets[r]))
  /\ UNCHANGED <<down, ranking, mrf, left, history>>

\* The drain requeues a key it could not repair and the scrub asks for a repair
\* unless it has itself put something back; the resilver only counts the error.
EndRepair(p) ==
  LET q == proc[p] IN
  /\ \/ q.pc = "end" /\ q.op \in {"drain", "resilver", "scrub"}
     \/ q.pc = "copy" /\ q.todo = << >>
     \/ q.pc = "rebuild" /\ q.legs = {}
  /\ mrf' = (mrf \/ (q.op = "drain" /\ q.bad > 0) \/ (q.op = "scrub" /\ ~ (q.good > 0 /\ q.bad = 0)))
  /\ Finish(p) /\ UNCHANGED <<data, left, history>>

-----------------------------------------------------------------------------
(* migrate_key *)

ToRollback(q) == [q EXCEPT !.pc = "rollback", !.legs = (Legs + 1) .. Total]

StartMigrate(p) ==
  /\ Use("migrate") /\ Len(Targets(ranking)) = Total
  /\ Begin(p, [Idle EXCEPT !.op = "migrate", !.pc = "tail", !.targets = Targets(ranking),
                           !.todo = SubSeq(Targets(ranking), Legs + 1, Total)])
  /\ UNCHANGED <<data, mrf, history>>

\* A record on a tail rank: the key is already in pieces, or half so.
TailNext(p) ==
  LET q == proc[p] IN
  /\ q.pc = "tail" /\ q.todo # << >>
  /\ Become(p, IF Has(Head(q.todo)) THEN [q EXCEPT !.pc = "end"] ELSE [q EXCEPT !.todo = Tail(@)])
  /\ UNCHANGED <<data, mrf, left, history>>

\* The body of the first mirror leg that reads; a piece there ends it.
FindBody(p) ==
  LET q == proc[p] IN
  /\ q.pc = "tail" /\ q.todo = << >>
  /\ Become(p, [q EXCEPT !.pc = "body", !.todo = First(q.targets, Legs)])
  /\ UNCHANGED <<data, mrf, left, history>>

\* Mutant: the head pieces are written before the tail.
BodyNextHeadsFirst(p) ==
  LET q == proc[p] c == Get(Head(q.todo)) IN
  /\ q.pc = "body"
  /\ Become(p, IF q.todo = << >> \/ IsPiece(c) THEN [q EXCEPT !.pc = "end"]
               ELSE IF c.i = 0 THEN [q EXCEPT !.pc = "phase2", !.body = c.b, !.todo = << >>, !.legs = 1 .. Legs]
               ELSE [q EXCEPT !.todo = Tail(@)])
  /\ UNCHANGED <<data, mrf, left, history>>

BodyNext(p) ==
  LET q == proc[p] c == Get(Head(q.todo)) IN
  /\ q.pc = "body"
  /\ Become(p, IF q.todo = << >> \/ IsPiece(c) THEN [q EXCEPT !.pc = "end"]
               ELSE IF c.i = 0 THEN [q EXCEPT !.pc = "phase1", !.body = c.b, !.todo = << >>, !.legs = (Legs + 1) .. Total]
               ELSE [q EXCEPT !.todo = Tail(@)])
  /\ UNCHANGED <<data, mrf, left, history>>

\* Phase 1, tail pieces by rank, each read back.  An error or a canary that
\* does not match rolls back.
TailPut(p) ==
  LET q == proc[p] r == Min(q.legs) s == q.targets[r] IN
  /\ q.pc = "phase1" /\ q.legs # {}
  /\ Store(s, Piece(q.body, r))
  /\ Become(p, IF s \in down THEN ToRollback(q) ELSE [q EXCEPT !.pc = "canary"])
  /\ UNCHANGED <<down, ranking, mrf, left, history>>

Canary(p) ==
  LET q == proc[p] r == Min(q.legs) IN
  /\ q.pc = "canary"
  /\ Become(p, IF Get(q.targets[r]) = Piece(q.body, r) THEN [q EXCEPT !.pc = "phase1", !.legs = @ \ {r}] ELSE ToRollback(q))
  /\ UNCHANGED <<data, mrf, left, history>>

Rollback(p) ==
  LET q == proc[p] r == Min(q.legs) IN
  /\ q.pc = "rollback" /\ q.legs # {}
  /\ Store(q.targets[r], Empty)
  /\ Become(p, [q EXCEPT !.legs = @ \ {r}])
  /\ UNCHANGED <<down, ranking, mrf, left, history>>

StartHeads(p) ==
  /\ proc[p].pc = "phase1" /\ proc[p].legs = {}
  /\ Become(p, [proc[p] EXCEPT !.pc = "phase2", !.legs = 1 .. Legs])
  /\ UNCHANGED <<data, mrf, left, history>>

\* Phase 2, head pieces over the mirror legs, by rank; a failure asks for a repair.
HeadPut(p) ==
  LET q == proc[p] r == Min(q.legs) s == q.targets[r] IN
  /\ q.pc = "phase2" /\ q.legs # {}
  /\ Store(s, Piece(q.body, r))
  /\ mrf' = (mrf \/ s \in down)
  /\ Become(p, IF s \in down THEN [q EXCEPT !.legs = @ \ {r}] ELSE [q EXCEPT !.pc = "headcanary"])
  /\ UNCHANGED <<down, ranking, left, history>>

\* A head that reads back as something else asks for a repair too.
HeadCanary(p) ==
  LET q == proc[p] r == Min(q.legs) c == Get(q.targets[r]) IN
  /\ q.pc = "headcanary"
  /\ mrf' = (mrf \/ (IsData(c) /\ c # Piece(q.body, r)))
  /\ Become(p, [q EXCEPT !.pc = "phase2", !.legs = @ \ {r}])
  /\ UNCHANGED <<data, left, history>>

StartStrays(p) ==
  /\ proc[p].pc = "phase2" /\ proc[p].legs = {}
  /\ Become(p, [proc[p] EXCEPT !.pc = "phase3", !.todo = Without(InOrder, Range(proc[p].targets))])
  /\ UNCHANGED <<data, mrf, left, history>>

\* Phase 3, the shards that are no target.
StrayDelete(p) ==
  LET q == proc[p] IN
  /\ q.pc = "phase3" /\ q.todo # << >>
  /\ Store(Head(q.todo), Empty)
  /\ Become(p, [q EXCEPT !.todo = Tail(@)])
  /\ UNCHANGED <<down, ranking, mrf, left, history>>

EndMigrate(p) ==
  LET q == proc[p] IN
  /\ q.op = "migrate"
  /\ q.pc = "end" \/ (q.pc = "rollback" /\ q.legs = {}) \/ (q.pc = "phase3" /\ q.todo = << >>)
  /\ Finish(p) /\ UNCHANGED <<data, mrf, left, history>>

-----------------------------------------------------------------------------
(* Faults and placement. *)

Flip(s) ==
  /\ Use("flip") /\ down' = IF s \in down THEN down \ {s} ELSE down \cup {s}
  /\ UNCHANGED <<cell, ranking, mrf, proc, history>>

Move ==
  /\ Use("move") /\ \E r \in Rankings : r # ranking /\ ranking' = r
  /\ moved' = TRUE
  /\ UNCHANGED <<cell, down, mrf, proc, held, whole, latest, blurred>>

Rot(s) ==
  /\ Use("rot") /\ IsData(cell[s]) /\ cell' = [cell EXCEPT ![s] = Rotten]
  /\ whole' = FALSE
  /\ UNCHANGED <<down, ranking, mrf, proc, held, moved, latest, blurred>>

\* The daemon stops: calls end where they are and the heal queue is gone.
Crash ==
  /\ Use("crash") /\ proc # [p \in Procs |-> Idle]
  /\ proc' = [p \in Procs |-> Idle] /\ mrf' = FALSE
  /\ blurred' = (blurred \/ \E p \in Procs : proc[p].op \in {"put", "delete"})
  /\ UNCHANGED <<data, held, whole, moved, latest>>

ClientStep(p) ==
  \/ PutLeg(p) \/ StartHandoff(p) \/ Handoff(p) \/ EndPut(p)
  \/ Probe(p) \/ GatherLeg(p) \/ GatherNext(p) \/ ProbeOthers(p) \/ Stray(p) \/ Answer(p)
  \/ DeleteNext(p) \/ EndDelete(p)
RepairStep(p) ==
  \/ Drop(p) \/ HasNext(p) \/ Diagnose(p) \/ Era(p) \/ MirrorHas(p) \/ MirrorPut(p) \/ Collect(p) \/ CollectStray(p)
  \/ StrayNext(p) \/ Rebuild(p) \/ EndRepair(p)
MigrateStep(p) ==
  \/ TailNext(p) \/ FindBody(p) \/ BodyNext(p) \/ TailPut(p) \/ Canary(p) \/ Rollback(p)
  \/ StartHeads(p) \/ HeadPut(p) \/ HeadCanary(p) \/ StartStrays(p) \/ StrayDelete(p) \/ EndMigrate(p)

\* The key is half a body and half in pieces.
Mixed == \E s, t \in Shards : cell[s].i = 0 /\ IsPiece(cell[t])

\* What the history variables see of a step.
Observe ==
  /\ over' = [p \in Procs |->
       IF ~ Writes(proc'[p]) THEN {}
       ELSE over[p] \cup {proc'[q].op : q \in {r \in Procs \ {p} : Writes(proc'[r])}}]
  /\ seen' = [p \in Procs |->
       IF proc'[p].op # "get" THEN Fresh
       ELSE [down |-> seen[p].down \cup down', held |-> seen[p].held /\ held', whole |-> seen[p].whole /\ whole',
             mixed |-> seen[p].mixed \/ Mixed']]
  /\ rotted' = (rotted \/ \E s \in Shards : cell'[s] = Rotten)

Next ==
  /\ \/ \E p \in Clients : (\E b \in Bodies : StartPut(p, b)) \/ StartGet(p) \/ StartDelete(p) \/ ClientStep(p)
     \/ \E p \in Healers : StartDrain(p) \/ StartResilver(p) \/ StartScrub(p) \/ RepairStep(p) \/ StartMigrate(p) \/ MigrateStep(p)
     \/ \E s \in Shards : Flip(s) \/ Rot(s)
     \/ Move \/ Crash
  /\ Observe

Spec == Init /\ [][Next]_vars

-----------------------------------------------------------------------------
(* Properties. *)

\* Domains of the cells and of the calls under way.
TypeOK ==
  /\ cell \in [Shards -> [b : Bodies \cup {Mixture}, i : 0 .. Total] \cup {Empty, Rotten}]
  /\ down \subseteq Shards /\ ranking \in Rankings /\ mrf \in BOOLEAN
  /\ \A p \in Procs :
       /\ proc[p].body \in Bodies \cup {Mixture, "none"} /\ proc[p].legs \subseteq Pieces
       /\ proc[p].todo \in Seq(0 .. N) /\ proc[p].good \in 0 .. N /\ proc[p].bad \in 0 .. N

\* A get of a stored key answers with a body at every point of a put, a
\* migration, a repair or a scrub, also when a repair and a migration overlap, a
\* scrub deletes a record that was written anew meanwhile, or a crash cuts one
\* off, as long as the shards answer (migrate_key: tail first, then the heads one
\* by one).  While the key is half a body there is nothing to spare: gather_ec
\* passes over the bodies on targets, so with a record lost to rot the get may fail.
StaysReadable ==
  \A p \in Clients :
    proc[p].op = "get" /\ proc[p].pc = "answer" /\ seen[p].held /\ seen[p].down = {} /\ ~ (seen[p].mixed /\ rotted)
      => proc[p].body # "none"

\* An acknowledged put survives the loss of one shard: with K + 1 pieces on
\* different shards a get returns the body, also with a piece handed off or a
\* repair or migration under way (put_ec, gather_ec).
SurvivesOneLoss ==
  \A p \in Clients : proc[p].op = "get" /\ proc[p].pc = "answer" /\ seen[p].whole /\ ~ moved
                      /\ Cardinality(seen[p].down) <= 1
    => proc[p].body = latest

\* A target never holds the piece of another rank while placement stands still
\* (repair_key_ec rebuilds the piece of the rank, it does not copy one).
PiecesInPlace ==
  ~ moved => \A r \in DOMAIN Targets(ranking) :
    LET c == cell[Targets(ranking)[r]] IN IsPiece(c) => c.i = r

\* An acknowledged put survives the loss of one shard whether or not placement
\* drops the shard, as "выживании M отказов" says of M failures.
SurvivesFault ==
  \A p \in Clients : proc[p].op = "get" /\ proc[p].pc = "answer" /\ seen[p].whole
                      /\ Cardinality(seen[p].down) <= 1
    => proc[p].body = latest

\* Cells hold bodies or pieces, each piece at its rank.
PiecesSound == TypeOK /\ PiecesInPlace
=============================================================================
