----------------------------- MODULE MirrorPool -----------------------------
(***************************************************************************)
(* One key of the mirrored pool (crates/ozd-app/src/pool.rs without        *)
(* erasure coding): put with parallel legs and handoff, get with a hedged  *)
(* read leg, has, stat, delete, and the repairs of the heal drain, of the  *)
(* resilver and of the scrub.  Keys share nothing but the heal queue       *)
(* (module HealQueue), of which this module keeps whether the key is asked *)
(* for, and the walk over the keys (module Walks).                         *)
(*                                                                         *)
(* A shard is a DiskEngine reduced to the copy it holds; a step is one     *)
(* call of a shard.  The ranking is what placement returns at that moment: *)
(* it moves with the shards' status and free space (module Topology).      *)
(***************************************************************************)
EXTENDS Integers, FiniteSets, FiniteSetsExt, Sequences, SequencesExt

CONSTANTS
  N,              \* number of shards
  Rankings,       \* the orders placement may return, without Faulted and full shards
  R, Quorum,      \* cfg.replicas, cfg.write_quorum
  Bodies, None, Bad, \* Bad: a record that fails its checksum
  Clients, Healers,
  Events, Budgets \* bounded kinds of events; how often each may happen, per scenario

Shards == 1 .. N
InOrder == [s \in Shards |-> s]
Lookups == {"get", "has", "stat"}
Repairs == {"drain", "resilver", "scrub"}

ASSUME MirrorAssumption ==
  /\ N \in Nat \ {0} /\ R \in 1 .. N /\ Quorum \in 1 .. R
  /\ \A r \in Rankings : r \in Seq(Shards) /\ IsInjective(r)
  /\ None \notin Bodies /\ Bad \notin Bodies /\ None # Bad
  /\ Events = {"put", "delete", "lookup", "repair", "flip", "move", "rot"} /\ Budgets \subseteq [Events -> Nat]

VARIABLES
  copy,           \* shard -> body, Bad or None
  down,           \* shards whose calls fail
  ranking,        \* topology() and select for the key
  mrf,            \* the key is in the heal queue
  proc,           \* the calls under way
  left,           \* how often each event may still happen
  over, sure,     \* history per process: kinds of writers it has overlapped;
                  \* shards that have held a readable body since it began
  kept,           \* history: no delete since an acknowledged put
  latest,         \* history: body of the last put, None after a delete
  blurred         \* history: there was more than one clean write at a time

data == <<copy, down, ranking>>
history == <<kept, latest, blurred>>
vars == <<copy, down, ranking, mrf, proc, left, over, sure, kept, latest, blurred>>

Procs == Clients \cup Healers
\* op: the operation; pc: its step; reps: replicas_for at its start; legs: calls
\* not back yet, or missing copies; todo: calls to come; good, bad: results.
Idle == [op |-> "none", pc |-> "idle", body |-> None, reps |-> << >>, legs |-> {},
         todo |-> << >>, good |-> 0, bad |-> 0]
Kind(q) == IF q.op \in Repairs THEN "repair" ELSE q.op
Writes(q) == q.op \in {"put", "delete"} \cup Repairs
ReadableShards == {s \in Shards \ down : copy[s] \in Bodies}

replicas_for == SubSeq(ranking, 1, Min({R, Len(ranking)}))
\* The shards of q that are not in S, in the order of q.
Without(q, S) ==
  LET rest[i \in 0 .. Len(q)] ==
        IF i = 0 THEN << >> ELSE IF q[i] \in S THEN rest[i - 1] ELSE Append(rest[i - 1], q[i])
  IN  rest[Len(q)]

Init ==
  /\ copy = [s \in Shards |-> None] /\ down = {} /\ ranking \in Rankings /\ mrf = FALSE
  /\ proc = [p \in Procs |-> Idle] /\ left \in Budgets
  /\ over = [p \in Procs |-> {}] /\ sure = [p \in Procs |-> {}]
  /\ kept = FALSE /\ latest = None /\ blurred = FALSE

Use(e) == left[e] > 0 /\ left' = [left EXCEPT ![e] = @ - 1]
Begin(p, q) == proc[p] = Idle /\ proc' = [proc EXCEPT ![p] = q]
Become(p, q) == proc' = [proc EXCEPT ![p] = q]
Finish(p) == proc' = [proc EXCEPT ![p] = Idle]

\* shard.put: the call fails on a shard that is down.
Store(s, b) == copy' = IF s \in down THEN copy ELSE [copy EXCEPT ![s] = b]

\* q with the result of its write to s.
Counted(q, s) == IF s \in down THEN [q EXCEPT !.bad = @ + 1] ELSE [q EXCEPT !.good = @ + 1]

-----------------------------------------------------------------------------
(* put_body *)

StartPut(p, b) ==
  /\ Use("put") /\ replicas_for # << >>
  /\ Begin(p, [Idle EXCEPT !.op = "put", !.pc = "legs", !.body = b,
                           !.reps = replicas_for, !.legs = Range(replicas_for)])
  /\ UNCHANGED <<data, mrf, history>>

\* One of the parallel writes comes back.
PutLeg(p) == \E s \in proc[p].legs :
  /\ proc[p].pc = "legs"
  /\ Store(s, proc[p].body)
  /\ Become(p, Counted([proc[p] EXCEPT !.legs = @ \ {s}], s))
  /\ UNCHANGED <<down, ranking, mrf, left, history>>

\* A leg failed: the spares are the rest of the full ranking of this moment.
StartHandoff(p) ==
  LET q == proc[p] IN
  /\ q.pc = "legs" /\ q.legs = {} /\ q.bad > 0
  /\ Become(p, [q EXCEPT !.pc = "handoff", !.todo = Without(ranking, Range(q.reps))])
  /\ UNCHANGED <<data, mrf, left, history>>

\* The next spare takes the copy of a failed leg, unless it fails too.
HandoffTo(p, s) ==
  LET q == proc[p] taken == IF s \in down THEN 0 ELSE 1 IN
  /\ q.pc = "handoff" /\ q.todo # << >>
  /\ Store(s, q.body)
  /\ Become(p, [q EXCEPT !.todo = Tail(@), !.good = @ + taken, !.bad = @ - taken])
  /\ UNCHANGED <<down, ranking, mrf, left, history>>

\* Mutant: the copy for the failed leg goes to the first replica.
HandoffSameShard(p) == proc[p].bad > 0 /\ HandoffTo(p, Head(proc[p].reps))

Handoff(p) == proc[p].bad > 0 /\ HandoffTo(p, Head(proc[p].todo))

Acked(q) == q.good >= Min({Quorum, Len(q.reps)})
\* The put wrote its replicas, nothing else, and no other writer was at work.
Clean(p) == over[p] = {} /\ proc[p].pc = "legs" /\ ~ blurred

\* Mutant: a put that needed a spare does not ask for a repair.
EndPutNoHeal(p) ==
  LET q == proc[p] IN
  /\ \/ q.pc = "legs" /\ q.legs = {} /\ q.bad = 0
     \/ q.pc = "handoff" /\ (q.bad = 0 \/ q.todo = << >>)
  /\ kept' = (kept \/ (Acked(q) /\ "delete" \notin over[p]))
  /\ latest' = q.body /\ blurred' = ~ Clean(p)
  /\ Finish(p) /\ UNCHANGED <<data, mrf, left>>

EndPut(p) ==
  LET q == proc[p] IN
  /\ \/ q.pc = "legs" /\ q.legs = {} /\ q.bad = 0
     \/ q.pc = "handoff" /\ (q.bad = 0 \/ q.todo = << >>)
  /\ mrf' = (mrf \/ q.pc = "handoff")
  /\ kept' = (kept \/ (Acked(q) /\ "delete" \notin over[p]))
  /\ latest' = q.body /\ blurred' = ~ Clean(p)
  /\ Finish(p) /\ UNCHANGED <<data, left>>

-----------------------------------------------------------------------------
(* get_inner, has, stat *)

\* Mutant: only the replicas are asked, not the other shards.
CallOrderReplicas(q) == q

\* The replicas by rank, then every other shard.
CallOrder(q) == q \o Without(InOrder, Range(q))

StartLookup(p, o) ==
  /\ Use("lookup")
  /\ Begin(p, [Idle EXCEPT !.op = o, !.pc = "look", !.reps = replicas_for, !.todo = CallOrder(replicas_for)])
  /\ UNCHANGED <<data, mrf, history>>

\* The read leg of a get is slow: it stays out while the next replica is asked.
Hedge(p) ==
  LET q == proc[p] IN
  /\ q.op = "get" /\ q.pc = "look" /\ Len(q.reps) >= 2 /\ q.legs = {}
  /\ q.todo # << >> /\ Head(q.todo) = q.reps[1]
  /\ Become(p, [q EXCEPT !.legs = {q.reps[1], q.reps[2]}, !.todo = Tail(Tail(@))])
  /\ UNCHANGED <<data, mrf, left, history>>

\* The answer of shard s: has and stat look at the index only.
Answers(q, s) == s \notin down /\ (copy[s] \in Bodies \/ (q.op # "get" /\ copy[s] = Bad))
\* get remembers the error of a replica, has gives up at any error.
AfterMiss(q, s) ==
  IF q.op = "has" /\ s \in down THEN [q EXCEPT !.pc = "answer", !.bad = 1]
  ELSE IF q.op = "get" /\ s \in Range(q.reps) /\ (s \in down \/ copy[s] = Bad) THEN [q EXCEPT !.bad = 1]
  ELSE q

\* One shard answers: a hedged leg, or the next in order when none is out.
Look(p) ==
  LET q == proc[p] IN
  /\ q.pc = "look" /\ (q.legs # {} \/ q.todo # << >>)
  /\ \E s \in (IF q.legs # {} THEN q.legs ELSE {Head(q.todo)}) :
       LET rest == IF q.legs # {} THEN [q EXCEPT !.legs = @ \ {s}] ELSE [q EXCEPT !.todo = Tail(@)] IN
       IF Answers(q, s)
       THEN Become(p, [rest EXCEPT !.pc = "answer", !.good = 1, !.body = IF q.op = "get" THEN copy[s] ELSE None])
       ELSE Become(p, AfterMiss(rest, s))
  /\ UNCHANGED <<data, mrf, left, history>>

\* Nobody has it: NotFound, or the last error of a replica.
GiveUp(p) ==
  LET q == proc[p] IN
  /\ q.pc = "look" /\ q.legs = {} /\ q.todo = << >>
  /\ Become(p, [q EXCEPT !.pc = "answer"])
  /\ UNCHANGED <<data, mrf, left, history>>

Answer(p) == proc[p].pc = "answer" /\ Finish(p) /\ UNCHANGED <<data, mrf, left, history>>

-----------------------------------------------------------------------------
(* delete *)

\* Mutant: only the replicas of the moment are asked.
StartDeleteReplicas(p) ==
  /\ Use("delete") /\ kept' = FALSE
  /\ Begin(p, [Idle EXCEPT !.op = "delete", !.pc = "del", !.todo = replicas_for])
  /\ UNCHANGED <<data, mrf, latest, blurred>>

StartDelete(p) ==
  /\ Use("delete") /\ kept' = FALSE
  /\ Begin(p, [Idle EXCEPT !.op = "delete", !.pc = "del", !.todo = InOrder])
  /\ UNCHANGED <<data, mrf, latest, blurred>>

\* The error of a shard is ignored.
DeleteNext(p) ==
  LET q == proc[p] s == Head(q.todo) IN
  /\ q.op = "delete" /\ q.todo # << >>
  /\ Store(s, None)
  /\ Become(p, Counted([q EXCEPT !.todo = Tail(@)], s))
  /\ UNCHANGED <<down, ranking, mrf, left, history>>

\* A delete that reached every shard with nobody else writing starts afresh.
EndDelete(p) ==
  /\ proc[p].op = "delete" /\ proc[p].todo = << >>
  /\ latest' = None /\ blurred' = (over[p] # {} \/ proc[p].bad > 0)
  /\ Finish(p) /\ UNCHANGED <<data, mrf, left, kept>>

-----------------------------------------------------------------------------
(* repair_key_mirror, for the heal drain, the resilver and the scrub *)

Check(o) == [Idle EXCEPT !.op = o, !.pc = "has", !.reps = replicas_for, !.todo = replicas_for]

\* mrf_drain pops the key and repairs it.
StartDrain(p) ==
  /\ mrf /\ mrf' = FALSE /\ Begin(p, Check("drain"))
  /\ UNCHANGED <<data, left, history>>

\* resilver_step: the key is listed; the list fails when any shard's does.
StartResilver(p) ==
  /\ Use("repair") /\ down = {} /\ (\E s \in Shards : copy[s] # None)
  /\ Begin(p, Check("resilver"))
  /\ UNCHANGED <<data, mrf, history>>

\* scrub_step has found the copy of shard s corrupt.
StartScrub(p) ==
  /\ Use("repair")
  /\ \E s \in Shards \ down : copy[s] = Bad
       /\ Begin(p, [Idle EXCEPT !.op = "scrub", !.pc = "drop", !.todo = <<s>>])
  /\ UNCHANGED <<data, mrf, history>>

\* scrub_shard_step drops the local copy, whatever it is by now.
Drop(p) ==
  /\ proc[p].pc = "drop"
  /\ Store(Head(proc[p].todo), None)
  /\ Become(p, Check("scrub"))
  /\ UNCHANGED <<down, ranking, mrf, left, history>>

\* has() of one desired shard; an error counts as missing.
HasNext(p) ==
  LET q == proc[p] s == Head(q.todo) IN
  /\ q.pc = "has" /\ q.todo # << >>
  /\ Become(p, [q EXCEPT !.todo = Tail(@), !.legs = IF s \in down \/ copy[s] = None THEN @ \cup {s} ELSE @])
  /\ UNCHANGED <<data, mrf, left, history>>

\* read_for_repair: the desired holders, then all shards.
FindSource(p) ==
  LET q == proc[p] IN
  /\ q.pc = "has" /\ q.todo = << >>
  /\ Become(p, IF q.legs = {} THEN [q EXCEPT !.pc = "end"]
               ELSE [q EXCEPT !.pc = "source", !.todo = Without(q.reps, q.legs) \o InOrder])
  /\ UNCHANGED <<data, mrf, left, history>>

SourceNext(p) ==
  LET q == proc[p] s == Head(q.todo) IN
  /\ q.pc = "source"
  /\ Become(p, IF q.todo = << >> THEN [q EXCEPT !.pc = "end", !.bad = 1]
               ELSE IF s \notin down /\ copy[s] \in Bodies
               THEN [q EXCEPT !.pc = "copy", !.body = copy[s], !.todo = Without(q.reps, Shards \ q.legs)]
               ELSE [q EXCEPT !.todo = Tail(@)])
  /\ UNCHANGED <<data, mrf, left, history>>

CopyNext(p) ==
  LET q == proc[p] s == Head(q.todo) IN
  /\ q.pc = "copy" /\ q.todo # << >>
  /\ Store(s, q.body)
  /\ Become(p, Counted([q EXCEPT !.todo = Tail(@)], s))
  /\ UNCHANGED <<down, ranking, mrf, left, history>>

\* The drain requeues a key it could not heal; the scrub asks for a repair
\* unless it has itself put the copy back.
EndRepair(p) ==
  LET q == proc[p] IN
  /\ q.pc = "end" \/ (q.pc = "copy" /\ q.todo = << >>)
  /\ mrf' = (mrf \/ (q.op = "drain" /\ q.bad > 0) \/ (q.op = "scrub" /\ ~(q.good > 0 /\ q.bad = 0)))
  /\ Finish(p) /\ UNCHANGED <<data, left, history>>

-----------------------------------------------------------------------------
(* Faults and placement. *)

Flip(s) ==
  /\ Use("flip") /\ down' = IF s \in down THEN down \ {s} ELSE down \cup {s}
  /\ UNCHANGED <<copy, ranking, mrf, proc, history>>

\* Placement changes; copies may now lie on shards that are no replica.
Move ==
  /\ Use("move") /\ \E r \in Rankings : r # ranking /\ ranking' = r
  /\ blurred' = TRUE
  /\ UNCHANGED <<copy, down, mrf, proc, kept, latest>>

Rot(s) ==
  /\ Use("rot") /\ copy[s] \in Bodies /\ copy' = [copy EXCEPT ![s] = Bad]
  /\ UNCHANGED <<down, ranking, mrf, proc, history>>

ClientStep(p) ==
  \/ PutLeg(p) \/ StartHandoff(p) \/ Handoff(p) \/ EndPut(p)
  \/ Hedge(p) \/ Look(p) \/ GiveUp(p) \/ Answer(p)
  \/ DeleteNext(p) \/ EndDelete(p)
RepairStep(p) ==
  \/ Drop(p) \/ HasNext(p) \/ FindSource(p) \/ SourceNext(p) \/ CopyNext(p) \/ EndRepair(p)

\* What the history variables see of a step.
Observe ==
  /\ over' = [p \in Procs |->
       IF ~ Writes(proc'[p]) THEN {}
       ELSE over[p] \cup {Kind(proc'[q]) : q \in {r \in Procs \ {p} : Writes(proc'[r])}}]
  /\ sure' = [p \in Procs |->
       IF proc'[p].op \notin Lookups THEN {}
       ELSE ReadableShards' \cap (IF proc[p] = Idle THEN Shards ELSE sure[p])]

Next ==
  /\ \/ \E p \in Clients : \/ \E b \in Bodies : StartPut(p, b)
                           \/ \E o \in Lookups : StartLookup(p, o)
                           \/ StartDelete(p) \/ ClientStep(p)
     \/ \E p \in Healers : StartDrain(p) \/ StartResilver(p) \/ StartScrub(p) \/ RepairStep(p)
     \/ \E s \in Shards : Flip(s) \/ Rot(s)
     \/ Move
  /\ Observe

Spec == Init /\ [][Next]_vars

\* Calls return, threads run, and the drain loop wakes up every five seconds.
FairSpec ==
  /\ Spec
  /\ \A p \in Clients : WF_vars(ClientStep(p) /\ Observe)
  /\ \A p \in Healers : WF_vars((StartDrain(p) \/ RepairStep(p)) /\ Observe)

-----------------------------------------------------------------------------
(* Properties. *)

\* Domains of the copies, of the calls under way and of the bounds; no call
\* carries a body that failed its checksum.
TypeOK ==
  /\ copy \in [Shards -> Bodies \cup {Bad, None}] /\ down \subseteq Shards /\ ranking \in Rankings
  /\ mrf \in BOOLEAN /\ left \in [Events -> Nat]
  /\ \A p \in Procs :
       /\ proc[p].op \in {"none", "put", "delete"} \cup Lookups \cup Repairs
       /\ proc[p].body \in Bodies \cup {None} /\ proc[p].legs \subseteq Shards
       /\ proc[p].todo \in Seq(Shards) /\ proc[p].good \in 0 .. N /\ proc[p].bad \in 0 .. N

\* An acknowledged body survives one copy gone bad, whatever handoff, repair
\* and scrub do meanwhile: until a delete, some shard holds a body that
\* passes its checksum (put_body counts every good leg on a different shard;
\* scrub_shard_step drops one copy only).
AckedBodySurvives == kept => \E s \in Shards : copy[s] \in Bodies

\* A get, has or stat that finds nothing did not overlook a body: no shard
\* has held one, and answered, from its start to its end (replicas by rank,
\* hedged or not, then every other shard).
NothingOverlooked ==
  \A p \in Clients :
    proc[p].op \in Lookups /\ proc[p].pc = "answer" /\ proc[p].good = 0 /\ proc[p].bad = 0 => sure[p] = {}

\* As long as puts and deletes come one at a time, reach their shards and
\* placement stands still, no copy differs from the last put, and nothing
\* comes back after a delete; no repair brings an older state back.
CopiesAgree ==
  ~ blurred /\ (\A p \in Procs : ~ Writes(proc[p])) => \A s \in Shards : copy[s] \in {latest, Bad, None}

\* A shard that placement wants lacks its copy while another one has the body.
Underreplicated ==
  /\ \E s \in Shards : copy[s] \in Bodies
  /\ \E s \in Range(replicas_for) : copy[s] = None

\* A put that lost a replica is repaired without anybody asking: the key
\* does not stay short of replicas while every shard answers and placement
\* stands still (put_body, mrf_drain).
HandoffHeals ==
  left["delete"] = 0 /\ left["move"] = 0 /\ left["rot"] = 0 => ~ <>[](down = {} /\ Underreplicated)

\* Bodies that fail their checksum travel nowhere, and an acknowledged one stays.
BodiesSound == TypeOK /\ AckedBodySurvives
=============================================================================
