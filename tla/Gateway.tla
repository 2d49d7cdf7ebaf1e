------------------------------ MODULE Gateway -------------------------------
(***************************************************************************)
(* S3 requests on their way through the gateway (crates/ozd-ipfs/src/      *)
(* lib.rs) and the pool (crates/ozd-app/src/pool.rs, verified.rs): bodies  *)
(* and their outboards, ranges, and the drain at shutdown                  *)
(* (crates/ozd-daemon/src/main.rs).  A put or get of one pool key is a     *)
(* step (MirrorPool, ErasurePool); a body is known by its name and length. *)
(***************************************************************************)
EXTENDS Integers, FiniteSetsExt

CONSTANTS
  GKeys, Bodies, Length,  \* keys; bodies; the length of each body
  ObMin,                  \* bodies of at least this length get an outboard
  Conns, Disks,           \* requests at a time; disks, flushed in this order
  Headers,                \* Range headers: from a to b, the last n bytes, or none
  GEvents, GBudgets       \* bounded kinds of requests and faults, per scenario

ASSUME GatewayAssumption ==
  /\ Length \in [Bodies -> Nat] /\ ObMin \in Nat /\ Disks \in Nat \ {0} /\ IsFiniteSet(Conns)
  /\ GEvents = {"put", "get", "delete", "fail", "stop"} /\ GBudgets \subseteq [GEvents -> Nat]

VARIABLES
  body, ob,               \* what the pool holds under a key and under its ob_key
  conn,                   \* requests under way and their answers
  down,                   \* shutting_down
  inflight,               \* inflight_puts + inflight_gets
  drain,                  \* where the graceful shutdown is
  unflushed,              \* puts that are not flushed, per disk
  gleft,                  \* how often each event may still happen
  put, late               \* history: bodies put under a key; puts counted after the drain looked

gwVars == <<body, ob, conn, down, inflight, drain, unflushed, gleft, put, late>>

Nothing == "nothing"
AtLeastZero(n) == IF n < 0 THEN 0 ELSE n
Whole == [kind |-> "none", a |-> 0, b |-> -1]

\* Positions in headers are unsigned; -1 stands for an end that is left out.
ASSUME HeaderAssumption ==
  /\ Nothing \notin Bodies
  /\ Headers \subseteq {Whole} \cup [kind : {"suffix", "from"}, a : Nat, b : Nat \cup {-1}]

Quiet == [op |-> "none", pc |-> "idle", key |-> Nothing, body |-> Nothing, range |-> Whole, bao |-> FALSE,
          first |-> 0, last |-> 0, answer |-> Nothing]

GatewayInit ==
  /\ body = [k \in GKeys |-> Nothing] /\ ob = [k \in GKeys |-> Nothing] /\ conn = [c \in Conns |-> Quiet]
  /\ down = FALSE /\ inflight = 0 /\ drain = [pc |-> "serve", disk |-> 1, clean |-> TRUE]
  /\ unflushed = [d \in 1 .. Disks |-> {}] /\ gleft \in GBudgets
  /\ put = [k \in GKeys |-> {}] /\ late = {}

Spend(e) == gleft[e] > 0 /\ gleft' = [gleft EXCEPT ![e] = @ - 1]
At(c, pc) == conn[c].pc = pc
Reply(c, a) == conn' = [conn EXCEPT ![c] = [@ EXCEPT !.pc = "done", !.answer = a]]

\* ob_key: a key of its own for every key.
\* Mutant: one for all of them.
ObKeyShared(k) == CHOOSE x \in GKeys : TRUE
ObKey(k) == k

\* parse_range: a header that says nothing useful counts as none.
parse_range(h) ==
  IF (h.kind = "suffix" /\ h.a = 0) \/ (h.kind = "from" /\ h.b # -1 /\ h.b < h.a) THEN Whole ELSE h

\* A connection takes its next request while the server still serves.
Accept(c, r) ==
  /\ conn[c].pc \in {"idle", "done"} /\ drain.pc \notin {"closed", "exit"} /\ Spend(r.op)
  /\ conn' = [conn EXCEPT ![c] = r]
  /\ UNCHANGED <<body, ob, down, inflight, drain, unflushed, put, late>>

AcceptPut(c) == \E k \in GKeys, b \in Bodies :
  Accept(c, [Quiet EXCEPT !.op = "put", !.pc = "start", !.key = k, !.body = b])
AcceptGet(c) == \E k \in GKeys, h \in Headers, bao \in BOOLEAN :
  Accept(c, [Quiet EXCEPT !.op = "get", !.pc = "start", !.key = k, !.range = parse_range(h), !.bao = bao])
AcceptDelete(c) == \E k \in GKeys :
  Accept(c, [Quiet EXCEPT !.op = "delete", !.pc = "start", !.key = k])

-----------------------------------------------------------------------------
(* put_object and Pool::put *)

\* The flag is looked at before the request is counted.
Gate(c) ==
  /\ At(c, "start") /\ conn[c].op = "put"
  /\ IF down THEN Reply(c, "unavailable") ELSE conn' = [conn EXCEPT ![c].pc = "count"]
  /\ UNCHANGED <<body, ob, down, inflight, drain, unflushed, gleft, put, late>>

Count(c) ==
  /\ At(c, "count")
  /\ inflight' = inflight + 1 /\ conn' = [conn EXCEPT ![c].pc = "body"]
  /\ late' = IF drain.pc \in {"serve", "wait"} THEN late ELSE late \cup {c}
  /\ UNCHANGED <<body, ob, down, drain, unflushed, gleft, put>>

\* put_inner: the body, then the outboard of a large one.
PutBody(c) ==
  LET q == conn[c] IN
  /\ At(c, "body")
  /\ body' = [body EXCEPT ![q.key] = q.body] /\ put' = [put EXCEPT ![q.key] = @ \cup {q.body}]
  /\ unflushed' = [d \in 1 .. Disks |-> unflushed[d] \cup {c}]
  /\ conn' = [conn EXCEPT ![c].pc = IF Length[q.body] >= ObMin THEN "ob" ELSE "stored"]
  /\ UNCHANGED <<ob, down, inflight, drain, gleft, late>>

\* A put that misses its quorum may still have left its body.
PutFails(c) ==
  LET q == conn[c] IN
  /\ At(c, "body") /\ Spend("fail")
  /\ \/ UNCHANGED <<body, put>>
     \/ body' = [body EXCEPT ![q.key] = q.body] /\ put' = [put EXCEPT ![q.key] = @ \cup {q.body}]
  /\ inflight' = inflight - 1 /\ Reply(c, "error")
  /\ UNCHANGED <<ob, down, drain, unflushed, late>>

\* A failure to write the outboard is only logged.
PutOb(c) ==
  LET q == conn[c] IN
  /\ At(c, "ob") /\ conn' = [conn EXCEPT ![c].pc = "stored"]
  /\ \/ ob' = [ob EXCEPT ![ObKey(q.key)] = q.body] /\ UNCHANGED gleft
     \/ Spend("fail") /\ UNCHANGED ob
  /\ UNCHANGED <<body, down, inflight, drain, unflushed, put, late>>

Stored(c) ==
  /\ At(c, "stored") /\ inflight' = inflight - 1 /\ Reply(c, "ok")
  /\ UNCHANGED <<body, ob, down, drain, unflushed, gleft, put, late>>

-----------------------------------------------------------------------------
(* get_object: the body, and for a range the outboard in a second get. *)

BeginGet(c) ==
  /\ At(c, "start") /\ conn[c].op = "get"
  /\ inflight' = inflight + 1 /\ conn' = [conn EXCEPT ![c].pc = "get"]
  /\ UNCHANGED <<body, ob, down, drain, unflushed, gleft, put, late>>

\* First and last byte; the last one is that of the body at most.
Slice(r, total) ==
  CASE r.kind = "none" -> <<0, AtLeastZero(total - 1)>>
    [] r.kind = "suffix" -> <<AtLeastZero(total - r.a), total - 1>>
    [] r.kind = "from" -> <<r.a, IF r.b = -1 \/ r.b > total - 1 THEN total - 1 ELSE r.b>>
Unsatisfiable(r, total) == (r.kind = "from" /\ r.a >= total) \/ (r.kind = "suffix" /\ total = 0)

GotBody(c) ==
  LET q == conn[c]
      b == body[q.key]
      s == Slice(q.range, Length[b]) IN
  /\ At(c, "get") /\ inflight' = inflight - 1
  /\ IF b = Nothing THEN Reply(c, "not_found")
     ELSE IF q.range = Whole /\ ~ q.bao THEN Reply(c, "full")
     ELSE IF Unsatisfiable(q.range, Length[b]) THEN Reply(c, "error")
     ELSE conn' = [conn EXCEPT ![c] = [@ EXCEPT !.pc = "get_ob", !.body = b, !.first = s[1], !.last = s[2]]]
  /\ UNCHANGED <<body, ob, down, drain, unflushed, gleft, put, late>>

BeginGetOb(c) ==
  /\ At(c, "get_ob") /\ inflight' = inflight + 1 /\ conn' = [conn EXCEPT ![c].pc = "ob_get"]
  /\ UNCHANGED <<body, ob, down, drain, unflushed, gleft, put, late>>

\* verified_slice, bao_slice: bytes only when the hashes lead to the root
\* (different bodies differ in every chunk).
GotOb(c) ==
  LET q == conn[c]
      o == ob[ObKey(q.key)] IN
  /\ At(c, "ob_get") /\ inflight' = inflight - 1
  /\ Reply(c, IF o = Nothing THEN IF q.bao THEN "error" ELSE "unverified"
              ELSE IF o = q.body THEN "verified" ELSE "integrity")
  /\ UNCHANGED <<body, ob, down, drain, unflushed, gleft, put, late>>

GetFails(c) ==
  /\ conn[c].pc \in {"get", "ob_get"} /\ Spend("fail")
  /\ inflight' = inflight - 1 /\ Reply(c, "error")
  /\ UNCHANGED <<body, ob, down, drain, unflushed, put, late>>

-----------------------------------------------------------------------------
(* delete_object: neither refused nor counted. *)

DeleteBody(c) ==
  /\ At(c, "start") /\ conn[c].op = "delete"
  /\ body' = [body EXCEPT ![conn[c].key] = Nothing] /\ conn' = [conn EXCEPT ![c].pc = "del_ob"]
  /\ UNCHANGED <<ob, down, inflight, drain, unflushed, gleft, put, late>>

DeleteOb(c) ==
  /\ At(c, "del_ob") /\ ob' = [ob EXCEPT ![ObKey(conn[c].key)] = Nothing] /\ Reply(c, "ok")
  /\ UNCHANGED <<body, down, inflight, drain, unflushed, gleft, put, late>>

-----------------------------------------------------------------------------
(* Shutdown: the flag, the wait for requests under way, the flush. *)

CtrlC ==
  /\ drain.pc = "serve" /\ Spend("stop")
  /\ down' = TRUE /\ drain' = [drain EXCEPT !.pc = "wait"]
  /\ UNCHANGED <<body, ob, conn, inflight, unflushed, put, late>>

\* Mutant: what is on its way is not waited for.
DrainedAtOnce ==
  /\ drain.pc = "wait" /\ drain' = [drain EXCEPT !.pc = "flush"]
  /\ UNCHANGED <<body, ob, conn, down, inflight, unflushed, gleft, put, late>>

Drained ==
  /\ drain.pc = "wait" /\ inflight = 0 /\ drain' = [drain EXCEPT !.pc = "flush"]
  /\ UNCHANGED <<body, ob, conn, down, inflight, unflushed, gleft, put, late>>

\* Mutant: requests are waited for as long as they take.
DrainTimeoutNever == FALSE

\* 30 seconds have passed.
DrainTimeout ==
  /\ drain.pc = "wait" /\ inflight # 0 /\ drain' = [drain EXCEPT !.pc = "flush", !.clean = FALSE]
  /\ UNCHANGED <<body, ob, conn, down, inflight, unflushed, gleft, put, late>>

\* flush_all stops at the first error, and the error is ignored.
FlushDisk ==
  /\ drain.pc = "flush"
  /\ \/ /\ unflushed' = [unflushed EXCEPT ![drain.disk] = {}]
        /\ drain' = IF drain.disk = Disks THEN [drain EXCEPT !.pc = "closed"] ELSE [drain EXCEPT !.disk = @ + 1]
        /\ UNCHANGED gleft
     \/ Spend("fail") /\ drain' = [drain EXCEPT !.pc = "closed", !.clean = FALSE] /\ UNCHANGED unflushed
  /\ UNCHANGED <<body, ob, conn, down, inflight, put, late>>

\* axum lets open requests finish, then main returns.
Exit ==
  /\ drain.pc = "closed" /\ \A c \in Conns : conn[c].pc \in {"idle", "done"}
  /\ drain' = [drain EXCEPT !.pc = "exit"]
  /\ UNCHANGED <<body, ob, conn, down, inflight, unflushed, gleft, put, late>>

Serving == \E c \in Conns :
  \/ Gate(c) \/ Count(c) \/ PutBody(c) \/ PutOb(c) \/ Stored(c)
  \/ BeginGet(c) \/ GotBody(c) \/ BeginGetOb(c) \/ GotOb(c) \/ DeleteBody(c) \/ DeleteOb(c)
Stopping == Drained \/ DrainTimeout \/ FlushDisk \/ Exit

GatewayNext ==
  \/ \E c \in Conns : AcceptPut(c) \/ AcceptGet(c) \/ AcceptDelete(c) \/ PutFails(c) \/ GetFails(c)
  \/ Serving
  \/ CtrlC \/ Stopping

-----------------------------------------------------------------------------
\* Content-addressed keys are never refused for integrity: a range or slice
\* answers "integrity" only under a key that was put with two different bodies
\* (body and outboard are read one after the other, and written so).
IntegrityOnlyAfterOverwrite ==
  \A c \in Conns : conn[c].answer = "integrity" => Cardinality(put[conn[c].key]) > 1

\* A range that is answered lies within the body it is taken from, and is not
\* empty, for every Range header and body length.
RangeWithinBody ==
  \A c \in Conns : LET q == conn[c] IN
    q.op = "get" /\ q.answer \in {"verified", "unverified"} =>
      0 <= q.first /\ q.first <= q.last /\ q.last < Length[q.body]

\* The drain leaves nothing behind: when it ended without its timeout and its
\* flush without an error, all that is not flushed are puts that passed the
\* gate before the flag was set and were counted after the drain had looked.
DrainFlushesAll ==
  drain.pc \in {"closed", "exit"} /\ drain.clean => \A d \in 1 .. Disks : unflushed[d] \subseteq late

\* After a ctrl_c the drain and the flush come to their end, also when a put
\* hangs for ever: the drain gives up after its 30 s.  The exit of the process
\* comes later: axum then still waits for the connections that are open.
DrainEnds == down ~> drain.pc \in {"closed", "exit"}

\* A get answers with a range of its body, and refuses it for integrity only
\* where versions were mixed.
RangesSound == RangeWithinBody /\ IntegrityOnlyAfterOverwrite
=============================================================================
