----------------------------- MODULE CarImport ------------------------------
(***************************************************************************)
(* The import of a CAR archive (crates/ozd-app/src/car.rs): one reader, a  *)
(* bounded channel, and workers that put the blocks into the pool while    *)
(* the walks of module Walks go over it.  A frame is the key its CID names *)
(* and what is wrong with it; a put of the pool (MirrorPool) is one step.  *)
(***************************************************************************)
EXTENDS Walks

CONSTANTS
  Archives,           \* archives: a header and a sequence of frames
  Workers, ChanCap    \* worker threads; capacity of the channel (8 per worker)

Headers == {"ok", "empty", "too_large", "cut", "v2"}
Faults == {"none", "bad_cid", "bad_hash", "bad_len", "cut"}
Frames == [key : Keys, fault : Faults]
NoFrame == [key |-> 0, fault |-> "none"]

ASSUME CarAssumption ==
  /\ Archives \subseteq [header : Headers, frames : Seq(Frames)]
  /\ ChanCap \in Nat \ {0} /\ Workers # {} /\ IsFiniteSet(Workers)

VARIABLES
  imp,        \* the import: reader, channel, counters and, as history, the frames put
  work        \* what each worker is at

carVars == <<addr, inline, null, cursor, mem, walker, left, imp, work>>

NoImport == [pc |-> "idle", archive |-> << >>, pos |-> 0, frame |-> NoFrame, chan |-> << >>, open |-> FALSE,
             verify |-> TRUE, blocks |-> 0, skipped |-> 0, corrupt |-> 0, errors |-> 0, put |-> {}]
NoWork == [pc |-> "none", frame |-> NoFrame]

CarInit == Init /\ imp = NoImport /\ work = [t \in Workers |-> NoWork]

\* The header decides before any thread is started.
StartImport ==
  /\ imp.pc = "idle" /\ Use("import")
  /\ \E a \in Archives, v \in BOOLEAN :
       IF a.header = "ok"
       THEN /\ imp' = [NoImport EXCEPT !.pc = "read", !.archive = a.frames, !.open = TRUE, !.verify = v]
            /\ work' = [t \in Workers |-> [NoWork EXCEPT !.pc = "recv"]]
       ELSE imp' = [NoImport EXCEPT !.pc = "failed"] /\ UNCHANGED work
  /\ UNCHANGED <<addr, inline, null, cursor, mem, walker>>

Frame == imp.archive[imp.pos + 1]
\* Mutant: the body is not compared with the hash of its CID.
SpoiltUnverified(f) == f.fault = "bad_cid"
\* A frame whose CID does not parse or whose hash differs is counted and left
\* out; only a sha2-256 is compared, so "bad_hash" is one of those.
Spoilt(f) == f.fault = "bad_cid" \/ (f.fault = "bad_hash" /\ imp.verify)

\* Mutant: the early return leaves the sender alive.
ReadKeepsSender ==
  /\ imp.pc = "read"
  /\ imp' = IF imp.pos = Len(imp.archive) THEN [imp EXCEPT !.pc = "join", !.open = FALSE]
            ELSE IF Frame.fault \in {"bad_len", "cut"} THEN [imp EXCEPT !.pc = "abort"]
            ELSE IF Spoilt(Frame) THEN [imp EXCEPT !.pos = @ + 1, !.corrupt = @ + 1]
            ELSE [imp EXCEPT !.pos = @ + 1, !.pc = "send", !.frame = Frame]
  /\ UNCHANGED <<addr, inline, null, cursor, mem, walker, left, work>>

\* The end of the archive, a broken frame (an early return, which drops the
\* sender as well), a spoilt one, or one for the channel.
Read ==
  /\ imp.pc = "read"
  /\ imp' = IF imp.pos = Len(imp.archive) THEN [imp EXCEPT !.pc = "join", !.open = FALSE]
            ELSE IF Frame.fault \in {"bad_len", "cut"} THEN [imp EXCEPT !.pc = "abort", !.open = FALSE]
            ELSE IF Spoilt(Frame) THEN [imp EXCEPT !.pos = @ + 1, !.corrupt = @ + 1]
            ELSE [imp EXCEPT !.pos = @ + 1, !.pc = "send", !.frame = Frame]
  /\ UNCHANGED <<addr, inline, null, cursor, mem, walker, left, work>>

\* send() blocks while the channel is full.
Send ==
  /\ imp.pc = "send" /\ Len(imp.chan) < ChanCap
  /\ imp' = [imp EXCEPT !.pc = "read", !.chan = Append(@, imp.frame), !.frame = NoFrame]
  /\ UNCHANGED <<addr, inline, null, cursor, mem, walker, left, work>>

\* recv() under the mutex: a message, or the end once the sender is gone.
Recv(t) ==
  /\ work[t].pc = "recv" /\ (imp.chan # << >> \/ ~ imp.open)
  /\ IF imp.chan # << >>
     THEN work' = [work EXCEPT ![t] = [pc |-> "has", frame |-> Head(imp.chan)]] /\ imp' = [imp EXCEPT !.chan = Tail(@)]
     ELSE work' = [work EXCEPT ![t].pc = "end"] /\ UNCHANGED imp
  /\ UNCHANGED <<addr, inline, null, cursor, mem, walker, left>>

\* A block that is there already is skipped; has() failing counts as not there.
AskStore(t) ==
  LET k == work[t].frame.key IN
  /\ work[t].pc = "has"
  /\ \/ /\ UNCHANGED left
        /\ IF \E s \in Shards : k \in Has(s)
           THEN work' = [work EXCEPT ![t].pc = "recv", ![t].frame = NoFrame] /\ imp' = [imp EXCEPT !.skipped = @ + 1]
           ELSE work' = [work EXCEPT ![t].pc = "put"] /\ UNCHANGED imp
     \/ Use("error") /\ work' = [work EXCEPT ![t].pc = "put"] /\ UNCHANGED imp
  /\ UNCHANGED <<addr, inline, null, cursor, mem, walker>>

PutBlock(t) ==
  LET k == work[t].frame.key IN
  /\ work[t].pc = "put"
  /\ work' = [work EXCEPT ![t].pc = "recv", ![t].frame = NoFrame]
  /\ \/ /\ \E s \in Shards \ null : addr' = [addr EXCEPT ![s] = @ \cup ({k} \ inline[s])]
        /\ imp' = [imp EXCEPT !.blocks = @ + 1, !.put = @ \cup {work[t].frame}] /\ UNCHANGED left
     \/ Use("error") /\ imp' = [imp EXCEPT !.errors = @ + 1] /\ UNCHANGED addr
  /\ UNCHANGED <<inline, null, cursor, mem, walker>>

\* The scope ends when all workers have.
Join ==
  /\ imp.pc \in {"join", "abort"} /\ \A t \in Workers : work[t].pc = "end"
  /\ imp' = [imp EXCEPT !.pc = IF imp.pc = "join" THEN "done" ELSE "failed"]
  /\ work' = [t \in Workers |-> NoWork]
  /\ UNCHANGED <<addr, inline, null, cursor, mem, walker, left>>

Importing == Read \/ Send \/ Join \/ \E t \in Workers : Recv(t) \/ AskStore(t) \/ PutBlock(t)

CarNext ==
  \/ Running /\ UNCHANGED <<imp, work>>
  \/ Crash /\ imp' = NoImport /\ work' = [t \in Workers |-> NoWork]
  \/ StartImport \/ Importing

CarSpec == CarInit /\ [][CarNext]_carVars

\* Reader and workers are threads that run until they end.
CarFairSpec == CarSpec /\ WF_carVars(MigrateLoop /\ UNCHANGED <<imp, work>>)
                       /\ WF_carVars(ScrubLoop /\ UNCHANGED <<imp, work>>) /\ WF_carVars(Importing)

-----------------------------------------------------------------------------
(* Properties. *)

Good(f) == f.fault = "none" \/ (f.fault = "bad_hash" /\ ~ imp.verify)

\* A broken archive does not spoil the store (car.rs): no frame without a CID,
\* and with verify none whose body differs from it, is ever put, by whatever
\* worker, in an import that ends or one that gives up halfway.  The report of
\* one that returned adds up to the frames of the archive; and unless it counts
\* an error every sound frame is in the store (no deletes in this scenario).
ReportAddsUp ==
  /\ \A f \in imp.put : Good(f)
  /\ imp.pc = "done" =>
       /\ imp.blocks + imp.skipped + imp.corrupt + imp.errors = Len(imp.archive)
       /\ imp.errors = 0 => \A i \in 1 .. Len(imp.archive) :
            Good(imp.archive[i]) => \E s \in Shards : imp.archive[i].key \in Has(s)

\* An import returns, also from an archive that is cut off in the middle: the
\* sender is dropped on every way out, so that no worker waits for ever.
ImportReturns == imp.pc # "idle" ~> imp.pc \in {"idle", "done", "failed"}
=============================================================================
