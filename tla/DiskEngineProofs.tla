-------------------------- MODULE DiskEngineProofs --------------------------
(***************************************************************************)
(* Proofs about DiskEngine for all keys, bodies, threads and bounds: the   *)
(* type invariant, that reclaiming space never breaks a visible row that   *)
(* was committed in time (RowsReadable), what get may answer, that a       *)
(* collection pass never changes what a key leads to, that a version that  *)
(* was on the disk stays there (CopyStaysOnDisk), and that every record of *)
(* a file is live, in flight or counted as garbage (GarbageCounted).       *)
(***************************************************************************)
EXTENDS EngineClaims, EngineDurability, TLAPS, SequenceTheorems, FiniteSetTheorems

-----------------------------------------------------------------------------
(* Typing of the pieces the actions are built from. *)

\* An append through the segment writer keeps the disk well typed, and the
\* address it hands out is one.
LEMMA SegAppendType ==
  ASSUME DiskType, NEW rec \in Record, SegAppend(rec)
  PROVE  DiskType' /\ NextAddr \in Address
<1> USE BoundsAssumption
<1>1. TargetSeg \in SegIds
  BY DEF DiskType, SegAppend, TargetSeg, SegIds
<1>2. NextAddr \in Address
  BY <1>1 DEF NextAddr, Address, DiskType
<1> DEFINE recs == IF Full THEN <<rec>> ELSE Append(body[active], rec)
<1>a. recs \in Seq(Record) /\ Len(recs) \in Nat
  BY DEF DiskType
<1>3. body' \in [SegIds -> Seq(Record)]
  BY <1>1, <1>a DEF SegAppend, DiskType
<1>4. files' \subseteq SegIds /\ active' \in SegIds /\ wlen' \in Nat
  BY <1>1, <1>2 DEF SegAppend, DiskType, Address
<1>5. unflushed' \in Nat /\ flushOffset' \in Nat
  BY <1>1, <1>2 DEF SegAppend, DiskType, Address
<1>6. SyncedByFlush \in Nat
  BY DEF SyncedByFlush, DiskType
<1>7. synced' \in [SegIds -> Nat]
  BY <1>1, <1>2, <1>6, <1>a DEF SegAppend, DiskType, Address
<1>8. meta' \in [seg : SegIds, off : Nat]
  BY <1>1, <1>2 DEF SegAppend, DiskType, Address
<1> QED BY <1>2, <1>3, <1>4, <1>5, <1>7, <1>8 DEF DiskType

\* A flush keeps the disk well typed.
LEMMA FlushType ==
  ASSUME DiskType, Flush
  PROVE  DiskType'
<1>1. SyncedByFlush \in Nat /\ Len(body[active]) \in Nat
  BY DEF SyncedByFlush, DiskType
<1> QED BY <1>1 DEF DiskType, Flush

\* Counting a replaced row as garbage keeps the counters well typed.
LEMMA BumpType ==
  ASSUME IndexType, NEW k \in Keys
  PROVE  Bump(discard, addr[k]) \in [SegIds -> Nat]
BY DEF IndexType, Bump, Row

\* A record of a segment is a record.
LEMMA BodyType ==
  ASSUME DiskType, NEW s \in SegIds, NEW o \in Nat \ {0}, o <= Len(body[s])
  PROVE  body[s][o] \in Record
BY ElementOfSeq DEF DiskType

\* A row made of an address and a record is a row.
LEMMA MkRowType ==
  ASSUME NEW at \in Address, NEW rec \in Record
  PROVE  MkRow(at, rec) \in Row
BY DEF MkRow, Address, Record, Row

\* Ending a pass resets its locals to values of their types.
LEMMA PassEndsType ==
  ASSUME GcType, NEW g \in Gcs, NEW pc \in GcPcs, pc # "cas", PassEnds(g, pc),
         gcPass' \in Nat,
         grefs' \in [Gcs -> SUBSET SegIds], gtodo' \in [Gcs -> SUBSET SegIds],
         gkeys' \in [Gcs -> SUBSET Keys], gact' \in [Gcs -> SegIds]
  PROVE  GcType'
<1> USE BoundsAssumption
<1>1. 0 \in SegIds
  BY DEF SegIds
<1>2. /\ gpc' \in [Gcs -> GcPcs] /\ gvic' \in [Gcs -> SegIds] /\ gpos' \in [Gcs -> Nat \ {0}]
      /\ gat' \in [Gcs -> Address \cup {None}] /\ gorph' \in [Gcs -> [SegIds -> Nat]]
  BY <1>1 DEF GcType, PassEnds
<1>3. gsweep' \in [Gcs -> BOOLEAN]
  BY DEF GcType, PassEnds
<1>4. gdone' \in [Gcs -> BOOLEAN]
  <2>1. (pc = "snap" /\ gpc[g] = "clear") \in BOOLEAN
    OBVIOUS
  <2> QED BY <2>1 DEF GcType, PassEnds
<1>5. \A h \in Gcs : gpc'[h] = "cas" => gat'[h] \in Address
  BY DEF GcType, PassEnds
<1> QED BY <1>2, <1>3, <1>4, <1>5 DEF GcType

\* put, delete, flush and get keep the types.
LEMMA CallerTypes ==
  ASSUME TypeOK, Put \/ IndexOnly \/ Get \/ EngineFlush
  PROVE  TypeOK'
<1> USE DEF TypeOK
<1>1. ASSUME NEW p \in Putters, NEW k \in Keys, NEW b \in BodyOf[k], PutAppend(p, k, b)
      PROVE  TypeOK'
  <2>1. b \in Bodies /\ [key |-> k, body |-> b] \in Record
    BY DEF Bodies, Record
  <2>2. DiskType' /\ NextAddr \in Address
    BY <1>1, <2>1, SegAppendType DEF PutAppend
  <2>3. PutType'
    BY <1>1, <2>1, <2>2 DEF PutAppend, PutType
  <2> QED BY <1>1, <2>2, <2>3
           DEF PutAppend, IndexType, GetType, GcType, HistoryType, index, getv, gcv, pass, sweepv, faults, history
<1>2. ASSUME NEW p \in Putters, PutReset(p)
      PROVE  PutType'
  BY <1>2 DEF PutReset, PutType
<1>3. ASSUME NEW p \in Putters, PutCommit(p)
      PROVE  TypeOK'
  <2> DEFINE k == pkey[p]
  <2> DEFINE row == MkRow(pat[p], [key |-> k, body |-> pbody[p]])
  <2>1. k \in Keys /\ pbody[p] \in Bodies /\ pat[p] \in Address
    BY <1>3 DEF PutCommit, PutType
  <2>2. row \in Row
    BY <2>1, MkRowType DEF Record
  <2>3. IndexType'
    <3>1. discard' = Bump(discard, addr[k]) /\ addr' = [addr EXCEPT ![k] = row] /\ inline' = [inline EXCEPT ![k] = None]
      BY <1>3 DEF PutCommit
    <3> HIDE DEF k, row
    <3> QED BY <3>1, <2>1, <2>2, BumpType DEF IndexType
  <2>4. raced' \subseteq Row
    <3>1. raced' = IF Overtaken(row) THEN raced \cup {row} ELSE raced
      BY <1>3 DEF PutCommit, NoteCommit
    <3> HIDE DEF row
    <3> QED BY <3>1, <2>2 DEF HistoryType
  <2>5. PutType'
    BY <1>3, <1>2 DEF PutCommit
  <2> QED BY <1>3, <2>3, <2>4, <2>5
           DEF PutCommit, DiskType, GetType, GcType, HistoryType, disk, getv, gcv, pass, sweepv, faults
<1>4. ASSUME NEW p \in Putters, PutFails(p)
      PROVE  TypeOK'
  <2>1. PutType'
    BY <1>4, <1>2 DEF PutFails
  <2> QED BY <1>4, <2>1
           DEF PutFails, DiskType, IndexType, GetType, GcType, HistoryType, disk, index, getv, gcv, pass, sweepv, history
<1>5. ASSUME NEW k \in Keys, NEW b \in BodyOf[k], PutInline(k, b)
      PROVE  TypeOK'
  <2>1. b \in Bodies
    BY DEF Bodies
  <2>2. IndexType'
    BY <1>5, <2>1, BumpType DEF PutInline, IndexType
  <2> QED BY <1>5, <2>2
           DEF PutInline, DiskType, PutType, GetType, GcType, HistoryType, disk, putv, getv, gcv, pass, sweepv, faults, history
<1>6. ASSUME NEW k \in Keys, Delete(k)
      PROVE  TypeOK'
  <2>1. IndexType'
    BY <1>6, BumpType DEF Delete, IndexType
  <2> QED BY <1>6, <2>1
           DEF Delete, DiskType, PutType, GetType, GcType, HistoryType, disk, putv, getv, gcv, pass, sweepv, faults, history
<1>7. ASSUME EngineFlush
      PROVE  TypeOK'
  BY <1>7, FlushType
     DEF EngineFlush, IndexType, PutType, GetType, GcType, HistoryType, index, putv, getv, gcv, pass, sweepv, faults, history
<1>8. ASSUME NEW r \in Readers, NEW k \in Keys, NEW prev \in Row \cup {None}, GetLookup(r, k, prev)
      PROVE  TypeOK'
  <2> DEFINE Outcome == [res : {"none", "Ok", "NotFound", "Corrupt", "IoSame", "IoMoved"},
                         body : Bodies \cup {None}]
  <2>a. /\ rkey' \in [Readers -> Keys \cup {None}] /\ rprev' \in [Readers -> Row \cup {None}]
        /\ rkey' = [rkey EXCEPT ![r] = k]
    BY <1>8 DEF GetLookup, GetType
  <2>b. ASSUME NEW res \in {"Ok", "NotFound", "IoSame"}, NEW b \in Bodies \cup {None},
               GetReturns(r, res, b), UNCHANGED rrow
        PROVE  GetType'
    <3>1. rpc' \in [Readers -> {"idle", "read", "retry"}] /\ rout' \in [Readers -> Outcome]
      BY <2>b DEF GetReturns, GetType
    <3>2. \A q \in Readers : rpc'[q] # "idle" => rkey'[q] \in Keys /\ rrow'[q] \in Row
      BY <2>a, <2>b DEF GetReturns, GetType
    <3> QED BY <2>a, <2>b, <3>1, <3>2 DEF GetType
  <2>c. ASSUME addr[k] # None, rrow' = [rrow EXCEPT ![r] = addr[k]],
               rpc' = [rpc EXCEPT ![r] = "read"],
               rout' = [rout EXCEPT ![r] = [res |-> "none", body |-> None]]
        PROVE  GetType'
    <3>0. addr[k] \in Row
      BY <2>c DEF IndexType
    <3>1. rpc' \in [Readers -> {"idle", "read", "retry"}] /\ rout' \in [Readers -> Outcome]
      BY <2>c DEF GetType
    <3>2. \A q \in Readers : rpc'[q] # "idle" => rkey'[q] \in Keys /\ rrow'[q] \in Row
      BY <2>a, <2>c, <3>0 DEF GetType
    <3> QED BY <2>a, <2>c, <3>0, <3>1, <3>2 DEF GetType
  <2>d. inline[k] \in Bodies \cup {None}
    BY DEF IndexType
  <2>1. GetType'
    BY <1>8, <2>b, <2>c, <2>d DEF GetLookup
  <2> QED BY <1>8, <2>1
           DEF GetLookup, DiskType, IndexType, PutType, GcType, HistoryType, disk, index, putv, gcv, pass, sweepv, faults, history
<1>9. ASSUME NEW r \in Readers, GetRead(r)
      PROVE  TypeOK'
  <2>1. rrow[r] \in Row /\ rkey[r] \in Keys
    BY <1>9 DEF GetRead, GetType
  <2>2. HasRecord(rrow[r]) => body[rrow[r].seg][rrow[r].off].body \in Bodies
    BY <2>1, BodyType DEF HasRecord, Row, Record
  <2>3. GetType'
    BY <1>9, <2>1, <2>2 DEF GetRead, GetReturns, GetType
  <2> QED BY <1>9, <2>3
           DEF GetRead, DiskType, IndexType, PutType, GcType, HistoryType, disk, index, putv, gcv, pass, sweepv, faults, history
<1>10. ASSUME NEW r \in Readers, GetRetry(r)
       PROVE  TypeOK'
  <2>1. rkey[r] \in Keys /\ rrow[r] \in Row
    BY <1>10 DEF GetRetry, GetType
  <2> QED BY <1>10, <1>8, <2>1 DEF GetRetry
<1>11. ASSUME NEW r \in Readers, NEW k \in Keys, GetBegin(r, k)
       PROVE  TypeOK'
  BY <1>11, <1>8 DEF GetBegin
<1> QED BY <1>1, <1>3, <1>4, <1>5, <1>6, <1>7, <1>9, <1>10, <1>11 DEF Put, IndexOnly, Get

\* The steps of a collection pass and of the sweep keep the types.
LEMMA CollectorTypes ==
  ASSUME TypeOK, Order, NEW g \in Gcs, Gc(g) \/ GcFault(g)
  PROVE  TypeOK'
<1> USE DEF TypeOK
<1> DEFINE Rest == DiskType' /\ IndexType' /\ PutType' /\ GetType' /\ HistoryType'
<1>a. ASSUME NEW pc \in GcPcs, pc # "cas", Goto(g, pc)
      PROVE  /\ gpc' \in [Gcs -> GcPcs] /\ gdone' \in [Gcs -> BOOLEAN]
             /\ (gat' = gat) => \A h \in Gcs : gpc'[h] = "cas" => gat'[h] \in Address
  BY <1>a DEF Goto, GcType
<1>1. ASSUME GcBegin(g) PROVE TypeOK'
  <2>0. Rest
    BY <1>1 DEF GcBegin, DiskType, IndexType, PutType, GetType, HistoryType, disk, index, putv, getv, faults, history
  <2>1. gcPass' \in Nat
    BY <1>1, BoundsAssumption DEF GcBegin, GcType
  <2>2. gsweep' \in [Gcs -> BOOLEAN]
    <3>1. (gcPass = 0) \in BOOLEAN
      OBVIOUS
    <3> QED BY <1>1, <3>1 DEF GcBegin, GcType
  <2>3. gact' \in [Gcs -> SegIds]
    BY <1>1 DEF GcBegin, ReadActive, DiskType, GcType
  <2>4. GcType'
    BY <1>1, <2>1, <2>2, <2>3, <1>a DEF GcBegin, GcType, GcPcs
  <2> QED BY <2>0, <2>4
<1>z. ASSUME gact' = [gact EXCEPT ![g] = 0] PROVE gact' \in [Gcs -> SegIds]
  BY <1>z, BoundsAssumption DEF GcType, SegIds
<1>17. ASSUME GcPick(g) PROVE TypeOK'
  <2>0. Rest
    BY <1>17 DEF GcPick, DiskType, IndexType, PutType, GetType, HistoryType, disk, index, putv, getv, faults, history
  <2>1. gcPass' \in Nat /\ gact' \in [Gcs -> SegIds]
    BY <1>17, <1>z DEF GcPick, GcType
  <2>2. ASSUME NEW sw, AfterVictim(g, sw) PROVE GcType'
    BY <1>17, <2>1, <2>2, PassEndsType DEF AfterVictim, GcPick, GcType, GcPcs
  <2>3. ASSUME NEW s \in Victims(Sealed(gact[g])), Goto(g, "open"), gvic' = [gvic EXCEPT ![g] = s],
               UNCHANGED <<gpos, gat, gorph, gsweep>>
        PROVE  GcType'
    <3>1. s \in SegIds
      BY DEF Victims, Sealed, DiskType
    <3>2. gvic' \in [Gcs -> SegIds]
      BY <2>3, <3>1 DEF GcType
    <3>3. "open" \in GcPcs
      BY DEF GcPcs
    <3> QED BY <1>17, <2>1, <2>3, <3>2, <3>3, <1>a DEF GcPick, GcType
  <2>4. GcType'
    BY <1>17, <2>2, <2>3 DEF GcPick
  <2> QED BY <2>0, <2>4
<1>2. ASSUME GcOpen(g) PROVE TypeOK'
  <2>0. Rest
    BY <1>2 DEF GcOpen, DiskType, IndexType, PutType, GetType, HistoryType, disk, index, putv, getv, faults, history
  <2>1. CASE Goto(g, "check") /\ UNCHANGED pass
    BY <1>2, <2>0, <2>1, <1>a DEF GcOpen, GcType, GcPcs, pass, sweepv
  <2>2. CASE GcReturn(g)
    BY <1>2, <2>0, <2>2, PassEndsType DEF GcOpen, GcReturn, GcType, GcPcs, sweepv
  <2> QED BY <1>2, <2>1, <2>2 DEF GcOpen
<1>3. ASSUME GcCheck(g) PROVE TypeOK'
  <2>0. Rest
    BY <1>3 DEF GcCheck, DiskType, IndexType, PutType, GetType, HistoryType, disk, index, putv, getv, faults, history
  <2>1. CASE Goto(g, "account") /\ UNCHANGED gpos
    BY <1>3, <2>0, <2>1, <1>a DEF GcCheck, GcType, GcPcs, sweepv
  <2>2. CASE Goto(g, "append") /\ UNCHANGED gpos
    BY <1>3, <2>0, <2>2, <1>a DEF GcCheck, GcType, GcPcs, sweepv
  <2>3. CASE gpos' = [gpos EXCEPT ![g] = gpos[g] + 1] /\ UNCHANGED <<gpc, gdone>>
    BY <1>3, <2>0, <2>3 DEF GcCheck, GcType, sweepv
  <2> QED BY <1>3, <2>1, <2>2, <2>3 DEF GcCheck
<1>b. ASSUME gpc[g] \in {"append", "cas"} PROVE body[gvic[g]][gpos[g]] \in Record
  BY <1>b, BodyType DEF GcType, Order
<1>4. ASSUME GcAppend(g) PROVE TypeOK'
  <2>0. IndexType' /\ PutType' /\ GetType' /\ HistoryType'
    BY <1>4 DEF GcAppend, IndexType, PutType, GetType, HistoryType, index, putv, getv, faults, history
  <2>1. body[gvic[g]][gpos[g]] \in Record
    BY <1>4, <1>b DEF GcAppend
  <2>2. DiskType' /\ NextAddr \in Address
    BY <1>4, <2>1, SegAppendType DEF GcAppend
  <2>3. GcType'
    BY <1>4, <2>2 DEF GcAppend, GcType, GcPcs, Goto, sweepv
  <2> QED BY <2>0, <2>2, <2>3
<1>5. ASSUME GcFails(g) PROVE TypeOK'
  <2>0. Rest
    BY <1>5, SMTT(30) DEF GcFails, DiskType, IndexType, PutType, GetType, HistoryType, disk, index, putv, getv, history
  <2>1. GcType'
    BY <1>5, <1>z, PassEndsType DEF GcFails, GcReturn, GcType, GcPcs
  <2> QED BY <2>0, <2>1
<1>6. ASSUME GcCas(g) PROVE TypeOK'
  <2> DEFINE rec == body[gvic[g]][gpos[g]]
  <2> DEFINE row == MkRow(gat[g], rec)
  <2>1. rec \in Record /\ gat[g] \in Address
    BY <1>6, <1>b DEF GcCas, GcType
  <2>2. row \in Row /\ rec.key \in Keys /\ gat[g].seg \in SegIds
    BY <2>1, MkRowType DEF Record, Address
  <2>3. /\ IF PointsAt(addr[rec.key], gvic[g], gpos[g])
           THEN addr' = [addr EXCEPT ![rec.key] = row] /\ NoteCommit(row) /\ UNCHANGED gorph
           ELSE /\ gorph' = [gorph EXCEPT ![g][gat[g].seg] = @ + 1] /\ UNCHANGED <<addr, raced>>
        /\ UNCHANGED <<inline, discard>>
    BY <1>6 DEF GcCas
  <2> HIDE DEF rec, row
  <2>4. IndexType' /\ raced' \subseteq Row
    BY <2>2, <2>3 DEF IndexType, HistoryType, NoteCommit
  <2>5. gorph' \in [Gcs -> [SegIds -> Nat]]
    BY <2>2, <2>3, SMTT(30) DEF GcType
  <2>6. DiskType' /\ PutType' /\ GetType'
    BY <1>6 DEF GcCas, DiskType, PutType, GetType, disk, putv, getv
  <2>7. HistoryType'
    BY <1>6, <2>4 DEF GcCas, HistoryType, faults
  <2>8. gpos' \in [Gcs -> Nat \ {0}] /\ gat' \in [Gcs -> Address \cup {None}]
    BY <1>6 DEF GcCas, GcType
  <2>9. gpc' = [gpc EXCEPT ![g] = "check"] /\ gdone' = gdone /\ gat' = [gat EXCEPT ![g] = None]
    BY <1>6 DEF GcCas, Goto
  <2>10. /\ gpc' \in [Gcs -> GcPcs] /\ gdone' \in [Gcs -> BOOLEAN]
         /\ \A h \in Gcs : gpc'[h] = "cas" => gat'[h] \in Address
    BY <2>9 DEF GcType, GcPcs
  <2>11. GcType'
    BY <1>6, <2>5, <2>8, <2>10 DEF GcCas, GcType, sweepv
  <2> QED BY <2>4, <2>6, <2>7, <2>11
<1>7. ASSUME GcAccount(g) PROVE TypeOK'
  <2>0. DiskType' /\ PutType' /\ GetType' /\ HistoryType'
    BY <1>7 DEF GcAccount, DiskType, PutType, GetType, HistoryType, disk, putv, getv, faults, history
  <2>1. IndexType'
    BY <1>7 DEF GcAccount, IndexType, GcType
  <2>2. GcType'
    BY <1>7, <1>a DEF GcAccount, GcType, GcPcs, sweepv
  <2> QED BY <2>0, <2>1, <2>2
<1>8. ASSUME GcFlush(g) PROVE TypeOK'
  <2>0. IndexType' /\ PutType' /\ GetType' /\ HistoryType'
    BY <1>8 DEF GcFlush, IndexType, PutType, GetType, HistoryType, index, putv, getv, faults, history
  <2>1. DiskType'
    BY <1>8, FlushType DEF GcFlush
  <2>2. GcType'
    BY <1>8, <1>a DEF GcFlush, GcType, GcPcs, pass, sweepv
  <2> QED BY <2>0, <2>1, <2>2
<1>9. ASSUME GcUnlink(g) PROVE TypeOK'
  <2>0. Rest
    BY <1>9 DEF GcUnlink, DiskType, IndexType, PutType, GetType, HistoryType, index, putv, getv, faults, history
  <2>1. CASE Goto(g, "clear") /\ UNCHANGED pass
    BY <1>9, <2>0, <2>1, <1>a DEF GcUnlink, GcType, GcPcs, pass, sweepv
  <2>2. CASE GcReturn(g)
    BY <1>9, <2>0, <2>2, PassEndsType DEF GcUnlink, GcReturn, GcType, GcPcs, sweepv
  <2> QED BY <1>9, <2>1, <2>2 DEF GcUnlink
<1>10. ASSUME GcClear(g) PROVE TypeOK'
  <2>0. Rest
    BY <1>10 DEF GcClear, DiskType, IndexType, PutType, GetType, HistoryType, disk, putv, getv, faults, history
  <2>1. GcType'
    BY <1>10, PassEndsType DEF GcClear, AfterVictim, GcType, GcPcs, sweepv
  <2> QED BY <2>0, <2>1
<1>11. ASSUME SweepSnap(g) PROVE TypeOK'
  <2>0. Rest
    BY <1>11 DEF SweepSnap, DiskType, IndexType, PutType, GetType, HistoryType, disk, index, putv, getv, faults, history
  <2>1. grefs' \in [Gcs -> SUBSET SegIds]
    <3>1. {addr[k].seg : k \in {j \in Keys : addr[j] # None}} \subseteq SegIds
      BY DEF IndexType, Row
    <3> QED BY <1>11, <3>1 DEF SweepSnap, GcType
  <2>2. GcType'
    BY <1>11, <2>1, <1>a DEF SweepSnap, GcType, GcPcs, pass
  <2> QED BY <2>0, <2>2
<1>18. ASSUME SweepActive(g) PROVE TypeOK'
  <2>0. Rest
    BY <1>18 DEF SweepActive, DiskType, IndexType, PutType, GetType, HistoryType, disk, index, putv, getv, faults, history
  <2>1. gact' \in [Gcs -> SegIds]
    BY <1>18 DEF SweepActive, ReadActive, DiskType, GcType
  <2>2. GcType'
    BY <1>18, <2>1, <1>a DEF SweepActive, GcType, GcPcs, pass
  <2> QED BY <2>0, <2>2
<1>12. ASSUME SweepList(g) PROVE TypeOK'
  <2>0. Rest
    BY <1>12 DEF SweepList, DiskType, IndexType, PutType, GetType, HistoryType, disk, index, putv, getv, faults, history
  <2>1. gact' \in [Gcs -> SegIds]
    BY <1>12, <1>z DEF SweepList
  <2>2. GcType'
    BY <1>12, <2>1, <1>a DEF SweepList, Sealed, DiskType, GcType, GcPcs, pass
  <2> QED BY <2>0, <2>2
<1>13. ASSUME NEW s \in SegIds, SweepUnlink(g, s) PROVE TypeOK'
  <2>0. Rest
    BY <1>13 DEF SweepUnlink, DiskType, IndexType, PutType, GetType, HistoryType, index, putv, getv, faults, history
  <2>1. GcType'
    BY <1>13 DEF SweepUnlink, GcType, pass
  <2> QED BY <2>0, <2>1
<1>14. ASSUME SweepDone(g) PROVE TypeOK'
  <2>0. Rest
    BY <1>14 DEF SweepDone, DiskType, IndexType, PutType, GetType, HistoryType, disk, putv, getv, faults, history
  <2>1. GcReport(g) \in GcPcs /\ GcReport(g) # "cas"
    BY DEF GcReport, GcPcs
  <2>2. GcType'
    BY <1>14, <2>1, PassEndsType DEF SweepDone, GcType
  <2> QED BY <2>0, <2>2
<1>15. ASSUME GcMisread(g) PROVE TypeOK'
  <2>0. DiskType' /\ IndexType' /\ PutType' /\ GetType'
    BY <1>15 DEF GcMisread, DiskType, IndexType, PutType, GetType, disk, index, putv, getv
  <2>1. body[gvic[g]][gpos[g]] \in Record
    BY <1>15, BodyType DEF GcMisread, GcType
  <2>2. addr[body[gvic[g]][gpos[g]].key] \in Row
    <3>1. addr \in [Keys -> Row \cup {None}]
      BY DEF IndexType
    <3>2. body[gvic[g]][gpos[g]].key \in Keys /\ PointsAt(addr[body[gvic[g]][gpos[g]].key], gvic[g], gpos[g])
      BY <1>15, <2>1 DEF GcMisread, Alive, Record
    <3> QED BY ONLY <3>1, <3>2 DEF PointsAt
  <2>3. HistoryType'
    BY <1>15, <2>2 DEF GcMisread, HistoryType
  <2>4. GcType'
    BY <1>15 DEF GcMisread, GcType, sweepv
  <2> QED BY <2>0, <2>3, <2>4
<1>16. ASSUME NEW s \in SegIds, SweepKeep(g, s) PROVE TypeOK'
  <2>0. Rest
    BY <1>16, SMTT(30) DEF SweepKeep, DiskType, IndexType, PutType, GetType, HistoryType, disk, index, putv, getv, history
  <2>1. GcType'
    BY <1>16 DEF SweepKeep, GcType, pass
  <2> QED BY <2>0, <2>1
<1> QED BY <1>1, <1>2, <1>3, <1>4, <1>5, <1>6, <1>7, <1>8, <1>9, <1>10, <1>11, <1>12, <1>13, <1>14, <1>15, <1>16, <1>17, <1>18 DEF Gc, GcFault

\* The steps of an eviction keep the types.
LEMMA EvictTypes ==
  ASSUME TypeOK, Order, NEW g \in Gcs, Evict(g) \/ EvictFault(g)
  PROVE  TypeOK'
<1> USE DEF TypeOK
<1>0. ASSUME NEW v, NEW missed, EvictCollect(g, v, missed)
      PROVE  DiskType' /\ IndexType' /\ PutType' /\ GetType' /\ GcType'
  <2>0. DiskType' /\ IndexType' /\ PutType' /\ GetType'
    BY <1>0 DEF EvictCollect, DiskType, IndexType, PutType, GetType, disk, index, putv, getv
  <2>1. RowsInto(v) \subseteq Keys /\ v \in SegIds
    BY <1>0 DEF RowsInto, EvictCollect, Sealed, DiskType
  <2>2. gact' \in [Gcs -> SegIds]
    BY <1>0, BoundsAssumption DEF EvictCollect, GcType, SegIds
  <2>3. GcType'
    BY <1>0, <2>1, <2>2 DEF EvictCollect, Goto, GcType, GcPcs
  <2> QED BY <2>0, <2>3
<1>6. ASSUME EvictBegin(g) PROVE TypeOK'
  <2>0. DiskType' /\ IndexType' /\ PutType' /\ GetType' /\ HistoryType'
    BY <1>6 DEF EvictBegin, DiskType, IndexType, PutType, GetType, HistoryType, disk, index, putv, getv, faults, history
  <2>1. gact' \in [Gcs -> SegIds]
    BY <1>6 DEF EvictBegin, ReadActive, DiskType, GcType
  <2>2. GcType'
    BY <1>6, <2>1 DEF EvictBegin, Goto, GcType, GcPcs, pass
  <2> QED BY <2>0, <2>2
<1>7. ASSUME EvictNone(g) PROVE TypeOK'
  <2>0. DiskType' /\ IndexType' /\ PutType' /\ GetType' /\ HistoryType'
    BY <1>7 DEF EvictNone, DiskType, IndexType, PutType, GetType, HistoryType, disk, index, putv, getv, faults, history
  <2>1. gact' \in [Gcs -> SegIds]
    BY <1>7, BoundsAssumption DEF EvictNone, GcType, SegIds
  <2>2. GcType'
    BY <1>7, <2>1, PassEndsType DEF EvictNone, GcReturn, GcType, GcPcs
  <2> QED BY <2>0, <2>2
<1>1. ASSUME EvictScan(g) PROVE TypeOK'
  <2>1. HistoryType'
    BY <1>1 DEF EvictScan, HistoryType, faults, history
  <2> QED BY <1>0, <1>1, <2>1 DEF EvictScan
<1>4. ASSUME EvictMisread(g) PROVE TypeOK'
  <2>1. PICK v \in files : \E k \in RowsInto(v) : EvictCollect(g, v, {k}) /\ lost' = lost \cup {addr[k]}
    BY <1>4 DEF EvictMisread
  <2>2. PICK k \in RowsInto(v) : EvictCollect(g, v, {k}) /\ lost' = lost \cup {addr[k]}
    BY <2>1
  <2>3. addr[k] \in Row
    BY DEF RowsInto, Alive, PointsAt, IndexType
  <2>4. HistoryType'
    BY <1>4, <2>2, <2>3 DEF EvictMisread, HistoryType
  <2> QED BY <1>0, <2>2, <2>4
<1>5. ASSUME GcFails(g) PROVE TypeOK'
  BY <1>5, CollectorTypes DEF GcFault
<1>2. ASSUME EvictTxn(g) PROVE TypeOK'
  <2>0. DiskType' /\ IndexType' /\ PutType' /\ GetType' /\ HistoryType'
    BY <1>2 DEF EvictTxn, DiskType, IndexType, PutType, GetType, HistoryType, disk, putv, getv, faults, history
  <2>1. GcType'
    BY <1>2 DEF EvictTxn, Goto, GcType, GcPcs, pass
  <2> QED BY <2>0, <2>1
<1>3. ASSUME EvictUnlink(g) PROVE TypeOK'
  <2>0. DiskType' /\ IndexType' /\ PutType' /\ GetType' /\ HistoryType'
    BY <1>3 DEF EvictUnlink, DiskType, IndexType, PutType, GetType, HistoryType, index, putv, getv, faults, history
  <2>1. GcType'
    BY <1>3, PassEndsType DEF EvictUnlink, GcReturn, GcType, GcPcs, sweepv
  <2> QED BY <2>0, <2>1
<1> QED BY <1>1, <1>2, <1>3, <1>4, <1>5, <1>6, <1>7 DEF Evict, EvictFault

-----------------------------------------------------------------------------
(* The restart. *)

\* What truncating a file to a prefix leaves.
LEMMA Prefix ==
  ASSUME NEW S, NEW seq \in Seq(S), NEW n \in Nat, n <= Len(seq)
  PROVE  /\ SubSeq(seq, 1, n) \in Seq(S) /\ Len(SubSeq(seq, 1, n)) = n
         /\ \A i \in 1 .. n : SubSeq(seq, 1, n)[i] = seq[i]
<1>1. \A i \in 1 .. n : seq[i] \in S
  BY ElementOfSeq
<1> QED BY <1>1, SubSeqProperties

\* DiskEngine::open leaves every surviving record in its place and changes
\* the row of a key only to a record of that key in the surviving tail.
LEMMA ReopenFacts ==
  ASSUME TypeOK, Order, NEW len \in [SegIds -> Nat],
         \A s \in files : len[s] <= Len(body[s]), Reopen(len)
  PROVE  /\ body' \in [SegIds -> Seq(Record)]
         /\ \A s \in files : /\ Len(body'[s]) = len[s]
                             /\ \A o \in 1 .. len[s] : body'[s][o] = body[s][o]
         /\ flushOffset' \in Nat /\ wlen' \in Nat /\ active' = active /\ files' = files \cup {active}
         /\ Aligned' /\ skewed' \subseteq SegIds
         /\ \A k \in Keys : addr'[k] # addr[k] =>
              /\ addr'[k] \in Row /\ addr'[k].seg = active /\ addr'[k].key = k
              /\ addr'[k].off <= Len(body'[active])
              /\ body'[active][addr'[k].off] = [key |-> k, body |-> addr'[k].body]
         /\ addr' \in [Keys -> Row \cup {None}]
<1> USE DEF TypeOK
<1> DEFINE tail == IF meta.seg \in files THEN SubSeq(body[meta.seg], 1, len[meta.seg]) ELSE <<>>
<1> DEFINE from == Min2(meta.off, Len(tail))
<1>1. \A s \in files : /\ SubSeq(body[s], 1, len[s]) \in Seq(Record)
                       /\ Len(SubSeq(body[s], 1, len[s])) = len[s]
                       /\ \A o \in 1 .. len[s] : SubSeq(body[s], 1, len[s])[o] = body[s][o]
  BY Prefix DEF DiskType
<1>2. body' = [s \in SegIds |-> IF s = meta.seg THEN tail
                               ELSE IF s \in files THEN SubSeq(body[s], 1, len[s]) ELSE body[s]]
  BY DEF Reopen
<1>5. meta.seg = active /\ active' = active /\ active \in SegIds /\ files' = files \cup {active}
  BY DEF Order, Reopen, DiskType
<1>a. tail \in Seq(Record)
  BY <1>1
<1>6. tail = body'[active] /\ Len(tail) \in Nat
  BY <1>2, <1>5, <1>a
<1>b. active \in files => tail = SubSeq(body[active], 1, len[active])
  BY <1>5
<1> HIDE DEF tail
<1>3. body' \in [SegIds -> Seq(Record)]
  BY <1>1, <1>2, <1>a DEF DiskType
<1>4. \A s \in files : /\ Len(body'[s]) = len[s]
                       /\ \A o \in 1 .. len[s] : body'[s][o] = body[s][o]
  <2> SUFFICES ASSUME NEW s \in files
               PROVE  body'[s] = SubSeq(body[s], 1, len[s])
    BY <1>1
  <2>1. s \in SegIds
    BY DEF DiskType
  <2> QED BY <1>2, <1>5, <1>b, <2>1
<1>7. flushOffset' \in Nat /\ wlen' \in Nat /\ Aligned' /\ skewed' \subseteq SegIds
  <2>1. /\ flushOffset' = Max2(Len(tail), meta.off) /\ wlen' = Max2(Len(tail), meta.off)
        /\ skewed' = IF Len(tail) < meta.off THEN skewed \cup {meta.seg} ELSE skewed
    BY DEF Reopen, tail
  <2>2. meta.off \in Nat /\ skewed \subseteq SegIds
    BY DEF DiskType, HistoryType
  <2>3. Aligned'
    BY <2>1, <2>2, <1>5, <1>6 DEF Max2, Aligned
  <2> QED BY <2>1, <2>2, <2>3, <1>5, <1>6 DEF Max2
<1>8. from \in Nat
  BY <1>6 DEF Min2, DiskType
<1>9. ASSUME NEW k \in Keys, addr'[k] # addr[k]
      PROVE  /\ addr'[k] \in Row /\ addr'[k].seg = active /\ addr'[k].key = k
             /\ addr'[k].off <= Len(body'[active])
             /\ body'[active][addr'[k].off] = [key |-> k, body |-> addr'[k].body]
  <2>1. addr'[k] = Recovered(k, tail, from)
    BY DEF Reopen, tail
  <2> HIDE DEF from
  <2>2. addr'[k] \in TailRows(k, tail, from)
    BY <1>9, <2>1 DEF Recovered
  <2>3. PICK o \in (from + 1) .. Len(tail) :
          tail[o].key = k /\ addr'[k] = [seg |-> meta.seg, off |-> o, key |-> k, body |-> tail[o].body]
    BY <2>2 DEF TailRows
  <2>4. o \in Nat \ {0} /\ o <= Len(tail)
    BY <1>6, <1>8
  <2>5. tail[o] \in Record
    BY <1>a, <1>6, <2>4, ElementOfSeq
  <2>6. tail[o] = [key |-> k, body |-> tail[o].body] /\ tail[o].body \in Bodies
    BY <2>3, <2>5 DEF Record
  <2>7. addr'[k] \in Row
    BY <2>3, <2>4, <2>6, <1>5 DEF Row
  <2> QED BY <1>5, <1>6, <2>3, <2>4, <2>6, <2>7
<1>10. addr' \in [Keys -> Row \cup {None}]
  <2>1. addr' = [k \in Keys |-> addr'[k]]
    BY DEF Reopen
  <2> QED BY <2>1, <1>9 DEF IndexType
<1> QED BY <1>3, <1>4, <1>5, <1>7, <1>9, <1>10

\* A restart is a legal choice of surviving prefixes.
LEMMA CrashReopens ==
  ASSUME TypeOK, Order, Kill \/ PowerLoss
  PROVE  \E len \in [SegIds -> Nat] :
           /\ \A s \in files : len[s] <= Len(body[s])
           /\ Reopen(len)
           /\ synced' \in [SegIds -> Nat]
           /\ kills' \in Nat /\ powers' \in Nat /\ ioErrors' = ioErrors /\ raced' = raced
           /\ lost \subseteq lost' /\ lost' \subseteq Row
           /\ \A k \in Keys : addr[k] # None /\ Readable(addr[k])
                => addr[k] \in lost' \/ addr[k].off <= len[addr[k].seg]
<1> USE DEF TypeOK
<1>1. CASE Kill
  <2> DEFINE len == [s \in SegIds |-> Len(body[s])]
  <2>1. len \in [SegIds -> Nat] /\ \A s \in files : len[s] <= Len(body[s])
    BY DEF DiskType
  <2>2. /\ Reopen(len) /\ UNCHANGED <<powers, ioErrors, raced, lost>> /\ kills' = kills + 1
        /\ synced' = [s \in SegIds |-> IF s = meta.seg /\ s \notin files THEN 0 ELSE synced[s]]
    BY <1>1 DEF Kill
  <2>3. \A k \in Keys : addr[k] # None /\ Readable(addr[k]) => addr[k].off <= len[addr[k].seg]
    BY DEF Readable, HasRecord, IndexType, Row
  <2>4. synced' \in [SegIds -> Nat] /\ kills' \in Nat /\ powers' \in Nat /\ lost' \subseteq Row
    BY <2>2 DEF DiskType, HistoryType
  <2> HIDE DEF len
  <2> QED BY <2>1, <2>2, <2>3, <2>4
<1>2. CASE PowerLoss
  <2>1. PICK len \in [SegIds -> 0 .. SegMax] :
          /\ \A s \in SegIds : IF s \in files THEN synced[s] <= len[s] /\ len[s] <= Len(body[s])
                                              ELSE len[s] = 0
          /\ Reopen(len)
          /\ synced' = [s \in SegIds |-> IF s \in files \cup {meta.seg} THEN len[s] ELSE synced[s]]
          /\ lost' = lost \cup {addr[k] : k \in {j \in Keys :
                      addr[j] # None /\ addr[j].seg \in files /\ addr[j].off > len[addr[j].seg]}}
    BY <1>2 DEF PowerLoss
  <2>2. len \in [SegIds -> Nat]
    OBVIOUS
  <2>3. \A s \in files : len[s] <= Len(body[s])
    BY <2>1 DEF DiskType
  <2>4. synced' \in [SegIds -> Nat]
    BY <2>1, <2>2 DEF DiskType
  <2>5. lost \subseteq lost' /\ lost' \subseteq Row
    BY <2>1 DEF HistoryType, IndexType
  <2>6. \A k \in Keys : addr[k] # None /\ Readable(addr[k])
          => addr[k] \in lost' \/ addr[k].off <= len[addr[k].seg]
    BY <2>1, <2>2 DEF Readable, HasRecord, IndexType, Row, DiskType
  <2>7. kills' \in Nat /\ powers' \in Nat /\ ioErrors' = ioErrors /\ raced' = raced
    BY <1>2 DEF PowerLoss, HistoryType
  <2> QED BY <2>1, <2>2, <2>3, <2>4, <2>5, <2>6, <2>7
<1> QED BY <1>1, <1>2

\* A crash and the recovery after it keep the invariant: the rows that lose
\* their body are the ones remembered in lost.
LEMMA CrashKeepsInv ==
  ASSUME Inv, Kill \/ PowerLoss
  PROVE  Inv'
<1> USE DEF Inv, TypeOK
<1>1. PICK len \in [SegIds -> Nat] :
           /\ \A s \in files : len[s] <= Len(body[s])
           /\ Reopen(len)
           /\ synced' \in [SegIds -> Nat]
           /\ kills' \in Nat /\ powers' \in Nat /\ ioErrors' = ioErrors /\ raced' = raced
           /\ lost \subseteq lost' /\ lost' \subseteq Row
           /\ \A k \in Keys : addr[k] # None /\ Readable(addr[k])
                => addr[k] \in lost' \/ addr[k].off <= len[addr[k].seg]
  BY CrashReopens
<1>2. /\ body' \in [SegIds -> Seq(Record)]
      /\ \A s \in files : /\ Len(body'[s]) = len[s]
                          /\ \A o \in 1 .. len[s] : body'[s][o] = body[s][o]
      /\ flushOffset' \in Nat /\ wlen' \in Nat /\ active' = active /\ files' = files \cup {active}
      /\ Aligned' /\ skewed' \subseteq SegIds
      /\ \A k \in Keys : addr'[k] # addr[k] =>
           /\ addr'[k] \in Row /\ addr'[k].seg = active /\ addr'[k].key = k
           /\ addr'[k].off <= Len(body'[active])
           /\ body'[active][addr'[k].off] = [key |-> k, body |-> addr'[k].body]
      /\ addr' \in [Keys -> Row \cup {None}]
  BY <1>1, ReopenFacts
<1>3. /\ UNCHANGED <<meta, inline, discard>> /\ unflushed' = 0
      /\ ppc' = [p \in Putters |-> "idle"] /\ pkey' = [p \in Putters |-> None]
      /\ pbody' = [p \in Putters |-> None] /\ pat' = [p \in Putters |-> None]
      /\ rpc' = [r \in Readers |-> "idle"] /\ rkey' = [r \in Readers |-> None]
      /\ rrow' = [r \in Readers |-> None] /\ rprev' = [r \in Readers |-> None]
      /\ rout' = [r \in Readers |-> [res |-> "none", body |-> None]]
      /\ gcPass' = 0
      /\ gpc' = [g \in Gcs |-> "idle"] /\ gvic' = [g \in Gcs |-> 0]
      /\ gpos' = [g \in Gcs |-> 1] /\ gat' = [g \in Gcs |-> None]
      /\ gorph' = [g \in Gcs |-> [s \in SegIds |-> 0]] /\ gsweep' = [g \in Gcs |-> FALSE]
      /\ gdone' = [g \in Gcs |-> FALSE]
      /\ grefs' = [g \in Gcs |-> {}] /\ gtodo' = [g \in Gcs |-> {}] /\ gkeys' = [g \in Gcs |-> {}]
      /\ gact' = [g \in Gcs |-> 0]
  BY <1>1 DEF Reopen
<1>4. DiskType' /\ IndexType' /\ HistoryType'
  BY <1>1, <1>2, <1>3 DEF DiskType, IndexType, HistoryType
<1>5. PutType' /\ GetType'
  BY <1>3 DEF PutType, GetType
<1>6. GcType'
  <2>1. 0 \in SegIds
    BY BoundsAssumption DEF SegIds
  <2> QED BY <1>3, <2>1 DEF GcType, GcPcs
<1>7. Order'
  <2>1. active \in Nat /\ \A s \in files' : s <= active
    BY <1>2 DEF Order, DiskType, SegIds
  <2> QED BY <1>2, <1>3, <2>1 DEF Order, Victim
<1>8. InFlight' /\ Shielded'
  BY <1>3 DEF InFlight, Shielded, Past
<1>9. RowKeys'
  BY <1>2, <1>3 DEF RowKeys
<1>10. RowsReadable'
  <2> SUFFICES ASSUME NEW k \in Keys, Visible(k)'
               PROVE  Readable(addr[k])' \/ addr'[k] \in raced' \cup lost'
    BY DEF RowsReadable
  <2>1. CASE addr'[k] # addr[k]
    <3>2. HasRecord(addr[k])'
      BY <1>2, <2>1 DEF HasRecord
    <3>3. CrcOk(addr[k])'
      BY <1>2, <2>1 DEF CrcOk
    <3> QED BY <3>2, <3>3 DEF Readable
  <2>2. CASE addr'[k] = addr[k]
    <3>1. Visible(k) /\ addr[k] \in Row
      BY <1>3, <2>2 DEF Visible, IndexType
    <3>2. Readable(addr[k]) \/ addr[k] \in raced' \cup lost'
      BY <1>1, <3>1 DEF RowsReadable
    <3>3. CASE Readable(addr[k]) /\ addr[k].off <= len[addr[k].seg]
      <4>1. addr[k].seg \in files /\ addr[k].off \in 1 .. len[addr[k].seg]
        BY <3>1, <3>3 DEF Readable, HasRecord, Row
      <4> QED BY <1>2, <1>3, <2>2, <3>3, <4>1, SMTT(30) DEF Readable, HasRecord, CrcOk
    <3> QED BY <1>1, <2>2, <3>1, <3>2, <3>3 DEF Visible
  <2> QED BY <2>1, <2>2
<1> QED BY <1>2, <1>4, <1>5, <1>6, <1>7, <1>8, <1>9, <1>10

-----------------------------------------------------------------------------
(* The remaining conjuncts of the invariant, action by action. *)

\* What a step does to the parts of the state that the invariant ties
\* together can be told from four facts; a step that leaves them alone
\* keeps the conjuncts that speak of them.
LEMMA QuietStep ==
  ASSUME Inv, TypeOK', UNCHANGED <<files, body, active, wlen, meta, addr, inline, raced, lost, skewed, ppc, pkey, pbody, pat, gpc, gvic, gpos, gat, grefs, gtodo, gkeys>>
  PROVE  Inv'
<1>1. Order' /\ Aligned' /\ InFlight' /\ RowKeys' /\ RowsReadable' /\ Shielded'
  BY DEF Inv, Order, Aligned, InFlight, RowKeys, RowsReadable, Shielded, Readable, HasRecord, CrcOk, Visible, Past, MkRow
<1> QED BY <1>1 DEF Inv

\* An append leaves every record in its place, and makes the address it
\* returns readable while the writer's file is in the directory.
LEMMA SegAppendReadable ==
  ASSUME DiskType, Order, Aligned, NEW rec \in Record, SegAppend(rec), UNCHANGED skewed
  PROVE  /\ \A row \in Row : Readable(row) => Readable(row)'
         /\ \A at : at = NextAddr /\ at.seg \in files' \ skewed => Readable(MkRow(at, rec))'
         /\ NextAddr.seg = active' /\ active <= active' /\ meta'.seg = active'
         /\ files \subseteq files' /\ files' \subseteq files \cup {active'}
         /\ active' = active => files' = files
         /\ \A s \in files' : s <= active'
         /\ \A s \in SegIds : s <= active =>
              /\ Len(body[s]) <= Len(body'[s])
              /\ \A o \in 1 .. Len(body[s]) : body'[s][o] = body[s][o]
              /\ \/ s < NextAddr.seg \/ NextAddr.seg \in skewed
                 \/ s = NextAddr.seg /\ Len(body[s]) < NextAddr.off
         /\ Aligned'
<1> USE BoundsAssumption
<1>t. /\ active \in SegIds /\ active \in Nat /\ wlen \in Nat /\ body \in [SegIds -> Seq(Record)]
      /\ \A s \in SegIds : s \in Nat /\ Len(body[s]) \in Nat
  BY DEF DiskType, SegIds
<1>o. \A s \in files : s \in SegIds /\ s <= active
  BY DEF Order, DiskType
<1>1. CASE Full
  <2>1. /\ active' = active + 1 /\ active + 1 \in SegIds /\ files' = files \cup {active + 1} /\ wlen' = 1
        /\ meta'.seg = active + 1 /\ body' = [body EXCEPT ![active + 1] = <<rec>>]
        /\ NextAddr = [seg |-> active + 1, off |-> 1]
    BY <1>1, <1>t DEF SegAppend, TargetSeg, NextAddr, SegIds
  <2>2. body'[active + 1] = <<rec>> /\ \A s \in SegIds : s <= active => body'[s] = body[s] /\ s < active + 1
    BY <1>t, <2>1
  <2>3. Aligned'
    BY <2>1, <2>2 DEF Aligned
  <2>4. ASSUME NEW row \in Row, Readable(row) PROVE Readable(row)'
    <3>1. row.seg \in files /\ row.seg \in SegIds /\ row.seg <= active
      BY <1>o, <2>4 DEF Readable, HasRecord
    <3> QED BY <2>1, <2>2, <2>4, <3>1 DEF Readable, HasRecord, CrcOk
  <2>5. ASSUME NEW at, at = NextAddr PROVE Readable(MkRow(at, rec))'
    <3>1. MkRow(at, rec) = [seg |-> active + 1, off |-> 1, key |-> rec.key, body |-> rec.body]
      BY <2>1, <2>5 DEF MkRow
    <3>2. rec = [key |-> rec.key, body |-> rec.body]
      BY DEF Record
    <3> QED BY <2>1, <2>2, <3>1, <3>2 DEF Readable, HasRecord, CrcOk
  <2>6. \A s \in files' : s <= active + 1
    <3>1. \A s \in files : s \in Nat /\ s <= active
      BY <1>t, <1>o
    <3> QED BY <1>t, <2>1, <3>1
  <2>7. \A s \in SegIds : s <= active =>
              /\ Len(body[s]) <= Len(body'[s])
              /\ \A o \in 1 .. Len(body[s]) : body'[s][o] = body[s][o]
    BY <1>t, <2>2
  <2> QED BY <1>t, <2>1, <2>2, <2>3, <2>4, <2>5, <2>6, <2>7
<1>2. CASE ~Full
  <2>1. /\ active' = active /\ files' = files /\ wlen' = wlen + 1 /\ meta'.seg = active
        /\ body' = [body EXCEPT ![active] = Append(body[active], rec)]
        /\ NextAddr = [seg |-> active, off |-> wlen + 1]
    BY <1>2, <1>t DEF SegAppend, TargetSeg, NextAddr
  <2>2. body'[active] = Append(body[active], rec) /\ \A s \in SegIds \ {active} : body'[s] = body[s]
    BY <1>t, <2>1
  <2>3. /\ Len(body'[active]) = Len(body[active]) + 1 /\ body'[active][Len(body[active]) + 1] = rec
        /\ \A o \in 1 .. Len(body[active]) : body'[active][o] = body[active][o]
    BY <1>t, <2>2
  <2>4. \A s \in SegIds : /\ Len(body[s]) <= Len(body'[s])
                          /\ \A o \in 1 .. Len(body[s]) : body'[s][o] = body[s][o]
    <3> SUFFICES ASSUME NEW s \in SegIds
                 PROVE  /\ Len(body[s]) <= Len(body'[s])
                        /\ \A o \in 1 .. Len(body[s]) : body'[s][o] = body[s][o]
      OBVIOUS
    <3>1. Len(body[s]) \in Nat
      BY <1>t
    <3>2. CASE s = active
      BY <2>3, <3>1, <3>2
    <3>3. CASE s # active
      <4>1. body'[s] = body[s]
        BY <2>2, <3>3
      <4> QED BY <3>1, <4>1
    <3> QED BY <3>2, <3>3
  <2>5. Aligned'
    BY <1>t, <2>1, <2>3 DEF Aligned
  <2>6. ASSUME NEW row \in Row, Readable(row) PROVE Readable(row)'
    <3>1. row.seg \in files /\ row.seg \in SegIds /\ row.off \in 1 .. Len(body[row.seg])
      BY <1>o, <1>t, <2>6 DEF Readable, HasRecord, Row
    <3>2. row.off <= Len(body'[row.seg]) /\ body'[row.seg][row.off] = body[row.seg][row.off]
      <4>1. /\ Len(body[row.seg]) <= Len(body'[row.seg]) /\ Len(body[row.seg]) \in Nat
            /\ Len(body'[row.seg]) \in Nat
        <5>1. Len(body[row.seg]) \in Nat
          BY <1>t, <3>1
        <5>2. CASE row.seg = active
          BY <2>3, <5>1, <5>2
        <5>3. CASE row.seg # active
          <6>1. body'[row.seg] = body[row.seg]
            BY <2>2, <3>1, <5>3
          <6> QED BY <5>1, <6>1
        <5> QED BY <5>2, <5>3
      <4>2. body'[row.seg][row.off] = body[row.seg][row.off]
        BY <2>4, <3>1
      <4> QED BY <3>1, <4>1, <4>2
    <3> QED BY <2>1, <2>6, <3>1, <3>2 DEF Readable, HasRecord, CrcOk
  <2>7. ASSUME NEW at, at = NextAddr, at.seg \in files' \ skewed PROVE Readable(MkRow(at, rec))'
    <3>1. active \in files' /\ wlen = Len(body[active])
      BY <2>1, <2>7 DEF Aligned
    <3>2. MkRow(at, rec) = [seg |-> active, off |-> wlen + 1, key |-> rec.key, body |-> rec.body]
      BY <2>1, <2>7 DEF MkRow
    <3>3. rec = [key |-> rec.key, body |-> rec.body]
      BY DEF Record
    <3> QED BY <1>t, <2>3, <3>1, <3>2, <3>3, SMTT(30) DEF Readable, HasRecord, CrcOk
  <2>8. ASSUME NEW s \in SegIds, s <= active
        PROVE  \/ s < NextAddr.seg \/ NextAddr.seg \in skewed
               \/ s = NextAddr.seg /\ Len(body[s]) < NextAddr.off
    BY <1>t, <2>1, <2>8 DEF Aligned
  <2> QED BY <1>t, <1>o, <2>1, <2>4, <2>5, <2>6, <2>7, <2>8
<1> QED BY <1>1, <1>2

\* What an append keeps: the rows, the copies and puts in flight, the order.
LEMMA AppendKeeps ==
  ASSUME Inv, NEW rec \in Record, SegAppend(rec), UNCHANGED <<addr, inline, raced, lost, skewed>>
  PROVE  /\ RowKeys' /\ RowsReadable'
         /\ \A at \in Address, rc \in Record :
              (at.seg \in files \ skewed => Readable(MkRow(at, rc))) /\ at.seg <= active /\ at.seg \in files' \ skewed'
                => Readable(MkRow(at, rc))'
<1> USE DEF Inv, TypeOK
<1>0. /\ \A row \in Row : Readable(row) => Readable(row)'
      /\ files' \subseteq files \cup {active'} /\ active <= active' /\ (active' = active => files' = files)
      /\ active' \in SegIds /\ active \in SegIds
  BY SegAppendReadable, SegAppendType DEF DiskType
<1>1. RowKeys'
  BY DEF RowKeys
<1>2. RowsReadable'
  BY <1>0 DEF RowsReadable, Visible, IndexType
<1>3. ASSUME NEW at \in Address, NEW rc \in Record,
             at.seg \in files \ skewed => Readable(MkRow(at, rc)), at.seg <= active, at.seg \in files' \ skewed'
      PROVE  Readable(MkRow(at, rc))'
  <2>1. at.seg \in files \ skewed
    <3>1. at.seg \in SegIds
      BY DEF Address
    <3> QED BY <1>0, <1>3, <3>1 DEF SegIds
  <2>2. MkRow(at, rc) \in Row
    BY MkRowType
  <2> QED BY <1>0, <1>3, <2>1, <2>2
<1> QED BY <1>1, <1>2, <1>3

\* An append leaves the threads that were under way in order.
LEMMA AppendOrder ==
  ASSUME Inv, NEW rec \in Record, SegAppend(rec), UNCHANGED skewed
  PROVE  /\ \A p \in Putters : ppc[p] = "commit" => pat[p].seg <= active'
         /\ \A g \in Gcs :
              /\ gpc[g] \in Victim => gvic[g] <= active'
              /\ gpc[g] \in {"append", "cas"} =>
                   /\ gpos[g] <= Len(body'[gvic[g]]) /\ body'[gvic[g]][gpos[g]] = body[gvic[g]][gpos[g]]
              /\ gpc[g] = "cas" => gat[g].seg <= active'
<1> USE DEF Inv, TypeOK
<1>0. /\ active <= active' /\ active' \in SegIds /\ active \in SegIds
      /\ \A s \in SegIds : s <= active =>
              /\ Len(body[s]) <= Len(body'[s])
              /\ \A o \in 1 .. Len(body[s]) : body'[s][o] = body[s][o]
      /\ \A s \in SegIds : Len(body[s]) \in Nat /\ Len(body'[s]) \in Nat
  <2>1. DiskType'
    BY SegAppendType
  <2>2. \A s \in SegIds : Len(body[s]) \in Nat /\ Len(body'[s]) \in Nat
    <3>1. \A s \in SegIds : body[s] \in Seq(Record) /\ body'[s] \in Seq(Record)
      BY <2>1 DEF DiskType
    <3> QED BY <3>1, LenProperties
  <2>3. active' \in SegIds /\ active \in SegIds
    BY <2>1 DEF DiskType
  <2>4. /\ active <= active'
        /\ \A s \in SegIds : s <= active =>
              /\ Len(body[s]) <= Len(body'[s])
              /\ \A o \in 1 .. Len(body[s]) : body'[s][o] = body[s][o]
    BY SegAppendReadable
  <2> QED BY <2>2, <2>3, <2>4
<1>1. ASSUME NEW p \in Putters, ppc[p] = "commit" PROVE pat[p].seg <= active'
  <2>1. pat[p].seg \in SegIds /\ pat[p].seg <= active
    BY <1>1 DEF PutType, Address, Order
  <2> QED BY <1>0, <2>1 DEF SegIds
<1>2. ASSUME NEW g \in Gcs, gpc[g] \in Victim PROVE gvic[g] <= active' /\ gvic[g] \in SegIds /\ gvic[g] <= active
  <2>1. gvic[g] \in SegIds /\ gvic[g] <= active
    BY <1>2 DEF GcType, Order
  <2> QED BY <1>0, <2>1 DEF SegIds
<1>3. ASSUME NEW g \in Gcs, gpc[g] \in {"append", "cas"}
      PROVE  gpos[g] <= Len(body'[gvic[g]]) /\ body'[gvic[g]][gpos[g]] = body[gvic[g]][gpos[g]]
  <2>1. gvic[g] \in SegIds /\ gvic[g] <= active
    BY <1>2, <1>3 DEF Victim
  <2>2. gpos[g] \in Nat \ {0} /\ gpos[g] <= Len(body[gvic[g]])
    BY <1>3 DEF GcType, Order
  <2> QED BY <1>0, <2>1, <2>2
<1>4. ASSUME NEW g \in Gcs, gpc[g] = "cas" PROVE gat[g].seg <= active'
  <2>1. gat[g].seg \in SegIds /\ gat[g].seg <= active
    BY <1>4 DEF GcType, Address, Order
  <2> QED BY <1>0, <2>1 DEF SegIds
<1> QED BY <1>1, <1>2, <1>3, <1>4

\* A put commits: its row is readable, or its file was judged before.
LEMMA PutKeepsInv ==
  ASSUME Inv, Put
  PROVE  Inv'
<1> USE DEF Inv, TypeOK
<1>0. TypeOK'
  BY CallerTypes
<1>1. ASSUME NEW p \in Putters, NEW k \in Keys, NEW b \in BodyOf[k], PutAppend(p, k, b)
      PROVE  Inv'
  <2> DEFINE rec == [key |-> k, body |-> b]
  <2>0. rec \in Record /\ SegAppend(rec)
    BY <1>1 DEF Bodies, Record, PutAppend
  <2>1. /\ UNCHANGED <<addr, inline, raced, lost, skewed, gpc, gvic, gpos, gat, grefs, gtodo, gkeys>>
        /\ ppc' = [ppc EXCEPT ![p] = "commit"]
        /\ pkey' = [pkey EXCEPT ![p] = k] /\ pbody' = [pbody EXCEPT ![p] = b]
        /\ pat' = [pat EXCEPT ![p] = NextAddr]
    BY <1>1 DEF PutAppend, index, gcv, pass, sweepv, history
  <2>2. /\ \A at : at = NextAddr /\ at.seg \in files' \ skewed => Readable(MkRow(at, rec))'
        /\ NextAddr.seg = active' /\ meta'.seg = active'
        /\ \A s \in files' : s <= active'
        /\ Aligned'
    BY <2>0, <2>1, SegAppendReadable
  <2>3. active' \in SegIds /\ active' <= active'
    BY <1>0 DEF DiskType, SegIds
  <2>a. /\ \A q \in Putters : ppc[q] = "commit" => pat[q].seg <= active'
        /\ \A g \in Gcs :
              /\ gpc[g] \in Victim => gvic[g] <= active'
              /\ gpc[g] \in {"append", "cas"} =>
                   /\ gpos[g] <= Len(body'[gvic[g]]) /\ body'[gvic[g]][gpos[g]] = body[gvic[g]][gpos[g]]
              /\ gpc[g] = "cas" => gat[g].seg <= active'
    BY <2>0, <2>1, AppendOrder
  <2>b. \A at \in Address, rc \in Record :
              (at.seg \in files \ skewed => Readable(MkRow(at, rc))) /\ at.seg <= active /\ at.seg \in files' \ skewed'
                => Readable(MkRow(at, rc))'
    BY <2>0, <2>1, AppendKeeps
  <2>4. Order'
    <3>1. \A q \in Putters : ppc'[q] = "commit" => pat'[q].seg <= active'
      BY <2>1, <2>2, <2>3, <2>a DEF PutType
    <3> QED BY <2>1, <2>2, <2>a, <3>1 DEF Order
  <2>5. InFlight'
    <3>1. ASSUME NEW q \in Putters, ppc'[q] = "commit", pat'[q].seg \in files' \ skewed'
          PROVE  Readable(MkRow(pat[q], [key |-> pkey[q], body |-> pbody[q]]))'
      <4>1. CASE q = p
        <5>1. pat'[q] = NextAddr /\ pkey'[q] = k /\ pbody'[q] = b
          BY <2>1, <4>1 DEF PutType
        <5> QED BY <2>1, <2>2, <3>1, <5>1
      <4>2. CASE q # p
        <5>1. ppc[q] = "commit" /\ pat'[q] = pat[q] /\ pkey'[q] = pkey[q] /\ pbody'[q] = pbody[q]
          BY <2>1, <3>1, <4>2 DEF PutType
        <5>2. pat[q] \in Address /\ [key |-> pkey[q], body |-> pbody[q]] \in Record
          BY <5>1 DEF PutType, Record
        <5>3. pat[q].seg <= active /\ pat[q].seg \in files' \ skewed'
          BY <3>1, <5>1 DEF Order
        <5>4. pat[q].seg \in files \ skewed => Readable(MkRow(pat[q], [key |-> pkey[q], body |-> pbody[q]]))
          BY <5>1 DEF InFlight
        <5> QED BY <2>b, <5>1, <5>2, <5>3, <5>4
      <4> QED BY <4>1, <4>2
    <3>2. ASSUME NEW g \in Gcs, gpc'[g] = "cas", gat'[g].seg \in files' \ skewed'
          PROVE  Readable(MkRow(gat[g], body[gvic[g]][gpos[g]]))'
      <4>1. gpc[g] = "cas" /\ gat[g] \in Address /\ gat[g].seg <= active /\ gvic[g] \in SegIds
        BY <2>1, <3>2 DEF GcType, Order
      <4>2. body'[gvic[g]][gpos[g]] = body[gvic[g]][gpos[g]]
        BY <2>a, <4>1
      <4>3. body[gvic[g]][gpos[g]] \in Record
        BY <4>1, BodyType DEF Order, GcType
      <4>4. gat[g].seg \in files \ skewed => Readable(MkRow(gat[g], body[gvic[g]][gpos[g]]))
        BY <4>1 DEF InFlight
      <4> QED BY <2>1, <2>b, <3>2, <4>1, <4>2, <4>3, <4>4
    <3> QED BY <3>1, <3>2 DEF InFlight
  <2>6. Shielded'
    BY <2>1 DEF Shielded, Visible, Past
  <2>7. RowKeys' /\ RowsReadable'
    BY <2>0, <2>1, AppendKeeps
  <2> QED BY <1>0, <2>2, <2>4, <2>5, <2>6, <2>7
<1>2. ASSUME NEW p \in Putters, PutReset(p), UNCHANGED <<files, body, active, wlen, meta, skewed, gpc, gvic, gpos, gat>>
      PROVE  Order' /\ Aligned' /\ InFlight'
  <2>1. Order'
    BY <1>2 DEF PutReset, PutType, Order
  <2>2. \A q \in Putters : ppc'[q] = "commit" => ppc[q] = "commit" /\ pat'[q] = pat[q] /\ pkey'[q] = pkey[q] /\ pbody'[q] = pbody[q]
    BY <1>2 DEF PutReset, PutType
  <2>3. InFlight'
    BY <1>2, <2>2 DEF InFlight, Readable, HasRecord, CrcOk, MkRow
  <2>4. Aligned'
    BY <1>2 DEF Aligned
  <2> QED BY <2>1, <2>3, <2>4
<1>3. ASSUME NEW p \in Putters, PutCommit(p)
      PROVE  Inv'
  <2> DEFINE k == pkey[p]
  <2> DEFINE rec == [key |-> k, body |-> pbody[p]]
  <2> DEFINE row == MkRow(pat[p], rec)
  <2>1. k \in Keys /\ rec \in Record /\ pat[p] \in Address /\ ppc[p] = "commit"
    BY <1>3 DEF PutCommit, PutType, Record
  <2>2. row \in Row /\ row.key = k /\ row.seg = pat[p].seg
    BY <2>1, MkRowType DEF MkRow
  <2>3. /\ UNCHANGED <<files, body, active, wlen, meta, lost, skewed, gpc, gvic, gpos, gat, grefs, gtodo, gkeys>>
        /\ addr' = [addr EXCEPT ![k] = row] /\ inline' = [inline EXCEPT ![k] = None]
        /\ raced' = IF Overtaken(row) THEN raced \cup {row} ELSE raced
    BY <1>3 DEF PutCommit, NoteCommit, disk, gcv, pass, sweepv
  <2>4. ~Overtaken(row) => Readable(row) /\ \A g \in Gcs : ~Past(g, row)
    BY <2>1, <2>2 DEF Overtaken, InFlight
  <2>5. Order' /\ Aligned' /\ InFlight'
    BY <1>3, <1>2, <2>3 DEF PutCommit
  <2> HIDE DEF k, rec, row
  <2>6. RowKeys'
    BY <2>1, <2>2, <2>3 DEF RowKeys, IndexType
  <2>7. \A j \in Keys : (j = k /\ addr'[j] = row) \/ (j # k /\ addr'[j] = addr[j] /\ inline'[j] = inline[j])
    BY <2>1, <2>3 DEF IndexType
  <2>8. \A r \in Row : Readable(r) => Readable(r)'
    BY <2>3 DEF Readable, HasRecord, CrcOk
  <2>9. RowsReadable'
    BY <2>2, <2>3, <2>4, <2>7, <2>8 DEF RowsReadable, Visible, IndexType
  <2>10. \A r \in Row, g \in Gcs : Past(g, r)' => Past(g, r)
    BY <2>3 DEF Past
  <2>11. Shielded'
    <3> SUFFICES ASSUME NEW j \in Keys, NEW g \in Gcs, Visible(j)', addr'[j] \notin raced' \cup lost', Past(g, addr[j])'
                 PROVE  gpc'[g] = "evtxn" /\ j \in gkeys'[g]
      BY DEF Shielded
    <3>1. addr'[j] \in Row
      BY <1>0 DEF Visible, IndexType
    <3>2. Past(g, addr[j])' => \E r \in Row : r = addr'[j] /\ Past(g, r)
      BY <2>10, <3>1, <2>3 DEF Past
    <3>3. CASE j = k
      BY <2>2, <2>3, <2>4, <2>7, <3>2, <3>3
    <3>4. CASE j # k
      BY <2>3, <2>7, <3>2, <3>4 DEF Shielded, Visible
    <3> QED BY <3>3, <3>4
  <2> QED BY <1>0, <2>5, <2>6, <2>9, <2>11
<1>4. ASSUME NEW p \in Putters, PutFails(p)
      PROVE  Inv'
  <2>1. UNCHANGED <<files, body, active, wlen, meta, addr, inline, raced, lost, skewed, gpc, gvic, gpos, gat, grefs, gtodo, gkeys>>
    BY <1>4 DEF PutFails, disk, index, gcv, pass, sweepv, history
  <2>2. Order' /\ Aligned' /\ InFlight'
    BY <1>4, <1>2, <2>1 DEF PutFails
  <2>3. RowKeys' /\ RowsReadable' /\ Shielded'
    BY <2>1 DEF RowKeys, RowsReadable, Shielded, Readable, HasRecord, CrcOk, Visible, Past
  <2> QED BY <1>0, <2>2, <2>3
<1> QED BY <1>1, <1>3, <1>4 DEF Put

\* Deletes, inline puts, reads and flushes only take rows away or leave them.
LEMMA CallersKeepInv ==
  ASSUME Inv, IndexOnly \/ Get \/ EngineFlush
  PROVE  Inv'
<1> USE DEF Inv, TypeOK
<1>0. TypeOK'
  BY CallerTypes
<1>1. ASSUME NEW k \in Keys, addr' = [addr EXCEPT ![k] = None],
             \A j \in Keys : j # k => inline'[j] = inline[j],
             UNCHANGED <<disk, putv, gcv, history>>
      PROVE  Inv'
  <2>1. UNCHANGED <<files, body, active, wlen, meta, raced, lost, skewed, ppc, pkey, pbody, pat, gpc, gvic, gpos, gat, grefs, gtodo, gkeys>>
    BY <1>1 DEF disk, putv, gcv, pass, sweepv, history
  <2>2. \A j \in Keys : addr'[j] # None => j # k /\ addr'[j] = addr[j] /\ inline'[j] = inline[j]
    BY <1>1 DEF IndexType
  <2>3. Order' /\ Aligned' /\ InFlight'
    BY <2>1 DEF Order, Aligned, InFlight, Readable, HasRecord, CrcOk, MkRow
  <2>4. RowKeys' /\ RowsReadable' /\ Shielded'
    BY <2>1, <2>2 DEF RowKeys, RowsReadable, Shielded, Readable, HasRecord, CrcOk, Visible, Past
  <2> QED BY <1>0, <2>3, <2>4
<1>2. ASSUME IndexOnly PROVE Inv'
  <2>1. PICK k \in Keys : (\E b \in BodyOf[k] : PutInline(k, b)) \/ Delete(k)
    BY <1>2 DEF IndexOnly
  <2>2. /\ addr' = [addr EXCEPT ![k] = None] /\ UNCHANGED <<disk, putv, gcv, history>>
        /\ \A j \in Keys : j # k => inline'[j] = inline[j]
    BY <2>1 DEF PutInline, Delete, IndexType
  <2> QED BY <1>1, <2>2
<1>3. ASSUME Get PROVE Inv'
  <2>1. UNCHANGED <<disk, index, putv, gcv, history>>
    BY <1>3 DEF Get, GetBegin, GetRetry, GetLookup, GetRead
  <2> QED BY <1>0, <2>1, QuietStep DEF disk, index, putv, gcv, pass, sweepv, history
<1>4. ASSUME EngineFlush PROVE Inv'
  <2>1. /\ UNCHANGED <<files, body, active, wlen, addr, inline, raced, lost, skewed, ppc, pkey, pbody, pat, gpc, gvic, gpos, gat, grefs, gtodo, gkeys>>
        /\ meta'.seg = active
    BY <1>4 DEF EngineFlush, Flush, Order, index, putv, gcv, pass, sweepv, history
  <2>2. Order' /\ Aligned' /\ InFlight' /\ RowKeys' /\ RowsReadable' /\ Shielded'
    BY <2>1 DEF Order, Aligned, InFlight, RowKeys, RowsReadable, Shielded, Readable, HasRecord, CrcOk, Visible, Past, MkRow
  <2> QED BY <1>0, <2>2
<1> QED BY <1>2, <1>3, <1>4

-----------------------------------------------------------------------------
(* The reclaimers. *)

\* A step that only moves thread g on, to a point where it has judged no
\* more records than before, keeps the invariant.
LEMMA MoveOn ==
  ASSUME Inv, TypeOK', NEW g \in Gcs,
         UNCHANGED <<files, body, active, wlen, meta, addr, inline, raced, lost, skewed, ppc, pkey, pbody, pat>>,
         \A h \in Gcs \ {g} : /\ gpc'[h] = gpc[h] /\ gvic'[h] = gvic[h] /\ gpos'[h] = gpos[h]
                              /\ gat'[h] = gat[h] /\ grefs'[h] = grefs[h] /\ gtodo'[h] = gtodo[h]
                              /\ gkeys'[h] = gkeys[h],
         gpc'[g] # "cas",
         gpc'[g] \in Victim => gvic'[g] <= active,
         gpc'[g] \notin Scan => gpos'[g] = 1,
         gpc'[g] = "append" => gpos'[g] <= Len(body[gvic'[g]]),
         \A k \in Keys : Visible(k) /\ addr[k] \notin raced \cup lost /\ Past(g, addr[k])'
            => gpc'[g] = "evtxn" /\ k \in gkeys'[g]
  PROVE  Inv'
<1> USE DEF Inv
<1>1. Order' /\ Aligned'
  BY DEF Order, Aligned
<1>2. InFlight'
  BY DEF InFlight, Readable, HasRecord, CrcOk, MkRow
<1>3. RowKeys' /\ RowsReadable'
  BY DEF RowKeys, RowsReadable, Readable, HasRecord, CrcOk, Visible
<1>4. Shielded'
  <2> SUFFICES ASSUME NEW k \in Keys, NEW h \in Gcs, Visible(k)', addr'[k] \notin raced' \cup lost', Past(h, addr[k])'
               PROVE  gpc'[h] = "evtxn" /\ k \in gkeys'[h]
    BY DEF Shielded
  <2>1. Visible(k) /\ addr'[k] = addr[k] /\ addr[k] \notin raced \cup lost
    BY DEF Visible
  <2>2. CASE h = g
    BY <2>1, <2>2
  <2>3. CASE h # g
    <3>1. Past(h, addr[k])
      BY <2>1, <2>3 DEF Past
    <3> QED BY <2>1, <2>3, <3>1 DEF Shielded
  <2> QED BY <2>2, <2>3
<1> QED BY <1>1, <1>2, <1>3, <1>4

\* Unlinking a file that thread g has judged (and every row in which it
\* has dealt with) keeps the invariant.
LEMMA UnlinkKeeps ==
  ASSUME Inv, NEW g \in Gcs, NEW s \in SegIds,
         \A k \in Keys : addr[k] # None /\ addr[k].seg = s => Past(g, addr[k]),
         gpc[g] # "evtxn",
         files' = files \ {s},
         UNCHANGED <<body, active, wlen, meta, addr, inline, raced, lost, skewed, ppc, pkey, pbody, pat>>
  PROVE  /\ \A t \in files' : t <= active
         /\ Aligned'
         /\ RowKeys' /\ RowsReadable'
         /\ \A row \in Row : Readable(row) /\ row.seg \in files' => Readable(row)'
<1> USE DEF Inv, TypeOK
<1>1. Aligned' /\ \A t \in files' : t <= active
  BY DEF Aligned, Order, DiskType, SegIds
<1>2. RowKeys'
  BY DEF RowKeys
<1>3. \A row \in Row : Readable(row) /\ row.seg \in files' => Readable(row)'
  BY DEF Readable, HasRecord, CrcOk
<1>4. RowsReadable'
  <2> SUFFICES ASSUME NEW k \in Keys, Visible(k)', addr'[k] \notin raced' \cup lost'
               PROVE  Readable(addr[k])'
    BY DEF RowsReadable
  <2>1. Visible(k) /\ addr[k] \in Row /\ addr'[k] = addr[k] /\ addr[k] \notin raced \cup lost
    BY DEF Visible, IndexType
  <2>2. Readable(addr[k])
    BY <2>1 DEF RowsReadable
  <2>3. addr[k].seg # s
    BY <2>1 DEF Shielded, Visible
  <2>4. addr[k].seg \in files'
    BY <2>2, <2>3 DEF Readable, HasRecord
  <2> QED BY <1>3, <2>1, <2>2, <2>4
<1> QED BY <1>1, <1>2, <1>3, <1>4

\* The whole step of such an unlink: thread g goes on with no more judged
\* records than before.
LEMMA UnlinkStep ==
  ASSUME Inv, TypeOK', NEW g \in Gcs, NEW s \in SegIds,
         \A k \in Keys : addr[k] # None /\ addr[k].seg = s => Past(g, addr[k]),
         gpc[g] # "evtxn",
         files' = files \ {s},
         UNCHANGED <<body, active, wlen, meta, addr, inline, raced, lost, skewed, ppc, pkey, pbody, pat>>,
         \A h \in Gcs \ {g} : /\ gpc'[h] = gpc[h] /\ gvic'[h] = gvic[h] /\ gpos'[h] = gpos[h]
                              /\ gat'[h] = gat[h] /\ grefs'[h] = grefs[h] /\ gtodo'[h] = gtodo[h]
                              /\ gkeys'[h] = gkeys[h],
         gpc'[g] \in {"clear", "sweep", "idle"},
         gpc'[g] = "sweep" => gpc[g] = "sweep" /\ gtodo'[g] \subseteq gtodo[g],
         gpc'[g] # "clear" => gpos'[g] = 1
  PROVE  Inv'
<1> USE DEF Inv, TypeOK
<1>0. /\ Aligned' /\ \A t \in files' : t <= active
      /\ RowKeys' /\ RowsReadable'
      /\ \A row \in Row : Readable(row) /\ row.seg \in files' => Readable(row)'
  BY UnlinkKeeps
<1>1. Order'
  BY <1>0 DEF Order, Victim, Scan
<1>2. InFlight'
  <2>1. ASSUME NEW q \in Putters, ppc'[q] = "commit", pat'[q].seg \in files' \ skewed'
        PROVE  Readable(MkRow(pat[q], [key |-> pkey[q], body |-> pbody[q]]))'
    <3>1. ppc[q] = "commit" /\ pat[q].seg \in files \ skewed /\ pat[q].seg \in files'
      BY <2>1
    <3>2. Readable(MkRow(pat[q], [key |-> pkey[q], body |-> pbody[q]]))
      BY <3>1 DEF InFlight
    <3> QED BY <3>1, <3>2 DEF Readable, HasRecord, CrcOk, MkRow
  <2>2. ASSUME NEW h \in Gcs, gpc'[h] = "cas", gat'[h].seg \in files' \ skewed'
        PROVE  Readable(MkRow(gat[h], body[gvic[h]][gpos[h]]))'
    <3>1. h # g
      BY <2>2
    <3>2. gpc[h] = "cas" /\ gat[h].seg \in files \ skewed /\ gat[h].seg \in files' /\ gat'[h] = gat[h] /\ gvic'[h] = gvic[h] /\ gpos'[h] = gpos[h]
      BY <2>2, <3>1
    <3>3. Readable(MkRow(gat[h], body[gvic[h]][gpos[h]]))
      BY <3>2 DEF InFlight
    <3> QED BY <3>2, <3>3 DEF Readable, HasRecord, CrcOk, MkRow
  <2> QED BY <2>1, <2>2 DEF InFlight
<1>3. Shielded'
  <2> SUFFICES ASSUME NEW k \in Keys, NEW h \in Gcs, Visible(k)', addr'[k] \notin raced' \cup lost', Past(h, addr[k])'
               PROVE  gpc'[h] = "evtxn" /\ k \in gkeys'[h]
    BY DEF Shielded
  <2>1. Visible(k) /\ addr'[k] = addr[k] /\ addr[k] \notin raced \cup lost
    BY DEF Visible
  <2>2. Past(h, addr[k])
    <3>1. CASE h = g
      BY <2>1, <3>1 DEF Past
    <3>2. CASE h # g
      BY <2>1, <3>2 DEF Past
    <3> QED BY <3>1, <3>2
  <2>3. gpc[h] = "evtxn" /\ k \in gkeys[h]
    BY <2>1, <2>2 DEF Shielded
  <2> QED BY <2>3
<1> QED BY <1>0, <1>1, <1>2, <1>3

\* The end of a pass, or of its part with locals, keeps the invariant.
LEMMA PassEndKeeps ==
  ASSUME Inv, TypeOK', NEW g \in Gcs, NEW pc \in {"idle", "snap", "dead"}, PassEnds(g, pc),
         UNCHANGED <<files, body, active, wlen, meta, addr, inline, raced, lost, skewed, ppc, pkey, pbody, pat, gtodo>>,
         \A h \in Gcs \ {g} : grefs'[h] = grefs[h] /\ gkeys'[h] = gkeys[h]
  PROVE  Inv'
<1> USE DEF Inv, TypeOK
<1>1. gpc'[g] = pc /\ gpos'[g] = 1
  BY DEF PassEnds, GcType
<1>2. \A h \in Gcs \ {g} : /\ gpc'[h] = gpc[h] /\ gvic'[h] = gvic[h] /\ gpos'[h] = gpos[h] /\ gat'[h] = gat[h]
                           /\ gtodo'[h] = gtodo[h] /\ gkeys'[h] = gkeys[h]
  BY DEF PassEnds, GcType
<1>3. \A k \in Keys : ~Past(g, addr[k])'
  BY <1>1 DEF Past
<1> QED BY <1>1, <1>2, <1>3, MoveOn DEF Victim

\* What sealed_segments() lists is not newer than the active segment, though
\* it may be the active one.
LEMMA SealedBelow ==
  ASSUME DiskType, Order
  PROVE  \A a : \A s \in Sealed(a) : s \in SegIds /\ s <= active
BY DEF Sealed, DiskType, Order

\* A step of a collection pass keeps the invariant.
LEMMA GcKeepsInv ==
  ASSUME Inv, NEW g \in Gcs, Gc(g) \/ GcFault(g)
  PROVE  Inv'
<1> USE DEF Inv, TypeOK
<1>0. TypeOK'
  BY CollectorTypes
<1>a. ASSUME NEW k \in Keys, Visible(k), addr[k] \notin raced \cup lost
      PROVE  /\ addr[k] \in Row /\ addr[k].key = k /\ Readable(addr[k])
             /\ \A h \in Gcs : gpc[h] # "evtxn" => ~Past(h, addr[k])
  BY <1>a DEF RowsReadable, RowKeys, Shielded, Visible, IndexType
<1>b. ASSUME NEW pc, Goto(g, pc)
      PROVE  gpc'[g] = pc /\ \A h \in Gcs \ {g} : gpc'[h] = gpc[h]
  BY <1>b DEF Goto, GcType
<1>1. ASSUME GcBegin(g) PROVE Inv'
  <2>0. /\ UNCHANGED <<files, body, active, wlen, meta, addr, inline, raced, lost, skewed, ppc, pkey, pbody, pat, gvic, gpos, gat, grefs, gtodo, gkeys>>
        /\ Goto(g, "pick") /\ gpos[g] = 1
    BY <1>1 DEF GcBegin, disk, index, putv, history, Order, Scan
  <2>1. \A k \in Keys : ~Past(g, addr[k])'
    BY <1>b, <2>0 DEF Past
  <2> QED BY <1>0, <1>b, <2>0, <2>1, MoveOn DEF Victim
<1>17. ASSUME GcPick(g) PROVE Inv'
  <2>0. /\ UNCHANGED <<files, body, active, wlen, meta, addr, inline, raced, lost, skewed, ppc, pkey, pbody, pat, grefs, gtodo, gkeys>>
        /\ gpc[g] = "pick" /\ gpos[g] = 1
    BY <1>17 DEF GcPick, disk, index, putv, history, Order, Scan
  <2>1. ASSUME NEW sw, AfterVictim(g, sw) PROVE Inv'
    <3>1. PICK pc \in {"idle", "snap", "dead"} : PassEnds(g, pc)
      BY <2>1 DEF AfterVictim
    <3> QED BY <1>0, <2>0, <3>1, PassEndKeeps
  <2>2. ASSUME NEW s \in Victims(Sealed(gact[g])), Goto(g, "open"), gvic' = [gvic EXCEPT ![g] = s],
               UNCHANGED <<gpos, gat, gorph, gsweep>>
        PROVE  Inv'
    <3>1. s <= active
      BY SealedBelow DEF Victims
    <3>2. gvic'[g] = s /\ gpos'[g] = 1 /\ \A h \in Gcs \ {g} : gvic'[h] = gvic[h]
      BY <2>0, <2>2 DEF GcType
    <3>3. \A k \in Keys : ~Past(g, addr[k])'
      BY <1>b, <2>2 DEF Past
    <3> QED BY <1>0, <1>b, <2>0, <2>2, <3>1, <3>2, <3>3, MoveOn DEF Victim
  <2> QED BY <1>17, <2>1, <2>2 DEF GcPick
<1>2. ASSUME GcOpen(g) PROVE Inv'
  <2>0. UNCHANGED <<files, body, active, wlen, meta, addr, inline, raced, lost, skewed, ppc, pkey, pbody, pat, grefs, gtodo, gkeys>>
    BY <1>2 DEF GcOpen, disk, index, putv, history, sweepv
  <2>1. CASE Goto(g, "check") /\ UNCHANGED pass
    <3>1. UNCHANGED <<gvic, gpos, gat>> /\ gpos[g] = 1 /\ gvic[g] <= active
      BY <1>2, <2>1 DEF GcOpen, Order, Scan, Victim, pass
    <3>2. \A k \in Keys : Visible(k) => ~Past(g, addr[k])'
      BY <1>b, <2>0, <2>1, <3>1 DEF Past, Visible, IndexType, Row
    <3> QED BY <1>0, <1>b, <2>0, <2>1, <3>1, <3>2, MoveOn DEF Victim, Scan
  <2>2. CASE GcReturn(g)
    BY <1>0, <2>0, <2>2, PassEndKeeps DEF GcReturn
  <2> QED BY <1>2, <2>1, <2>2 DEF GcOpen
<1>3. ASSUME GcCheck(g) PROVE Inv'
  <2> DEFINE s == gvic[g]
  <2> DEFINE o == gpos[g]
  <2>0. /\ UNCHANGED <<files, body, active, wlen, meta, addr, inline, raced, lost, skewed, ppc, pkey, pbody, pat, gvic, gat, grefs, gtodo, gkeys>>
        /\ gpc[g] = "check" /\ s <= active /\ s \in SegIds /\ o \in Nat \ {0}
    BY <1>3 DEF GcCheck, disk, index, putv, history, sweepv, Order, Victim, GcType
  <2>1. CASE o > Len(body[s]) /\ Goto(g, "account") /\ UNCHANGED gpos
    <3>1. ASSUME NEW k \in Keys, Visible(k), addr[k] \notin raced \cup lost, Past(g, addr[k])'
          PROVE  FALSE
      <4>1. addr[k].seg = s
        BY <1>b, <2>0, <2>1, <3>1 DEF Past
      <4>2. addr[k].off < o
        BY <1>a, <2>0, <2>1, <3>1, <4>1, SMTT(30) DEF Readable, HasRecord, Row, DiskType
      <4>3. Past(g, addr[k])
        BY <2>0, <4>1, <4>2 DEF Past
      <4> QED BY <1>a, <2>0, <3>1, <4>3
    <3> QED BY <1>0, <1>b, <2>0, <2>1, <3>1, MoveOn DEF Victim, Scan
  <2>2. CASE o <= Len(body[s]) /\ Goto(g, "append") /\ UNCHANGED gpos
    <3>1. \A k \in Keys : Past(g, addr[k])' => Past(g, addr[k])
      BY <1>b, <2>0, <2>2 DEF Past
    <3>2. \A k \in Keys : ~(Visible(k) /\ addr[k] \notin raced \cup lost /\ Past(g, addr[k])')
      BY <1>a, <2>0, <3>1
    <3> QED BY <1>0, <1>b, <2>0, <2>2, <3>2, MoveOn DEF Victim, Scan
  <2>3. CASE /\ o <= Len(body[s]) /\ ~Alive(body[s][o].key, s, o)
             /\ gpos' = [gpos EXCEPT ![g] = o + 1] /\ UNCHANGED <<gpc, gdone>>
    <3>1. gpos'[g] = o + 1 /\ \A h \in Gcs \ {g} : gpos'[h] = gpos[h]
      BY <2>3 DEF GcType
    <3>2. ASSUME NEW k \in Keys, Visible(k), addr[k] \notin raced \cup lost, Past(g, addr[k])'
          PROVE  FALSE
      <4>1. addr[k].seg = s /\ addr[k].off < o + 1
        BY <2>0, <2>3, <3>1, <3>2 DEF Past
      <4>2. addr[k].off = o
        <5>1. ~Past(g, addr[k]) /\ addr[k] \in Row
          BY <1>a, <2>0, <3>2
        <5> QED BY <2>0, <4>1, <5>1 DEF Past, Row
      <4>3. body[s][o].key = k
        <5>1. CrcOk(addr[k]) /\ addr[k].key = k
          BY <1>a, <3>2 DEF Readable
        <5>2. body[s][o] = [key |-> addr[k].key, body |-> addr[k].body]
          BY <4>1, <4>2, <5>1 DEF CrcOk
        <5> QED BY <5>1, <5>2
      <4> QED BY <2>3, <3>2, <4>1, <4>2, <4>3 DEF Alive, Visible, PointsAt
    <3> QED BY <1>0, <2>0, <2>3, <3>1, <3>2, MoveOn DEF Victim, Scan
  <2>4. Len(body[s]) \in Nat
    BY <2>0 DEF DiskType
  <2> QED BY <1>3, <2>0, <2>1, <2>2, <2>3, <2>4 DEF GcCheck
<1>4. ASSUME GcFails(g) PROVE Inv'
  <2>0. /\ UNCHANGED <<files, body, active, wlen, meta, addr, inline, raced, lost, skewed, ppc, pkey, pbody, pat, gtodo>>
        /\ PassEnds(g, "idle") /\ \A h \in Gcs \ {g} : grefs'[h] = grefs[h] /\ gkeys'[h] = gkeys[h]
    BY <1>4 DEF GcFails, GcReturn, disk, index, putv, history, GcType
  <2> QED BY <1>0, <2>0, PassEndKeeps
<1>5. ASSUME GcAccount(g) PROVE Inv'
  <2>0. /\ UNCHANGED <<files, body, active, wlen, meta, addr, inline, raced, lost, skewed, ppc, pkey, pbody, pat, gvic, gpos, gat, grefs, gtodo, gkeys>>
        /\ gpc[g] = "account" /\ Goto(g, "flush") /\ gvic[g] <= active
    BY <1>5 DEF GcAccount, disk, putv, history, sweepv, Order, Victim
  <2>1. \A k \in Keys : Past(g, addr[k])' => Past(g, addr[k])
    BY <1>b, <2>0 DEF Past
  <2>2. \A k \in Keys : ~(Visible(k) /\ addr[k] \notin raced \cup lost /\ Past(g, addr[k])')
    BY <1>a, <2>0, <2>1
  <2> QED BY <1>0, <1>b, <2>0, <2>2, MoveOn DEF Victim, Scan
<1>6. ASSUME GcFlush(g) PROVE Inv'
  <2>0. /\ UNCHANGED <<files, body, active, wlen, addr, inline, raced, lost, skewed, ppc, pkey, pbody, pat, gvic, gpos, gat, grefs, gtodo, gkeys>>
        /\ gpc[g] = "flush" /\ Goto(g, "unlink") /\ gvic[g] <= active /\ meta'.seg = meta.seg
    BY <1>6 DEF GcFlush, Flush, index, putv, history, pass, sweepv, Order, Victim
  <2>1. \A k \in Keys, h \in Gcs : Past(h, addr[k])' => Past(h, addr[k])
    BY <1>b, <2>0 DEF Past
  <2>2. Order' /\ Aligned'
    BY <1>b, <2>0 DEF Order, Aligned, Victim, Scan
  <2>3. InFlight'
    BY <1>b, <2>0 DEF InFlight, Readable, HasRecord, CrcOk, MkRow
  <2>4. RowKeys' /\ RowsReadable'
    BY <2>0 DEF RowKeys, RowsReadable, Readable, HasRecord, CrcOk, Visible
  <2>5. Shielded'
    <3> SUFFICES ASSUME NEW k \in Keys, NEW h \in Gcs, Visible(k)', addr'[k] \notin raced' \cup lost', Past(h, addr[k])'
                 PROVE  gpc'[h] = "evtxn" /\ k \in gkeys'[h]
      BY DEF Shielded
    <3>1. gpc[h] = "evtxn" /\ k \in gkeys[h]
      BY <2>0, <2>1 DEF Shielded, Visible
    <3> QED BY <1>b, <2>0, <3>1
  <2> QED BY <1>0, <2>2, <2>3, <2>4, <2>5
<1>7. ASSUME GcUnlink(g) PROVE Inv'
  <2>0. /\ UNCHANGED <<body, active, wlen, meta, addr, inline, raced, lost, skewed, ppc, pkey, pbody, pat, grefs, gtodo, gkeys>>
        /\ gpc[g] = "unlink" /\ gvic[g] <= active /\ gvic[g] \in SegIds
    BY <1>7 DEF GcUnlink, index, putv, history, sweepv, Order, Victim, GcType
  <2>1. CASE files' = files \ {gvic[g]} /\ Goto(g, "clear") /\ UNCHANGED pass
    <3>1. UNCHANGED <<gvic, gpos, gat>>
      BY <2>1 DEF pass
    <3>2. \A k \in Keys : addr[k] # None /\ addr[k].seg = gvic[g] => Past(g, addr[k])
      BY <2>0 DEF Past
    <3> QED BY <1>0, <1>b, <2>0, <2>1, <3>1, <3>2, UnlinkStep
  <2>2. CASE UNCHANGED files /\ GcReturn(g)
    BY <1>0, <2>0, <2>2, PassEndKeeps DEF GcReturn
  <2> QED BY <1>7, <2>1, <2>2 DEF GcUnlink
<1>8. ASSUME GcClear(g) PROVE Inv'
  <2>1. PICK pc \in {"idle", "snap", "dead"} : PassEnds(g, pc)
    BY <1>8 DEF GcClear, AfterVictim
  <2> QED BY <1>0, <1>8, <2>1, PassEndKeeps DEF GcClear, disk, putv, history, sweepv
<1>9. ASSUME GcAppend(g) PROVE Inv'
  <2>r. body[gvic[g]][gpos[g]] \in Record
    BY <1>9, BodyType DEF GcAppend, Order, GcType
  <2>s. PICK rec \in Record : rec = body[gvic[g]][gpos[g]]
    BY <2>r
  <2>0. /\ gpc[g] = "append" /\ gvic[g] <= active /\ gvic[g] \in SegIds /\ gpos[g] <= Len(body[gvic[g]])
        /\ SegAppend(rec) /\ gat' = [gat EXCEPT ![g] = NextAddr] /\ Goto(g, "cas")
        /\ UNCHANGED <<addr, inline, raced, lost, skewed, ppc, pkey, pbody, pat, gvic, gpos, grefs, gtodo, gkeys>>
    BY <1>9, <2>s DEF GcAppend, Order, Victim, GcType, index, putv, history, sweepv
  <2>1. rec \in Record /\ UNCHANGED skewed
    BY <2>0
  <2>2. /\ \A at : at = NextAddr /\ at.seg \in files' \ skewed => Readable(MkRow(at, rec))'
        /\ NextAddr.seg = active' /\ meta'.seg = active'
        /\ \A s \in files' : s <= active'
        /\ \A s \in SegIds : s <= active =>
             \/ s < NextAddr.seg \/ NextAddr.seg \in skewed
             \/ s = NextAddr.seg /\ Len(body[s]) < NextAddr.off
        /\ Aligned'
    BY <2>0, <2>1, SegAppendReadable
  <2>3. active' \in SegIds /\ active' <= active' /\ NextAddr \in Address
    <3>1. active' \in SegIds
      BY <1>0 DEF DiskType
    <3>2. NextAddr \in Address
      BY <2>0, <2>1, SegAppendType
    <3> QED BY <3>1, <3>2 DEF SegIds
  <2>4. \A at \in Address, rc \in Record :
              (at.seg \in files \ skewed => Readable(MkRow(at, rc))) /\ at.seg <= active /\ at.seg \in files' \ skewed'
                => Readable(MkRow(at, rc))'
    BY <2>0, <2>1, AppendKeeps
  <2>a. /\ \A q \in Putters : ppc[q] = "commit" => pat[q].seg <= active'
        /\ \A h \in Gcs :
              /\ gpc[h] \in Victim => gvic[h] <= active'
              /\ gpc[h] \in {"append", "cas"} =>
                   /\ gpos[h] <= Len(body'[gvic[h]]) /\ body'[gvic[h]][gpos[h]] = body[gvic[h]][gpos[h]]
              /\ gpc[h] = "cas" => gat[h].seg <= active'
    BY <2>0, <2>1, AppendOrder
  <2>5. gat'[g] = NextAddr /\ \A h \in Gcs \ {g} : gat'[h] = gat[h]
    BY <2>0 DEF GcType
  <2>6. gpc'[g] = "cas" /\ \A h \in Gcs \ {g} : gpc'[h] = gpc[h]
    BY <1>b, <2>0
  <2>7. Order'
    <3>1. /\ gvic[g] <= active' /\ gpos[g] <= Len(body'[gvic[g]])
          /\ \/ gvic[g] < NextAddr.seg \/ NextAddr.seg \in skewed
             \/ gvic[g] = NextAddr.seg /\ gpos[g] < NextAddr.off
      <4>1. gpos[g] \in Nat /\ Len(body[gvic[g]]) \in Nat /\ NextAddr.off \in Nat
        BY <2>0, <2>3 DEF GcType, DiskType, Address
      <4> QED BY <2>0, <2>2, <2>a, <4>1 DEF Victim
    <3>2. ASSUME NEW h \in Gcs
          PROVE  /\ gpc'[h] \in Victim => gvic'[h] <= active'
                 /\ gpc'[h] \notin Scan => gpos'[h] = 1
                 /\ gpc'[h] \in {"append", "cas"} => gpos'[h] <= Len(body'[gvic'[h]])
                 /\ gpc'[h] = "cas" =>
                      /\ gat'[h].seg <= active'
                      /\ \/ gvic'[h] < gat'[h].seg \/ gat'[h].seg \in skewed'
                         \/ gvic'[h] = gat'[h].seg /\ gpos'[h] < gat'[h].off
      <4>1. CASE h = g
        BY <2>0, <2>2, <2>3, <2>5, <2>6, <3>1, <4>1 DEF Scan
      <4>2. CASE h # g
        BY <2>0, <2>a, <2>5, <2>6, <4>2 DEF Order
      <4> QED BY <4>1, <4>2
    <3> QED BY <2>0, <2>2, <2>a, <3>2 DEF Order
  <2>8. InFlight'
    <3>1. ASSUME NEW q \in Putters, ppc'[q] = "commit", pat'[q].seg \in files' \ skewed'
          PROVE  Readable(MkRow(pat[q], [key |-> pkey[q], body |-> pbody[q]]))'
      <4>1. ppc[q] = "commit" /\ pat[q].seg <= active /\ pat[q].seg \in files' \ skewed'
        BY <2>0, <3>1 DEF Order
      <4>2. pat[q] \in Address /\ [key |-> pkey[q], body |-> pbody[q]] \in Record
        BY <4>1 DEF PutType, Record
      <4>3. pat[q].seg \in files \ skewed => Readable(MkRow(pat[q], [key |-> pkey[q], body |-> pbody[q]]))
        BY <4>1 DEF InFlight
      <4> QED BY <2>0, <2>4, <4>1, <4>2, <4>3
    <3>2. ASSUME NEW h \in Gcs, gpc'[h] = "cas", gat'[h].seg \in files' \ skewed'
          PROVE  Readable(MkRow(gat[h], body[gvic[h]][gpos[h]]))'
      <4>1. CASE h = g
        <5>1. body'[gvic[g]][gpos[g]] = rec
          BY <2>0, <2>a, <2>s
        <5> QED BY <2>0, <2>2, <2>5, <3>2, <4>1, <5>1
      <4>2. CASE h # g
        <5>1. gpc[h] = "cas" /\ gat[h] \in Address /\ gat[h].seg <= active /\ gvic[h] \in SegIds
          BY <2>6, <3>2, <4>2 DEF GcType, Order
        <5>2. body'[gvic[h]][gpos[h]] = body[gvic[h]][gpos[h]]
          BY <2>a, <5>1
        <5>3. body[gvic[h]][gpos[h]] \in Record
          BY <5>1, BodyType DEF Order, GcType
        <5>4. gat[h].seg \in files \ skewed => Readable(MkRow(gat[h], body[gvic[h]][gpos[h]]))
          BY <5>1 DEF InFlight
        <5> QED BY <2>0, <2>4, <2>5, <3>2, <4>2, <5>1, <5>2, <5>3, <5>4
      <4> QED BY <4>1, <4>2
    <3> QED BY <3>1, <3>2 DEF InFlight
  <2>9. Shielded'
    <3> SUFFICES ASSUME NEW k \in Keys, NEW h \in Gcs, Visible(k)', addr'[k] \notin raced' \cup lost', Past(h, addr[k])'
                 PROVE  gpc'[h] = "evtxn" /\ k \in gkeys'[h]
      BY DEF Shielded
    <3>1. Visible(k) /\ addr'[k] = addr[k] /\ addr[k] \notin raced \cup lost
      BY <2>0 DEF Visible
    <3>2. Past(h, addr[k])
      BY <2>0, <2>6, <3>1 DEF Past
    <3>3. gpc[h] = "evtxn" /\ k \in gkeys[h]
      BY <3>1, <3>2 DEF Shielded
    <3> QED BY <2>0, <2>6, <3>3
  <2>10. RowKeys' /\ RowsReadable'
    BY <2>0, <2>1, AppendKeeps
  <2> QED BY <1>0, <2>2, <2>7, <2>8, <2>9, <2>10
<1>10. ASSUME GcCas(g) PROVE Inv'
  <2> DEFINE s == gvic[g]
  <2> DEFINE o == gpos[g]
  <2> DEFINE rec == body[s][o]
  <2> DEFINE row == MkRow(gat[g], rec)
  <2>0. /\ gpc[g] = "cas" /\ gat[g] \in Address /\ s \in SegIds /\ o \in Nat \ {0}
        /\ o <= Len(body[s])
        /\ s < gat[g].seg \/ gat[g].seg \in skewed \/ (s = gat[g].seg /\ o < gat[g].off)
        /\ UNCHANGED <<files, body, active, wlen, meta, inline, lost, skewed, ppc, pkey, pbody, pat, gvic, grefs, gtodo, gkeys>>
        /\ gpos' = [gpos EXCEPT ![g] = o + 1] /\ gat' = [gat EXCEPT ![g] = None] /\ Goto(g, "check")
        /\ s <= active
    <3>1. gpc[g] = "cas"
      BY <1>10 DEF GcCas
    <3>2. /\ UNCHANGED <<files, body, active, wlen, meta, inline, lost, skewed, ppc, pkey, pbody, pat, gvic, grefs, gtodo, gkeys>>
          /\ gpos' = [gpos EXCEPT ![g] = o + 1] /\ gat' = [gat EXCEPT ![g] = None] /\ Goto(g, "check")
      BY <1>10 DEF GcCas, disk, putv, sweepv
    <3>3. /\ o <= Len(body[s]) /\ s <= active
          /\ s < gat[g].seg \/ gat[g].seg \in skewed \/ (s = gat[g].seg /\ o < gat[g].off)
      BY <3>1 DEF Order, Victim
    <3>4. gat[g] \in Address /\ s \in SegIds /\ o \in Nat \ {0}
      BY <3>1 DEF GcType
    <3> QED BY <3>1, <3>2, <3>3, <3>4
  <2>1. rec \in Record
    BY <2>0, BodyType
  <2>2. row \in Row /\ row.key = rec.key /\ row.seg = gat[g].seg /\ row.off = gat[g].off /\ rec.key \in Keys
    BY <2>0, <2>1, MkRowType DEF MkRow, Record
  <2>3. ~Overtaken(row) => Readable(row) /\ \A h \in Gcs : ~Past(h, row)
    BY <2>0, <2>2 DEF Overtaken, InFlight
  <2>a. ~Overtaken(row) => ~(row.seg = s /\ row.off < o + 1)
    <3>1. row.seg \in Nat /\ s \in Nat /\ row.off \in Nat /\ o \in Nat
      BY <2>0, <2>2 DEF Row, SegIds
    <3> QED BY <2>0, <2>2, <3>1 DEF Overtaken
  <2>4. \/ /\ PointsAt(addr[rec.key], s, o) /\ addr' = [addr EXCEPT ![rec.key] = row]
           /\ raced' = IF Overtaken(row) THEN raced \cup {row} ELSE raced
        \/ ~PointsAt(addr[rec.key], s, o) /\ UNCHANGED <<addr, raced>>
    BY <1>10 DEF GcCas, NoteCommit
  <2>5. /\ gpc'[g] = "check" /\ gpos'[g] = o + 1
        /\ \A h \in Gcs \ {g} : gpc'[h] = gpc[h] /\ gpos'[h] = gpos[h] /\ gat'[h] = gat[h]
    BY <1>b, <2>0, SMTT(30) DEF GcType
  <2>6. \A j \in Keys : \/ j = rec.key /\ addr'[j] = row /\ (Overtaken(row) => row \in raced')
                        \/ /\ addr'[j] = addr[j] /\ raced \subseteq raced'
                           /\ j = rec.key => ~PointsAt(addr[j], s, o)
    BY <2>2, <2>4 DEF IndexType
  <2>7. Order' /\ Aligned'
    BY <2>0, <2>5, SMTT(30) DEF Order, Aligned, Victim, Scan
  <2>8. InFlight'
    BY <2>0, <2>5, SMTT(30) DEF InFlight, Readable, HasRecord, CrcOk, MkRow
  <2> HIDE DEF s, o, rec, row
  <2>9. \A r \in Row : Readable(r) => Readable(r)'
    BY <2>0 DEF Readable, HasRecord, CrcOk
  <2>10. RowKeys'
    BY <2>2, <2>6 DEF RowKeys
  <2>11. RowsReadable'
    <3> SUFFICES ASSUME NEW j \in Keys, Visible(j)', addr'[j] \notin raced' \cup lost'
                 PROVE  Readable(addr[j])'
      BY DEF RowsReadable
    <3>1. CASE j = rec.key /\ addr'[j] = row /\ (Overtaken(row) => row \in raced')
      BY <2>2, <2>3, <2>9, <3>1
    <3>2. CASE addr'[j] = addr[j] /\ raced \subseteq raced'
      <4>1. Visible(j) /\ addr[j] \notin raced \cup lost
        BY <2>0, <3>2 DEF Visible
      <4> QED BY <1>a, <2>9, <3>2, <4>1
    <3> QED BY <2>6, <3>1, <3>2
  <2>12. Shielded'
    <3> SUFFICES ASSUME NEW j \in Keys, NEW h \in Gcs, Visible(j)', addr'[j] \notin raced' \cup lost', Past(h, addr[j])'
                 PROVE  gpc'[h] = "evtxn" /\ j \in gkeys'[h]
      BY DEF Shielded
    <3>1. CASE j = rec.key /\ addr'[j] = row /\ (Overtaken(row) => row \in raced')
      <4>1. ~Past(h, row)
        BY <2>3, <3>1
      <4>2. h # g
        BY <2>0, <2>a, <2>5, <3>1 DEF Past, s
      <4> QED BY <2>0, <2>5, <3>1, <4>1, <4>2 DEF Past
    <3>2. CASE addr'[j] = addr[j] /\ raced \subseteq raced' /\ (j = rec.key => ~PointsAt(addr[j], s, o))
      <4>1. Visible(j) /\ addr[j] \notin raced \cup lost
        BY <2>0, <3>2 DEF Visible
      <4>2. CASE h # g
        <5>1. Past(h, addr[j])
          BY <2>0, <2>5, <3>2, <4>2 DEF Past
        <5>2. gpc[h] = "evtxn" /\ j \in gkeys[h]
          BY <4>1, <5>1 DEF Shielded
        <5> QED BY <2>0, <2>5, <4>2, <5>2
      <4>3. CASE h = g
        <5>1. addr[j].seg = s /\ addr[j].off < o + 1
          BY <2>0, <2>5, <3>2, <4>3 DEF Past, s
        <5>2. ~Past(g, addr[j]) /\ addr[j] \in Row /\ addr[j].key = j /\ Readable(addr[j])
          BY <1>a, <2>0, <4>1
        <5>3. addr[j].off = o
          <6>1. ~(addr[j].off < o)
            BY <2>0, <5>1, <5>2 DEF Past, s, o
          <6> QED BY <2>0, <5>1, <5>2, <6>1 DEF Row
        <5>4. rec.key = j
          BY <5>1, <5>2, <5>3 DEF Readable, CrcOk, rec
        <5> QED BY <3>2, <4>1, <5>1, <5>3, <5>4 DEF PointsAt, Visible
      <4> QED BY <4>2, <4>3
    <3> QED BY <2>6, <3>1, <3>2
  <2> QED BY <1>0, <2>7, <2>8, <2>10, <2>11, <2>12
<1>11. ASSUME SweepSnap(g) PROVE Inv'
  <2>0. /\ UNCHANGED <<files, body, active, wlen, meta, addr, inline, raced, lost, skewed, ppc, pkey, pbody, pat, gvic, gpos, gat, gtodo, gkeys>>
        /\ gpc[g] = "snap" /\ Goto(g, "active") /\ gpos[g] = 1
        /\ grefs' = [grefs EXCEPT ![g] = {addr[k].seg : k \in {j \in Keys : addr[j] # None}}]
    BY <1>11 DEF SweepSnap, disk, index, putv, history, pass, Order, Scan
  <2>1. /\ \A k \in Keys : addr[k] # None => addr[k].seg \in grefs'[g]
        /\ \A h \in Gcs \ {g} : grefs'[h] = grefs[h]
    BY <2>0 DEF GcType
  <2>2. ASSUME NEW k \in Keys, Visible(k) PROVE ~Past(g, addr[k])'
    <3>1. gpc'[g] = "active" /\ addr'[k] = addr[k] /\ addr[k].seg \in grefs'[g]
      BY <1>b, <2>0, <2>1, <2>2 DEF Visible
    <3> QED BY <3>1 DEF Past
  <2> QED BY <1>0, <1>b, <2>0, <2>1, <2>2, MoveOn DEF Victim, Scan
<1>18. ASSUME SweepActive(g) PROVE Inv'
  <2>0. /\ UNCHANGED <<files, body, active, wlen, meta, addr, inline, raced, lost, skewed, ppc, pkey, pbody, pat, gvic, gpos, gat, grefs, gtodo, gkeys>>
        /\ gpc[g] = "active" /\ Goto(g, "list") /\ gpos[g] = 1
    BY <1>18 DEF SweepActive, disk, index, putv, history, pass, Order, Scan
  <2>1. \A k \in Keys : Past(g, addr[k])' => Past(g, addr[k])
    BY <1>b, <2>0 DEF Past
  <2>2. \A k \in Keys : ~(Visible(k) /\ addr[k] \notin raced \cup lost /\ Past(g, addr[k])')
    BY <1>a, <2>0, <2>1
  <2> QED BY <1>0, <1>b, <2>0, <2>2, MoveOn DEF Victim, Scan
<1>12. ASSUME SweepList(g) PROVE Inv'
  <2>0. /\ UNCHANGED <<files, body, active, wlen, meta, addr, inline, raced, lost, skewed, ppc, pkey, pbody, pat, gvic, gpos, gat, gkeys>>
        /\ gpc[g] = "list" /\ Goto(g, "sweep") /\ gpos[g] = 1
        /\ gtodo' = [gtodo EXCEPT ![g] = Sealed(gact[g]) \ grefs[g]]
        /\ grefs' = [grefs EXCEPT ![g] = {}]
    BY <1>12 DEF SweepList, disk, index, putv, history, pass, Order, Scan
  <2>1. /\ gtodo'[g] = Sealed(gact[g]) \ grefs[g]
        /\ \A h \in Gcs \ {g} : grefs'[h] = grefs[h] /\ gtodo'[h] = gtodo[h]
    BY <2>0 DEF GcType
  <2>3. \A k \in Keys : Past(g, addr[k])' => Past(g, addr[k])
    BY <1>b, <2>0, <2>1 DEF Past
  <2>4. \A k \in Keys : ~(Visible(k) /\ addr[k] \notin raced \cup lost /\ Past(g, addr[k])')
    BY <1>a, <2>0, <2>3
  <2> QED BY <1>0, <1>b, <2>0, <2>1, <2>4, MoveOn DEF Victim, Scan
<1>13. ASSUME NEW s \in SegIds, SweepUnlink(g, s) PROVE Inv'
  <2>0. /\ UNCHANGED <<body, active, wlen, meta, addr, inline, raced, lost, skewed, ppc, pkey, pbody, pat, gpc, gvic, gpos, gat, gkeys>>
        /\ gpc[g] = "sweep" /\ s \in gtodo[g] /\ files' = files \ {s} /\ gpos[g] = 1
    BY <1>13 DEF SweepUnlink, index, putv, history, pass, Order, Scan
  <2>1. /\ gtodo'[g] \subseteq gtodo[g]
        /\ \A h \in Gcs \ {g} : grefs'[h] = grefs[h] /\ gtodo'[h] = gtodo[h]
    BY <1>13 DEF SweepUnlink, GcType
  <2>2. \A k \in Keys : addr[k] # None /\ addr[k].seg = s => Past(g, addr[k])
    BY <2>0 DEF Past
  <2> QED BY <1>0, <2>0, <2>1, <2>2, UnlinkStep
<1>14. ASSUME SweepDone(g) PROVE Inv'
  <2>0. /\ UNCHANGED <<files, body, active, wlen, meta, addr, inline, raced, lost, skewed, ppc, pkey, pbody, pat, gtodo, gkeys>>
        /\ \A h \in Gcs \ {g} : grefs'[h] = grefs[h]
    BY <1>14 DEF SweepDone, disk, putv, history, GcType
  <2>1. PICK pc \in {"idle", "snap", "dead"} : PassEnds(g, pc)
    BY <1>14 DEF SweepDone, GcReport
  <2> QED BY <1>0, <2>0, <2>1, PassEndKeeps
<1>15. ASSUME GcMisread(g) PROVE Inv'
  <2> DEFINE s == gvic[g]
  <2> DEFINE o == gpos[g]
  <2>0. /\ UNCHANGED <<files, body, active, wlen, meta, addr, inline, raced, skewed, ppc, pkey, pbody, pat, gpc, gvic, gat, grefs, gtodo, gkeys>>
        /\ gpc[g] = "check" /\ gpos' = [gpos EXCEPT ![g] = o + 1] /\ o \in Nat \ {0}
        /\ lost' = lost \cup {addr[body[s][o].key]}
    BY <1>15 DEF GcMisread, disk, index, putv, sweepv, GcType
  <2>1. gpos'[g] = o + 1 /\ \A h \in Gcs \ {g} : gpos'[h] = gpos[h]
    BY <2>0, SMTT(30) DEF GcType
  <2>2. Order' /\ Aligned' /\ InFlight' /\ RowKeys'
    BY <2>0, <2>1 DEF Order, Aligned, Victim, Scan, InFlight, RowKeys, Readable, HasRecord, CrcOk, MkRow
  <2>3. RowsReadable'
    BY <2>0 DEF RowsReadable, Readable, HasRecord, CrcOk, Visible
  <2>4. Shielded'
    <3> SUFFICES ASSUME NEW k \in Keys, NEW h \in Gcs, Visible(k)', addr'[k] \notin raced' \cup lost', Past(h, addr[k])'
                 PROVE  gpc'[h] = "evtxn" /\ k \in gkeys'[h]
      BY DEF Shielded
    <3>1. Visible(k) /\ addr'[k] = addr[k] /\ addr[k] \notin raced \cup lost /\ addr[k] # addr[body[s][o].key]
      BY <2>0 DEF Visible
    <3>2. Past(h, addr[k])
      <4>1. CASE h = g
        <5>1. addr[k] \in Row /\ addr[k].key = k /\ Readable(addr[k])
          BY <1>a, <3>1, SMTT(30)
        <5>2. addr[k].seg = s /\ addr[k].off < o + 1
          BY <2>0, <2>1, <3>1, <4>1 DEF Past
        <5>3. addr[k].off # o
          <6> SUFFICES ASSUME addr[k].off = o PROVE FALSE
            OBVIOUS
          <6>1. body[s][o] = [key |-> addr[k].key, body |-> addr[k].body]
            BY <5>1, <5>2 DEF Readable, CrcOk
          <6>2. body[s][o].key = k
            BY <5>1, <6>1
          <6> QED BY <3>1, <6>2
        <5>4. addr[k].off < o
          BY <2>0, <5>1, <5>2, <5>3, SMTT(30) DEF Row
        <5> QED BY <2>0, <4>1, <5>2, <5>4 DEF Past
      <4>2. CASE h # g
        BY <2>0, <2>1, <3>1, <4>2 DEF Past
      <4> QED BY <4>1, <4>2
    <3>3. gpc[h] = "evtxn" /\ k \in gkeys[h]
      BY <3>1, <3>2 DEF Shielded
    <3> QED BY <2>0, <3>3
  <2> QED BY <1>0, <2>2, <2>3, <2>4
<1>16. ASSUME NEW s \in SegIds, SweepKeep(g, s) PROVE Inv'
  <2>0. /\ UNCHANGED <<files, body, active, wlen, meta, addr, inline, raced, lost, skewed, ppc, pkey, pbody, pat, gpc, gvic, gpos, gat, grefs, gkeys>>
        /\ gpc[g] = "sweep" /\ gpos[g] = 1
    BY <1>16 DEF SweepKeep, disk, index, putv, history, pass, Order, Scan
  <2>1. gtodo'[g] \subseteq gtodo[g] /\ \A h \in Gcs \ {g} : gtodo'[h] = gtodo[h]
    BY <1>16 DEF SweepKeep, GcType
  <2>2. \A k \in Keys : Past(g, addr[k])' => Past(g, addr[k])
    BY <2>0, <2>1 DEF Past
  <2>3. \A k \in Keys : ~(Visible(k) /\ addr[k] \notin raced \cup lost /\ Past(g, addr[k])')
    BY <1>a, <2>0, <2>2
  <2> QED BY <1>0, <2>0, <2>1, <2>3, MoveOn DEF Victim, Scan
<1> QED BY <1>1, <1>2, <1>3, <1>4, <1>5, <1>6, <1>7, <1>8, <1>9, <1>10, <1>11, <1>12, <1>13, <1>14, <1>15, <1>16, <1>17, <1>18 DEF Gc, GcFault

\* A step of the cache evictor keeps the invariant.
LEMMA EvictKeepsInv ==
  ASSUME Inv, NEW g \in Gcs, Evict(g) \/ EvictFault(g)
  PROVE  Inv'
<1> USE DEF Inv, TypeOK
<1>0. TypeOK'
  BY EvictTypes
<1>b. ASSUME NEW pc, Goto(g, pc)
      PROVE  gpc'[g] = pc /\ \A h \in Gcs \ {g} : gpc'[h] = gpc[h]
  BY <1>b DEF Goto, GcType
<1>1. ASSUME NEW v, NEW missed, EvictCollect(g, v, missed), UNCHANGED <<raced, skewed>>,
             lost \subseteq lost', \A k \in missed : addr[k] \in lost'
      PROVE  Inv'
  <2>0. /\ gpc[g] = "evpick" /\ Goto(g, "evtxn") /\ gvic' = [gvic EXCEPT ![g] = v]
        /\ gkeys' = [gkeys EXCEPT ![g] = RowsInto(v) \ missed]
        /\ UNCHANGED <<files, body, active, wlen, meta, addr, inline, raced, skewed, ppc, pkey, pbody, pat, gpos, gat, grefs, gtodo>>
    BY <1>1 DEF EvictCollect, disk, index, putv
  <2>1. v <= active /\ v \in SegIds
    BY <1>1, SealedBelow DEF EvictCollect
  <2>2. /\ gvic'[g] = v /\ gpos'[g] = 1 /\ gkeys'[g] = RowsInto(v) \ missed
        /\ \A h \in Gcs \ {g} : gvic'[h] = gvic[h] /\ gkeys'[h] = gkeys[h] /\ gpc'[h] = gpc[h]
        /\ gpc'[g] = "evtxn"
    BY <1>b, <2>0 DEF GcType, Order, Scan
  <2>3. Order' /\ Aligned'
    BY <2>0, <2>1, <2>2 DEF Order, Aligned, Victim, Scan
  <2>4. InFlight'
    BY <2>0, <2>2 DEF InFlight, Readable, HasRecord, CrcOk, MkRow
  <2>5. RowKeys' /\ RowsReadable'
    BY <1>1, <2>0 DEF RowKeys, RowsReadable, Readable, HasRecord, CrcOk, Visible
  <2>6. Shielded'
    <3> SUFFICES ASSUME NEW k \in Keys, NEW h \in Gcs, Visible(k)', addr'[k] \notin raced' \cup lost', Past(h, addr[k])'
                 PROVE  gpc'[h] = "evtxn" /\ k \in gkeys'[h]
      BY DEF Shielded
    <3>0. Visible(k) /\ addr'[k] = addr[k] /\ addr[k] \notin raced \cup lost /\ k \notin missed
      BY <1>1, <2>0 DEF Visible
    <3>1. addr[k] \in Row /\ addr[k].key = k /\ Readable(addr[k]) /\ inline[k] = None /\ addr[k] # None
      BY <3>0 DEF RowsReadable, RowKeys, Visible, IndexType
    <3>2. CASE h = g
      <4>1. addr[k].seg = v
        BY <2>0, <2>2, <3>2, <3>0 DEF Past
      <4>2. addr[k].off \in DOMAIN body[v]
        <5>1. addr[k].off \in Nat \ {0} /\ addr[k].off <= Len(body[v])
          BY <3>1, <4>1 DEF Readable, HasRecord, Row
        <5> QED BY <2>1, <5>1 DEF DiskType
      <4>3. body[v][addr[k].off].key = k
        <5>1. body[v][addr[k].off] = [key |-> addr[k].key, body |-> addr[k].body]
          BY <3>1, <4>1 DEF Readable, CrcOk
        <5> QED BY <3>1, <5>1
      <4>4. Alive(k, v, addr[k].off)
        BY <3>1, <4>1 DEF Alive, PointsAt
      <4>5. k \in RowsInto(v)
        BY <4>2, <4>3, <4>4 DEF RowsInto
      <4> QED BY <2>2, <3>0, <3>2, <4>5
    <3>3. CASE h # g
      <4>1. Past(h, addr[k])
        BY <2>0, <2>2, <3>0, <3>3 DEF Past
      <4>2. gpc[h] = "evtxn" /\ k \in gkeys[h]
        BY <3>0, <4>1 DEF Shielded
      <4> QED BY <2>2, <3>3, <4>2
    <3> QED BY <3>2, <3>3
  <2> QED BY <1>0, <2>3, <2>4, <2>5, <2>6
<1>7. ASSUME EvictBegin(g) PROVE Inv'
  <2>0. /\ UNCHANGED <<files, body, active, wlen, meta, addr, inline, raced, lost, skewed, ppc, pkey, pbody, pat, gvic, gpos, gat, grefs, gtodo, gkeys>>
        /\ Goto(g, "evpick") /\ gpos[g] = 1
    BY <1>7 DEF EvictBegin, disk, index, putv, history, pass, Order, Scan
  <2>1. \A k \in Keys : ~Past(g, addr[k])'
    BY <1>b, <2>0 DEF Past
  <2> QED BY <1>0, <1>b, <2>0, <2>1, MoveOn DEF Victim
<1>8. ASSUME EvictNone(g) PROVE Inv'
  <2>0. /\ UNCHANGED <<files, body, active, wlen, meta, addr, inline, raced, lost, skewed, ppc, pkey, pbody, pat, grefs, gtodo, gkeys>>
        /\ PassEnds(g, "idle")
    BY <1>8 DEF EvictNone, GcReturn, disk, index, putv, history
  <2> QED BY <1>0, <2>0, PassEndKeeps
<1>4. ASSUME EvictScan(g) PROVE Inv'
  BY <1>1, <1>4 DEF EvictScan, history
<1>5. ASSUME EvictMisread(g) PROVE Inv'
  <2>0. PICK v \in files : \E k \in RowsInto(v) :
          EvictCollect(g, v, {k}) /\ lost' = lost \cup {addr[k]} /\ UNCHANGED <<raced, skewed>>
    BY <1>5 DEF EvictMisread
  <2>1. PICK k \in RowsInto(v) : EvictCollect(g, v, {k}) /\ lost' = lost \cup {addr[k]} /\ UNCHANGED <<raced, skewed>>
    BY <2>0
  <2>2. \A j \in {k} : addr[j] \in lost'
    BY <2>1
  <2> QED BY <1>1, <2>1, <2>2
<1>6. ASSUME GcFails(g) PROVE Inv'
  BY <1>6, GcKeepsInv DEF GcFault
<1>2. ASSUME EvictTxn(g) PROVE Inv'
  <2>0. /\ UNCHANGED <<files, body, active, wlen, meta, inline, raced, lost, skewed, ppc, pkey, pbody, pat, gvic, gpos, gat, grefs, gtodo>>
        /\ gpc[g] = "evtxn" /\ Goto(g, "evunlink") /\ gvic[g] <= active /\ gpos[g] = 1
        /\ addr' = [k \in Keys |-> IF k \in gkeys[g] THEN None ELSE addr[k]]
        /\ gkeys' = [gkeys EXCEPT ![g] = {}]
    BY <1>2 DEF EvictTxn, disk, putv, history, pass, Order, Victim, Scan
  <2>1. \A k \in Keys : addr'[k] # None => addr'[k] = addr[k] /\ k \notin gkeys[g]
    BY <2>0
  <2>2. gpc'[g] = "evunlink" /\ \A h \in Gcs \ {g} : gpc'[h] = gpc[h] /\ gkeys'[h] = gkeys[h]
    BY <1>b, <2>0 DEF GcType
  <2>3. Order' /\ Aligned'
    BY <2>0, <2>2 DEF Order, Aligned, Victim, Scan
  <2>4. InFlight'
    BY <2>0, <2>2 DEF InFlight, Readable, HasRecord, CrcOk, MkRow
  <2>5. RowKeys' /\ RowsReadable'
    BY <2>0, <2>1 DEF RowKeys, RowsReadable, Readable, HasRecord, CrcOk, Visible
  <2>6. Shielded'
    <3> SUFFICES ASSUME NEW k \in Keys, NEW h \in Gcs, Visible(k)', addr'[k] \notin raced' \cup lost', Past(h, addr[k])'
                 PROVE  gpc'[h] = "evtxn" /\ k \in gkeys'[h]
      BY DEF Shielded
    <3>1. Visible(k) /\ addr'[k] = addr[k] /\ addr[k] \notin raced \cup lost /\ k \notin gkeys[g]
      BY <2>0, <2>1 DEF Visible
    <3>2. Past(h, addr[k])
      BY <2>0, <2>2, <3>1 DEF Past
    <3>3. gpc[h] = "evtxn" /\ k \in gkeys[h]
      BY <3>1, <3>2 DEF Shielded
    <3> QED BY <2>2, <3>1, <3>3
  <2> QED BY <1>0, <2>3, <2>4, <2>5, <2>6
<1>3. ASSUME EvictUnlink(g) PROVE Inv'
  <2>0. /\ UNCHANGED <<body, active, wlen, meta, addr, inline, raced, lost, skewed, ppc, pkey, pbody, pat, grefs, gtodo, gkeys>>
        /\ gpc[g] = "evunlink" /\ gvic[g] <= active /\ gvic[g] \in SegIds
        /\ files' = files \ {gvic[g]} /\ PassEnds(g, "idle")
    BY <1>3 DEF EvictUnlink, GcReturn, index, putv, history, sweepv, Order, Victim, GcType
  <2>1. /\ gpc'[g] = "idle" /\ gpos'[g] = 1
        /\ \A h \in Gcs \ {g} : /\ gpc'[h] = gpc[h] /\ gvic'[h] = gvic[h] /\ gpos'[h] = gpos[h] /\ gat'[h] = gat[h]
                                /\ grefs'[h] = grefs[h] /\ gtodo'[h] = gtodo[h] /\ gkeys'[h] = gkeys[h]
    BY <2>0 DEF PassEnds, GcType
  <2>2. \A k \in Keys : addr[k] # None /\ addr[k].seg = gvic[g] => Past(g, addr[k])
    BY <2>0 DEF Past
  <2> QED BY <1>0, <2>0, <2>1, <2>2, UnlinkStep
<1> QED BY <1>2, <1>3, <1>4, <1>5, <1>6, <1>7, <1>8 DEF Evict, EvictFault

\* A fresh directory satisfies the invariant.
LEMMA InitInv == Init => Inv
<1> SUFFICES ASSUME Init PROVE Inv
  OBVIOUS
<1> USE DEF Init
<1>0. 0 \in SegIds
  BY BoundsAssumption DEF SegIds
<1>1. DiskType
  <2>1. body \in [SegIds -> Seq(Record)]
    OBVIOUS
  <2> QED BY <1>0, <2>1 DEF DiskType
<1>2. IndexType /\ PutType /\ HistoryType
  BY DEF IndexType, PutType, HistoryType
<1>3. GetType
  BY DEF GetType
<1>4. GcType
  BY <1>0 DEF GcType, GcPcs
<1>5. Order /\ Aligned
  BY <1>0 DEF Order, Aligned, Victim
<1>6. InFlight /\ RowKeys /\ RowsReadable /\ Shielded
  BY DEF InFlight, RowKeys, RowsReadable, Shielded, Visible
<1> QED BY <1>1, <1>2, <1>3, <1>4, <1>5, <1>6 DEF Inv, TypeOK

\* Every step of every thread, and every crash, keeps the invariant.
LEMMA NextKeepsInv ==
  ASSUME Inv, [Next]_vars
  PROVE  Inv'
<1>1. ASSUME UNCHANGED vars PROVE Inv'
  <2>1. TypeOK'
    BY <1>1 DEF Inv, TypeOK, DiskType, IndexType, PutType, GetType, GcType, HistoryType,
       vars, disk, index, putv, getv, gcv, pass, sweepv, faults, history
  <2> QED BY <1>1, <2>1, QuietStep DEF vars, disk, index, putv, gcv, pass, sweepv, history
<1>2. ASSUME NEW g \in Collectors, Gc(g) \/ GcFault(g) PROVE Inv'
  BY <1>2, GcKeepsInv DEF Gcs
<1>3. ASSUME NEW g \in Evictors, Evict(g) \/ EvictFault(g) PROVE Inv'
  BY <1>3, EvictKeepsInv DEF Gcs
<1> QED BY <1>1, <1>2, <1>3, PutKeepsInv, CallersKeepInv, CrashKeepsInv DEF Next

\* The inductive invariant holds in every reachable state: record addresses,
\* rows and reclaimers agree whatever puts, gc_once, evict_oldest_segment, kills,
\* power losses and failed calls do.
THEOREM InvHolds == Spec => []Inv
BY InitInv, NextKeepsInv, PTL DEF Spec

\* Every variable of the engine stays in its type, for any number of threads,
\* keys, segments and faults.
THEOREM TypeCorrect == Spec => []TypeOK
<1>1. Inv => TypeOK
  BY DEF Inv
<1> QED BY InitInv, NextKeepsInv, <1>1, PTL DEF Spec

\* For any number of threads, keys, segments and faults: the row of a visible
\* key leads to its body, unless it was committed behind the back of a
\* reclaimer (put_impl against gc_once, sweep_orphans, evict_oldest_segment)
\* or into a file a reclaimer had taken from the writer, a power loss took the
\* unsynced record it points to, or a reclaimer could not read the index.
THEOREM RowsStayReadable == Spec => []RowsReadable
<1>1. Inv => RowsReadable
  BY DEF Inv
<1> QED BY InitInv, NextKeepsInv, <1>1, PTL DEF Spec

-----------------------------------------------------------------------------
(* What get answers. *)

\* A record and an inline row hold a body that was put under their key.
OwnBodies ==
  /\ \A s \in SegIds : \A i \in 1 .. Len(body[s]) : body[s][i].body \in BodyOf[body[s][i].key]
  /\ \A k \in Keys : inline[k] # None => inline[k] \in BodyOf[k]

\* A row a reader holds is the one of its key; its record is there until the
\* file goes, and a file that is gone does not come back while the reader waits.
Seen(r) ==
  rpc[r] # "idle" =>
    /\ rrow[r].key = rkey[r]
    /\ \/ rrow[r] \in raced \cup lost
       \/ rrow[r].seg <= active /\ rrow[r].seg \notin files
       \/ rpc[r] = "read" /\ Readable(rrow[r])

ReadInv == Inv /\ OwnBodies /\ (\A r \in Readers : Seen(r)) /\ GetReturnsOwnBody /\ UnchangedRowIsLost

\* What a step that is neither a get nor a crash does to what a get looks at.
LEMMA StepKinds ==
  ASSUME Inv, OwnBodies, Next
  PROVE  \/ Kill \/ PowerLoss \/ Get
         \/ /\ UNCHANGED <<rpc, rkey, rrow, rprev, rout>> /\ raced \subseteq raced' /\ lost \subseteq lost'
            /\ \A k \in Keys : inline'[k] = inline[k] \/ inline'[k] = None \/ inline'[k] \in BodyOf[k]
            /\ \/ files' \subseteq files /\ UNCHANGED <<body, active>>
               \/ \E rec \in Record : rec.body \in BodyOf[rec.key] /\ SegAppend(rec) /\ UNCHANGED skewed
<1> USE DEF Inv, TypeOK
<1> DEFINE Calm == /\ UNCHANGED <<rpc, rkey, rrow, rprev, rout>> /\ raced \subseteq raced' /\ lost \subseteq lost'
                   /\ files' \subseteq files /\ UNCHANGED <<body, active>>
           Appends == /\ UNCHANGED <<rpc, rkey, rrow, rprev, rout>> /\ UNCHANGED <<raced, lost, inline, skewed>>
                      /\ \E rec \in Record : rec.body \in BodyOf[rec.key] /\ SegAppend(rec)
           Goal == \/ Kill \/ PowerLoss \/ Get
                   \/ /\ UNCHANGED <<rpc, rkey, rrow, rprev, rout>> /\ raced \subseteq raced' /\ lost \subseteq lost'
                      /\ \A k \in Keys : inline'[k] = inline[k] \/ inline'[k] = None \/ inline'[k] \in BodyOf[k]
                      /\ \/ files' \subseteq files /\ UNCHANGED <<body, active>>
                         \/ \E rec \in Record : rec.body \in BodyOf[rec.key] /\ SegAppend(rec) /\ UNCHANGED skewed
<1>a. ASSUME Calm, inline' = inline PROVE Goal
  BY <1>a
<1>b. ASSUME Appends PROVE Goal
  BY <1>b
<1> USE DEF disk, index, putv, getv, gcv, pass, sweepv, faults, history
<1>1. CASE Put
  <2>1. ASSUME NEW p \in Putters, NEW k \in Keys, NEW b \in BodyOf[k], PutAppend(p, k, b) PROVE Goal
    <3>1. [key |-> k, body |-> b] \in Record
      BY DEF Record, Bodies
    <3>2. Appends
      BY <2>1, <3>1 DEF PutAppend
    <3> QED BY <3>2, <1>b
  <2>2. ASSUME NEW p \in Putters, PutCommit(p) PROVE Goal
    <3>1. Calm /\ inline' = [inline EXCEPT ![pkey[p]] = None]
      BY <2>2 DEF PutCommit, NoteCommit
    <3> QED BY <3>1 DEF IndexType
  <2>3. ASSUME NEW p \in Putters, PutFails(p) PROVE Goal
    BY <1>a, <2>3 DEF PutFails
  <2> QED BY <1>1, <2>1, <2>2, <2>3 DEF Put
<1>2. CASE IndexOnly
  <2>1. PICK k \in Keys : (\E b \in BodyOf[k] : PutInline(k, b)) \/ Delete(k)
    BY <1>2 DEF IndexOnly
  <2>2. Calm
    BY <2>1 DEF PutInline, Delete
  <2>3. \E b \in BodyOf[k] \cup {None} : inline' = [inline EXCEPT ![k] = b]
    BY <2>1 DEF PutInline, Delete
  <2> QED BY <2>2, <2>3 DEF IndexType
<1>3. CASE EngineFlush
  BY <1>3, <1>a DEF EngineFlush, Flush
<1>4. ASSUME NEW g \in Gcs, Gc(g) PROVE Goal
  <2>1. CASE GcAppend(g)
    <3>1. gpc[g] = "append" /\ gvic[g] \in SegIds /\ gpos[g] \in Nat \ {0} /\ gpos[g] <= Len(body[gvic[g]])
      BY <2>1 DEF GcAppend, GcType, Order
    <3>2. body[gvic[g]][gpos[g]] \in Record
      BY <3>1, BodyType
    <3>3. body[gvic[g]][gpos[g]].body \in BodyOf[body[gvic[g]][gpos[g]].key]
      <4>1. Len(body[gvic[g]]) \in Nat
        BY <3>1 DEF DiskType
      <4> QED BY <3>1, <4>1 DEF OwnBodies
    <3>4. Appends
      BY <2>1, <3>2, <3>3 DEF GcAppend
    <3> QED BY <3>4, <1>b
  <2>2. CASE GcBegin(g) \/ GcPick(g) \/ GcOpen(g) \/ GcCheck(g)
    BY <2>2, <1>a DEF GcBegin, GcPick, GcOpen, GcCheck
  <2>3. CASE GcCas(g)
    BY <2>3, <1>a DEF GcCas, NoteCommit
  <2>4. CASE GcAccount(g) \/ GcFlush(g) \/ GcUnlink(g) \/ GcClear(g)
    BY <2>4, <1>a DEF GcAccount, GcFlush, Flush, GcUnlink, GcClear
  <2>5. CASE SweepSnap(g) \/ SweepActive(g) \/ SweepList(g) \/ (\E s \in SegIds : SweepUnlink(g, s)) \/ SweepDone(g)
    BY <2>5, <1>a DEF SweepSnap, SweepActive, SweepList, SweepUnlink, SweepDone
  <2> QED BY <1>4, <2>1, <2>2, <2>3, <2>4, <2>5 DEF Gc
<1>5. ASSUME NEW g \in Gcs, Evict(g) PROVE Goal
  BY <1>5, <1>a DEF Evict, EvictBegin, EvictNone, EvictScan, EvictCollect, EvictTxn, EvictUnlink
<1>6. ASSUME NEW g \in Gcs, GcFault(g) \/ EvictFault(g) PROVE Goal
  BY <1>6, <1>a DEF GcFault, EvictFault, GcFails, GcMisread, SweepKeep, EvictMisread, EvictCollect
<1> QED BY <1>1, <1>2, <1>3, <1>4, <1>5, <1>6 DEF Next, Gcs

\* Everything but get, and crashes: what readers hold stays what it was.
LEMMA OthersKeepReadInv ==
  ASSUME ReadInv, Inv',
         UNCHANGED <<rpc, rkey, rrow, rprev, rout>>, raced \subseteq raced', lost \subseteq lost',
         \A k \in Keys : inline'[k] = inline[k] \/ inline'[k] = None \/ inline'[k] \in BodyOf[k],
         \/ files' \subseteq files /\ UNCHANGED <<body, active>>
         \/ \E rec \in Record : rec.body \in BodyOf[rec.key] /\ SegAppend(rec) /\ UNCHANGED skewed
  PROVE  ReadInv'
<1> USE DEF ReadInv, Inv, TypeOK
<1>1. GetReturnsOwnBody' /\ UnchangedRowIsLost'
  BY DEF GetReturnsOwnBody, UnchangedRowIsLost
<1>2. CASE files' \subseteq files /\ UNCHANGED <<body, active>>
  <2>1. OwnBodies'
    BY <1>2 DEF OwnBodies
  <2>2. ASSUME NEW r \in Readers PROVE Seen(r)'
    <3>1. Seen(r)
      OBVIOUS
    <3>2. CASE rrow[r].seg \in files'
      BY <1>2, <3>1, <3>2 DEF Seen, Readable, HasRecord, CrcOk
    <3>3. CASE rrow[r].seg \notin files' /\ rpc[r] # "idle"
      <4>1. Readable(rrow[r]) => rrow[r].seg <= active
        BY DEF Readable, HasRecord, Order
      <4> QED BY <1>2, <3>1, <3>3, <4>1 DEF Seen
    <3> QED BY <3>2, <3>3 DEF Seen
  <2> QED BY <1>1, <2>1, <2>2
<1>3. CASE \E rec \in Record : rec.body \in BodyOf[rec.key] /\ SegAppend(rec) /\ UNCHANGED skewed
  <2> PICK rec \in Record : rec.body \in BodyOf[rec.key] /\ SegAppend(rec) /\ UNCHANGED skewed
    BY <1>3
  <2>1. /\ \A row \in Row : Readable(row) => Readable(row)'
        /\ active <= active' /\ files' \subseteq files \cup {active'} /\ (active' = active => files' = files)
        /\ active \in SegIds /\ active' \in SegIds
    BY SegAppendReadable, SegAppendType DEF DiskType
  <2>2. OwnBodies'
    <3>1. ASSUME NEW s \in SegIds, NEW i \in 1 .. Len(body'[s]) PROVE body'[s][i].body \in BodyOf[body'[s][i].key]
      <4> PICK t : t = TargetSeg
        OBVIOUS
      <4> PICK recs : recs = IF Full THEN <<rec>> ELSE Append(body[active], rec)
        OBVIOUS
      <4>1. body' = [body EXCEPT ![t] = recs]
        BY DEF SegAppend
      <4>2. CASE s # t
        BY <4>1, <4>2 DEF DiskType, OwnBodies
      <4>3. CASE s = t
        <5>0. body'[s] = recs
          BY <4>1, <4>3 DEF DiskType
        <5>1. CASE Full
          <6>1. recs = <<rec>>
            BY <5>1
          <6>2. body'[s][i] = rec
            BY <5>0, <6>1
          <6> QED BY <6>2
        <5>2. CASE ~Full
          <6> PICK b \in Seq(Record) : b = body[active]
            BY DEF DiskType
          <6>1. recs = Append(b, rec) /\ Len(b) \in Nat
            BY <5>2
          <6>2. CASE i = Len(b) + 1
            BY <5>0, <6>1, <6>2
          <6>3. CASE i # Len(b) + 1
            <7>1. i \in 1 .. Len(b) /\ body'[s][i] = b[i]
              BY <5>0, <6>1, <6>3
            <7>2. b[i].body \in BodyOf[b[i].key]
              BY <2>1, <7>1 DEF OwnBodies
            <7> QED BY <7>1, <7>2
          <6> QED BY <6>2, <6>3
        <5> QED BY <5>1, <5>2
      <4> QED BY <4>2, <4>3
    <3> QED BY <3>1 DEF OwnBodies
  <2>3. ASSUME NEW r \in Readers, rpc[r] # "idle" PROVE Seen(r)'
    <3>1. Seen(r) /\ rrow[r] \in Row
      BY <2>3 DEF GetType
    <3>2. rrow[r].seg \in SegIds
      BY <3>1 DEF Row
    <3>3. rrow[r].seg <= active /\ rrow[r].seg \notin files => rrow[r].seg <= active' /\ rrow[r].seg \notin files'
      BY <2>1, <3>2 DEF SegIds
    <3> QED BY <2>1, <2>3, <3>1, <3>3 DEF Seen
  <2>4. ASSUME NEW r \in Readers PROVE Seen(r)'
    BY <2>3 DEF Seen
  <2> QED BY <1>1, <2>2, <2>4
<1> QED BY <1>2, <1>3

\* The match on lookup() of get.
LEMMA LookupKeepsReadInv ==
  ASSUME ReadInv, Inv', NEW r \in Readers, NEW k \in Keys, NEW prev, GetLookup(r, k, prev),
         prev = None \/ (rpc[r] = "retry" /\ prev = rrow[r] /\ k = rkey[r])
  PROVE  ReadInv'
<1> USE DEF ReadInv, Inv, TypeOK
<1>0. UNCHANGED <<files, body, active, addr, inline, raced, lost>> /\ rkey' = [rkey EXCEPT ![r] = k]
  BY DEF GetLookup, disk, index, history
<1>1. OwnBodies'
  BY <1>0 DEF OwnBodies
<1>2. ASSUME NEW q \in Readers \ {r}
      PROVE  rpc'[q] = rpc[q] /\ rkey'[q] = rkey[q] /\ rrow'[q] = rrow[q] /\ rout'[q] = rout[q] /\ Seen(q)'
  <2>1. rpc'[q] = rpc[q] /\ rkey'[q] = rkey[q] /\ rrow'[q] = rrow[q] /\ rout'[q] = rout[q]
    BY DEF GetLookup, GetReturns, GetType
  <2>2. Seen(q)
    OBVIOUS
  <2> QED BY <1>0, <2>1, <2>2 DEF Seen, Readable, HasRecord, CrcOk
<1>3. rkey'[r] = k
  BY <1>0 DEF GetType
<1>4. /\ Seen(r)' /\ (rout'[r].res = "Ok" => rout'[r].body \in BodyOf[k])
      /\ (rout'[r].res = "IoSame" => rrow'[r] \in raced \cup lost)
  <2>1. CASE inline[k] # None
    <3>1. rpc'[r] = "idle" /\ rout'[r] = [res |-> "Ok", body |-> inline[k]]
      BY <2>1 DEF GetLookup, GetReturns, GetType
    <3> QED BY <2>1, <3>1 DEF Seen, OwnBodies
  <2>2. CASE inline[k] = None /\ addr[k] = None
    <3>1. rpc'[r] = "idle" /\ rout'[r] = [res |-> "NotFound", body |-> None]
      BY <2>2 DEF GetLookup, GetReturns, GetType
    <3> QED BY <3>1 DEF Seen
  <2>3. CASE inline[k] = None /\ addr[k] # None /\ addr[k] = prev
    <3>1. rpc'[r] = "idle" /\ rout'[r] = [res |-> "IoSame", body |-> None] /\ rrow' = rrow
      BY <2>3 DEF GetLookup, GetReturns, GetType
    <3>2. rpc[r] = "retry" /\ rrow[r] = addr[k]
      BY <2>3
    <3>3. Readable(addr[k]) \/ addr[k] \in raced \cup lost
      BY <2>3 DEF RowsReadable, Visible
    <3>4. Seen(r)
      OBVIOUS
    <3>5. rrow[r] \in raced \cup lost
      BY <3>2, <3>3, <3>4 DEF Seen, Readable, HasRecord
    <3> QED BY <3>1, <3>5 DEF Seen
  <2>4. CASE inline[k] = None /\ addr[k] # None /\ addr[k] # prev
    <3>1. rpc'[r] = "read" /\ rout'[r] = [res |-> "none", body |-> None] /\ rrow'[r] = addr[k]
      BY <2>4 DEF GetLookup, GetType
    <3>2. Readable(addr[k]) \/ addr[k] \in raced \cup lost
      BY <2>4 DEF RowsReadable, Visible
    <3>3. addr[k].key = k
      BY <2>4 DEF RowKeys
    <3> QED BY <1>0, <1>3, <3>1, <3>2, <3>3 DEF Seen, Readable, HasRecord, CrcOk
  <2> QED BY <2>1, <2>2, <2>3, <2>4
<1>5. GetReturnsOwnBody'
  BY <1>2, <1>3, <1>4 DEF GetReturnsOwnBody
<1>6. UnchangedRowIsLost'
  BY <1>0, <1>2, <1>4 DEF UnchangedRowIsLost
<1> QED BY <1>1, <1>2, <1>4, <1>5, <1>6

\* read_record of get.
LEMMA ReadKeepsReadInv ==
  ASSUME ReadInv, Inv', NEW r \in Readers, GetRead(r)
  PROVE  ReadInv'
<1> USE DEF ReadInv, Inv, TypeOK
<1>0. /\ UNCHANGED <<files, body, active, addr, inline, raced, lost, rkey, rrow>>
      /\ rpc[r] = "read" /\ rrow[r] \in Row /\ rrow[r].key = rkey[r] /\ rrow[r].seg \in SegIds /\ rrow[r].off \in Nat \ {0}
  BY DEF GetRead, disk, index, history, GetType, Row, Seen
<1>1. OwnBodies'
  BY <1>0 DEF OwnBodies
<1>2. ASSUME NEW q \in Readers \ {r} PROVE rpc'[q] = rpc[q] /\ rout'[q] = rout[q] /\ Seen(q)'
  <2>1. rpc'[q] = rpc[q] /\ rout'[q] = rout[q]
    BY DEF GetRead, GetReturns, GetType
  <2>2. Seen(q)
    OBVIOUS
  <2> QED BY <1>0, <2>1, <2>2 DEF Seen, Readable, HasRecord, CrcOk
<1>3. /\ Seen(r)' /\ (rout'[r].res = "Ok" => rout'[r].body \in BodyOf[rkey[r]])
      /\ (rout'[r].res = "IoSame" => rrow[r] \in raced \cup lost)
  <2>1. CASE HasRecord(rrow[r]) /\ CrcOk(rrow[r])
    <3> PICK x : x = body[rrow[r].seg][rrow[r].off]
      OBVIOUS
    <3>1. rpc'[r] = "idle" /\ rout'[r] = [res |-> "Ok", body |-> x.body]
      BY <2>1 DEF GetRead, GetReturns, GetType
    <3>2. x.key = rkey[r]
      BY <1>0, <2>1 DEF CrcOk
    <3>3. Len(body[rrow[r].seg]) \in Nat
      BY <1>0, SMTT(30) DEF DiskType
    <3>4. x.body \in BodyOf[x.key]
      BY <1>0, <2>1, <3>3 DEF HasRecord, OwnBodies
    <3> QED BY <3>1, <3>2, <3>4 DEF Seen
  <2>2. CASE HasRecord(rrow[r]) /\ ~CrcOk(rrow[r])
    <3>1. rpc'[r] = "idle" /\ rout'[r] = [res |-> "Corrupt", body |-> None]
      BY <2>2 DEF GetRead, GetReturns, GetType
    <3> QED BY <3>1 DEF Seen
  <2>3. CASE ~HasRecord(rrow[r]) /\ rprev[r] = None
    <3>1. rpc'[r] = "retry" /\ rout' = rout
      BY <2>3 DEF GetRead, GetType
    <3>2. Seen(r) /\ ~Readable(rrow[r])
      BY <2>3 DEF Readable
    <3> QED BY <1>0, <3>1, <3>2 DEF Seen, GetReturnsOwnBody, UnchangedRowIsLost
  <2>4. CASE ~HasRecord(rrow[r]) /\ rprev[r] # None
    <3>1. rpc'[r] = "idle" /\ rout'[r] = [res |-> "IoMoved", body |-> None]
      BY <2>4 DEF GetRead, GetReturns, GetType
    <3> QED BY <3>1 DEF Seen
  <2> QED BY <2>1, <2>2, <2>3, <2>4
<1>4. GetReturnsOwnBody' /\ UnchangedRowIsLost'
  BY <1>0, <1>2, <1>3 DEF GetReturnsOwnBody, UnchangedRowIsLost
<1> QED BY <1>1, <1>2, <1>3, <1>4

\* After a crash nobody reads, and what survives of a file was in it before.
LEMMA CrashKeepsReadInv ==
  ASSUME ReadInv, Inv', Kill \/ PowerLoss
  PROVE  ReadInv'
<1> USE DEF ReadInv, Inv, TypeOK
<1>1. PICK len \in [SegIds -> Nat] : (\A s \in files : len[s] <= Len(body[s])) /\ Reopen(len)
  BY CrashReopens
<1>2. OwnBodies'
  <2>1. inline' = inline
    BY <1>1 DEF Reopen
  <2>2. ASSUME NEW s \in SegIds, NEW i \in 1 .. Len(body'[s]) PROVE body'[s][i].body \in BodyOf[body'[s][i].key]
    <3>1. CASE s \in files
      <4>1. Len(body'[s]) = len[s] /\ len[s] \in Nat /\ \A o \in 1 .. len[s] : body'[s][o] = body[s][o]
        BY <1>1, <3>1, ReopenFacts
      <4>2. i \in 1 .. Len(body[s])
        <5>1. Len(body[s]) \in Nat /\ len[s] <= Len(body[s])
          BY <1>1, <3>1 DEF DiskType
        <5> QED BY <4>1, <5>1
      <4> QED BY <4>1, <4>2 DEF OwnBodies
    <3>2. CASE s \notin files /\ s = meta.seg
      <4>1. body'[s] = << >>
        BY <1>1, <3>2 DEF Reopen
      <4> QED BY <4>1
    <3>3. CASE s \notin files /\ s # meta.seg
      <4>1. body'[s] = body[s]
        BY <1>1, <3>3 DEF Reopen
      <4> QED BY <4>1 DEF OwnBodies
    <3> QED BY <3>1, <3>2, <3>3
  <2> QED BY <2>1, <2>2 DEF OwnBodies
<1>3. \A r \in Readers : rpc'[r] = "idle" /\ rout'[r] = [res |-> "none", body |-> None]
  BY <1>1 DEF Reopen
<1> QED BY <1>2, <1>3 DEF Seen, GetReturnsOwnBody, UnchangedRowIsLost

LEMMA ReadInvHolds == Spec => []ReadInv
<1>1. Init => ReadInv
  <2> SUFFICES ASSUME Init PROVE ReadInv
    OBVIOUS
  <2>1. OwnBodies
    BY DEF Init, OwnBodies
  <2>2. (\A r \in Readers : Seen(r)) /\ GetReturnsOwnBody /\ UnchangedRowIsLost
    BY DEF Init, Seen, GetReturnsOwnBody, UnchangedRowIsLost
  <2> QED BY <2>1, <2>2, InitInv DEF ReadInv
<1>2. ReadInv /\ [Next]_vars => ReadInv'
  <2> SUFFICES ASSUME ReadInv, [Next]_vars PROVE ReadInv'
    OBVIOUS
  <2>0. Inv'
    BY NextKeepsInv DEF ReadInv
  <2>1. CASE UNCHANGED vars
    BY <2>0, <2>1, OthersKeepReadInv DEF vars, disk, index, getv, history
  <2>2. CASE Get
    <3>1. ASSUME NEW r \in Readers, NEW k \in Keys, GetBegin(r, k) PROVE ReadInv'
      BY <2>0, <3>1, LookupKeepsReadInv DEF GetBegin
    <3>2. ASSUME NEW r \in Readers, GetRetry(r) PROVE ReadInv'
      <4>1. rpc[r] = "retry" /\ GetLookup(r, rkey[r], rrow[r]) /\ rkey[r] \in Keys
        BY <3>2 DEF GetRetry, ReadInv, Inv, TypeOK, GetType
      <4> QED BY <2>0, <4>1, LookupKeepsReadInv
    <3> QED BY <2>0, <2>2, <3>1, <3>2, ReadKeepsReadInv DEF Get
  <2>3. CASE Next /\ ~Get /\ ~Kill /\ ~PowerLoss
    BY <2>0, <2>3, StepKinds, OthersKeepReadInv DEF ReadInv
  <2> QED BY <2>0, <2>1, <2>2, <2>3, CrashKeepsReadInv
<1> QED BY <1>1, <1>2, PTL DEF Spec

\* get answers only with a body that was put under the key it was asked for:
\* whatever is appended, moved, evicted, cut off by a power loss and written
\* over while it looks the row up and reads the file.
THEOREM GetsReturnOwnBodies == Spec => []GetReturnsOwnBody
<1>1. ReadInv => GetReturnsOwnBody
  BY DEF ReadInv
<1> QED BY <1>1, ReadInvHolds, PTL

\* When get gives up because the row is still the same after a failed read,
\* the body is really gone: no collection or rotation between its two lookups
\* makes it report a lost block that is not lost.
THEOREM GivesUpOnLostRows == Spec => []UnchangedRowIsLost
<1>1. ReadInv => UnchangedRowIsLost
  BY DEF ReadInv
<1> QED BY <1>1, ReadInvHolds, PTL

-----------------------------------------------------------------------------
(* What a collection pass does to the body a key leads to. *)

\* A row leads to its record through an open handle, whether or not the file
\* is still in the directory.
Stored(row) ==
  /\ row.seg <= active /\ row.off <= Len(body[row.seg])
  /\ body[row.seg][row.off] = [key |-> row.key, body |-> row.body]

\* As long as nothing crashes this holds of every row, of every row a put is
\* about to write and of every row a collector is about to write.
StoredInv ==
  /\ Inv /\ skewed = {}
  /\ \A k \in Keys : addr[k] # None => Stored(addr[k])
  /\ \A p \in Putters : ppc[p] = "commit" => Stored(MkRow(pat[p], [key |-> pkey[p], body |-> pbody[p]]))
  /\ \A g \in Gcs : gpc[g] = "cas" => Stored(MkRow(gat[g], body[gvic[g]][gpos[g]]))

\* A step that writes no record and only sound rows.
LEMMA NoAppendKeepsStored ==
  ASSUME StoredInv, Inv', UNCHANGED <<body, active, skewed>>,
         \A k \in Keys : addr'[k] = addr[k] \/ addr'[k] = None \/ Stored(addr'[k]),
         \A p \in Putters : ppc'[p] = "commit" =>
           ppc[p] = "commit" /\ pat'[p] = pat[p] /\ pkey'[p] = pkey[p] /\ pbody'[p] = pbody[p],
         \A g \in Gcs : gpc'[g] = "cas" =>
           gpc[g] = "cas" /\ gat'[g] = gat[g] /\ gvic'[g] = gvic[g] /\ gpos'[g] = gpos[g]
  PROVE  StoredInv'
<1>1. \A k \in Keys : addr'[k] # None => Stored(addr[k])'
  <2>1. \A k \in Keys : addr'[k] # None => Stored(addr'[k])
    BY DEF StoredInv
  <2>2. body' = body /\ active' = active
    OBVIOUS
  <2> QED BY ONLY <2>1, <2>2 DEF Stored
<1>2. \A p \in Putters : ppc'[p] = "commit" => Stored(MkRow(pat[p], [key |-> pkey[p], body |-> pbody[p]]))'
  BY DEF StoredInv, Stored, MkRow
<1>3. \A g \in Gcs : gpc'[g] = "cas" => Stored(MkRow(gat[g], body[gvic[g]][gpos[g]]))'
  BY DEF StoredInv, Stored, MkRow
<1> QED BY <1>1, <1>2, <1>3 DEF StoredInv

\* An append leaves every stored row stored, and the address it returns leads
\* to the record.
LEMMA AppendStores ==
  ASSUME Inv, skewed = {}, NEW rec \in Record, SegAppend(rec), UNCHANGED skewed
  PROVE  /\ \A row \in Row : Stored(row) => Stored(row)'
         /\ \A at : at = NextAddr => Stored(MkRow(at, rec))'
<1> USE DEF Inv, TypeOK
<1>t. /\ active \in SegIds /\ active \in Nat /\ active' \in Nat
      /\ \A s \in SegIds : s \in Nat /\ Len(body[s]) \in Nat /\ Len(body'[s]) \in Nat
  <2>1. DiskType'
    BY SegAppendType
  <2>2. \A s \in SegIds : body[s] \in Seq(Record) /\ body'[s] \in Seq(Record)
    BY <2>1 DEF DiskType
  <2>3. \A s \in SegIds : Len(body[s]) \in Nat /\ Len(body'[s]) \in Nat
    BY <2>2, LenProperties
  <2>4. active \in SegIds /\ active' \in SegIds
    BY <2>1 DEF DiskType
  <2>5. \A s \in SegIds : s \in Nat
    BY DEF SegIds
  <2> QED BY <2>3, <2>4, <2>5
<1>1. /\ NextAddr.seg = active' /\ active <= active'
      /\ \A s \in SegIds : s <= active =>
           /\ Len(body[s]) <= Len(body'[s])
           /\ \A o \in 1 .. Len(body[s]) : body'[s][o] = body[s][o]
  BY SegAppendReadable
<1>2. ASSUME NEW row \in Row, Stored(row) PROVE Stored(row)'
  <2>1. row.seg \in SegIds /\ row.off \in Nat \ {0} /\ row.seg <= active
    BY <1>2 DEF Row, Stored
  <2>2. Len(body[row.seg]) <= Len(body'[row.seg]) /\ body'[row.seg][row.off] = body[row.seg][row.off]
    <3>1. row.off \in 1 .. Len(body[row.seg])
      BY <1>t, <1>2, <2>1 DEF Stored
    <3> QED BY <1>1, <2>1, <3>1
  <2>3. row.seg <= active'
    <3>1. row.seg \in Nat
      BY <1>t, <2>1
    <3> QED BY <1>t, <1>1, <2>1, <3>1
  <2>4. row.off <= Len(body'[row.seg])
    <3>1. Len(body[row.seg]) \in Nat /\ Len(body'[row.seg]) \in Nat /\ row.off <= Len(body[row.seg])
      BY <1>t, <1>2, <2>1 DEF Stored
    <3> QED BY <2>1, <2>2, <3>1
  <2> QED BY <1>2, <2>2, <2>3, <2>4 DEF Stored
<1>3. ASSUME NEW at, at = NextAddr PROVE Stored(MkRow(at, rec))'
  <2>1. rec = [key |-> rec.key, body |-> rec.body]
    BY DEF Record
  <2>2. at.seg = active' /\ at.off <= Len(body'[active']) /\ body'[active'][at.off] = rec
    <3>1. CASE Full
      <4>1. active' = active + 1 /\ active + 1 \in SegIds /\ at.seg = active + 1 /\ at.off = 1
            /\ body' = [body EXCEPT ![active + 1] = <<rec>>]
        BY <1>3, <1>t, <3>1, BoundsAssumption DEF SegAppend, TargetSeg, NextAddr, SegIds
      <4>2. body'[active'] = <<rec>>
        BY <4>1 DEF DiskType
      <4> QED BY <4>1, <4>2
    <3>2. CASE ~Full
      <4>1. active' = active /\ at.seg = active /\ at.off = Len(body[active]) + 1
            /\ body' = [body EXCEPT ![active] = Append(body[active], rec)]
        BY <1>3, <3>2 DEF SegAppend, TargetSeg, NextAddr, Aligned
      <4>2. body'[active'] = Append(body[active], rec) /\ body[active] \in Seq(Record)
        BY <1>t, <4>1 DEF DiskType
      <4> QED BY <4>1, <4>2
    <3> QED BY <3>1, <3>2
  <2>3. /\ MkRow(at, rec).seg = at.seg /\ MkRow(at, rec).off = at.off
        /\ MkRow(at, rec).key = rec.key /\ MkRow(at, rec).body = rec.body
    BY DEF MkRow
  <2> QED BY <1>t, <2>1, <2>2, <2>3 DEF Stored
<1> QED BY <1>2, <1>3

\* A step that writes one record, for a put or for a collector.
LEMMA AppendKeepsStored ==
  ASSUME StoredInv, Inv', NEW rec \in Record, SegAppend(rec), UNCHANGED <<skewed, addr>>,
         \A p \in Putters : ppc'[p] = "commit" =>
           \/ ppc[p] = "commit" /\ pat'[p] = pat[p] /\ pkey'[p] = pkey[p] /\ pbody'[p] = pbody[p]
           \/ pat'[p] = NextAddr /\ rec = [key |-> pkey'[p], body |-> pbody'[p]],
         \A g \in Gcs : gpc'[g] = "cas" =>
           /\ gpc[g] \in {"append", "cas"} /\ gvic'[g] = gvic[g] /\ gpos'[g] = gpos[g]
           /\ \/ gpc[g] = "cas" /\ gat'[g] = gat[g]
              \/ gat'[g] = NextAddr /\ rec = body[gvic[g]][gpos[g]]
  PROVE  StoredInv'
<1> USE DEF StoredInv, Inv, TypeOK
<1>0. /\ \A row \in Row : Stored(row) => Stored(row)'
      /\ \A at : at = NextAddr => Stored(MkRow(at, rec))'
  BY AppendStores
<1>1. \A k \in Keys : addr'[k] # None => Stored(addr[k])'
  <2> SUFFICES ASSUME NEW k \in Keys, addr[k] # None PROVE Stored(addr[k])'
    OBVIOUS
  <2> PICK row : row = addr[k]
    OBVIOUS
  <2>1. row \in Row /\ Stored(row) /\ row = addr'[k]
    BY DEF IndexType
  <2>2. Stored(row)'
    BY <1>0, <2>1
  <2> QED BY <2>1, <2>2
<1>2. ASSUME NEW p \in Putters, ppc'[p] = "commit"
      PROVE  Stored(MkRow(pat[p], [key |-> pkey[p], body |-> pbody[p]]))'
  <2>1. CASE ppc[p] = "commit" /\ pat'[p] = pat[p] /\ pkey'[p] = pkey[p] /\ pbody'[p] = pbody[p]
    <3> PICK row : row = MkRow(pat[p], [key |-> pkey[p], body |-> pbody[p]])
      OBVIOUS
    <3>1. row \in Row
      BY <2>1, MkRowType DEF PutType, Record
    <3>2. Stored(row)'
      BY <1>0, <2>1, <3>1
    <3>3. row = MkRow(pat'[p], [key |-> pkey'[p], body |-> pbody'[p]])
      BY <2>1
    <3> QED BY <3>2, <3>3
  <2>2. CASE pat'[p] = NextAddr /\ rec = [key |-> pkey'[p], body |-> pbody'[p]]
    <3> PICK at : at = NextAddr
      OBVIOUS
    <3>1. Stored(MkRow(at, rec))'
      BY <1>0
    <3>2. at = pat'[p] /\ rec = [key |-> pkey'[p], body |-> pbody'[p]]
      BY <2>2
    <3> QED BY <3>1, <3>2
  <2> QED BY <1>2, <2>1, <2>2
<1>3. ASSUME NEW g \in Gcs, gpc'[g] = "cas" PROVE Stored(MkRow(gat[g], body[gvic[g]][gpos[g]]))'
  <2>1. gpc[g] \in {"append", "cas"} /\ gvic'[g] = gvic[g] /\ gpos'[g] = gpos[g]
    BY <1>3
  <2> PICK rc : rc = body[gvic[g]][gpos[g]]
    OBVIOUS
  <2>2. body'[gvic'[g]][gpos'[g]] = rc
    BY <2>1, AppendOrder
  <2>3. rc \in Record
    BY <2>1, BodyType DEF GcType, Order
  <2>4. CASE gpc[g] = "cas" /\ gat'[g] = gat[g]
    <3> PICK row : row = MkRow(gat[g], rc)
      OBVIOUS
    <3>1. row \in Row /\ Stored(row)
      BY <2>3, <2>4, MkRowType DEF GcType
    <3>2. Stored(row)'
      BY <1>0, <3>1
    <3>3. row = MkRow(gat'[g], body'[gvic'[g]][gpos'[g]])
      BY <2>2, <2>4
    <3> QED BY <3>2, <3>3
  <2>5. CASE gat'[g] = NextAddr /\ rec = body[gvic[g]][gpos[g]]
    <3> PICK at : at = NextAddr
      OBVIOUS
    <3>1. Stored(MkRow(at, rec))'
      BY <1>0
    <3>2. at = gat'[g] /\ rec = body'[gvic'[g]][gpos'[g]]
      BY <2>2, <2>5
    <3> QED BY <3>1, <3>2
  <2> QED BY <1>3, <2>4, <2>5
<1> QED BY <1>1, <1>2, <1>3

LEMMA NextKeepsStored ==
  ASSUME StoredInv, Inv', Next, ~Kill, ~PowerLoss
  PROVE  StoredInv'
<1> USE DEF StoredInv, Inv, TypeOK
<1> DEFINE Calm == UNCHANGED <<body, active, skewed>>
           SameRows == \A k \in Keys : addr'[k] = addr[k] \/ addr'[k] = None
           Puts == \A p \in Putters : ppc'[p] = "commit" =>
             ppc[p] = "commit" /\ pat'[p] = pat[p] /\ pkey'[p] = pkey[p] /\ pbody'[p] = pbody[p]
           Copies == \A g \in Gcs : gpc'[g] = "cas" =>
             gpc[g] = "cas" /\ gat'[g] = gat[g] /\ gvic'[g] = gvic[g] /\ gpos'[g] = gpos[g]
<1>a. ASSUME Calm, SameRows, Puts, Copies PROVE StoredInv'
  BY <1>a, NoAppendKeepsStored
<1> USE DEF disk, index, putv, getv, gcv, pass, sweepv, faults, history
<1>1. CASE Put
  <2>1. ASSUME NEW p \in Putters, NEW k \in Keys, NEW b \in BodyOf[k], PutAppend(p, k, b) PROVE StoredInv'
    <3>1. [key |-> k, body |-> b] \in Record
      BY DEF Record, Bodies
    <3>2. /\ SegAppend([key |-> k, body |-> b]) /\ UNCHANGED <<skewed, addr, gpc, gat, gvic, gpos>>
          /\ ppc' = [ppc EXCEPT ![p] = "commit"] /\ pkey' = [pkey EXCEPT ![p] = k]
          /\ pbody' = [pbody EXCEPT ![p] = b] /\ pat' = [pat EXCEPT ![p] = NextAddr]
      BY <2>1 DEF PutAppend
    <3>3. \A q \in Putters : ppc'[q] = "commit" =>
           \/ ppc[q] = "commit" /\ pat'[q] = pat[q] /\ pkey'[q] = pkey[q] /\ pbody'[q] = pbody[q]
           \/ pat'[q] = NextAddr /\ [key |-> k, body |-> b] = [key |-> pkey'[q], body |-> pbody'[q]]
      BY <3>2 DEF PutType
    <3> QED BY <3>1, <3>2, <3>3, AppendKeepsStored
  <2>2. ASSUME NEW p \in Putters, PutCommit(p) PROVE StoredInv'
    <3>1. Stored(MkRow(pat[p], [key |-> pkey[p], body |-> pbody[p]])) /\ pkey[p] \in Keys
      BY <2>2 DEF PutCommit, PutType
    <3>2. addr' = [addr EXCEPT ![pkey[p]] = MkRow(pat[p], [key |-> pkey[p], body |-> pbody[p]])]
      BY <2>2 DEF PutCommit
    <3>3. \A k \in Keys : addr'[k] = addr[k] \/ addr'[k] = None \/ Stored(addr'[k])
      BY <3>1, <3>2 DEF IndexType
    <3>4. Calm /\ Puts /\ Copies
      BY <2>2 DEF PutCommit, PutReset, PutType
    <3> QED BY <3>3, <3>4, NoAppendKeepsStored
  <2>3. ASSUME NEW p \in Putters, PutFails(p) PROVE StoredInv'
    BY <2>3, <1>a DEF PutFails, PutReset, PutType
  <2> QED BY <1>1, <2>1, <2>2, <2>3 DEF Put
<1>2. CASE IndexOnly
  BY <1>2, <1>a DEF IndexOnly, PutInline, Delete, IndexType
<1>3. CASE EngineFlush
  BY <1>3, <1>a DEF EngineFlush, Flush
<1>4. CASE Get
  BY <1>4, <1>a DEF Get, GetBegin, GetRead, GetRetry, GetLookup
<1>5. ASSUME NEW g \in Gcs, Gc(g) PROVE StoredInv'
  <2>1. CASE GcAppend(g)
    <3> PICK rec : rec = body[gvic[g]][gpos[g]]
      OBVIOUS
    <3>1. gpc[g] = "append" /\ SegAppend(rec) /\ UNCHANGED <<skewed, addr, ppc, pkey, pbody, pat, gvic, gpos>>
          /\ gat' = [gat EXCEPT ![g] = NextAddr] /\ gpc' = [gpc EXCEPT ![g] = "cas"]
      BY <2>1 DEF GcAppend, Goto
    <3>2. rec \in Record
      BY <3>1, BodyType DEF GcType, Order
    <3>3. \A h \in Gcs : gpc'[h] = "cas" =>
           /\ gpc[h] \in {"append", "cas"} /\ gvic'[h] = gvic[h] /\ gpos'[h] = gpos[h]
           /\ \/ gpc[h] = "cas" /\ gat'[h] = gat[h]
              \/ gat'[h] = NextAddr /\ rec = body[gvic[h]][gpos[h]]
      BY <3>1 DEF GcType
    <3> QED BY <3>1, <3>2, <3>3, AppendKeepsStored
  <2>2. CASE GcCas(g)
    <3> PICK rec : rec = body[gvic[g]][gpos[g]]
      OBVIOUS
    <3>1. Stored(MkRow(gat[g], rec))
      BY <2>2 DEF GcCas
    <3>2. addr' = addr \/ addr' = [addr EXCEPT ![rec.key] = MkRow(gat[g], rec)]
      BY <2>2 DEF GcCas
    <3>3. \A k \in Keys : addr'[k] = addr[k] \/ addr'[k] = None \/ Stored(addr'[k])
      BY <3>1, <3>2 DEF IndexType
    <3>4. Calm /\ Puts
      BY <2>2 DEF GcCas
    <3>5. gpc' = [gpc EXCEPT ![g] = "check"] /\ gat' = [gat EXCEPT ![g] = None]
          /\ gpos' = [gpos EXCEPT ![g] = gpos[g] + 1] /\ gvic' = gvic
      BY <2>2 DEF GcCas, Goto
    <3>6. Copies
      BY <3>5 DEF GcType
    <3> QED BY <3>3, <3>4, <3>6, NoAppendKeepsStored
  <2>3. CASE ~GcAppend(g) /\ ~GcCas(g)
    <3>1. Calm /\ SameRows /\ Puts
      BY <1>5, <2>3 DEF Gc, GcBegin, GcPick, GcOpen, GcCheck, GcAccount, GcFlush, Flush, GcUnlink, GcClear,
         SweepSnap, SweepActive, SweepList, SweepUnlink, SweepDone
    <3>2. \E pc : pc # "cas" /\ gpc' = [gpc EXCEPT ![g] = pc]
      <4>1. CASE GcBegin(g) \/ GcPick(g) \/ GcOpen(g)
        BY <4>1 DEF GcBegin, GcPick, GcOpen, Goto, AfterVictim, GcReturn, PassEnds
      <4>2. CASE GcCheck(g)
        <5>1. gpc' = [gpc EXCEPT ![g] = "account"] \/ gpc' = [gpc EXCEPT ![g] = "append"] \/ gpc' = [gpc EXCEPT ![g] = "check"]
          BY <4>2 DEF GcCheck, Goto, GcType
        <5> QED BY <5>1
      <4>3. CASE GcAccount(g) \/ GcFlush(g) \/ GcUnlink(g) \/ GcClear(g)
        BY <4>3 DEF GcAccount, GcFlush, GcUnlink, GcClear, Goto, AfterVictim, GcReturn, PassEnds
      <4>4. CASE SweepSnap(g) \/ SweepActive(g) \/ SweepList(g) \/ SweepDone(g)
        BY <4>4 DEF SweepSnap, SweepActive, SweepList, SweepDone, Goto, PassEnds, GcReport
      <4>5. CASE \E s \in SegIds : SweepUnlink(g, s)
        <5>1. gpc' = [gpc EXCEPT ![g] = "sweep"]
          BY <4>5 DEF SweepUnlink, GcType
        <5> QED BY <5>1
      <4> QED BY <1>5, <2>3, <4>1, <4>2, <4>3, <4>4, <4>5 DEF Gc
    <3>3. \A h \in Gcs \ {g} : gat'[h] = gat[h] /\ gvic'[h] = gvic[h] /\ gpos'[h] = gpos[h]
      <4>1. CASE GcBegin(g) \/ GcPick(g) \/ GcOpen(g)
        BY <4>1 DEF GcBegin, GcPick, GcOpen, Goto, AfterVictim, GcReturn, PassEnds, GcType
      <4>2. CASE GcCheck(g)
        BY <4>2 DEF GcCheck, Goto, GcType
      <4>3. CASE GcAccount(g) \/ GcFlush(g) \/ GcUnlink(g) \/ GcClear(g)
        BY <4>3 DEF GcAccount, GcFlush, GcUnlink, GcClear, Goto, AfterVictim, GcReturn, PassEnds, GcType
      <4>4. CASE SweepSnap(g) \/ SweepActive(g) \/ SweepList(g) \/ SweepDone(g)
        BY <4>4 DEF SweepSnap, SweepActive, SweepList, SweepDone, Goto, PassEnds, GcType
      <4>5. CASE \E s \in SegIds : SweepUnlink(g, s)
        BY <4>5 DEF SweepUnlink, GcType
      <4> QED BY <1>5, <2>3, <4>1, <4>2, <4>3, <4>4, <4>5 DEF Gc
    <3>4. Copies
      BY <3>2, <3>3 DEF GcType
    <3> QED BY <3>1, <3>4, <1>a
  <2> QED BY <2>1, <2>2, <2>3
<1>6. ASSUME NEW g \in Gcs, Evict(g) \/ GcFault(g) \/ EvictFault(g) PROVE StoredInv'
  <2>1. Calm /\ SameRows /\ Puts
    BY <1>6 DEF Evict, EvictBegin, EvictNone, EvictScan, EvictCollect, EvictTxn, EvictUnlink, GcFault, EvictFault,
       GcFails, GcMisread, SweepKeep, EvictMisread
  <2>2. \E pc : pc # "cas" /\ gpc' = [gpc EXCEPT ![g] = pc]
    <3>1. CASE Evict(g)
      BY <3>1 DEF Evict, EvictBegin, EvictNone, EvictScan, EvictCollect, EvictTxn, EvictUnlink, Goto, GcReturn, PassEnds
    <3>2. CASE GcFails(g) \/ EvictMisread(g)
      BY <3>2 DEF GcFails, EvictMisread, EvictCollect, Goto, GcReturn, PassEnds
    <3>3. CASE GcMisread(g) \/ \E s \in SegIds : SweepKeep(g, s)
      <4>1. gpc' = [gpc EXCEPT ![g] = gpc[g]] /\ gpc[g] # "cas"
        BY <3>3 DEF GcMisread, SweepKeep, GcType
      <4> QED BY <4>1
    <3> QED BY <1>6, <3>1, <3>2, <3>3 DEF GcFault, EvictFault
  <2>3. \A h \in Gcs \ {g} : gat'[h] = gat[h] /\ gvic'[h] = gvic[h] /\ gpos'[h] = gpos[h]
    <3>1. CASE Evict(g)
      BY <3>1 DEF Evict, EvictBegin, EvictNone, EvictScan, EvictCollect, EvictTxn, EvictUnlink, GcReturn, PassEnds, GcType
    <3>2. CASE GcFails(g) \/ EvictMisread(g)
      BY <3>2 DEF GcFails, EvictMisread, EvictCollect, GcReturn, PassEnds, GcType
    <3>3. CASE GcMisread(g) \/ \E s \in SegIds : SweepKeep(g, s)
      BY <3>3 DEF GcMisread, SweepKeep, GcType
    <3> QED BY <1>6, <3>1, <3>2, <3>3 DEF GcFault, EvictFault
  <2>4. Copies
    BY <2>2, <2>3 DEF GcType
  <2> QED BY <2>1, <2>4, <1>a
<1> QED BY <1>1, <1>2, <1>3, <1>4, <1>5, <1>6 DEF Next, Gcs

\* The compare-and-set of gc_once writes back the body it read.
LEMMA GcStepKeepsBodies ==
  ASSUME Inv, NEW g \in Gcs, Gc(g), NEW k \in Keys,
         addr[k] # None => Stored(addr[k]) \/ inline[k] # None
  PROVE  Body(k)' = Body(k)
<1> USE DEF Inv, TypeOK
<1>1. CASE GcCas(g)
  <2> PICK rec : rec = body[gvic[g]][gpos[g]]
    OBVIOUS
  <2>1. gpc[g] = "cas" /\ inline' = inline /\ gat[g] \in Address /\ rec \in Record
    <3>1. gpc[g] = "cas" /\ inline' = inline
      BY <1>1 DEF GcCas
    <3> QED BY <3>1, BodyType DEF GcType, Order
  <2>2. \/ addr' = addr
        \/ PointsAt(addr[rec.key], gvic[g], gpos[g]) /\ addr' = [addr EXCEPT ![rec.key] = MkRow(gat[g], rec)]
    BY <1>1 DEF GcCas
  <2>3. CASE addr' = addr \/ rec.key # k \/ inline[k] # None
    BY <2>1, <2>2, <2>3 DEF Body, IndexType
  <2>4. CASE inline[k] = None /\ rec.key = k /\ PointsAt(addr[k], gvic[g], gpos[g]) /\ addr' = [addr EXCEPT ![k] = MkRow(gat[g], rec)]
    <3>1. addr[k] # None /\ addr[k].body = rec.body
      BY <2>4 DEF PointsAt, Stored
    <3>2. addr'[k] = MkRow(gat[g], rec)
      BY <2>4 DEF IndexType
    <3>3. MkRow(gat[g], rec) # None /\ MkRow(gat[g], rec).body = rec.body
      <4>1. MkRow(gat[g], rec) \in Row
        BY <2>1, MkRowType
      <4> QED BY <4>1, RowAssumption DEF MkRow
    <3> QED BY <2>1, <2>4, <3>1, <3>2, <3>3 DEF Body
  <2> QED BY <2>2, <2>3, <2>4
<1>2. CASE ~GcCas(g)
  <2>1. UNCHANGED <<addr, inline>>
    BY <1>2 DEF Gc, GcBegin, GcPick, GcOpen, GcCheck, GcAppend, GcAccount, GcFlush, GcUnlink, GcClear,
       SweepSnap, SweepActive, SweepList, SweepUnlink, SweepDone, index
  <2> QED BY <2>1 DEF Body
<1> QED BY <1>1, <1>2

LEMMA StoredInvHolds ==
  ASSUME MaxKills = 0, MaxPowerLosses = 0
  PROVE  Spec => []StoredInv
<1>1. Init => StoredInv
  <2> SUFFICES ASSUME Init PROVE StoredInv
    OBVIOUS
  <2>1. skewed = {} /\ (\A k \in Keys : addr[k] = None) /\ (\A p \in Putters : ppc[p] = "idle") /\ (\A g \in Gcs : gpc[g] = "idle")
    BY DEF Init
  <2> QED BY <2>1, InitInv DEF StoredInv
<1>2. StoredInv /\ [Next]_vars => StoredInv'
  <2> SUFFICES ASSUME StoredInv, [Next]_vars PROVE StoredInv'
    OBVIOUS
  <2>0. Inv'
    BY NextKeepsInv DEF StoredInv
  <2>1. CASE UNCHANGED vars
    BY <2>0, <2>1, NoAppendKeepsStored DEF vars, disk, index, putv, gcv, pass, history
  <2>2. ~Kill /\ ~PowerLoss
    BY DEF Kill, PowerLoss, StoredInv, Inv, TypeOK, HistoryType
  <2> QED BY <2>0, <2>1, <2>2, NextKeepsStored
<1> QED BY <1>1, <1>2, PTL DEF Spec

\* While the process lives, no step of gc_once changes what a key leads to:
\* the check outside of a transaction, the copy and the compare-and-set never
\* bring a replaced or deleted body back, however many passes, puts, deletes
\* and evictions overlap and whatever calls fail.
THEOREM PassesKeepBodies ==
  ASSUME MaxKills = 0, MaxPowerLosses = 0
  PROVE  Spec => GcKeepsBodies
<1>1. StoredInv /\ [Next]_vars => [(\E g \in Collectors : Gc(g)) => \A k \in Keys : Body(k)' = Body(k)]_vars
  <2> SUFFICES ASSUME StoredInv, NEW g \in Collectors, Gc(g), NEW k \in Keys PROVE Body(k)' = Body(k)
    OBVIOUS
  <2> QED BY GcStepKeepsBodies DEF StoredInv, Gcs
<1> QED BY <1>1, StoredInvHolds, PTL DEF Spec, GcKeepsBodies

\* With kills and power losses too, a pass changes nothing for a key whose row
\* is not one that a crash or a race has cut off from its body already.
THEOREM PassesKeepSoundRows ==
  Spec => [][(\E g \in Collectors : Gc(g)) =>
               \A k \in Keys : addr[k] \notin raced \cup lost => Body(k)' = Body(k)]_vars
<1>1. Inv /\ [Next]_vars => [(\E g \in Collectors : Gc(g)) =>
               \A k \in Keys : addr[k] \notin raced \cup lost => Body(k)' = Body(k)]_vars
  <2> SUFFICES ASSUME Inv, NEW g \in Collectors, Gc(g), NEW k \in Keys, addr[k] \notin raced \cup lost
               PROVE  Body(k)' = Body(k)
    OBVIOUS
  <2>1. addr[k] # None /\ inline[k] = None => Stored(addr[k])
    BY DEF Inv, RowsReadable, Visible, Readable, HasRecord, CrcOk, Stored, Order
  <2> QED BY <2>1, GcStepKeepsBodies DEF Gcs
<1> QED BY <1>1, InvHolds, PTL DEF Spec

-----------------------------------------------------------------------------
(* What the collector keeps on the disk. *)

\* A step restarts the disk, appends, flushes, or leaves records and what is
\* synced of them alone.
LEMMA DiskSteps ==
  ASSUME Inv, Next, ~Kill, ~PowerLoss
  PROVE  /\ kills' = kills
         /\ \/ (\E rec \in Record : SegAppend(rec)) /\ UNCHANGED skewed
            \/ Flush
            \/ files' \subseteq files /\ UNCHANGED <<body, synced, active, wlen, flushOffset, unflushed>>
<1> USE DEF disk, index, putv, getv, gcv, pass, sweepv, faults, history
<1>1. CASE Put
  <2>1. ASSUME NEW p \in Putters, NEW k \in Keys, NEW b \in BodyOf[k], PutAppend(p, k, b)
        PROVE  (\E rec \in Record : SegAppend(rec)) /\ UNCHANGED <<kills, skewed>>
    BY <2>1 DEF PutAppend, Record, Bodies
  <2>2. ASSUME NEW p \in Putters, PutCommit(p) \/ PutFails(p)
        PROVE  UNCHANGED <<disk, kills>>
    BY <2>2 DEF PutCommit, PutFails
  <2> QED BY <1>1, <2>1, <2>2 DEF Put
<1>2. CASE IndexOnly \/ Get
  BY <1>2 DEF IndexOnly, PutInline, Delete, Get, GetBegin, GetRead, GetRetry, GetLookup
<1>3. CASE EngineFlush
  BY <1>3 DEF EngineFlush
<1>4. ASSUME NEW g \in Gcs, Gc(g)
      PROVE  /\ kills' = kills
             /\ \/ (\E rec \in Record : SegAppend(rec)) /\ UNCHANGED skewed
                \/ Flush
                \/ files' \subseteq files /\ UNCHANGED <<body, synced, active, wlen, flushOffset, unflushed>>
  <2>1. CASE GcAppend(g)
    <3>1. body[gvic[g]][gpos[g]] \in Record
      BY <2>1, BodyType DEF GcAppend, Inv, TypeOK, GcType, Order
    <3> QED BY <2>1, <3>1 DEF GcAppend
  <2>2. CASE GcFlush(g)
    BY <2>2 DEF GcFlush
  <2>3. CASE ~GcAppend(g) /\ ~GcFlush(g)
    BY <1>4, <2>3 DEF Gc, GcBegin, GcPick, GcOpen, GcCheck, GcCas, GcAccount, GcUnlink, GcClear,
       SweepSnap, SweepActive, SweepList, SweepUnlink, SweepDone
  <2> QED BY <2>1, <2>2, <2>3
<1>5. ASSUME NEW g \in Gcs, Evict(g) \/ GcFault(g) \/ EvictFault(g)
      PROVE  kills' = kills /\ files' \subseteq files /\ UNCHANGED <<body, synced, active, wlen, flushOffset, unflushed>>
  BY <1>5 DEF Evict, EvictBegin, EvictNone, EvictScan, EvictCollect, EvictTxn, EvictUnlink, GcFault, EvictFault,
     GcFails, GcMisread, SweepKeep, EvictMisread
<1> QED BY <1>1, <1>2, <1>3, <1>4, <1>5 DEF Next, Gcs

\* After a flush nothing of the active segment is unsynced but what was
\* presumed flushed.
LEMMA FlushKeepsCover ==
  ASSUME Inv, FlushCovers, Flush, presumed' = presumed
  PROVE  FlushCovers' /\ \A s \in files : \A o \in 1 .. Len(body[s]) : o <= synced'[s] \/ <<s, o>> \in presumed
<1> USE DEF Inv, TypeOK
<1>1. /\ active \in SegIds /\ UNCHANGED <<files, body, active, wlen>> /\ flushOffset' = wlen /\ unflushed' = 0
      /\ synced' = [synced EXCEPT ![active] = SyncedByFlush] /\ synced \in [SegIds -> Nat] /\ files \subseteq SegIds
  BY DEF Flush, DiskType
<1>2. ASSUME NEW s \in files, NEW o \in 1 .. Len(body[s]) PROVE o <= synced'[s] \/ <<s, o>> \in presumed
  <2>1. s \in SegIds /\ (o <= synced[s] \/ <<s, o>> \in presumed \/ (s = active /\ ~NothingToFlush))
    BY <1>1 DEF FlushCovers
  <2>2. CASE s = active /\ ~NothingToFlush
    BY <1>1, <2>2 DEF SyncedByFlush
  <2>3. CASE NothingToFlush \/ s # active
    <3>1. synced'[s] = synced[s]
      BY <1>1, <2>1, <2>3 DEF SyncedByFlush
    <3> QED BY <2>1, <2>3, <3>1
  <2> QED BY <2>2, <2>3
<1>3. FlushCovers'
  BY <1>1, <1>2 DEF FlushCovers
<1> QED BY <1>2, <1>3

\* An append counts itself as unflushed, flushes, or both rotates and flushes.
LEMMA AppendKeepsCover ==
  ASSUME Inv, FlushCovers, NEW rec \in Record, SegAppend(rec), presumed' = presumed
  PROVE  FlushCovers'
<1> USE DEF Inv, TypeOK
<1> USE BoundsAssumption
<1>t. /\ active \in SegIds /\ active \in Nat /\ wlen \in Nat /\ body \in [SegIds -> Seq(Record)]
      /\ synced \in [SegIds -> Nat] /\ files \subseteq SegIds /\ unflushed \in Nat
      /\ \A s \in SegIds : s \in Nat /\ Len(body[s]) \in Nat
  BY DEF DiskType, SegIds
<1>o. \A s \in files : s \in SegIds /\ s <= active
  BY <1>t DEF Order
<1> DEFINE items == IF Full THEN 1 ELSE unflushed + 1
           sealedSync == IF Full THEN [synced EXCEPT ![active] = SyncedByFlush] ELSE synced
           recs == IF Full THEN <<rec>> ELSE Append(body[active], rec)
<1>1. /\ active' = TargetSeg /\ TargetSeg \in SegIds
      /\ files' = IF Full THEN files \cup {TargetSeg} ELSE files
      /\ body' = [body EXCEPT ![TargetSeg] = recs]
      /\ unflushed' = IF items >= FsyncItems THEN 0 ELSE items
      /\ synced' = IF items >= FsyncItems THEN [sealedSync EXCEPT ![TargetSeg] = Len(recs)] ELSE sealedSync
  BY <1>t DEF SegAppend, TargetSeg, SegIds
<1>2. items \in Nat \ {0} /\ sealedSync \in [SegIds -> Nat]
  <2>1. SyncedByFlush \in Nat
    BY <1>t DEF SyncedByFlush
  <2> QED BY <1>t, <2>1
<1>3. TargetSeg = IF Full THEN active + 1 ELSE active
  BY DEF TargetSeg
<1>4. ASSUME NEW o \in 1 .. Len(body'[TargetSeg])
      PROVE  o <= synced'[TargetSeg] \/ unflushed' # 0
  <2>1. body'[TargetSeg] = recs
    BY <1>1, <1>t
  <2>2. CASE items >= FsyncItems
    <3>1. synced'[TargetSeg] = Len(recs)
      BY <1>1, <1>2, <2>2
    <3> QED BY <2>1, <3>1
  <2>3. CASE ~(items >= FsyncItems)
    BY <1>1, <1>2, <2>3
  <2> QED BY <2>2, <2>3
<1>5. ASSUME NEW s \in files', s # TargetSeg, NEW o \in 1 .. Len(body'[s])
      PROVE  o <= synced'[s] \/ <<s, o>> \in presumed
  <2>1. s \in files /\ s \in SegIds /\ body'[s] = body[s] /\ synced'[s] = sealedSync[s]
    BY <1>1, <1>2, <1>5, <1>t
  <2>2. o <= synced[s] \/ <<s, o>> \in presumed \/ (s = active /\ ~NothingToFlush)
    BY <1>5, <2>1 DEF FlushCovers
  <2>3. CASE s = active
    <3>1. Full /\ sealedSync[s] = SyncedByFlush
      BY <1>3, <1>5, <1>t, <2>3
    <3>2. o <= Len(body[active]) /\ synced[s] = synced[active]
      BY <2>1, <2>3, <1>5, <1>t
    <3> QED BY <2>1, <2>2, <2>3, <3>1, <3>2 DEF SyncedByFlush
  <2>4. CASE s # active
    <3>1. sealedSync[s] = synced[s]
      BY <2>1, <2>4, <1>t
    <3> QED BY <2>1, <2>2, <2>4, <3>1
  <2> QED BY <2>3, <2>4
<1> HIDE DEF items, sealedSync, recs
<1> SUFFICES ASSUME NEW s \in files', NEW o \in 1 .. Len(body'[s])
             PROVE  o <= synced'[s] \/ <<s, o>> \in presumed' \/ (s = active' /\ ~NothingToFlush')
  BY DEF FlushCovers
<1> QED BY <1>1, <1>4, <1>5 DEF NothingToFlush

\* A restart knows of every surviving record that it is synced, or presumes it.
LEMMA CrashKeepsCover ==
  ASSUME Inv, FlushCovers, Kill \/ PowerLoss, Track
  PROVE  /\ FlushCovers'
         /\ \A row \in Row : OnDisk(row) => OnDisk(row)'
<1> USE DEF Inv, TypeOK
<1>t. /\ active \in SegIds /\ meta.seg = active /\ body \in [SegIds -> Seq(Record)]
      /\ synced \in [SegIds -> Nat] /\ files \subseteq SegIds
      /\ \A s \in SegIds : Len(body[s]) \in Nat
  BY DEF DiskType, Order
<1>1. CASE Kill
  <2> DEFINE len == [s \in SegIds |-> Len(body[s])]
  <2>1. len \in [SegIds -> Nat] /\ \A s \in files : len[s] <= Len(body[s])
    BY <1>t
  <2>2. /\ Reopen(len) /\ kills' = kills + 1
        /\ synced' = [s \in SegIds |-> IF s = meta.seg /\ s \notin files THEN 0 ELSE synced[s]]
    BY <1>1 DEF Kill
  <2>3. /\ \A s \in files : /\ Len(body'[s]) = len[s]
                            /\ \A o \in 1 .. len[s] : body'[s][o] = body[s][o]
        /\ active' = active /\ files' = files \cup {active} /\ body' \in [SegIds -> Seq(Record)]
    BY <2>1, <2>2, ReopenFacts
  <2>4. presumed' = presumed \cup {<<active', o>> : o \in synced'[active'] + 1 .. Len(body'[active'])}
    <3>1. kills' # kills
      BY <2>2 DEF HistoryType
    <3> QED BY <3>1 DEF Track
  <2>5. ASSUME NEW s \in files', NEW o \in 1 .. Len(body'[s])
        PROVE  o <= synced'[s] \/ <<s, o>> \in presumed'
    <3>1. CASE s = active
      <4>1. synced'[active'] \in Nat /\ Len(body'[active']) \in Nat
        BY <1>t, <2>2, <2>3
      <4>2. o \in Nat /\ o <= Len(body'[active']) /\ active' = s
        BY <2>3, <2>5, <3>1, <4>1
      <4>3. ~(o <= synced'[active']) => o \in synced'[active'] + 1 .. Len(body'[active'])
        BY <4>1, <4>2
      <4> QED BY <2>4, <4>2, <4>3
    <3>2. CASE s # active
      <4>1. s \in files /\ o \in 1 .. Len(body[s]) /\ synced'[s] = synced[s]
        BY <1>t, <2>2, <2>3, <2>5, <3>2
      <4>2. o <= synced[s] \/ <<s, o>> \in presumed
        BY <3>2, <4>1 DEF FlushCovers
      <4> QED BY <2>4, <4>1, <4>2
    <3> QED BY <3>1, <3>2
  <2>6. FlushCovers'
    BY <2>5 DEF FlushCovers
  <2>7. ASSUME NEW row \in Row, OnDisk(row) PROVE OnDisk(row)'
    <3>1. row.seg \in files /\ row.off \in 1 .. Len(body[row.seg]) /\ row.off <= synced[row.seg]
      BY <2>7, <1>t DEF OnDisk, Readable, HasRecord, Row
    <3>2. row.seg \in files' /\ synced'[row.seg] = synced[row.seg] /\ Len(body'[row.seg]) = Len(body[row.seg])
          /\ body'[row.seg][row.off] = body[row.seg][row.off]
      BY <1>t, <2>2, <2>3, <3>1
    <3> QED BY <2>7, <3>1, <3>2 DEF OnDisk, Readable, HasRecord, CrcOk
  <2> QED BY <2>6, <2>7
<1>2. CASE PowerLoss
  <2>1. PICK len \in [SegIds -> 0 .. SegMax] :
          /\ \A s \in SegIds : IF s \in files THEN synced[s] <= len[s] /\ len[s] <= Len(body[s])
                                              ELSE len[s] = 0
          /\ Reopen(len)
          /\ synced' = [s \in SegIds |-> IF s \in files \cup {meta.seg} THEN len[s] ELSE synced[s]]
    BY <1>2 DEF PowerLoss
  <2>2. len \in [SegIds -> Nat] /\ \A s \in files : len[s] <= Len(body[s])
    BY <2>1, <1>t
  <2>3. /\ \A s \in files : /\ Len(body'[s]) = len[s]
                            /\ \A o \in 1 .. len[s] : body'[s][o] = body[s][o]
        /\ active' = active /\ files' = files \cup {active} /\ body' \in [SegIds -> Seq(Record)]
    BY <2>1, <2>2, ReopenFacts
  <2>4. presumed' = presumed
    BY <1>2 DEF PowerLoss, Track
  <2>5. \A s \in files' : Len(body'[s]) = synced'[s]
    <3>1. active \notin files => body'[active] = <<>>
      BY <1>t, <2>1 DEF Reopen
    <3>2. active \notin files => len[active] = 0
      BY <1>t, <2>1
    <3> QED BY <1>t, <2>1, <2>2, <2>3, <3>1, <3>2
  <2>6. FlushCovers'
    <3>1. \A s \in files' : Len(body'[s]) \in Nat
      BY <1>t, <2>3
    <3>2. ASSUME NEW s \in files', NEW o \in 1 .. Len(body'[s]) PROVE o <= synced'[s]
      BY <2>5, <3>1
    <3> QED BY <3>2 DEF FlushCovers
  <2>7. ASSUME NEW row \in Row, OnDisk(row) PROVE OnDisk(row)'
    <3>1. row.seg \in files /\ row.off \in Nat \ {0} /\ row.off <= synced[row.seg] /\ row.seg \in SegIds
      BY <2>7, <1>t DEF OnDisk, Readable, HasRecord, Row
    <3>2. row.off <= len[row.seg] /\ row.off \in 1 .. len[row.seg]
      BY <1>t, <2>1, <2>2, <3>1
    <3>3. row.seg \in files' /\ synced'[row.seg] = len[row.seg] /\ Len(body'[row.seg]) = len[row.seg]
          /\ body'[row.seg][row.off] = body[row.seg][row.off]
      BY <1>t, <2>1, <2>3, <3>1, <3>2
    <3> QED BY <2>7, <3>2, <3>3 DEF OnDisk, Readable, HasRecord, CrcOk
  <2> QED BY <2>6, <2>7
<1> QED BY <1>1, <1>2

\* What is on the disk stays there while its file does.
LEMMA DiskKeepsRows ==
  ASSUME Inv, FlushCovers, Next, Track, NEW row \in Row, OnDisk(row), row.seg \in files'
  PROVE  OnDisk(row)'
<1> USE DEF Inv, TypeOK
<1>t. /\ active \in SegIds /\ body \in [SegIds -> Seq(Record)] /\ synced \in [SegIds -> Nat] /\ row # None
      /\ row.seg \in SegIds /\ row.off \in Nat \ {0} /\ row.off <= Len(body[row.seg]) /\ row.off <= synced[row.seg]
      /\ row.seg \in files /\ row.seg <= active /\ active \in Nat /\ row.seg \in Nat
  BY RowAssumption DEF DiskType, Row, OnDisk, Readable, HasRecord, SegIds, Order
<1>1. CASE Kill \/ PowerLoss
  BY <1>1, CrashKeepsCover
<1>2. ASSUME NEW rec \in Record, SegAppend(rec), UNCHANGED skewed PROVE OnDisk(row)'
  <2>1. Readable(row)'
    BY <1>2, SegAppendReadable DEF OnDisk
  <2>2. row.off <= synced'[row.seg]
    <3> DEFINE sealedSync == IF Full THEN [synced EXCEPT ![active] = SyncedByFlush] ELSE synced
               recs == IF Full THEN <<rec>> ELSE Append(body[active], rec)
    <3>1. \/ synced' = sealedSync
          \/ synced' = [sealedSync EXCEPT ![TargetSeg] = Len(recs)]
      BY <1>2 DEF SegAppend
    <3>2. row.off <= sealedSync[row.seg] /\ sealedSync \in [SegIds -> Nat]
      BY <1>t DEF SyncedByFlush
    <3>3. row.seg = TargetSeg => row.off <= Len(recs)
      BY <1>t DEF TargetSeg
    <3> HIDE DEF sealedSync, recs
    <3> QED BY <1>t, <3>1, <3>2, <3>3
  <2> QED BY <2>1, <2>2, <1>t DEF OnDisk
<1>3. CASE Flush
  <2>1. Readable(row)'
    BY <1>3 DEF Flush, Readable, HasRecord, CrcOk, OnDisk
  <2>2. row.off <= synced'[row.seg]
    BY <1>3, <1>t DEF Flush, SyncedByFlush
  <2> QED BY <2>1, <2>2, <1>t DEF OnDisk
<1>4. CASE UNCHANGED <<body, synced>>
  BY <1>4 DEF OnDisk, Readable, HasRecord, CrcOk
<1> QED BY <1>1, <1>2, <1>3, <1>4, DiskSteps

\* A flush covers what every step leaves behind.
LEMMA NextKeepsCover ==
  ASSUME Inv, FlushCovers, Next, Track
  PROVE  FlushCovers'
<1> USE DEF Inv, TypeOK
<1>1. CASE Kill \/ PowerLoss
  BY <1>1, CrashKeepsCover
<1>2. CASE ~Kill /\ ~PowerLoss
  <2>1. presumed' = presumed
    BY <1>2, DiskSteps DEF Track
  <2>2. CASE files' \subseteq files /\ UNCHANGED <<body, synced, active, wlen, flushOffset, unflushed>>
    BY <2>1, <2>2 DEF FlushCovers, NothingToFlush
  <2> QED BY <1>2, <2>1, <2>2, DiskSteps, AppendKeepsCover, FlushKeepsCover
<1> QED BY <1>1, <1>2

\* Only three steps unlink a file.
LEMMA WhoUnlinks ==
  ASSUME Next, NEW s \in files \ files'
  PROVE  \/ \E g \in Collectors : GcUnlink(g) /\ s = gvic[g]
         \/ \E g \in Gcs, u \in SegIds : SweepUnlink(g, u)
         \/ \E g \in Gcs : EvictUnlink(g)
<1> USE DEF disk, index, putv, getv, gcv, pass, sweepv, faults, history
<1>1. CASE Put
  <2>1. ASSUME NEW p \in Putters, NEW k \in Keys, NEW b \in BodyOf[k], PutAppend(p, k, b) PROVE files \subseteq files'
    BY <2>1 DEF PutAppend, SegAppend
  <2>2. ASSUME NEW p \in Putters, PutCommit(p) \/ PutFails(p) PROVE files' = files
    BY <2>2 DEF PutCommit, PutFails
  <2> QED BY <1>1, <2>1, <2>2 DEF Put
<1>2. CASE IndexOnly \/ Get \/ EngineFlush
  BY <1>2 DEF IndexOnly, PutInline, Delete, Get, GetBegin, GetRead, GetRetry, GetLookup, EngineFlush, Flush
<1>3. ASSUME NEW g \in Collectors, Gc(g)
      PROVE  (GcUnlink(g) /\ s = gvic[g]) \/ \E u \in SegIds : SweepUnlink(g, u)
  BY <1>3 DEF Gc, GcBegin, GcPick, GcOpen, GcCheck, GcAppend, SegAppend, GcCas, GcAccount, GcFlush, Flush, GcUnlink, GcClear,
     SweepSnap, SweepActive, SweepList, SweepDone
<1>4. ASSUME NEW g \in Gcs, Evict(g) \/ GcFault(g) \/ EvictFault(g)
      PROVE  EvictUnlink(g)
  BY <1>4 DEF Evict, EvictBegin, EvictNone, EvictScan, EvictCollect, EvictTxn, GcFault, EvictFault,
     GcFails, GcMisread, SweepKeep, EvictMisread
<1>5. CASE Kill \/ PowerLoss
  BY <1>5 DEF Kill, PowerLoss, Reopen
<1> QED BY <1>1, <1>2, <1>3, <1>4, <1>5 DEF Next, Gcs

\* A rewrite comes to its unlink by its flush.
LEMMA UnlinkAfterFlush ==
  ASSUME TypeOK, Next, NEW g \in Collectors, gpc'[g] = "unlink"
  PROVE  (gpc[g] = "unlink" /\ gvic'[g] = gvic[g]) \/ GcFlush(g)
<1> USE DEF TypeOK, disk, index, putv, getv, gcv, pass, sweepv, faults, history
<1>1. CASE Put
  BY <1>1 DEF Put, PutAppend, PutCommit, PutFails
<1>2. CASE IndexOnly \/ Get \/ EngineFlush
  BY <1>2 DEF IndexOnly, PutInline, Delete, Get, GetBegin, GetRead, GetRetry, GetLookup, EngineFlush, Flush
<1>3. ASSUME NEW h \in Collectors, Gc(h)
      PROVE  (gpc[g] = "unlink" /\ gvic'[g] = gvic[g]) \/ GcFlush(g)
  <2>1. CASE GcBegin(h) \/ GcPick(h) \/ GcOpen(h)
    BY <2>1 DEF GcBegin, GcPick, GcOpen, Goto, AfterVictim, GcReturn, PassEnds, GcType, Gcs
  <2>2. CASE GcCheck(h) \/ GcAppend(h) \/ GcCas(h)
    BY <2>2 DEF GcCheck, GcAppend, GcCas, Goto, GcType, Gcs
  <2>3. CASE GcAccount(h) \/ GcFlush(h) \/ GcUnlink(h) \/ GcClear(h)
    BY <2>3 DEF GcAccount, GcFlush, GcUnlink, GcClear, Goto, AfterVictim, GcReturn, PassEnds, GcType, Gcs
  <2>4. CASE SweepSnap(h) \/ SweepActive(h) \/ SweepList(h) \/ SweepDone(h)
    BY <2>4 DEF SweepSnap, SweepActive, SweepList, SweepDone, Goto, PassEnds, GcReport, GcType, Gcs
  <2>5. CASE \E s \in SegIds : SweepUnlink(h, s)
    BY <2>5 DEF SweepUnlink, GcType, Gcs
  <2> QED BY <1>3, <2>1, <2>2, <2>3, <2>4, <2>5 DEF Gc
<1>4. ASSUME NEW h \in Gcs, Evict(h) \/ GcFault(h) \/ EvictFault(h)
      PROVE  gpc[g] = "unlink" /\ gvic'[g] = gvic[g]
  <2>1. CASE Evict(h)
    BY <2>1 DEF Evict, EvictBegin, EvictNone, EvictScan, EvictCollect, EvictTxn, EvictUnlink, Goto, GcReturn, PassEnds, GcType, Gcs
  <2>2. CASE GcFails(h) \/ EvictMisread(h)
    BY <2>2 DEF GcFails, EvictMisread, EvictCollect, Goto, GcReturn, PassEnds, GcType, Gcs
  <2>3. CASE GcMisread(h) \/ \E s \in SegIds : SweepKeep(h, s)
    BY <2>3 DEF GcMisread, SweepKeep, GcType, Gcs
  <2> QED BY <1>4, <2>1, <2>2, <2>3 DEF GcFault, EvictFault
<1>5. CASE Kill \/ PowerLoss
  BY <1>5 DEF Kill, PowerLoss, Reopen, Gcs
<1> QED BY <1>1, <1>2, <1>3, <1>4, <1>5 DEF Next, Gcs

\* A key that shows its row had it shown before, or has a new version.
LEMMA VisibleBefore ==
  ASSUME TypeOK, Next, NEW k \in Keys, addr[k] # None, ~Visible(k), ~Replaced(k)
  PROVE  ~Visible(k)'
<1> USE DEF TypeOK, disk, index, putv, getv, gcv, pass, sweepv, faults, history
<1> SUFFICES ASSUME addr'[k] # None, inline'[k] = None PROVE FALSE
  BY DEF Visible
<1>0. inline[k] # inline'[k]
  BY DEF Visible
<1>1. CASE Put
  <2>1. PICK p \in Putters : PutCommit(p)
    BY <1>0, <1>1 DEF Put, PutAppend, PutFails
  <2>2. inline' = [inline EXCEPT ![pkey[p]] = None] /\ ppc[p] = "commit" /\ ppc' = [ppc EXCEPT ![p] = "idle"]
    BY <2>1 DEF PutCommit, PutReset
  <2>3. pkey[p] = k
    BY <1>0, <2>2 DEF IndexType
  <2>4. ppc'[p] = "idle"
    BY <2>2 DEF PutType
  <2> QED BY <2>2, <2>3, <2>4 DEF Replaced
<1>2. CASE IndexOnly
  BY <1>0, <1>2, NoneAssumption DEF IndexOnly, PutInline, Delete, IndexType, Bodies
<1>3. CASE Get \/ EngineFlush
  BY <1>0, <1>3 DEF Get, GetBegin, GetRead, GetRetry, GetLookup, EngineFlush
<1>4. ASSUME NEW g \in Gcs, Gc(g) \/ Evict(g) \/ GcFault(g) \/ EvictFault(g) PROVE FALSE
  BY <1>0, <1>4 DEF Gc, GcBegin, GcPick, GcOpen, GcCheck, GcAppend, GcCas, GcAccount, GcFlush, GcUnlink, GcClear,
     SweepSnap, SweepActive, SweepList, SweepUnlink, SweepDone,
     Evict, EvictBegin, EvictNone, EvictScan, EvictCollect, EvictTxn, EvictUnlink, GcFault, EvictFault,
     GcFails, GcMisread, SweepKeep, EvictMisread
<1>5. CASE Kill \/ PowerLoss
  BY <1>0, <1>5 DEF Kill, PowerLoss, Reopen
<1> QED BY <1>1, <1>2, <1>3, <1>4, <1>5 DEF Next, Gcs

\* What the history variables remember is never forgotten.
LEMMA FaultsRemembered ==
  ASSUME Inv, Next
  PROVE  raced \subseteq raced' /\ lost \subseteq lost'
<1> USE DEF disk, index, putv, getv, gcv, pass, sweepv, faults, history
<1>1. CASE Put
  BY <1>1 DEF Put, PutAppend, PutCommit, PutFails, NoteCommit
<1>2. CASE IndexOnly \/ Get \/ EngineFlush
  BY <1>2 DEF IndexOnly, PutInline, Delete, Get, GetBegin, GetRead, GetRetry, GetLookup, EngineFlush
<1>3. ASSUME NEW g \in Gcs, Gc(g) PROVE raced \subseteq raced' /\ lost \subseteq lost'
  BY <1>3 DEF Gc, GcBegin, GcPick, GcOpen, GcCheck, GcAppend, GcCas, NoteCommit, GcAccount, GcFlush, GcUnlink, GcClear,
     SweepSnap, SweepActive, SweepList, SweepUnlink, SweepDone
<1>4. ASSUME NEW g \in Gcs, Evict(g) \/ GcFault(g) \/ EvictFault(g) PROVE raced \subseteq raced' /\ lost \subseteq lost'
  BY <1>4 DEF Evict, EvictBegin, EvictNone, EvictScan, EvictCollect, EvictTxn, EvictUnlink, GcFault, EvictFault,
     GcFails, GcMisread, SweepKeep, EvictMisread
<1>5. CASE Kill \/ PowerLoss
  BY <1>5, CrashReopens DEF Inv
<1> QED BY <1>1, <1>2, <1>3, <1>4, <1>5 DEF Next, Gcs

\* A row on the disk that a put or a pass did not commit too late is a copy no
\* rewrite is about to unlink.
LEMMA PresentIsSafe ==
  ASSUME Inv', HistorySound', NEW k \in Keys, Visible(k)', OnDisk(addr[k])'
  PROVE  Safe(k)' \/ Excused(k)'
<1>1. addr'[k] \in copies'[k]
  BY DEF HistorySound, Visible
<1>2. CASE addr'[k] \in raced' \cup lost'
  BY <1>1, <1>2 DEF Excused
<1>3. CASE addr'[k] \notin raced' \cup lost'
  <2>1. ASSUME NEW g \in Collectors, gpc'[g] = "unlink", gvic'[g] = addr'[k].seg PROVE FALSE
    <3>1. g \in Gcs /\ Past(g, addr[k])'
      BY <2>1 DEF Past, Gcs
    <3> QED BY <1>3, <2>1, <3>1 DEF Inv, Shielded
  <2> QED BY <1>1, <2>1 DEF Safe
<1> QED BY <1>2, <1>3

\* One step keeps a safe copy, or the key is excused.
LEMMA StepKeepsSafe ==
  ASSUME Inv, Inv', FlushCovers, HistorySound, HistorySound', Next, Track, NEW k \in durable',
         k \in durable /\ Visible(k) => Safe(k) \/ Excused(k), Visible(k)'
  PROVE  Safe(k)' \/ Excused(k)'
<1>k. k \in Keys
  BY DEF Track
<1>1. CASE OnDisk(addr[k])'
  BY <1>k, <1>1, PresentIsSafe
<1>2. CASE ~OnDisk(addr[k])'
  <2>1. k \in durable /\ ~Replaced(k)
    BY <1>2 DEF Track
  <2>2. copies[k] \subseteq copies'[k] /\ presumed \subseteq presumed' /\ raced \subseteq raced' /\ lost \subseteq lost'
    BY <1>k, <2>1, FaultsRemembered DEF Track
  <2>3. k \in exposed => k \in exposed'
    BY <1>k, <2>1 DEF Track
  <2>4. addr[k] # None /\ Visible(k)
    BY <1>k, <2>1, VisibleBefore DEF HistorySound, Inv
  <2>5. CASE Excused(k)
    BY <2>2, <2>3, <2>5 DEF Excused
  <2>6. CASE Safe(k)
    <3>1. PICK row \in copies[k] : OnDisk(row) /\ \A g \in Collectors : ~(gpc[g] = "unlink" /\ gvic[g] = row.seg)
      BY <2>6 DEF Safe
    <3>2. row \in Row /\ row \in copies'[k]
      BY <1>k, <2>2, <3>1 DEF HistorySound
    <3>3. CASE row.seg \in files' /\ \A g \in Collectors : ~GcFlush(g)
      <4>1. OnDisk(row)'
        BY <3>1, <3>2, <3>3, DiskKeepsRows
      <4>2. \A g \in Collectors : ~(gpc'[g] = "unlink" /\ gvic'[g] = row.seg)
        BY <3>1, <3>3, UnlinkAfterFlush DEF Inv
      <4> QED BY <3>2, <4>1, <4>2 DEF Safe
    <3>4. CASE row.seg \notin files'
      <4>1. row.seg \in files \ files'
        BY <3>1, <3>4 DEF OnDisk, Readable, HasRecord
      <4>2. ~RewriteUnlinks
        <5>1. ~\E g \in Collectors : GcUnlink(g) /\ row.seg = gvic[g]
          BY <3>1 DEF GcUnlink
        <5>2. ASSUME NEW g \in Gcs, NEW u \in SegIds, SweepUnlink(g, u) PROVE gpc' = gpc
          BY <5>2 DEF SweepUnlink
        <5>3. ASSUME NEW g \in Gcs, EvictUnlink(g) PROVE gpc' = [gpc EXCEPT ![g] = "idle"]
          BY <5>3 DEF EvictUnlink, GcReturn, PassEnds
        <5> QED BY <4>1, <5>1, <5>2, <5>3, WhoUnlinks DEF RewriteUnlinks, Inv, TypeOK, GcType, Gcs
      <4>3. Bares(k)
        BY <1>2, <3>1, <4>1, <4>2 DEF Bares
      <4> QED BY <1>k, <2>1, <4>3 DEF Excused, Track
    <3>5. ASSUME NEW g \in Collectors, GcFlush(g) PROVE Excused(k)'
      <4>1. Flush /\ presumed' = presumed /\ addr' = addr /\ files' = files /\ body' = body
        BY <3>5 DEF GcFlush, Flush, Track, index, faults
      <4>2. \A s \in files : \A o \in 1 .. Len(body[s]) : o <= synced'[s] \/ <<s, o>> \in presumed
        BY <4>1, FlushKeepsCover
      <4>3. addr'[k] \in copies'[k]
        BY <1>k, <2>4, <4>1 DEF HistorySound
      <4>4. Readable(addr[k])' \/ addr'[k] \in raced' \cup lost'
        BY <1>k DEF Inv, RowsReadable
      <4>5. CASE addr'[k] \in raced' \cup lost'
        BY <4>3, <4>5 DEF Excused
      <4>6. CASE Readable(addr[k])'
        <5>1. addr'[k] \in Row /\ addr'[k] # None
          BY <1>k, <2>4, <4>1 DEF Inv, TypeOK, IndexType
        <5>2. addr'[k].seg \in files /\ addr'[k].off \in Nat \ {0} /\ addr'[k].off <= Len(body[addr'[k].seg])
          BY <4>1, <4>6, <5>1 DEF Readable, HasRecord, Row
        <5>3. body[addr'[k].seg] \in Seq(Record)
          BY <5>2 DEF Inv, TypeOK, DiskType
        <5>4. addr'[k].off \in 1 .. Len(body[addr'[k].seg])
          BY <5>2, <5>3
        <5>5. ~(addr'[k].off <= synced'[addr'[k].seg])
          BY <1>2, <4>6, <5>1 DEF OnDisk
        <5>6. <<addr'[k].seg, addr'[k].off>> \in presumed'
          BY <4>1, <4>2, <5>2, <5>4, <5>5
        <5> QED BY <4>3, <5>6 DEF Excused
      <4> QED BY <4>4, <4>5, <4>6
    <3> QED BY <3>3, <3>4, <3>5
  <2> QED BY <2>1, <2>4, <2>5, <2>6
<1> QED BY <1>1, <1>2

\* The history of the copies is sound.
LEMMA TrackKeepsSound ==
  ASSUME Inv, Inv', HistorySound, Next, Track
  PROVE  HistorySound'
<1>1. ASSUME NEW k \in Keys PROVE copies'[k] \subseteq Row /\ (addr'[k] # None => addr'[k] \in copies'[k])
  BY DEF HistorySound, Track, Inv, TypeOK, IndexType
<1>2. ASSUME NEW k \in durable' PROVE k \in Keys /\ addr'[k] # None
  BY <1>2 DEF HistorySound, Track, OnDisk, Replaced
<1> QED BY <1>1, <1>2 DEF HistorySound

LEMMA NextKeepsDurable ==
  ASSUME Inv, Inv', DurableInv, [MNext]_mvars
  PROVE  DurableInv'
<1>1. CASE UNCHANGED mvars
  BY <1>1 DEF DurableInv, HistorySound, FlushCovers, NothingToFlush, Visible, Safe, Excused, OnDisk, Readable, HasRecord, CrcOk,
     mvars, vars, disk, index, gcv, pass, history
<1>2. CASE Next /\ Track
  <2>1. HistorySound'
    BY <1>2, TrackKeepsSound DEF DurableInv
  <2>2. FlushCovers'
    BY <1>2, NextKeepsCover DEF DurableInv
  <2>3. \A k \in durable' : Visible(k)' => Safe(k)' \/ Excused(k)'
    BY <1>2, <2>1, StepKeepsSafe DEF DurableInv
  <2> QED BY <2>1, <2>2, <2>3 DEF DurableInv
<1> QED BY <1>1, <1>2 DEF MNext

\* For any keys, threads, bounds and faults: once a version of a key has been
\* on the disk, the disk holds a copy of it until it is replaced, but for the
\* named exceptions (gc_once syncs the copies before it unlinks the victim,
\* rotate syncs a segment before it seals it).
THEOREM CopiesStayOnDisk == MSpec => []CopyStaysOnDisk
<1>1. MInit => Inv /\ DurableInv
  <2> SUFFICES ASSUME MInit PROVE Inv /\ DurableInv
    OBVIOUS
  <2>1. FlushCovers
    <3>1. 0 \in SegIds
      BY BoundsAssumption DEF SegIds
    <3>2. files = {0} /\ body[0] = <<>>
      BY <3>1 DEF MInit, Init
    <3> QED BY <3>2 DEF FlushCovers
  <2>2. HistorySound /\ durable = {}
    BY DEF MInit, Init, HistorySound
  <2> QED BY <2>1, <2>2, InitInv DEF MInit, DurableInv
<1>2. Inv /\ DurableInv /\ [MNext]_mvars => (Inv /\ DurableInv)'
  <2> SUFFICES ASSUME Inv, DurableInv, [MNext]_mvars PROVE Inv' /\ DurableInv'
    OBVIOUS
  <2>1. [Next]_vars
    BY DEF MNext, mvars
  <2> QED BY <2>1, NextKeepsInv, NextKeepsDurable
<1>3. DurableInv => CopyStaysOnDisk
  BY DEF DurableInv, CopyStaysOnDisk, Safe
<1> QED BY <1>1, <1>2, <1>3, PTL DEF MSpec

-----------------------------------------------------------------------------
(* Every record is live, in flight, or counted as garbage. *)

\* The collectors run, no call fails and nothing crashes; no eviction, which
\* drops rows without counting them, runs on the disk.
CalmRun == Evictors = {} /\ MaxKills = 0 /\ MaxPowerLosses = 0 /\ MaxIoErrors = 0
FiniteSystem == IsFiniteSet(Keys) /\ IsFiniteSet(Putters) /\ IsFiniteSet(Collectors)

Counted(s) ==
  Cardinality(KeysIn(s)) + Cardinality(PutsInto(s)) + Cardinality(CopiesInto(s))
  + Cardinality(LostCopies(s)) + discard[s]

\* Segments that do not exist yet have no records and no garbage.
Ahead ==
  \A s \in SegIds : s > active =>
    /\ discard[s] = 0
    /\ \A k \in Keys : addr[k] # None => addr[k].seg # s
    /\ \A g \in Collectors : gorph[g][s] = 0

\* What a pass carries with it: lost copies until it accounts for them, and
\* files that are gone and will not come back.
PassState ==
  \A g \in Collectors :
    /\ gpc[g] \notin {"check", "append", "cas", "account"} => \A s \in SegIds : gorph[g][s] = 0
    /\ gpc[g] = "clear" => gvic[g] \notin files /\ gvic[g] <= active
    /\ gpc[g] = "sweep" => \A s \in grefs[g] : s \notin files /\ s <= active

GarbageInv ==
  /\ Inv /\ skewed = {} /\ Ahead /\ PassState
  /\ \A s \in SegIds : IsFiniteSet(LostCopies(s))
  /\ GarbageCounted

\* Counting with one element more or less.
LEMMA OneMore ==
  ASSUME NEW S, IsFiniteSet(S), NEW x, x \notin S
  PROVE  IsFiniteSet(S \cup {x}) /\ Cardinality(S \cup {x}) = Cardinality(S) + 1
BY FS_AddElement

LEMMA OneLess ==
  ASSUME NEW S, IsFiniteSet(S), NEW x \in S
  PROVE  IsFiniteSet(S \ {x}) /\ Cardinality(S) = Cardinality(S \ {x}) + 1
<1>1. Cardinality(S) \in Nat
  BY FS_CardinalityType
<1>2. IsFiniteSet(S \ {x}) /\ Cardinality(S \ {x}) = Cardinality(S) - 1
  BY FS_RemoveElement
<1> QED BY <1>1, <1>2

\* What leaves one count enters another.
LEMMA Moved ==
  ASSUME NEW k \in Nat, NEW p \in Nat, NEW c \in Nat, NEW l \in Nat, NEW d \in Nat,
         NEW k2 \in Nat, NEW p2 \in Nat, NEW d2 \in Nat, k2 + d2 + p2 = k + d + p
  PROVE  k + p + c + l + d = k2 + p2 + c + l + d2
OBVIOUS

\* The sets that are counted are finite.
LEMMA CountsFinite ==
  ASSUME FiniteSystem, NEW s
  PROVE  /\ IsFiniteSet(KeysIn(s)) /\ Cardinality(KeysIn(s)) \in Nat
         /\ IsFiniteSet(PutsInto(s)) /\ Cardinality(PutsInto(s)) \in Nat
         /\ IsFiniteSet(CopiesInto(s)) /\ Cardinality(CopiesInto(s)) \in Nat
<1>1. KeysIn(s) \subseteq Keys /\ PutsInto(s) \subseteq Putters /\ CopiesInto(s) \subseteq Collectors
  BY DEF KeysIn, PutsInto, CopiesInto
<1> QED BY <1>1, FS_Subset, FS_CardinalityType DEF FiniteSystem

\* A lost copy is a pair of its pass and its number.
LEMMA LostCopiesElements ==
  ASSUME NEW s, NEW x
  PROVE  x \in LostCopies(s) <=> \E g \in Collectors : \E i \in 1 .. gorph[g][s] : x = <<g, i>>
BY DEF LostCopies

\* A segment that is ahead of the writer counts nothing.
LEMMA NothingAhead ==
  ASSUME Inv, Ahead, PassState, NEW s \in SegIds, s > active
  PROVE  /\ KeysIn(s) = {} /\ PutsInto(s) = {} /\ CopiesInto(s) = {} /\ LostCopies(s) = {}
         /\ Counted(s) = 0
<1> USE DEF Inv, TypeOK
<1>0. s \in Nat /\ active \in Nat
  BY DEF SegIds, DiskType
<1>1. KeysIn(s) = {}
  BY DEF KeysIn, Ahead
<1>2. PutsInto(s) = {}
  BY <1>0 DEF PutsInto, Order
<1>3. CopiesInto(s) = {}
  BY <1>0 DEF CopiesInto, Order, Gcs
<1>4. LostCopies(s) = {}
  BY LostCopiesElements DEF Ahead
<1>5. Cardinality({}) = 0
  BY FS_EmptySet
<1> QED BY <1>1, <1>2, <1>3, <1>4, <1>5 DEF Counted, Ahead

\* An append adds one record to the file it writes, and that file is new or
\* the active one.
LEMMA AppendGrows ==
  ASSUME Inv, skewed = {}, NEW rec \in Record, SegAppend(rec)
  PROVE  /\ NextAddr.seg \in SegIds /\ NextAddr.seg = active' /\ active <= active'
         /\ \A s \in files' :
              \/ s \in files /\ s # NextAddr.seg /\ body'[s] = body[s]
              \/ s \in files /\ s = NextAddr.seg /\ Len(body'[s]) = Len(body[s]) + 1
              \/ s \notin files /\ s = NextAddr.seg /\ s > active /\ Len(body'[s]) = 1
<1> USE DEF Inv, TypeOK
<1>t. /\ active \in SegIds /\ active \in Nat /\ body \in [SegIds -> Seq(Record)] /\ files \subseteq SegIds
      /\ \A s \in SegIds : s \in Nat /\ Len(body[s]) \in Nat
      /\ \A s \in files : s <= active
  BY DEF DiskType, SegIds, Order
<1>1. CASE Full
  <2>1. /\ active' = active + 1 /\ active + 1 \in SegIds /\ files' = files \cup {active + 1}
        /\ body' = [body EXCEPT ![active + 1] = <<rec>>] /\ NextAddr.seg = active + 1
    BY <1>1, <1>t, BoundsAssumption DEF SegAppend, TargetSeg, NextAddr, SegIds
  <2>2. active + 1 \notin files /\ body'[active + 1] = <<rec>> /\ Len(<<rec>>) = 1
    BY <1>t, <2>1
  <2> QED BY <1>t, <2>1, <2>2
<1>2. CASE ~Full
  <2>1. /\ active' = active /\ files' = files /\ NextAddr.seg = active
        /\ body' = [body EXCEPT ![active] = Append(body[active], rec)]
    BY <1>2, <1>t DEF SegAppend, TargetSeg, NextAddr
  <2>2. Len(body'[active]) = Len(body[active]) + 1
    BY <1>t, <2>1
  <2> QED BY <1>t, <2>1, <2>2
<1> QED BY <1>1, <1>2

\* A step that counts nothing differently.
LEMMA NothingCounted ==
  ASSUME GarbageCounted, files' \subseteq files, UNCHANGED <<body, addr>>,
         \A s \in files' : discard'[s] = discard[s],
         \A s \in files' : PutsInto(s)' = PutsInto(s) /\ CopiesInto(s)' = CopiesInto(s) /\ LostCopies(s)' = LostCopies(s),
         \A s \in files' : Rewritten(s) => Rewritten(s)'
  PROVE  GarbageCounted'
<1> SUFFICES ASSUME NEW s \in files', ~Rewritten(s)' PROVE Len(body'[s]) = Counted(s)'
  BY DEF GarbageCounted, Counted
<1>1. s \in files /\ ~Rewritten(s)
  OBVIOUS
<1>2. Len(body[s]) = Counted(s)
  BY <1>1 DEF GarbageCounted, Counted
<1>3. KeysIn(s)' = KeysIn(s)
  BY DEF KeysIn
<1> QED BY <1>2, <1>3 DEF Counted

\* Without faults and evictions, these steps remain.
LEMMA CalmSteps ==
  ASSUME Inv, CalmRun, Next
  PROVE  \/ \E p \in Putters : (\E k \in Keys : \E b \in BodyOf[k] : PutAppend(p, k, b)) \/ PutCommit(p)
         \/ IndexOnly \/ Get \/ EngineFlush
         \/ \E g \in Collectors : Gc(g)
<1>1. kills \in Nat /\ powers \in Nat /\ ioErrors \in Nat
  BY DEF Inv, TypeOK, HistoryType
<1>2. ~Kill /\ ~PowerLoss /\ \A p \in Putters : ~PutFails(p)
  BY <1>1 DEF CalmRun, Kill, PowerLoss, PutFails
<1>3. \A g \in Collectors : ~GcFault(g)
  BY <1>1 DEF CalmRun, GcFault, GcFails, GcMisread, SweepKeep
<1> QED BY <1>2, <1>3 DEF Next, CalmRun, Put

\* The body of a put becomes a record in flight.
LEMMA PutAppendCounts ==
  ASSUME GarbageInv, FiniteSystem, NEW p \in Putters, NEW k \in Keys, NEW b \in BodyOf[k], PutAppend(p, k, b)
  PROVE  GarbageCounted'
<1>i. Inv /\ skewed = {} /\ Ahead /\ PassState /\ GarbageCounted /\ \A s \in SegIds : IsFiniteSet(LostCopies(s))
  BY DEF GarbageInv
<1>1. /\ SegAppend([key |-> k, body |-> b]) /\ [key |-> k, body |-> b] \in Record
      /\ ppc[p] = "idle" /\ ppc' = [ppc EXCEPT ![p] = "commit"] /\ pat' = [pat EXCEPT ![p] = NextAddr]
      /\ UNCHANGED <<addr, discard, gpc, gvic, gat, gorph, skewed>>
  BY DEF PutAppend, Record, Bodies, index, gcv, pass, history
<1>2. /\ NextAddr.seg \in SegIds /\ NextAddr.seg = active' /\ active <= active'
      /\ \A s \in files' :
           \/ s \in files /\ s # NextAddr.seg /\ body'[s] = body[s]
           \/ s \in files /\ s = NextAddr.seg /\ Len(body'[s]) = Len(body[s]) + 1
           \/ s \notin files /\ s = NextAddr.seg /\ s > active /\ Len(body'[s]) = 1
  BY <1>i, <1>1, AppendGrows
<1> SUFFICES ASSUME NEW s \in files', ~Rewritten(s)' PROVE Len(body'[s]) = Counted(s)'
  BY <1>i DEF GarbageCounted, Counted
<1>3. KeysIn(s)' = KeysIn(s) /\ CopiesInto(s)' = CopiesInto(s) /\ LostCopies(s)' = LostCopies(s) /\ ~Rewritten(s)
      /\ discard'[s] = discard[s]
  BY <1>1 DEF KeysIn, CopiesInto, LostCopies, Rewritten
<1>4. p \notin PutsInto(s)
  BY <1>1 DEF PutsInto
<1>5. PutsInto(s)' = IF s = NextAddr.seg THEN PutsInto(s) \cup {p} ELSE PutsInto(s)
  BY <1>i, <1>1 DEF PutsInto, Inv, TypeOK, PutType
<1>6. /\ s = NextAddr.seg => Cardinality(PutsInto(s)') = Cardinality(PutsInto(s)) + 1
      /\ s # NextAddr.seg => PutsInto(s)' = PutsInto(s)
  BY <1>i, <1>4, <1>5, CountsFinite, OneMore
<1>7. /\ Cardinality(KeysIn(s)) \in Nat /\ Cardinality(PutsInto(s)) \in Nat /\ Cardinality(CopiesInto(s)) \in Nat
      /\ s \in SegIds
  BY <1>i, <1>2, CountsFinite DEF Inv, TypeOK, DiskType
<1>8. Cardinality(LostCopies(s)) \in Nat /\ discard[s] \in Nat
  BY <1>i, <1>7, FS_CardinalityType DEF Inv, TypeOK, IndexType
<1>9. CASE s \in files
  <2>1. Len(body[s]) = Counted(s)
    BY <1>i, <1>3, <1>9 DEF GarbageCounted, Counted
  <2>2. Len(body[s]) \in Nat
    BY <1>7, <1>8, <2>1 DEF Counted
  <2>3. CASE s = NextAddr.seg
    <3>1. Len(body'[s]) = Counted(s) + 1
      BY <1>2, <1>9, <2>1, <2>3
    <3>2. Cardinality(PutsInto(s)') = Cardinality(PutsInto(s)) + 1
      BY <1>6, <2>3
    <3>3. Counted(s)' = Counted(s) + 1
      BY ONLY <1>3, <1>7, <1>8, <3>2 DEF Counted
    <3> QED BY <3>1, <3>3
  <2>4. CASE s # NextAddr.seg
    <3>1. body'[s] = body[s]
      BY <1>2, <1>9, <2>4
    <3> QED BY <1>3, <1>6, <1>7, <1>8, <2>1, <2>2, <2>4, <3>1 DEF Counted
  <2> QED BY <2>3, <2>4
<1>10. CASE s \notin files
  <2>1. s > active /\ s = NextAddr.seg /\ Len(body'[s]) = 1
    BY <1>2, <1>10
  <2>2. Counted(s) = 0
    BY <1>i, <1>7, <2>1, NothingAhead
  <2> QED BY <1>3, <1>6, <1>7, <1>8, <2>1, <2>2 DEF Counted
<1> QED BY <1>9, <1>10

\* The copy of a live record becomes a record in flight.
LEMMA GcAppendCounts ==
  ASSUME GarbageInv, FiniteSystem, NEW g \in Collectors, GcAppend(g)
  PROVE  GarbageCounted'
<1>i. Inv /\ skewed = {} /\ Ahead /\ PassState /\ GarbageCounted /\ \A s \in SegIds : IsFiniteSet(LostCopies(s))
  BY DEF GarbageInv
<1>0. body[gvic[g]][gpos[g]] \in Record
  BY <1>i, BodyType DEF GcAppend, Inv, TypeOK, GcType, Order, Gcs
<1>1. /\ SegAppend(body[gvic[g]][gpos[g]])
      /\ gpc[g] = "append" /\ gpc' = [gpc EXCEPT ![g] = "cas"] /\ gat' = [gat EXCEPT ![g] = NextAddr]
      /\ UNCHANGED <<addr, discard, ppc, pat, gvic, gorph, skewed>>
  BY DEF GcAppend, Goto, index, putv, history
<1>2. /\ NextAddr.seg \in SegIds /\ NextAddr.seg = active' /\ active <= active'
      /\ \A s \in files' :
           \/ s \in files /\ s # NextAddr.seg /\ body'[s] = body[s]
           \/ s \in files /\ s = NextAddr.seg /\ Len(body'[s]) = Len(body[s]) + 1
           \/ s \notin files /\ s = NextAddr.seg /\ s > active /\ Len(body'[s]) = 1
  BY <1>i, <1>0, <1>1, AppendGrows
<1> SUFFICES ASSUME NEW s \in files', ~Rewritten(s)' PROVE Len(body'[s]) = Counted(s)'
  BY <1>i DEF GarbageCounted, Counted
<1>3. KeysIn(s)' = KeysIn(s) /\ PutsInto(s)' = PutsInto(s) /\ LostCopies(s)' = LostCopies(s) /\ ~Rewritten(s)
      /\ discard'[s] = discard[s]
  BY <1>i, <1>1 DEF KeysIn, PutsInto, LostCopies, Rewritten, Inv, TypeOK, GcType, Gcs
<1>4. g \notin CopiesInto(s)
  BY <1>1 DEF CopiesInto
<1>5. CopiesInto(s)' = IF s = NextAddr.seg THEN CopiesInto(s) \cup {g} ELSE CopiesInto(s)
  BY <1>i, <1>1 DEF CopiesInto, Inv, TypeOK, GcType, Gcs
<1>6. /\ s = NextAddr.seg => Cardinality(CopiesInto(s)') = Cardinality(CopiesInto(s)) + 1
      /\ s # NextAddr.seg => CopiesInto(s)' = CopiesInto(s)
  BY <1>i, <1>4, <1>5, CountsFinite, OneMore
<1>7. /\ Cardinality(KeysIn(s)) \in Nat /\ Cardinality(PutsInto(s)) \in Nat /\ Cardinality(CopiesInto(s)) \in Nat
      /\ s \in SegIds
  BY <1>i, <1>2, CountsFinite DEF Inv, TypeOK, DiskType
<1>8. Cardinality(LostCopies(s)) \in Nat /\ discard[s] \in Nat
  BY <1>i, <1>7, FS_CardinalityType DEF Inv, TypeOK, IndexType
<1>9. CASE s \in files
  <2>1. Len(body[s]) = Counted(s)
    BY <1>i, <1>3, <1>9 DEF GarbageCounted, Counted
  <2>2. Len(body[s]) \in Nat
    BY <1>7, <1>8, <2>1 DEF Counted
  <2>3. CASE s = NextAddr.seg
    <3>1. Len(body'[s]) = Counted(s) + 1
      BY <1>2, <1>9, <2>1, <2>3
    <3>2. Cardinality(CopiesInto(s)') = Cardinality(CopiesInto(s)) + 1
      BY <1>6, <2>3
    <3>3. Counted(s)' = Counted(s) + 1
      BY ONLY <1>3, <1>7, <1>8, <3>2 DEF Counted
    <3> QED BY <3>1, <3>3
  <2>4. CASE s # NextAddr.seg
    <3>1. body'[s] = body[s]
      BY <1>2, <1>9, <2>4
    <3> QED BY <1>3, <1>6, <1>7, <1>8, <2>1, <2>2, <2>4, <3>1 DEF Counted
  <2> QED BY <2>3, <2>4
<1>10. CASE s \notin files
  <2>1. s > active /\ s = NextAddr.seg /\ Len(body'[s]) = 1
    BY <1>2, <1>10
  <2>2. Counted(s) = 0
    BY <1>i, <1>7, <2>1, NothingAhead
  <2> QED BY <1>3, <1>6, <1>7, <1>8, <2>1, <2>2 DEF Counted
<1> QED BY <1>9, <1>10

\* Giving key k the row r, or none, with the old row counted as garbage.
LEMMA RowCounts ==
  ASSUME Inv, FiniteSystem, NEW k \in Keys, NEW r \in Row \cup {None}, addr' = [addr EXCEPT ![k] = r],
         discard' = Bump(discard, addr[k]), NEW s \in SegIds
  PROVE  Cardinality(KeysIn(s)') + discard'[s]
         = Cardinality(KeysIn(s)) + discard[s] + (IF r # None /\ r.seg = s THEN 1 ELSE 0)
<1> USE DEF Inv, TypeOK
<1>1. KeysIn(s)' = IF r # None /\ r.seg = s THEN (KeysIn(s) \ {k}) \cup {k} ELSE KeysIn(s) \ {k}
  BY DEF KeysIn, IndexType
<1>2. IsFiniteSet(KeysIn(s)) /\ IsFiniteSet(KeysIn(s) \ {k}) /\ Cardinality(KeysIn(s)) \in Nat /\ Cardinality(KeysIn(s) \ {k}) \in Nat
  BY CountsFinite, FS_RemoveElement, FS_CardinalityType
<1>3. Cardinality(KeysIn(s)') = Cardinality(KeysIn(s) \ {k}) + (IF r # None /\ r.seg = s THEN 1 ELSE 0)
  BY <1>1, <1>2, OneMore
<1>4. Cardinality(KeysIn(s)) = Cardinality(KeysIn(s) \ {k}) + (IF k \in KeysIn(s) THEN 1 ELSE 0)
  <2>1. k \notin KeysIn(s) => KeysIn(s) \ {k} = KeysIn(s)
    OBVIOUS
  <2> QED BY <1>2, <2>1, OneLess
<1>5. discard[s] \in Nat /\ discard'[s] = discard[s] + (IF k \in KeysIn(s) THEN 1 ELSE 0)
  BY DEF Bump, KeysIn, IndexType, Row
<1> QED BY <1>2, <1>3, <1>4, <1>5

\* A put commits, a small put or a delete takes a row away.
LEMMA PutCommitCounts ==
  ASSUME GarbageInv, FiniteSystem, NEW p \in Putters, PutCommit(p)
  PROVE  GarbageCounted'
<1>i. Inv /\ skewed = {} /\ Ahead /\ PassState /\ GarbageCounted /\ \A s \in SegIds : IsFiniteSet(LostCopies(s))
  BY DEF GarbageInv
<1> PICK r : r = MkRow(pat[p], [key |-> pkey[p], body |-> pbody[p]])
  OBVIOUS
<1>1. /\ ppc[p] = "commit" /\ pkey[p] \in Keys /\ addr' = [addr EXCEPT ![pkey[p]] = r] /\ discard' = Bump(discard, addr[pkey[p]])
      /\ ppc' = [ppc EXCEPT ![p] = "idle"] /\ pat' = [pat EXCEPT ![p] = None]
      /\ UNCHANGED <<files, body, gpc, gvic, gat, gorph>>
  BY <1>i DEF PutCommit, PutReset, disk, gcv, pass, Inv, TypeOK, PutType
<1>2. r \in Row /\ r # None /\ r.seg = pat[p].seg
  <2>1. pat[p] \in Address /\ [key |-> pkey[p], body |-> pbody[p]] \in Record
    BY <1>i, <1>1 DEF Inv, TypeOK, PutType, Record
  <2> QED BY <2>1, MkRowType, RowAssumption DEF MkRow
<1> SUFFICES ASSUME NEW s \in files', ~Rewritten(s)' PROVE Len(body'[s]) = Counted(s)'
  BY <1>i DEF GarbageCounted, Counted
<1>3. CopiesInto(s)' = CopiesInto(s) /\ LostCopies(s)' = LostCopies(s) /\ ~Rewritten(s) /\ s \in files /\ s \in SegIds
  BY <1>i, <1>1 DEF CopiesInto, LostCopies, Rewritten, Inv, TypeOK, DiskType
<1>4. Cardinality(KeysIn(s)') + discard'[s]
         = Cardinality(KeysIn(s)) + discard[s] + (IF r.seg = s THEN 1 ELSE 0)
  <2>1. Inv /\ r \in Row \cup {None}
    BY <1>i, <1>2
  <2>2. Cardinality(KeysIn(s)') + discard'[s]
         = Cardinality(KeysIn(s)) + discard[s] + (IF r # None /\ r.seg = s THEN 1 ELSE 0)
    BY ONLY <1>1, <1>3, <2>1, FiniteSystem, RowCounts
  <2> QED BY ONLY <1>2, <2>2
<1>5. PutsInto(s)' = PutsInto(s) \ {p} /\ (p \in PutsInto(s) <=> r.seg = s)
  BY <1>i, <1>1, <1>2 DEF PutsInto, Inv, TypeOK, PutType
<1>6. /\ r.seg = s => Cardinality(PutsInto(s)) = Cardinality(PutsInto(s)') + 1
      /\ r.seg # s => PutsInto(s)' = PutsInto(s)
  <2>1. p \notin PutsInto(s) => PutsInto(s) \ {p} = PutsInto(s)
    OBVIOUS
  <2>2. IsFiniteSet(PutsInto(s)) /\ Cardinality(PutsInto(s)) \in Nat
    BY <1>i, CountsFinite
  <2>3. p \in PutsInto(s) => Cardinality(PutsInto(s)) = Cardinality(PutsInto(s) \ {p}) + 1
    BY <2>2, OneLess
  <2> QED BY <1>5, <2>1, <2>3
<1>7. /\ Cardinality(KeysIn(s)) \in Nat /\ Cardinality(PutsInto(s)) \in Nat /\ Cardinality(CopiesInto(s)) \in Nat
      /\ Cardinality(KeysIn(s)') \in Nat /\ Cardinality(PutsInto(s)') \in Nat
  <2>1. KeysIn(s)' \subseteq Keys /\ PutsInto(s)' \subseteq Putters
    BY DEF KeysIn, PutsInto
  <2> QED BY <2>1, CountsFinite, FS_Subset, FS_CardinalityType DEF FiniteSystem
<1>8. Cardinality(LostCopies(s)) \in Nat /\ discard[s] \in Nat /\ discard'[s] \in Nat
  <2>1. discard' \in [SegIds -> Nat]
    BY <1>i, <1>1, BumpType DEF Inv, TypeOK
  <2> QED BY <1>i, <1>3, <2>1, FS_CardinalityType DEF Inv, TypeOK, IndexType
<1>9. Len(body[s]) = Counted(s) /\ body' = body
  BY <1>i, <1>1, <1>3 DEF GarbageCounted, Counted
<1>10. CASE r.seg = s
  <2>1. Cardinality(KeysIn(s)') + discard'[s] = Cardinality(KeysIn(s)) + discard[s] + 1
    BY <1>4, <1>10
  <2>2. Cardinality(KeysIn(s)') + discard'[s] + Cardinality(PutsInto(s)') = Cardinality(KeysIn(s)) + discard[s] + Cardinality(PutsInto(s))
    BY <1>6, <1>7, <1>8, <1>10, <2>1
  <2>3. Cardinality(KeysIn(s)) + Cardinality(PutsInto(s)) + Cardinality(CopiesInto(s)) + Cardinality(LostCopies(s)) + discard[s]
         = Cardinality(KeysIn(s)') + Cardinality(PutsInto(s)') + Cardinality(CopiesInto(s)) + Cardinality(LostCopies(s)) + discard'[s]
    BY ONLY <1>7, <1>8, <2>2, Moved
  <2> QED BY ONLY <1>3, <1>9, <2>3 DEF Counted
<1>11. CASE r.seg # s
  <2>1. Cardinality(KeysIn(s)') + discard'[s] = Cardinality(KeysIn(s)) + discard[s]
    BY <1>4, <1>7, <1>8, <1>11
  <2>2. Cardinality(KeysIn(s)') + discard'[s] + Cardinality(PutsInto(s)') = Cardinality(KeysIn(s)) + discard[s] + Cardinality(PutsInto(s))
    BY <1>6, <1>7, <1>8, <1>11, <2>1
  <2>3. Cardinality(KeysIn(s)) + Cardinality(PutsInto(s)) + Cardinality(CopiesInto(s)) + Cardinality(LostCopies(s)) + discard[s]
         = Cardinality(KeysIn(s)') + Cardinality(PutsInto(s)') + Cardinality(CopiesInto(s)) + Cardinality(LostCopies(s)) + discard'[s]
    BY ONLY <1>7, <1>8, <2>2, Moved
  <2> QED BY ONLY <1>3, <1>9, <2>3 DEF Counted
<1> QED BY <1>10, <1>11

LEMMA IndexOnlyCounts ==
  ASSUME GarbageInv, FiniteSystem, IndexOnly
  PROVE  GarbageCounted'
<1>i. Inv /\ skewed = {} /\ Ahead /\ PassState /\ GarbageCounted /\ \A s \in SegIds : IsFiniteSet(LostCopies(s))
  BY DEF GarbageInv
<1>1. PICK k \in Keys : addr' = [addr EXCEPT ![k] = None] /\ discard' = Bump(discard, addr[k])
  BY DEF IndexOnly, PutInline, Delete
<1>2. UNCHANGED <<files, body, ppc, pat, gpc, gvic, gat, gorph>>
  BY DEF IndexOnly, PutInline, Delete, disk, putv, gcv, pass
<1> SUFFICES ASSUME NEW s \in files', ~Rewritten(s)' PROVE Len(body'[s]) = Counted(s)'
  BY <1>i DEF GarbageCounted, Counted
<1>3. /\ CopiesInto(s)' = CopiesInto(s) /\ LostCopies(s)' = LostCopies(s) /\ PutsInto(s)' = PutsInto(s)
      /\ ~Rewritten(s) /\ s \in files /\ s \in SegIds
  BY <1>i, <1>2 DEF CopiesInto, PutsInto, LostCopies, Rewritten, Inv, TypeOK, DiskType
<1>4. Cardinality(KeysIn(s)') + discard'[s] = Cardinality(KeysIn(s)) + discard[s]
  <2>1. Inv /\ None \in Row \cup {None} /\ discard[s] \in Nat /\ Cardinality(KeysIn(s)) \in Nat
    BY <1>i, <1>3, CountsFinite DEF Inv, TypeOK, IndexType
  <2>2. Cardinality(KeysIn(s)') + discard'[s]
         = Cardinality(KeysIn(s)) + discard[s] + (IF None # None /\ None.seg = s THEN 1 ELSE 0)
    BY ONLY <1>1, <1>3, <2>1, FiniteSystem, RowCounts
  <2> QED BY ONLY <2>1, <2>2
<1>5. /\ Cardinality(KeysIn(s)) \in Nat /\ Cardinality(PutsInto(s)) \in Nat /\ Cardinality(CopiesInto(s)) \in Nat
      /\ Cardinality(KeysIn(s)') \in Nat
  <2>1. KeysIn(s)' \subseteq Keys
    BY DEF KeysIn
  <2> QED BY <2>1, CountsFinite, FS_Subset, FS_CardinalityType DEF FiniteSystem
<1>6. Cardinality(LostCopies(s)) \in Nat /\ discard[s] \in Nat /\ discard'[s] \in Nat
  <2>1. discard' \in [SegIds -> Nat]
    BY <1>i, <1>1, BumpType DEF Inv, TypeOK
  <2> QED BY <1>i, <1>3, <2>1, FS_CardinalityType DEF Inv, TypeOK, IndexType
<1>7. Len(body[s]) = Counted(s) /\ body' = body
  BY <1>i, <1>2, <1>3 DEF GarbageCounted, Counted
<1>8. Cardinality(KeysIn(s)') + discard'[s] + Cardinality(PutsInto(s)) = Cardinality(KeysIn(s)) + discard[s] + Cardinality(PutsInto(s))
  BY <1>4, <1>5, <1>6
<1>9. Cardinality(KeysIn(s)) + Cardinality(PutsInto(s)) + Cardinality(CopiesInto(s)) + Cardinality(LostCopies(s)) + discard[s]
         = Cardinality(KeysIn(s)') + Cardinality(PutsInto(s)) + Cardinality(CopiesInto(s)) + Cardinality(LostCopies(s)) + discard'[s]
  BY ONLY <1>5, <1>6, <1>8, Moved
<1> QED BY ONLY <1>3, <1>7, <1>9 DEF Counted

\* Counting a lost copy, and forgetting the lost copies of a pass.
LEMMA LostCopyAdded ==
  ASSUME NEW g \in Collectors, gorph \in [Gcs -> [SegIds -> Nat]], NEW t \in SegIds,
         gorph' = [gorph EXCEPT ![g][t] = @ + 1], NEW s \in SegIds, IsFiniteSet(LostCopies(s))
  PROVE  /\ IsFiniteSet(LostCopies(s)')
         /\ s # t => LostCopies(s)' = LostCopies(s)
         /\ s = t => Cardinality(LostCopies(s)') = Cardinality(LostCopies(s)) + 1
<1>0. \A h \in Collectors : gorph[h][s] \in Nat /\ h \in Gcs
  BY DEF Gcs
<1>1. \A h \in Collectors : gorph'[h][s] = IF h = g /\ s = t THEN gorph[h][s] + 1 ELSE gorph[h][s]
  BY <1>0
<1>2. CASE s # t
  <2>1. \A h \in Collectors : gorph'[h][s] = gorph[h][s]
    BY <1>1, <1>2
  <2> QED BY <1>2, <2>1 DEF LostCopies
<1>3. CASE s = t
  <2> PICK n \in Nat : n = gorph[g][s]
    BY <1>0
  <2>1. <<g, n + 1>> \notin LostCopies(s)
    BY <1>0, LostCopiesElements
  <2>2. LostCopies(s)' = LostCopies(s) \cup {<<g, n + 1>>}
    <3>1. \A x : x \in LostCopies(s)' <=> \E h \in Collectors : \E i \in 1 .. gorph'[h][s] : x = <<h, i>>
      BY DEF LostCopies
    <3>2. ASSUME NEW x PROVE x \in LostCopies(s)' <=> x \in LostCopies(s) \cup {<<g, n + 1>>}
      <4>1. x \in LostCopies(s) <=> \E h \in Collectors : \E i \in 1 .. gorph[h][s] : x = <<h, i>>
        BY LostCopiesElements
      <4>2. 1 .. gorph'[g][s] = (1 .. gorph[g][s]) \cup {n + 1}
        <5>1. gorph'[g][s] = n + 1 /\ gorph[g][s] = n
          BY <1>1, <1>3
        <5>2. 1 .. (n + 1) = (1 .. n) \cup {n + 1}
          OBVIOUS
        <5> QED BY <5>1, <5>2
      <4>3. \A h \in Collectors \ {g} : 1 .. gorph'[h][s] = 1 .. gorph[h][s]
        BY <1>1
      <4> QED BY <3>1, <4>1, <4>2, <4>3
    <3> QED BY <3>2
  <2> QED BY <1>3, <2>1, <2>2, OneMore
<1> QED BY <1>2, <1>3

LEMMA LostCopiesForgotten ==
  ASSUME NEW g \in Collectors, gorph \in [Gcs -> [SegIds -> Nat]],
         gorph' = [gorph EXCEPT ![g] = [s \in SegIds |-> 0]], NEW s \in SegIds, IsFiniteSet(LostCopies(s))
  PROVE  /\ IsFiniteSet(LostCopies(s)')
         /\ Cardinality(LostCopies(s)) = Cardinality(LostCopies(s)') + gorph[g][s]
         /\ gorph[g][s] = 0 => LostCopies(s)' = LostCopies(s)
<1>0. \A h \in Collectors : gorph[h][s] \in Nat /\ h \in Gcs
  BY DEF Gcs
<1> DEFINE mine == {g} \X (1 .. gorph[g][s])
<1>1. \A h \in Collectors : gorph'[h][s] = IF h = g THEN 0 ELSE gorph[h][s]
  BY <1>0
<1>2. \A x : x \in LostCopies(s)' <=> \E h \in Collectors : \E i \in 1 .. gorph'[h][s] : x = <<h, i>>
  BY DEF LostCopies
<1>3. LostCopies(s)' = LostCopies(s) \ mine
  <2>1. ASSUME NEW x PROVE x \in LostCopies(s)' <=> x \in LostCopies(s) /\ x \notin mine
    <3>1. x \in LostCopies(s) <=> \E h \in Collectors : \E i \in 1 .. gorph[h][s] : x = <<h, i>>
      BY LostCopiesElements
    <3>2. 1 .. gorph'[g][s] = {}
      BY <1>1
    <3>3. \A h \in Collectors \ {g} : 1 .. gorph'[h][s] = 1 .. gorph[h][s]
      BY <1>1
    <3> QED BY <1>2, <3>1, <3>2, <3>3
  <2> QED BY <2>1
<1>4. mine \subseteq LostCopies(s)
  BY LostCopiesElements
<1>5. IsFiniteSet(mine) /\ Cardinality(mine) = gorph[g][s]
  <2>1. IsFiniteSet(1 .. gorph[g][s]) /\ Cardinality(1 .. gorph[g][s]) = gorph[g][s]
    <3>1. PICK n \in Nat : n = gorph[g][s]
      BY <1>0
    <3>2. n \in Int /\ 1 \in Int
      OBVIOUS
    <3>3. IsFiniteSet(1 .. n) /\ Cardinality(1 .. n) = IF 1 > n THEN 0 ELSE n - 1 + 1
      BY ONLY <3>2, FS_Interval
    <3>4. IsFiniteSet(1 .. n) /\ Cardinality(1 .. n) = n
      BY <3>3
    <3> QED BY <3>1, <3>4
  <2>2. IsFiniteSet({g}) /\ Cardinality({g}) = 1
    BY FS_Singleton
  <2>3. IsFiniteSet(mine) /\ Cardinality(mine) = Cardinality({g}) * Cardinality(1 .. gorph[g][s])
    BY <2>1, <2>2, FS_Product
  <2> QED BY <1>0, <2>1, <2>2, <2>3
<1> HIDE DEF mine
<1>6. LostCopies(s) \cap mine = mine
  BY <1>4
<1>7. IsFiniteSet(LostCopies(s)') /\ Cardinality(LostCopies(s)') = Cardinality(LostCopies(s)) - gorph[g][s]
  <2>1. /\ IsFiniteSet(LostCopies(s) \ mine)
        /\ Cardinality(LostCopies(s) \ mine) = Cardinality(LostCopies(s)) - Cardinality(LostCopies(s) \cap mine)
    BY FS_Difference
  <2> QED BY <1>3, <1>5, <1>6, <2>1
<1>8. Cardinality(LostCopies(s)) \in Nat
  BY FS_CardinalityType
<1>9. gorph[g][s] = 0 => mine = {}
  BY <1>5, FS_EmptySet
<1> QED BY <1>0, <1>3, <1>7, <1>8, <1>9

\* The compare-and-set of a pass: the copy becomes live, or garbage the pass
\* remembers.
LEMMA GcCasCounts ==
  ASSUME GarbageInv, FiniteSystem, NEW g \in Collectors, GcCas(g)
  PROVE  GarbageCounted'
<1>i. Inv /\ skewed = {} /\ Ahead /\ PassState /\ GarbageCounted /\ \A s \in SegIds : IsFiniteSet(LostCopies(s))
  BY DEF GarbageInv
<1> PICK rec : rec = body[gvic[g]][gpos[g]]
  OBVIOUS
<1>0. rec \in Record /\ gat[g] \in Address /\ g \in Gcs
  BY <1>i, BodyType DEF GcCas, Inv, TypeOK, GcType, Order, Gcs
<1>1. /\ gpc[g] = "cas" /\ gpc' = [gpc EXCEPT ![g] = "check"] /\ gat' = [gat EXCEPT ![g] = None]
      /\ UNCHANGED <<files, body, discard, ppc, pat, gvic>>
      /\ \/ /\ PointsAt(addr[rec.key], gvic[g], gpos[g])
            /\ addr' = [addr EXCEPT ![rec.key] = MkRow(gat[g], rec)] /\ gorph' = gorph
         \/ addr' = addr /\ gorph' = [gorph EXCEPT ![g][gat[g].seg] = @ + 1]
  BY DEF GcCas, Goto, disk, putv
<1> SUFFICES ASSUME NEW s \in files', ~Rewritten(s)' PROVE Len(body'[s]) = Counted(s)'
  BY DEF GarbageCounted, Counted
<1>2. PutsInto(s)' = PutsInto(s) /\ discard'[s] = discard[s] /\ body' = body /\ s \in files /\ s \in SegIds
  BY <1>i, <1>1 DEF PutsInto, Inv, TypeOK, DiskType
<1>3. ~Rewritten(s) /\ s # gvic[g]
  BY <1>i, <1>0, <1>1 DEF Rewritten, Inv, TypeOK, GcType
<1>4. CopiesInto(s)' = CopiesInto(s) \ {g} /\ (g \in CopiesInto(s) <=> gat[g].seg = s)
  BY <1>i, <1>1 DEF CopiesInto, Inv, TypeOK, GcType, Gcs
<1>5. /\ gat[g].seg = s => Cardinality(CopiesInto(s)) = Cardinality(CopiesInto(s)') + 1
      /\ gat[g].seg # s => CopiesInto(s)' = CopiesInto(s)
  <2>1. g \notin CopiesInto(s) => CopiesInto(s) \ {g} = CopiesInto(s)
    OBVIOUS
  <2>2. g \in CopiesInto(s) => Cardinality(CopiesInto(s)) = Cardinality(CopiesInto(s) \ {g}) + 1
    BY <1>i, CountsFinite, OneLess
  <2> QED BY <1>4, <2>1, <2>2
<1>6. /\ Cardinality(KeysIn(s)) \in Nat /\ Cardinality(PutsInto(s)) \in Nat /\ Cardinality(CopiesInto(s)) \in Nat
      /\ Cardinality(CopiesInto(s)') \in Nat
  <2>1. CopiesInto(s)' \subseteq Collectors
    BY DEF CopiesInto
  <2> QED BY <2>1, CountsFinite, FS_Subset, FS_CardinalityType DEF FiniteSystem
<1>7. Cardinality(LostCopies(s)) \in Nat /\ discard[s] \in Nat
  BY <1>i, <1>2, FS_CardinalityType DEF Inv, TypeOK, IndexType
<1>8. Len(body[s]) = Counted(s)
  BY <1>i, <1>2, <1>3 DEF GarbageCounted, Counted
<1>9. CASE /\ PointsAt(addr[rec.key], gvic[g], gpos[g])
           /\ addr' = [addr EXCEPT ![rec.key] = MkRow(gat[g], rec)] /\ gorph' = gorph
  <2>1. LostCopies(s)' = LostCopies(s)
    BY <1>9 DEF LostCopies
  <2>2. rec.key \in Keys /\ rec.key \notin KeysIn(s) /\ MkRow(gat[g], rec) # None /\ MkRow(gat[g], rec).seg = gat[g].seg
    <3>1. MkRow(gat[g], rec) \in Row
      BY <1>0, MkRowType
    <3> QED BY <1>0, <1>3, <1>9, <3>1, RowAssumption DEF KeysIn, PointsAt, MkRow, Record
  <2>3. KeysIn(s)' = IF gat[g].seg = s THEN KeysIn(s) \cup {rec.key} ELSE KeysIn(s)
    BY <1>i, <1>9, <2>2 DEF KeysIn, Inv, TypeOK, IndexType
  <2>4. /\ gat[g].seg = s => Cardinality(KeysIn(s)') = Cardinality(KeysIn(s)) + 1
        /\ gat[g].seg # s => KeysIn(s)' = KeysIn(s)
    BY <2>2, <2>3, CountsFinite, OneMore
  <2>5. CASE gat[g].seg = s
    BY <1>2, <1>5, <1>6, <1>7, <1>8, <2>1, <2>4, <2>5 DEF Counted
  <2>6. CASE gat[g].seg # s
    BY <1>2, <1>5, <1>6, <1>7, <1>8, <2>1, <2>4, <2>6 DEF Counted
  <2> QED BY <2>5, <2>6
<1>10. CASE addr' = addr /\ gorph' = [gorph EXCEPT ![g][gat[g].seg] = @ + 1]
  <2>1. KeysIn(s)' = KeysIn(s)
    BY <1>10 DEF KeysIn
  <2>2. gat[g].seg \in SegIds /\ gorph \in [Gcs -> [SegIds -> Nat]]
    BY <1>i, <1>0 DEF Address, Inv, TypeOK, GcType
  <2>3. /\ s # gat[g].seg => LostCopies(s)' = LostCopies(s)
        /\ s = gat[g].seg => Cardinality(LostCopies(s)') = Cardinality(LostCopies(s)) + 1
    BY <1>i, <1>2, <1>10, <2>2, LostCopyAdded
  <2>5. CASE gat[g].seg = s
    BY <1>2, <1>5, <1>6, <1>7, <1>8, <2>1, <2>3, <2>5 DEF Counted
  <2>6. CASE gat[g].seg # s
    BY <1>2, <1>5, <1>6, <1>7, <1>8, <2>1, <2>3, <2>6 DEF Counted
  <2> QED BY <2>5, <2>6
<1> QED BY <1>1, <1>9, <1>10

\* The transaction at the end of a rewrite counts the lost copies as garbage.
LEMMA GcAccountCounts ==
  ASSUME GarbageInv, FiniteSystem, NEW g \in Collectors, GcAccount(g)
  PROVE  GarbageCounted'
<1>i. Inv /\ skewed = {} /\ Ahead /\ PassState /\ GarbageCounted /\ \A s \in SegIds : IsFiniteSet(LostCopies(s))
  BY DEF GarbageInv
<1>1. /\ gpc[g] = "account" /\ gpc' = [gpc EXCEPT ![g] = "flush"] /\ gorph' = [gorph EXCEPT ![g] = [s \in SegIds |-> 0]]
      /\ discard' = [s \in SegIds |-> discard[s] + gorph[g][s]]
      /\ UNCHANGED <<files, body, addr, ppc, pat, gvic, gat>>
  BY DEF GcAccount, Goto, disk, putv
<1> SUFFICES ASSUME NEW s \in files', ~Rewritten(s)' PROVE Len(body'[s]) = Counted(s)'
  BY DEF GarbageCounted, Counted
<1>2. PutsInto(s)' = PutsInto(s) /\ KeysIn(s)' = KeysIn(s) /\ body' = body /\ s \in files /\ s \in SegIds
  BY <1>i, <1>1 DEF PutsInto, KeysIn, Inv, TypeOK, DiskType
<1>3. ~Rewritten(s) /\ CopiesInto(s)' = CopiesInto(s)
  BY <1>i, <1>1 DEF Rewritten, CopiesInto, Inv, TypeOK, GcType, Gcs
<1>4. gorph \in [Gcs -> [SegIds -> Nat]] /\ gorph[g][s] \in Nat
  BY <1>i, <1>2 DEF Inv, TypeOK, GcType, Gcs
<1>5. IsFiniteSet(LostCopies(s)') /\ Cardinality(LostCopies(s)) = Cardinality(LostCopies(s)') + gorph[g][s]
  BY <1>i, <1>1, <1>2, <1>4, LostCopiesForgotten
<1>6. /\ Cardinality(KeysIn(s)) \in Nat /\ Cardinality(PutsInto(s)) \in Nat /\ Cardinality(CopiesInto(s)) \in Nat
      /\ Cardinality(LostCopies(s)') \in Nat /\ discard[s] \in Nat
  BY <1>i, <1>2, <1>5, CountsFinite, FS_CardinalityType DEF Inv, TypeOK, IndexType
<1>7. Len(body[s]) = Counted(s) /\ discard'[s] = discard[s] + gorph[g][s]
  BY <1>i, <1>1, <1>2, <1>3 DEF GarbageCounted, Counted
<1> QED BY <1>2, <1>3, <1>4, <1>5, <1>6, <1>7 DEF Counted

\* A pass leaves the locals of the others alone.
LEMMA OtherPasses ==
  ASSUME GcType, NEW g \in Collectors, Gc(g), NEW h \in Collectors, h # g
  PROVE  gpc'[h] = gpc[h] /\ gvic'[h] = gvic[h] /\ gorph'[h] = gorph[h] /\ grefs'[h] = grefs[h]
<1> USE DEF GcType, pass, sweepv, Gcs
<1>1. CASE GcBegin(g) \/ GcPick(g) \/ GcOpen(g)
  BY <1>1 DEF GcBegin, GcPick, GcOpen, Goto, AfterVictim, GcReturn, PassEnds
<1>2. CASE GcCheck(g) \/ GcAppend(g) \/ GcCas(g) \/ GcAccount(g)
  BY <1>2 DEF GcCheck, GcAppend, GcCas, GcAccount, Goto
<1>3. CASE GcFlush(g) \/ GcUnlink(g) \/ GcClear(g)
  BY <1>3 DEF GcFlush, GcUnlink, GcClear, Goto, AfterVictim, GcReturn, PassEnds
<1>4. CASE SweepSnap(g) \/ SweepActive(g) \/ SweepList(g) \/ (\E t \in SegIds : SweepUnlink(g, t)) \/ SweepDone(g)
  BY <1>4 DEF SweepSnap, SweepActive, SweepList, SweepUnlink, SweepDone, Goto, PassEnds
<1> QED BY <1>1, <1>2, <1>3, <1>4 DEF Gc

\* A file whose rewrite has begun is being rewritten until it is gone.
LEMMA StillRewritten ==
  ASSUME Inv, PassState, NEW g \in Collectors, Gc(g), NEW s \in files', Rewritten(s)
  PROVE  Rewritten(s)'
<1> USE DEF Inv, TypeOK, GcType
<1>1. PICK h \in Collectors :
        gpc[h] \notin {"idle", "pick", "snap", "active", "list", "sweep", "dead"} /\ gvic[h] = s
  BY DEF Rewritten
<1>0. g \in Gcs /\ h \in Gcs
  BY DEF Gcs
<1> USE DEF pass, sweepv, disk
<1>2. CASE h # g
  <2>1. gpc'[h] = gpc[h] /\ gvic'[h] = gvic[h]
    BY <1>2, OtherPasses
  <2> QED BY <1>1, <2>1 DEF Rewritten
<1>3. CASE h = g
  <2>1. gpc'[g] \notin {"idle", "pick", "snap", "active", "list", "sweep", "dead"} /\ gvic'[g] = s
    <3>1. CASE GcOpen(g) \/ GcCheck(g) \/ GcAppend(g)
      BY <1>0, <1>1, <1>3, <3>1 DEF GcOpen, GcCheck, GcAppend, Goto, GcReturn, PassEnds
    <3>2. CASE GcCas(g) \/ GcAccount(g) \/ GcFlush(g)
      BY <1>0, <1>1, <1>3, <3>2 DEF GcCas, GcAccount, GcFlush, Goto
    <3>3. CASE GcUnlink(g)
      BY <1>0, <1>1, <1>3, <3>3 DEF GcUnlink, Goto
    <3>4. CASE GcClear(g)
      BY <1>0, <1>1, <1>3, <3>4 DEF GcClear, PassState
    <3>5. CASE GcBegin(g) \/ GcPick(g)
      BY <1>1, <1>3, <3>5 DEF GcBegin, GcPick
    <3>6. CASE SweepSnap(g) \/ SweepActive(g) \/ SweepList(g) \/ (\E t \in SegIds : SweepUnlink(g, t)) \/ SweepDone(g)
      BY <1>1, <1>3, <3>6 DEF SweepSnap, SweepActive, SweepList, SweepUnlink, SweepDone
    <3> QED BY <3>1, <3>2, <3>3, <3>4, <3>5, <3>6 DEF Gc
  <2> QED BY <1>3, <2>1 DEF Rewritten
<1> QED BY <1>2, <1>3

\* The steps of a pass that neither append, commit nor account.
QuietGc(g) ==
  \/ GcBegin(g) \/ GcPick(g) \/ GcOpen(g) \/ GcCheck(g) \/ GcFlush(g) \/ GcUnlink(g) \/ GcClear(g)
  \/ SweepSnap(g) \/ SweepActive(g) \/ SweepList(g) \/ (\E s \in SegIds : SweepUnlink(g, s)) \/ SweepDone(g)

\* They leave the lost copies alone: a pass ends with none left over.
LEMMA QuietGcFrame ==
  ASSUME Inv, PassState, NEW g \in Collectors, QuietGc(g)
  PROVE  /\ files' \subseteq files /\ UNCHANGED <<body, addr, ppc, pat, gorph, skewed, active>>
         /\ gpc[g] # "cas" /\ \E pc \in GcPcs \ {"cas"} : gpc' = [gpc EXCEPT ![g] = pc]
         /\ gat' = gat \/ gat' = [gat EXCEPT ![g] = None]
         /\ \A s \in SegIds : discard'[s] = discard[s] \/ discard'[s] = 0
         /\ \A s \in files' : discard'[s] = discard[s]
<1> USE DEF Inv, TypeOK, GcType, pass, sweepv, disk, index, putv, history
<1>0. g \in Gcs /\ files \subseteq SegIds /\ discard \in [SegIds -> Nat]
  BY DEF Gcs, DiskType, IndexType
<1>1. ASSUME gpc[g] \notin {"check", "append", "cas", "account"}, gorph' = [gorph EXCEPT ![g] = [s \in SegIds |-> 0]]
      PROVE  gorph' = gorph
  <2>1. gorph[g] \in [SegIds -> Nat] /\ \A s \in SegIds : gorph[g][s] = 0
    BY <1>0, <1>1 DEF PassState
  <2>2. gorph[g] = [s \in SegIds |-> 0]
    BY <2>1
  <2> QED BY <1>0, <1>1, <2>2
<1>2. CASE GcBegin(g) \/ GcCheck(g) \/ GcFlush(g)
  <2>1. files' = files /\ UNCHANGED <<body, addr, ppc, pat, gorph, skewed, active, discard, gat>>
    BY <1>2 DEF GcBegin, GcCheck, GcFlush, Flush
  <2>2. gpc[g] # "cas" /\ \E pc \in GcPcs \ {"cas"} : gpc' = [gpc EXCEPT ![g] = pc]
    BY <1>0, <1>2 DEF GcBegin, GcCheck, GcFlush, Goto, GcPcs
  <2> QED BY <2>1, <2>2
<1>3. CASE GcPick(g) \/ GcOpen(g)
  <2>1. files' = files /\ UNCHANGED <<body, addr, ppc, pat, skewed, active, discard>>
    BY <1>3 DEF GcPick, GcOpen
  <2>2. gpc[g] \in {"pick", "open"}
        /\ (\E pc \in GcPcs \ {"cas"} : gpc' = [gpc EXCEPT ![g] = pc])
        /\ (gat' = gat \/ gat' = [gat EXCEPT ![g] = None])
        /\ (gorph' = gorph \/ gorph' = [gorph EXCEPT ![g] = [s \in SegIds |-> 0]])
    BY <1>3 DEF GcPick, GcOpen, Goto, AfterVictim, GcReturn, PassEnds, GcPcs
  <2> QED BY <1>1, <2>1, <2>2
<1>4. CASE GcUnlink(g)
  <2>1. files' \subseteq files /\ UNCHANGED <<body, addr, ppc, pat, skewed, active, discard>>
    BY <1>4 DEF GcUnlink
  <2>2. gpc[g] = "unlink"
        /\ (\E pc \in GcPcs \ {"cas"} : gpc' = [gpc EXCEPT ![g] = pc])
        /\ (gat' = gat \/ gat' = [gat EXCEPT ![g] = None])
        /\ (gorph' = gorph \/ gorph' = [gorph EXCEPT ![g] = [s \in SegIds |-> 0]])
    BY <1>4 DEF GcUnlink, Goto, GcReturn, PassEnds, GcPcs
  <2> QED BY <1>1, <2>1, <2>2
<1>5. CASE GcClear(g)
  <2>1. files' = files /\ UNCHANGED <<body, addr, ppc, pat, skewed, active>> /\ discard' = [discard EXCEPT ![gvic[g]] = 0]
        /\ gpc[g] = "clear"
    BY <1>5 DEF GcClear
  <2>2. (\E pc \in GcPcs \ {"cas"} : gpc' = [gpc EXCEPT ![g] = pc])
        /\ gat' = [gat EXCEPT ![g] = None] /\ gorph' = [gorph EXCEPT ![g] = [s \in SegIds |-> 0]]
    BY <1>5 DEF GcClear, AfterVictim, PassEnds, GcPcs
  <2>3. gvic[g] \notin files
    BY <2>1 DEF PassState
  <2> QED BY <1>0, <1>1, <2>1, <2>2, <2>3
<1>6. CASE SweepSnap(g) \/ SweepActive(g) \/ SweepList(g) \/ \E s \in SegIds : SweepUnlink(g, s)
  <2>1. files' \subseteq files /\ UNCHANGED <<body, addr, ppc, pat, gorph, skewed, active, discard, gat>>
    BY <1>6 DEF SweepSnap, SweepActive, SweepList, SweepUnlink
  <2>2. gpc[g] # "cas" /\ \E pc \in GcPcs \ {"cas"} : gpc' = [gpc EXCEPT ![g] = pc]
    BY <1>0, <1>6 DEF SweepSnap, SweepActive, SweepList, SweepUnlink, Goto, GcPcs
  <2> QED BY <2>1, <2>2
<1>7. CASE SweepDone(g)
  <2>1. files' = files /\ UNCHANGED <<body, addr, ppc, pat, skewed, active>> /\ gpc[g] = "sweep"
        /\ discard' = [s \in SegIds |-> IF s \in grefs[g] THEN 0 ELSE discard[s]]
    BY <1>7 DEF SweepDone
  <2>2. (\E pc \in GcPcs \ {"cas"} : gpc' = [gpc EXCEPT ![g] = pc])
        /\ gat' = [gat EXCEPT ![g] = None] /\ gorph' = [gorph EXCEPT ![g] = [s \in SegIds |-> 0]]
    BY <1>7 DEF SweepDone, GcReport, PassEnds, GcPcs
  <2>3. \A s \in files : s \notin grefs[g]
    BY <2>1 DEF PassState
  <2> QED BY <1>0, <1>1, <2>1, <2>2, <2>3
<1> QED BY <1>2, <1>3, <1>4, <1>5, <1>6, <1>7 DEF QuietGc

LEMMA QuietGcCounts ==
  ASSUME GarbageInv, NEW g \in Collectors, QuietGc(g)
  PROVE  GarbageCounted'
<1>i. Inv /\ PassState /\ GarbageCounted
  BY DEF GarbageInv
<1>1. /\ files' \subseteq files /\ UNCHANGED <<body, addr, ppc, pat, gorph, skewed, active>>
      /\ gpc[g] # "cas" /\ \E pc \in GcPcs \ {"cas"} : gpc' = [gpc EXCEPT ![g] = pc]
      /\ gat' = gat \/ gat' = [gat EXCEPT ![g] = None]
      /\ \A s \in files' : discard'[s] = discard[s]
  BY <1>i, QuietGcFrame
<1>2. ASSUME NEW s \in files'
      PROVE  PutsInto(s)' = PutsInto(s) /\ CopiesInto(s)' = CopiesInto(s) /\ LostCopies(s)' = LostCopies(s)
  <2>1. PutsInto(s)' = PutsInto(s) /\ LostCopies(s)' = LostCopies(s)
    BY <1>1 DEF PutsInto, LostCopies
  <2>2. \A h \in Collectors : /\ gpc'[h] = "cas" <=> gpc[h] = "cas"
                              /\ gpc[h] = "cas" => gat'[h] = gat[h]
    BY <1>i, <1>1 DEF Inv, TypeOK, GcType, Gcs
  <2>3. CopiesInto(s)' = CopiesInto(s)
    BY <2>2 DEF CopiesInto
  <2> QED BY <2>1, <2>3
<1>3. Gc(g)
  BY DEF Gc, QuietGc
<1>4. \A s \in files' : Rewritten(s) => Rewritten(s)'
  BY <1>i, <1>3, StillRewritten
<1> QED BY <1>i, <1>1, <1>2, <1>4, NothingCounted

\* In a calm run ids only grow, no file comes back, and no restart skews a
\* segment.
LEMMA CalmGrows ==
  ASSUME Inv, skewed = {}, CalmRun, Next
  PROVE  /\ skewed' = {} /\ active <= active' /\ \A s \in files' : s \in files \/ s > active
<1>1. /\ ~Kill /\ ~PowerLoss
      /\ \/ \E p \in Putters : (\E k \in Keys : \E b \in BodyOf[k] : PutAppend(p, k, b)) \/ PutCommit(p)
         \/ IndexOnly \/ Get \/ EngineFlush
         \/ \E g \in Collectors : Gc(g)
  <2>1. kills \in Nat /\ powers \in Nat
    BY DEF Inv, TypeOK, HistoryType
  <2> QED BY <2>1, CalmSteps DEF CalmRun, Kill, PowerLoss
<1>2. skewed' = skewed
  <2> USE DEF history
  <2>1. CASE \E p \in Putters : (\E k \in Keys : \E b \in BodyOf[k] : PutAppend(p, k, b)) \/ PutCommit(p)
    BY <2>1 DEF PutAppend, PutCommit
  <2>2. CASE IndexOnly \/ Get \/ EngineFlush
    BY <2>2 DEF IndexOnly, PutInline, Delete, Get, GetBegin, GetRead, GetRetry, GetLookup, EngineFlush
  <2>3. ASSUME NEW g \in Collectors, Gc(g) PROVE skewed' = skewed
    BY <2>3 DEF Gc, GcBegin, GcPick, GcOpen, GcCheck, GcAppend, GcCas, GcAccount, GcFlush, GcUnlink, GcClear,
       SweepSnap, SweepActive, SweepList, SweepUnlink, SweepDone
  <2> QED BY <1>1, <2>1, <2>2, <2>3
<1>3. active \in Nat
  BY DEF Inv, TypeOK, DiskType, SegIds
<1>4. \/ \E rec \in Record : SegAppend(rec)
      \/ Flush
      \/ files' \subseteq files /\ UNCHANGED <<body, synced, active, wlen, flushOffset, unflushed>>
  BY <1>1, DiskSteps
<1>5. CASE \E rec \in Record : SegAppend(rec)
  <2>1. active <= active' /\ \A s \in files' : s \in files \/ s > active
    BY <1>5, AppendGrows
  <2> QED BY <1>2, <2>1
<1>6. CASE Flush
  BY <1>2, <1>3, <1>6 DEF Flush
<1>7. CASE files' \subseteq files /\ active' = active
  BY <1>2, <1>3, <1>7
<1> QED BY <1>4, <1>5, <1>6, <1>7

LEMMA CalmKeepsAhead ==
  ASSUME Inv, skewed = {}, CalmRun, Next, Ahead, PassState
  PROVE  Ahead'
<1> USE DEF Inv, TypeOK
<1>1. active <= active' /\ active \in Nat /\ active' \in Int
  <2>1. active' \in SegIds
    BY NextKeepsInv DEF DiskType
  <2> QED BY <2>1, CalmGrows DEF DiskType, SegIds
<1> SUFFICES ASSUME NEW s \in SegIds, s > active'
             PROVE  /\ discard'[s] = 0
                    /\ \A k \in Keys : addr'[k] # None => addr'[k].seg # s
                    /\ \A g \in Collectors : gorph'[g][s] = 0
  BY DEF Ahead
<1>2. s > active /\ s \in Nat
  BY <1>1 DEF SegIds
<1>3. /\ discard[s] = 0
      /\ \A k \in Keys : addr[k] # None => addr[k].seg # s
      /\ \A g \in Collectors : gorph[g][s] = 0
  BY <1>2 DEF Ahead
<1>4. ASSUME NEW k \in Keys, discard' = Bump(discard, addr[k]) PROVE discard'[s] = 0
  BY <1>3, <1>4 DEF Bump, IndexType
<1>5. CASE UNCHANGED <<discard, addr, gorph>>
  BY <1>3, <1>5
<1>6. ASSUME NEW p \in Putters, PutCommit(p)
      PROVE  /\ discard'[s] = 0 /\ gorph' = gorph
             /\ \A k \in Keys : addr'[k] # None => addr'[k].seg # s
  <2>1. /\ ppc[p] = "commit" /\ pkey[p] \in Keys /\ discard' = Bump(discard, addr[pkey[p]]) /\ gorph' = gorph
        /\ addr' = [addr EXCEPT ![pkey[p]] = MkRow(pat[p], [key |-> pkey[p], body |-> pbody[p]])]
    BY <1>6 DEF PutCommit, PutType, gcv, pass
  <2>2. pat[p].seg <= active /\ pat[p].seg \in Nat
    BY <2>1 DEF Order, PutType, Address, SegIds
  <2>3. MkRow(pat[p], [key |-> pkey[p], body |-> pbody[p]]).seg # s
    BY <1>1, <1>2, <2>2 DEF MkRow
  <2>4. \A k \in Keys : addr'[k] # None => addr'[k].seg # s
    BY <1>3, <2>1, <2>3 DEF IndexType
  <2> QED BY <1>4, <2>1, <2>4
<1>7. ASSUME IndexOnly
      PROVE  /\ discard'[s] = 0 /\ gorph' = gorph
             /\ \A k \in Keys : addr'[k] # None => addr'[k].seg # s
  <2>1. PICK k \in Keys : addr' = [addr EXCEPT ![k] = None] /\ discard' = Bump(discard, addr[k]) /\ gorph' = gorph
    BY <1>7 DEF IndexOnly, PutInline, Delete, gcv, pass
  <2>2. \A j \in Keys : addr'[j] # None => addr'[j].seg # s
    BY <1>3, <2>1 DEF IndexType
  <2> QED BY <1>4, <2>1, <2>2
<1>8. ASSUME NEW g \in Collectors, GcCas(g)
      PROVE  /\ discard' = discard
             /\ \A k \in Keys : addr'[k] # None => addr'[k].seg # s
             /\ \A h \in Collectors : gorph'[h][s] = 0
  <2>0. g \in Gcs /\ gorph \in [Gcs -> [SegIds -> Nat]] /\ Collectors \subseteq Gcs
    BY DEF Gcs, GcType
  <2> PICK rec : rec = body[gvic[g]][gpos[g]]
    OBVIOUS
  <2>1. /\ gpc[g] = "cas" /\ discard' = discard
        /\ \/ addr' = [addr EXCEPT ![rec.key] = MkRow(gat[g], rec)] /\ gorph' = gorph
           \/ addr' = addr /\ gorph' = [gorph EXCEPT ![g][gat[g].seg] = @ + 1]
    BY <1>8 DEF GcCas
  <2>2. gat[g].seg <= active /\ gat[g].seg \in SegIds /\ gat[g].seg \in Nat
    BY <2>0, <2>1 DEF Order, GcType, Address, SegIds
  <2>3. MkRow(gat[g], rec).seg # s /\ gat[g].seg # s
    BY <1>1, <1>2, <2>2 DEF MkRow
  <2>4. \A k \in Keys : addr'[k] # None => addr'[k].seg # s
    BY <1>3, <2>1, <2>3 DEF IndexType
  <2>5. \A h \in Collectors : gorph'[h][s] = 0
    BY <1>3, <2>0, <2>1, <2>2, <2>3
  <2> QED BY <2>1, <2>4, <2>5
<1>9. ASSUME NEW g \in Collectors, GcAccount(g)
      PROVE  discard'[s] = 0 /\ addr' = addr /\ \A h \in Collectors : gorph'[h][s] = 0
  BY <1>3, <1>9 DEF GcAccount, GcType, Gcs
<1>10. ASSUME NEW g \in Collectors, QuietGc(g)
       PROVE  discard'[s] = 0 /\ addr' = addr /\ gorph' = gorph
  BY <1>3, <1>10, QuietGcFrame
<1>11. ASSUME NEW g \in Collectors, GcAppend(g)
       PROVE  UNCHANGED <<discard, addr, gorph>>
  BY <1>11 DEF GcAppend, index
<1>12. ASSUME NEW p \in Putters, NEW k \in Keys, NEW b \in BodyOf[k], PutAppend(p, k, b)
       PROVE  UNCHANGED <<discard, addr, gorph>>
  BY <1>12 DEF PutAppend, index, gcv, pass
<1>13. ASSUME Get \/ EngineFlush
       PROVE  UNCHANGED <<discard, addr, gorph>>
  BY <1>13 DEF Get, GetBegin, GetRead, GetRetry, GetLookup, EngineFlush, index, gcv, pass
<1>14. \A g \in Collectors : Gc(g) <=> GcAppend(g) \/ GcCas(g) \/ GcAccount(g) \/ QuietGc(g)
  BY DEF Gc, QuietGc
<1> QED BY <1>3, <1>5, <1>6, <1>7, <1>8, <1>9, <1>10, <1>11, <1>12, <1>13, <1>14, CalmSteps

LEMMA CalmKeepsPassState ==
  ASSUME Inv, skewed = {}, CalmRun, Next, Ahead, PassState
  PROVE  PassState'
<1> USE DEF Inv, TypeOK
<1>1. active <= active' /\ active \in Nat /\ active' \in Int /\ \A s \in files' : s \in files \/ s > active
  <2>1. active' \in SegIds
    BY NextKeepsInv DEF DiskType
  <2> QED BY <2>1, CalmGrows DEF DiskType, SegIds
<1>2. \A s \in SegIds : s \notin files /\ s <= active => s \notin files' /\ s <= active'
  BY <1>1 DEF SegIds
<1>t. /\ \A h \in Collectors : gvic[h] \in SegIds /\ grefs[h] \subseteq SegIds /\ h \in Gcs
      /\ \A h \in Gcs : gorph[h] \in [SegIds -> Nat]
  BY DEF GcType, Gcs
<1>3. ASSUME NEW h \in Collectors, gpc'[h] = gpc[h], gvic'[h] = gvic[h], gorph'[h] = gorph[h], grefs'[h] = grefs[h]
      PROVE  /\ gpc'[h] \notin {"check", "append", "cas", "account"} => \A s \in SegIds : gorph'[h][s] = 0
             /\ gpc'[h] = "clear" => gvic'[h] \notin files' /\ gvic'[h] <= active'
             /\ gpc'[h] = "sweep" => \A s \in grefs'[h] : s \notin files' /\ s <= active'
  BY <1>2, <1>3, <1>t DEF PassState
<1>4. CASE UNCHANGED <<gpc, gvic, gorph, grefs>>
  BY <1>3, <1>4 DEF PassState
<1>5. CASE \E p \in Putters : (\E k \in Keys : \E b \in BodyOf[k] : PutAppend(p, k, b)) \/ PutCommit(p)
  BY <1>4, <1>5 DEF PutAppend, PutCommit, gcv, pass, sweepv
<1>6. CASE IndexOnly \/ Get \/ EngineFlush
  BY <1>4, <1>6 DEF IndexOnly, PutInline, Delete, Get, GetBegin, GetRead, GetRetry, GetLookup, EngineFlush, gcv, pass, sweepv
<1>7. ASSUME NEW g \in Collectors, Gc(g) PROVE PassState'
  <2>1. /\ gpc'[g] \notin {"check", "append", "cas", "account"} => \A s \in SegIds : gorph'[g][s] = 0
        /\ gpc'[g] = "clear" => gvic'[g] \notin files' /\ gvic'[g] <= active'
        /\ gpc'[g] = "sweep" => \A s \in grefs'[g] : s \notin files' /\ s <= active'
    <3> USE <1>t DEF GcType, pass, sweepv, disk
    <3>1. ASSUME gorph'[g] = [s \in SegIds |-> 0] PROVE \A s \in SegIds : gorph'[g][s] = 0
      BY <3>1
    <3>2. CASE GcBegin(g)
      BY <3>2 DEF GcBegin, Goto, PassState
    <3>3. CASE GcPick(g)
      <4>1. gpc'[g] \in {"open", "snap", "idle"} /\ gpc[g] = "pick"
            /\ (gorph'[g] = gorph[g] \/ gorph'[g] = [s \in SegIds |-> 0])
        BY <3>3 DEF GcPick, Goto, AfterVictim, PassEnds
      <4>2. \A s \in SegIds : gorph'[g][s] = 0
        BY ONLY <4>1, PassState DEF PassState
      <4> QED BY ONLY <4>1, <4>2
    <3>4. CASE GcOpen(g)
      <4>1. gpc'[g] \in {"check", "idle"} /\ gpc[g] = "open"
            /\ (gorph'[g] = gorph[g] \/ gorph'[g] = [s \in SegIds |-> 0])
        BY <3>4 DEF GcOpen, Goto, GcReturn, PassEnds
      <4>2. \A s \in SegIds : gorph'[g][s] = 0
        BY ONLY <4>1, PassState DEF PassState
      <4> QED BY ONLY <4>1, <4>2
    <3>5. CASE GcCheck(g)
      <4>1. gpc'[g] \in {"account", "append", "check"}
        BY <3>5 DEF GcCheck, Goto
      <4> QED BY <4>1
    <3>6. CASE GcAppend(g) \/ GcCas(g)
      <4>1. gpc'[g] \in {"cas", "check"}
        BY <3>6 DEF GcAppend, GcCas, Goto
      <4> QED BY <4>1
    <3>7. CASE GcAccount(g)
      <4>1. gpc'[g] = "flush" /\ gorph'[g] = [s \in SegIds |-> 0]
        BY <3>7 DEF GcAccount, Goto
      <4> QED BY <3>1, <4>1
    <3>8. CASE GcFlush(g)
      <4>1. gpc'[g] = "unlink" /\ gorph' = gorph /\ gpc[g] = "flush"
        BY <3>8 DEF GcFlush, Goto
      <4> QED BY <4>1 DEF PassState
    <3>9. CASE GcUnlink(g)
      <4>1. CASE gvic[g] \in files
        <5>1. /\ gpc'[g] = "clear" /\ gorph' = gorph /\ gvic' = gvic /\ gpc[g] = "unlink"
              /\ files' = files \ {gvic[g]} /\ active' = active
          BY <3>9, <4>1 DEF GcUnlink, Goto
        <5>2. gvic[g] <= active
          BY <4>1 DEF Order
        <5> QED BY <5>1, <5>2 DEF PassState
      <4>2. CASE gvic[g] \notin files
        <5>1. gpc'[g] = "idle" /\ gorph'[g] = [s \in SegIds |-> 0]
          BY <3>9, <4>2 DEF GcUnlink, GcReturn, PassEnds
        <5> QED BY <3>1, <5>1
      <4> QED BY <4>1, <4>2
    <3>10. CASE GcClear(g)
      <4>1. gpc'[g] \in {"snap", "idle"} /\ gorph'[g] = [s \in SegIds |-> 0]
        BY <3>10 DEF GcClear, AfterVictim, PassEnds
      <4> QED BY <3>1, <4>1
    <3>11. CASE SweepSnap(g) \/ SweepActive(g)
      <4>1. gpc'[g] \in {"active", "list"} /\ gorph' = gorph /\ gpc[g] \in {"snap", "active"}
        BY <3>11 DEF SweepSnap, SweepActive, Goto
      <4>2. \A s \in SegIds : gorph'[g][s] = 0
        BY ONLY <4>1, PassState DEF PassState
      <4> QED BY ONLY <4>1, <4>2
    <3>12. CASE SweepList(g)
      <4>1. gpc'[g] = "sweep" /\ gorph' = gorph /\ gpc[g] = "list" /\ grefs'[g] = {}
        BY <3>12 DEF SweepList, Goto
      <4>2. \A s \in SegIds : gorph'[g][s] = 0
        BY ONLY <4>1, PassState DEF PassState
      <4> QED BY ONLY <4>1, <4>2
    <3>13. ASSUME NEW s \in SegIds, SweepUnlink(g, s)
           PROVE  /\ gpc'[g] \notin {"check", "append", "cas", "account"} => \A t \in SegIds : gorph'[g][t] = 0
                  /\ gpc'[g] = "clear" => gvic'[g] \notin files' /\ gvic'[g] <= active'
                  /\ gpc'[g] = "sweep" => \A t \in grefs'[g] : t \notin files' /\ t <= active'
      <4>1. /\ gpc' = gpc /\ gorph' = gorph /\ gpc[g] = "sweep" /\ files' = files \ {s} /\ active' = active
            /\ grefs'[g] = IF s \in files THEN grefs[g] \cup {s} ELSE grefs[g]
        BY <3>13 DEF SweepUnlink
      <4>2. s \in files => s <= active
        BY DEF Order
      <4> QED BY <4>1, <4>2 DEF PassState
    <3>14. CASE SweepDone(g)
      <4>1. gpc'[g] \in {"dead", "idle"} /\ gorph'[g] = [s \in SegIds |-> 0]
        BY <3>14 DEF SweepDone, GcReport, PassEnds
      <4> QED BY <3>1, <4>1
    <3> QED BY <1>7, <3>2, <3>3, <3>4, <3>5, <3>6, <3>7, <3>8, <3>9, <3>10, <3>11, <3>12, <3>13, <3>14 DEF Gc
  <2>2. \A h \in Collectors \ {g} :
           gpc'[h] = gpc[h] /\ gvic'[h] = gvic[h] /\ gorph'[h] = gorph[h] /\ grefs'[h] = grefs[h]
    BY <1>7, OtherPasses
  <2> QED BY <1>3, <2>1, <2>2 DEF PassState
<1> QED BY <1>5, <1>6, <1>7, CalmSteps

LEMMA CalmKeepsFinite ==
  ASSUME Inv, CalmRun, Next, PassState, \A s \in SegIds : IsFiniteSet(LostCopies(s))
  PROVE  \A s \in SegIds : IsFiniteSet(LostCopies(s)')
<1> USE DEF Inv, TypeOK
<1> SUFFICES ASSUME NEW s \in SegIds PROVE IsFiniteSet(LostCopies(s)')
  OBVIOUS
<1>1. CASE gorph' = gorph
  BY <1>1 DEF LostCopies
<1>2. ASSUME NEW g \in Collectors, GcCas(g) PROVE IsFiniteSet(LostCopies(s)')
  <2>1. gat[g].seg \in SegIds /\ gorph \in [Gcs -> [SegIds -> Nat]]
    BY <1>2 DEF GcCas, GcType, Gcs, Address
  <2>2. gorph' = gorph \/ gorph' = [gorph EXCEPT ![g][gat[g].seg] = @ + 1]
    BY <1>2 DEF GcCas
  <2> QED BY <1>1, <2>1, <2>2, LostCopyAdded
<1>3. ASSUME NEW g \in Collectors, GcAccount(g) PROVE IsFiniteSet(LostCopies(s)')
  BY <1>3, LostCopiesForgotten DEF GcAccount, GcType
<1>4. ASSUME NEW g \in Collectors, QuietGc(g) \/ GcAppend(g) PROVE gorph' = gorph
  BY <1>4, QuietGcFrame DEF GcAppend
<1>5. CASE \E p \in Putters : (\E k \in Keys : \E b \in BodyOf[k] : PutAppend(p, k, b)) \/ PutCommit(p)
  BY <1>1, <1>5 DEF PutAppend, PutCommit, gcv, pass
<1>6. CASE IndexOnly \/ Get \/ EngineFlush
  BY <1>1, <1>6 DEF IndexOnly, PutInline, Delete, Get, GetBegin, GetRead, GetRetry, GetLookup, EngineFlush, gcv, pass
<1>7. \A g \in Collectors : Gc(g) <=> GcAppend(g) \/ GcCas(g) \/ GcAccount(g) \/ QuietGc(g)
  BY DEF Gc, QuietGc
<1> QED BY <1>1, <1>2, <1>3, <1>4, <1>5, <1>6, <1>7, CalmSteps

LEMMA CalmKeepsCounts ==
  ASSUME GarbageInv, CalmRun, FiniteSystem, Next
  PROVE  GarbageCounted'
<1>i. Inv /\ skewed = {} /\ Ahead /\ PassState /\ GarbageCounted
  BY DEF GarbageInv
<1>1. CASE Get \/ EngineFlush
  <2>1. UNCHANGED <<files, body, addr, discard, ppc, pat, gpc, gvic, gat, gorph>>
    BY <1>1 DEF Get, GetBegin, GetRead, GetRetry, GetLookup, EngineFlush, Flush, disk, index, putv, gcv, pass
  <2>2. \A s : /\ PutsInto(s)' = PutsInto(s) /\ CopiesInto(s)' = CopiesInto(s) /\ LostCopies(s)' = LostCopies(s)
               /\ Rewritten(s)' = Rewritten(s)
    BY <2>1 DEF PutsInto, CopiesInto, LostCopies, Rewritten
  <2> QED BY <1>i, <2>1, <2>2, NothingCounted
<1>2. ASSUME NEW g \in Collectors, Gc(g) PROVE GarbageCounted'
  BY <1>2, GcAppendCounts, GcCasCounts, GcAccountCounts, QuietGcCounts DEF Gc, QuietGc
<1>3. ASSUME NEW p \in Putters, (\E k \in Keys : \E b \in BodyOf[k] : PutAppend(p, k, b)) \/ PutCommit(p)
      PROVE  GarbageCounted'
  BY <1>3, PutAppendCounts, PutCommitCounts
<1> QED BY <1>i, <1>1, <1>2, <1>3, IndexOnlyCounts, CalmSteps

\* For any keys, threads and bounds: as long as no call fails, nothing crashes
\* and no eviction runs on the disk, every record of a file is live, in flight
\* or counted as garbage exactly once (bump_in of put and delete, the
\* transaction of gc_once for its lost races), so the counters that choose the
\* victim are exact.  A failed transaction, a restart and evict_oldest_segment
\* leave records that nothing counts; those the sweep finds.
THEOREM GarbageIsCounted ==
  ASSUME CalmRun, FiniteSystem
  PROVE  Spec => []GarbageCounted
<1>1. Init => GarbageInv
  <2> SUFFICES ASSUME Init PROVE GarbageInv
    OBVIOUS
  <2>1. Inv
    BY InitInv
  <2>2. skewed = {} /\ Ahead /\ PassState
    BY DEF Init, Ahead, PassState, Gcs
  <2>3. ASSUME NEW s \in SegIds PROVE LostCopies(s) = {}
    <3>1. \A g \in Collectors : gorph[g][s] = 0
      BY DEF Init, Gcs
    <3> QED BY <3>1, LostCopiesElements
  <2>4. IsFiniteSet({}) /\ Cardinality({}) = 0
    BY FS_EmptySet
  <2>5. GarbageCounted
    <3> SUFFICES ASSUME NEW s \in files PROVE Len(body[s]) = Counted(s)
      BY DEF GarbageCounted, Counted
    <3>1. s \in SegIds /\ Len(body[s]) = 0 /\ discard[s] = 0
      BY <2>1 DEF Init, Inv, TypeOK, DiskType
    <3>2. KeysIn(s) = {} /\ PutsInto(s) = {} /\ CopiesInto(s) = {}
      BY DEF Init, KeysIn, PutsInto, CopiesInto, Gcs
    <3>3. LostCopies(s) = {}
      BY <2>3, <3>1
    <3>4. Counted(s) = 0 + 0 + 0 + 0 + 0
      BY ONLY <2>4, <3>1, <3>2, <3>3 DEF Counted
    <3> QED BY ONLY <3>1, <3>4
  <2> QED BY <2>1, <2>2, <2>3, <2>4, <2>5 DEF GarbageInv
<1>2. GarbageInv /\ [Next]_vars => GarbageInv'
  <2> SUFFICES ASSUME GarbageInv, [Next]_vars PROVE GarbageInv'
    OBVIOUS
  <2>i. Inv /\ skewed = {} /\ Ahead /\ PassState /\ GarbageCounted /\ \A s \in SegIds : IsFiniteSet(LostCopies(s))
    BY DEF GarbageInv
  <2>1. CASE Next
    <3>1. Inv'
      BY <2>i, <2>1, NextKeepsInv
    <3>2. skewed' = {}
      BY <2>i, <2>1, CalmGrows
    <3>3. Ahead' /\ PassState'
      BY <2>i, <2>1, CalmKeepsAhead, CalmKeepsPassState
    <3>4. \A s \in SegIds : IsFiniteSet(LostCopies(s)')
      BY <2>i, <2>1, CalmKeepsFinite
    <3>5. GarbageCounted'
      BY <2>1, CalmKeepsCounts
    <3> QED BY <3>1, <3>2, <3>3, <3>4, <3>5 DEF GarbageInv
  <2>2. CASE UNCHANGED vars
    <3>1. Inv'
      BY <2>i, <2>2, NextKeepsInv
    <3>2. UNCHANGED <<files, body, active, addr, discard, ppc, pat, gpc, gvic, gat, gorph, grefs, skewed>>
      BY <2>2 DEF vars, disk, index, putv, gcv, pass, sweepv, history
    <3>3. Ahead' /\ PassState' /\ skewed' = {}
      BY <2>i, <3>2 DEF Ahead, PassState
    <3>4. \A s : /\ PutsInto(s)' = PutsInto(s) /\ CopiesInto(s)' = CopiesInto(s) /\ LostCopies(s)' = LostCopies(s)
                 /\ Rewritten(s)' = Rewritten(s)
      BY <3>2 DEF PutsInto, CopiesInto, LostCopies, Rewritten
    <3>5. GarbageCounted'
      BY <2>i, <3>2, <3>4, NothingCounted
    <3> QED BY <2>i, <3>1, <3>3, <3>4, <3>5 DEF GarbageInv
  <2> QED BY <2>1, <2>2
<1>3. GarbageInv => GarbageCounted
  BY DEF GarbageInv
<1> QED BY <1>1, <1>2, <1>3, PTL DEF Spec
=============================================================================
