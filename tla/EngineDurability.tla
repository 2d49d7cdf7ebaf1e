-------------------------- MODULE EngineDurability --------------------------
(***************************************************************************)
(* What DiskEngine keeps on the disk: history variables follow the present *)
(* version of each key through the copies the collector makes of it.       *)
(***************************************************************************)
EXTENDS DiskEngine

VARIABLES
  durable,   \* history: keys whose present version was once on disk
  copies,    \* history: the rows the present version of a key has had
  exposed,   \* history: keys of which a sweep or an eviction took a copy while
             \* their present row was not on disk
  presumed   \* history: <<segment, offset>> of the unsynced records that a
             \* restart after a kill takes for flushed

mvars == <<vars, durable, copies, exposed, presumed>>

\* A step gives key k a new version, or takes its version away.
Replaced(k) ==
  \/ addr[k] # None /\ addr'[k] = None
  \/ \E p \in Putters : ppc[p] = "commit" /\ ppc'[p] = "idle" /\ pkey[p] = k

OnDisk(row) == row # None /\ Readable(row) /\ row.off <= synced[row.seg]

\* The unlink at the end of a rewrite, the only one with a flush before it.
RewriteUnlinks == \E g \in Collectors : gpc[g] = "unlink" /\ gpc'[g] = "clear"

\* A sweep or an eviction unlinks a copy of a key whose row is not on disk.
Bares(k) ==
  /\ ~RewriteUnlinks
  /\ \E row \in copies[k] : row.seg \in files \ files'
  /\ ~OnDisk(addr[k])'

Track ==
  /\ durable' = {k \in Keys : (k \in durable /\ ~Replaced(k)) \/ OnDisk(addr[k])'}
  /\ copies' = [k \in Keys |-> (IF Replaced(k) THEN {} ELSE copies[k])
                               \cup (IF addr'[k] = None THEN {} ELSE {addr'[k]})]
  /\ exposed' = {k \in Keys : ~Replaced(k) /\ (k \in exposed \/ Bares(k))}
  /\ presumed' = IF kills' = kills THEN presumed
                 ELSE presumed \cup {<<active', o>> : o \in synced'[active'] + 1 .. Len(body'[active'])}

MInit ==
  /\ Init
  /\ durable = {} /\ copies = [k \in Keys |-> {}] /\ exposed = {} /\ presumed = {}
MNext == Next /\ Track
MSpec == MInit /\ [][MNext]_mvars

\* The present version of k was cut off from the promise by a race, a power
\* loss, an unlink without a flush, or a tail that only looked flushed.
Excused(k) ==
  \/ copies[k] \cap (raced \cup lost) # {}
  \/ k \in exposed
  \/ \E row \in copies[k] : <<row.seg, row.off>> \in presumed

\* "First the durability of the new copies, then unlink" (gc_once), and a
\* segment is synced before it is sealed (rotate): once a version of a key
\* has reached the disk, the disk holds a copy of it until it is replaced,
\* unless a power loss in the middle of a pass has taken the row's copy, or
\* sweep_orphans or evict_oldest_segment, which flush nothing, unlinked a copy
\* while the present one was unsynced, or a restart after a kill took the
\* unsynced copy for flushed (SegmentWriter::open).
CopyStaysOnDisk ==
  \A k \in durable : Visible(k) => (\E row \in copies[k] : OnDisk(row)) \/ Excused(k)

-----------------------------------------------------------------------------
(* The inductive invariant behind CopyStaysOnDisk. *)

\* A file holds nothing unsynced that the next flush() would not sync, but for
\* the records a restart presumed flushed.
FlushCovers ==
  \A s \in files : \A o \in 1 .. Len(body[s]) :
    o <= synced[s] \/ <<s, o>> \in presumed \/ (s = active /\ ~NothingToFlush)

\* Some copy is on the disk and is not about to be unlinked by a rewrite.
Safe(k) == \E row \in copies[k] : OnDisk(row) /\ \A g \in Collectors : ~(gpc[g] = "unlink" /\ gvic[g] = row.seg)

HistorySound ==
  /\ \A k \in Keys : copies[k] \subseteq Row /\ (addr[k] # None => addr[k] \in copies[k])
  /\ durable \subseteq {k \in Keys : addr[k] # None}

\* The inductive invariant of the durability promise: a flush leaves nothing
\* unsynced behind (SegmentWriter::flush, append_with_flags), and a durable
\* version has a copy on the disk that no pass is about to unlink.
DurableInv == HistorySound /\ FlushCovers /\ \A k \in durable : Visible(k) => Safe(k) \/ Excused(k)
=============================================================================
