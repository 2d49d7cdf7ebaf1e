---------------------------- MODULE EngineClaims ----------------------------
(***************************************************************************)
(* Accounting and liveness of the collector of DiskEngine.                 *)
(***************************************************************************)
EXTENDS DiskEngine

\* The records of segment s that are live, in flight, or remembered by a pass
\* as copies that lost their race.
KeysIn(s) == {k \in Keys : addr[k] # None /\ addr[k].seg = s}
PutsInto(s) == {p \in Putters : ppc[p] = "commit" /\ pat[p].seg = s}
CopiesInto(s) == {g \in Collectors : gpc[g] = "cas" /\ gat[g].seg = s}
LostCopies(s) == UNION {{g} \X (1 .. gorph[g][s]) : g \in Collectors}

\* A pass has chosen s as its victim.
Rewritten(s) ==
  \E g \in Collectors : gpc[g] \notin {"idle", "pick", "snap", "active", "list", "sweep", "dead"} /\ gvic[g] = s

\* Every record of a file is live, in flight, or counted as garbage exactly
\* once (bump_in of put, delete and of lost collector races), except in a
\* victim that is being rewritten.
GarbageCounted ==
  \A s \in files : ~Rewritten(s) =>
    Len(body[s]) = Cardinality(KeysIn(s)) + Cardinality(PutsInto(s)) + Cardinality(CopiesInto(s))
                   + Cardinality(LostCopies(s)) + discard[s]

\* What get(k) would answer from the index.
Body(k) == IF inline[k] # None THEN inline[k] ELSE IF addr[k] = None THEN None ELSE addr[k].body

\* The liveness test, the copy and the compare-and-set of gc_once together
\* never change what a key leads to, however puts, deletes and another pass
\* come in between: a stale copy never replaces a newer version.
GcKeepsBodies ==
  [][(\E g \in Collectors : Gc(g)) => \A k \in Keys : Body(k)' = Body(k)]_vars

-----------------------------------------------------------------------------
Referenced(s) == \E k \in Keys : addr[k] # None /\ addr[k].seg = s
Dead(s) == s \in Sealed(active) /\ ~Referenced(s)
LoopDead == \E g \in Loops : gpc[g] = "dead"

\* The bound on segment ids is reached: the next append of the model blocks.
IdsUsedUp == active = MaxSegId /\ Full

\* The daemon's background loop starts a pass at every tick.
FairSpec == Spec /\ \A g \in Collectors : WF_vars(Gc(g))

\* The sweep is the regular cleaner of leaked space (sweep_orphans): a sealed
\* file without references goes away, or is referenced again by a late
\* commit, as long as the background loop lives, however often it has to move
\* live records of other segments first.
DeadSegmentGoes ==
  \A s \in SegIds :
    Dead(s) ~> (s \notin files \/ Referenced(s) \/ LoopDead \/ IdsUsedUp)
=============================================================================
