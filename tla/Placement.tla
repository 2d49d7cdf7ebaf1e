----------------------------- MODULE Placement -----------------------------
(***************************************************************************)
(* RendezvousHrw (crates/ozd-app/src/placement.rs) for one key.  The code  *)
(* ranks a shard by -w / ln(h), w its free bytes and h the key's hash in   *)
(* (0, 1); Lot[s] stands for -1 / ln(h), the shard's lot for the key, in   *)
(* integers.                                                               *)
(***************************************************************************)
EXTENDS Integers, FiniteSets, Sequences, SequencesExt, Sorting

CONSTANTS
  N,         \* shards 1 .. N
  Lot,       \* the key's lot at each shard
  FillBlock  \* percentage from which a disk is no target (fill_block)

Shards == 1 .. N

ASSUME PlacementAssumption ==
  N \in Nat \ {0} /\ Lot \in [Shards -> Nat \ {0}] /\ FillBlock \in 1 .. 100

\* A topology maps a shard to its capacity and status.
Full(c) == c.total > 0 /\ 100 * (c.total - c.free) >= FillBlock * c.total
Eligible(t) == {s \in Shards : t[s].status # "Faulted" /\ ~ Full(t[s])}

\* Free bytes, a hundredth of them for a Suspect disk.
Weight(c) == (IF c.free > 0 THEN c.free ELSE 1) * (IF c.status = "Suspect" THEN 1 ELSE 100)
Score(t, s) == Weight(t[s]) * Lot[s]
\* sort_by is stable: of equal scores the lower shard comes first.
Before(t, a, b) == Score(t, a) > Score(t, b) \/ (Score(t, a) = Score(t, b) /\ a < b)

\* Mutant: the start of the list depends on the number of shards, as with a
\* hash modulo that number.
RankingModulo(t) ==
  LET q == Sorted(Eligible(t), LAMBDA a, b : a < b)
      k == IF q = << >> THEN 0 ELSE Lot[1] % Len(q)
  IN  SubSeq(q, k + 1, Len(q)) \o SubSeq(q, 1, k)

Ranking(t) == Sorted(Eligible(t), LAMBDA a, b : Before(t, a, b))
select(t, rf) == SubSeq(Ranking(t), 1, IF rf < Len(Ranking(t)) THEN rf ELSE Len(Ranking(t)))
=============================================================================
