---------------------------- MODULE MCErasurePool ----------------------------
(* Four shards, 2 + 1 pieces; the second ranking is the first one with its    *)
(* best shard Faulted.  Each budget is one scenario.                          *)
EXTENDS ErasurePool, TLC

MCRankings == {<<1, 2, 3, 4>>, <<2, 3, 4>>}
Budget(pu, ge, de, re, mi, fl, mo, ro, cr) ==
  [put |-> pu, get |-> ge, delete |-> de, repair |-> re, migrate |-> mi, flip |-> fl, move |-> mo, rot |-> ro, crash |-> cr]
MCBudgets ==
  {Budget(0, 1, 0, 1, 1, 0, 0, 1, 1), Budget(1, 1, 0, 1, 0, 1, 0, 0, 0), Budget(1, 1, 1, 0, 0, 0, 0, 1, 0),
   Budget(2, 1, 0, 0, 0, 0, 0, 0, 0), Budget(0, 1, 0, 1, 1, 1, 0, 0, 0), Budget(1, 1, 0, 1, 0, 0, 1, 0, 0),
   Budget(1, 1, 0, 0, 1, 0, 0, 0, 0), Budget(1, 1, 0, 1, 0, 0, 0, 1, 0), Budget(0, 1, 1, 1, 0, 0, 0, 1, 0)}
FaultBudgets == {Budget(1, 1, 0, 0, 0, 1, 1, 0, 0)}
ClientSymmetry == Permutations(Clients) \cup Permutations(Healers)
=============================================================================
