---------------------------- MODULE MCMirrorPool ----------------------------
(* Three shards, two replicas; in the second ranking the best shard is      *)
(* Faulted.  Each budget is one scenario: overwrites and a scrub while      *)
(* shards fail; lookups while copies move; deletes; puts that lose shards.  *)
EXTENDS MirrorPool, TLC

MCRankings == {<<1, 2, 3>>, <<2, 3>>}
Budget(pu, de, lo, re, fl, mo, ro) ==
  [put |-> pu, delete |-> de, lookup |-> lo, repair |-> re, flip |-> fl, move |-> mo, rot |-> ro]
MCBudgets ==
  {Budget(2, 0, 0, 1, 0, 0, 1), Budget(1, 0, 0, 1, 1, 0, 1), Budget(1, 0, 1, 0, 2, 1, 0), Budget(1, 1, 0, 1, 1, 0, 0),
   Budget(2, 1, 0, 0, 0, 0, 0), Budget(1, 1, 0, 0, 2, 0, 0), Budget(2, 0, 0, 0, 2, 0, 0)}
=============================================================================
