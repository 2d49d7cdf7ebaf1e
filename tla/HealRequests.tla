---------------------------- MODULE HealRequests ----------------------------
(***************************************************************************)
(* What the heal queue promises its callers (crates/ozd-app/src/pool.rs):  *)
(* a key that was asked for stays asked for, at the highest importance     *)
(* anybody gave it, until a repair of the key has succeeded.  The one      *)
(* exception is overflow: with more than Cap keys outstanding a request    *)
(* may be lost.                                                            *)
(***************************************************************************)
EXTENDS Integers, FiniteSets

CONSTANTS Keys, Prios, Cap

VARIABLES
  req,     \* key -> importance of its outstanding request, 0: none
  fixed    \* keys whose repair has succeeded and is about to be recorded

vars == <<req, fixed>>

Init == req = [k \in Keys |-> 0] /\ fixed = {}

Lowered(k) == \E p \in 0 .. req[k] : req' = [req EXCEPT ![k] = p]

Ask(k, p) == req[k] < p /\ req' = [req EXCEPT ![k] = p] /\ UNCHANGED fixed

Fix(k) == req[k] # 0 /\ fixed' = fixed \cup {k} /\ UNCHANGED req

\* What remains of k's request is one that came in during the repair.
Serve(k) == k \in fixed /\ fixed' = fixed \ {k} /\ Lowered(k)

Lose(k) ==
  /\ Cardinality({j \in Keys : req[j] # 0}) > Cap
  /\ Lowered(k) /\ UNCHANGED fixed

Next == \E k \in Keys : (\E p \in Prios : Ask(k, p)) \/ Fix(k) \/ Serve(k) \/ Lose(k)

Spec == Init /\ [][Next]_vars
=============================================================================
