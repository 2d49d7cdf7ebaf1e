------------------------------ MODULE Sorting -------------------------------
(***************************************************************************)
(* sort_by, sort_unstable and BTreeMap: the elements of a finite set in an *)
(* order, as the placement (crates/ozd-app/src/placement.rs), the disk-    *)
(* slow monitor (diskslow.rs) and the listings of engine and pool (pool.rs)*)
(* use them.  The order is total, so the place of an element is given by   *)
(* how many come before it.                                                *)
(***************************************************************************)
EXTENDS Naturals, FiniteSets, Sequences

Sorted(S, Before(_, _)) ==
  [i \in 1 .. Cardinality(S) |-> CHOOSE x \in S : Cardinality({y \in S : Before(y, x)}) = i - 1]
=============================================================================
