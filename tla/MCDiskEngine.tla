---------------------------- MODULE MCDiskEngine ----------------------------
(* Model values for DiskEngine: two keys, bodies disjoint per key. *)
EXTENDS EngineClaims, TLC

CONSTANTS k1, k2, a1, a2, b1

MCBodyOf == (k1 :> {a1, a2}) @@ (k2 :> {b1})
MCBodyOfOne == (k1 :> {a1}) @@ (k2 :> {b1})
\* Concurrent put callers are interchangeable.
PutterSymmetry == Permutations(Putters)
=============================================================================
