---------------------------- MODULE MCCacheTier ----------------------------
(* Model values for CacheTier: k1 is overwritten, also by a body below min_size. *)
EXTENDS CacheTier, TLC

CONSTANTS k1, k2, a1, a2, b1

MCBodyOf == (k1 :> {a1, a2}) @@ (k2 :> {b1})
=============================================================================
