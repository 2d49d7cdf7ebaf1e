------------------------- MODULE MCEngineDurability -------------------------
(* Model values for EngineDurability: two keys with one body each. *)
EXTENDS EngineDurability, TLC

CONSTANTS k1, k2, a1, b1

MCBodyOf == (k1 :> {a1}) @@ (k2 :> {b1})
=============================================================================
