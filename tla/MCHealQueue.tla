---------------------------- MODULE MCHealQueue ----------------------------
(* Keys on overlapping disks in opposite orders, so that workers get in each *)
(* other's way.                                                              *)
EXTENDS HealQueue, TLC

CONSTANTS k1, k2, k3, d1, d2

MCTargets == (k1 :> <<d1, d2>>) @@ (k2 :> <<d2, d1>>) @@ (k3 :> <<d1, d2>>)
=============================================================================
