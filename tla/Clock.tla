-------------------------------- MODULE Clock -------------------------------
(* Time as the limiters and windows of the daemon see it: ticks, TPS of them *)
(* to a second.                                                              *)
EXTENDS Integers, FiniteSetsExt

CONSTANTS TPS, MaxTime

ASSUME ClockAssumption == TPS \in Nat \ {0} /\ MaxTime \in Nat

VARIABLE now

ClockInit == now = 0
ClockTick == now < MaxTime /\ now' = now + 1
AtLeast(a, b) == IF a >= b THEN a ELSE b
AtMost(a, b) == IF a <= b THEN a ELSE b
CeilDiv(a, b) == (a + b - 1) \div b
=============================================================================
