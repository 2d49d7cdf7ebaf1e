------------------------------ MODULE Service -------------------------------
(***************************************************************************)
(* The parts of the daemon around the pool that share nothing but the      *)
(* process: a behaviour is one of a part, the others standing still, so    *)
(* that their state spaces add up.                                         *)
(***************************************************************************)
EXTENDS Throttle, RateLimit, LatencyWindow, Gateway, Snapshots

CONSTANT Parts

ASSUME ServiceAssumption == Parts \subseteq {"throttle", "rate", "latency", "gateway", "snapshots"}

VARIABLE part

vars == <<now, throttleVars, rateVars, latVars, gwVars, snapVars, part>>

\* A part that does not run keeps one of its initial states.
Init ==
  /\ part \in Parts
  /\ ClockInit /\ ThrottleInit /\ RateInit /\ LatInit /\ GatewayInit /\ SnapInit
  /\ part # "gateway" => gleft = CHOOSE b \in GBudgets : TRUE
  /\ part # "snapshots" => layout = "disk" /\ clock = (CHOOSE c \in Calendars : TRUE) /\ sleft = CHOOSE b \in SBudgets : TRUE

Next ==
  /\ UNCHANGED part
  /\ \/ part = "throttle" /\ ThrottleNext /\ UNCHANGED <<rateVars, latVars, gwVars, snapVars>>
     \/ part = "rate" /\ RateNext /\ UNCHANGED <<throttleVars, latVars, gwVars, snapVars>>
     \/ part = "latency" /\ LatNext /\ UNCHANGED <<throttleVars, rateVars, gwVars, snapVars>>
     \/ part = "gateway" /\ GatewayNext /\ UNCHANGED <<now, throttleVars, rateVars, latVars, snapVars>>
     \/ part = "snapshots" /\ SnapNext /\ UNCHANGED <<now, throttleVars, rateVars, latVars, gwVars>>

Spec == Init /\ [][Next]_vars

\* The shutdown task is woken every 50 ms; requests may hang.
FairSpec == Spec /\ WF_vars(part = "gateway" /\ Stopping /\ UNCHANGED <<now, throttleVars, rateVars, latVars, snapVars, part>>)
=============================================================================
