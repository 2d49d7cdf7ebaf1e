----------------------------- MODULE HealthFsm -----------------------------
(***************************************************************************)
(* The disk-health machine of crates/ozd-app/src/health.rs and what feeds  *)
(* it: the verdict on a zpool status (crates/ozd-zfs).  One instance per   *)
(* disk runs in the ZFS monitor and one in the disk-slow monitor (module   *)
(* Topology).                                                              *)
(***************************************************************************)
EXTENDS Integers

CONSTANTS SuspectAfter, RecoverAfter  \* drive_suspect_threshold, drive_recover_threshold

ASSUME ThresholdAssumption == SuspectAfter \in Nat \ {0} /\ RecoverAfter \in Nat \ {0}

Observations == {"Healthy", "Degraded", "Down"}
FsmStates == {"Online", "Suspect", "Faulted", "Returning"}
Statuses == {"Online", "Suspect", "Faulted"}

\* HealthFsm::new, and reset on the way into a state.
Reset(st) == [st |-> st, fails |-> 0, oks |-> 0]
NewFsm == Reset("Online")
Fsm == [st : FsmStates, fails : 0 .. SuspectAfter - 1, oks : 0 .. RecoverAfter]

\* Counters that reach their threshold take the machine to the next state.
Failed(f, next) == IF f.fails + 1 >= SuspectAfter THEN Reset(next) ELSE [f EXCEPT !.fails = @ + 1]
Succeeded(f) == IF f.oks + 1 >= RecoverAfter THEN NewFsm ELSE [f EXCEPT !.oks = @ + 1]

\* Mutant: a success does not clear the failures seen before it.
ObserveKeepsFails(f, obs) ==
  CASE f.st = "Online" /\ obs = "Healthy"  -> f
    [] f.st = "Online" /\ obs = "Degraded" -> Failed(f, "Suspect")
    [] f.st = "Online" /\ obs = "Down"     -> Reset("Suspect")
    [] f.st = "Suspect" /\ obs = "Healthy" -> Succeeded(f)
    [] f.st = "Suspect" /\ obs = "Degraded" -> [f EXCEPT !.oks = 0]
    [] f.st = "Suspect" /\ obs = "Down"    -> Failed([f EXCEPT !.oks = 0], "Faulted")
    [] f.st = "Faulted" /\ obs = "Healthy" -> [Reset("Returning") EXCEPT !.oks = 1]
    [] f.st = "Faulted" /\ obs # "Healthy" -> f
    [] f.st = "Returning" /\ obs = "Healthy" -> Succeeded(f)
    [] f.st = "Returning" /\ obs # "Healthy" -> Reset("Faulted")

\* Mutant: the good observations of a suspect disk are not counted.
ObserveForgetsOks(f, obs) ==
  IF f.st = "Suspect" /\ obs = "Healthy" THEN f ELSE ObserveKeepsFails(f, obs)

Observe(f, obs) ==
  CASE f.st = "Online" /\ obs = "Healthy"  -> [f EXCEPT !.fails = 0]
    [] f.st = "Online" /\ obs = "Degraded" -> Failed(f, "Suspect")
    [] f.st = "Online" /\ obs = "Down"     -> Reset("Suspect")
    [] f.st = "Suspect" /\ obs = "Healthy" -> Succeeded([f EXCEPT !.fails = 0])
    [] f.st = "Suspect" /\ obs = "Degraded" -> [f EXCEPT !.oks = 0]
    [] f.st = "Suspect" /\ obs = "Down"    -> Failed([f EXCEPT !.oks = 0], "Faulted")
    [] f.st = "Faulted" /\ obs = "Healthy" -> [Reset("Returning") EXCEPT !.oks = 1]
    [] f.st = "Faulted" /\ obs # "Healthy" -> f
    [] f.st = "Returning" /\ obs = "Healthy" -> Succeeded(f)
    [] f.st = "Returning" /\ obs # "Healthy" -> Reset("Faulted")

\* A disk on probe counts as Suspect.
StatusOf(f) == IF f.st = "Returning" THEN "Suspect" ELSE f.st

\* zpool status: the pool's state, and whether any device counted an error.
Zpools == [state : {"ONLINE"}, errors : BOOLEAN] \cup [state : {"DEGRADED", "UNAVAIL"}, errors : {TRUE}]
to_shard_status(z) ==
  CASE z.state = "ONLINE" -> IF z.errors THEN "Suspect" ELSE "Online"
    [] z.state = "DEGRADED" -> "Suspect"
    [] OTHER -> "Faulted"
\* The monitor's reading of it.
Observation(z) ==
  CASE to_shard_status(z) = "Online"  -> "Healthy"
    [] to_shard_status(z) = "Suspect" -> "Degraded"
    [] OTHER -> "Down"
=============================================================================
