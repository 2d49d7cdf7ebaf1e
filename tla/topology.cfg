SPECIFICATION FairSpec
CONSTANTS
  SuspectAfter = 2
  RecoverAfter = 2
  N = 3
  Lot <- MCLot
  FillBlock = 95
  R = 2
  ZfsShards = {1}
  Starts <- MCStarts
  TTL = 1
  Total = 20
  Frees = {1, 10}
  Lats = {1, 16}
  Floor = 2
  Factor = 4
  MinSamples = 1
  Callers = {c1, c2}
  Recorders = {r1, r2}
  Events = {"fault", "fill", "hang", "call", "tick", "io", "zfs_health", "disk_slow"}
  Budgets <- MCBudgets
INVARIANT TopologySound
PROPERTY StaleAtMostTtl
PROPERTY Hysteresis
PROPERTY Recovers
CHECK_DEADLOCK FALSE
