SPECIFICATION FairSpec
CONSTANTS
  Parts = {"throttle", "rate", "latency", "gateway", "snapshots"}
  TPS = 2
  MaxTime = 3
  BgMax = 10
  BgMin = 5
  Busy = 0
  BgTasks = {g1, g2}
  Chunks = {7}
  FgOps = 2
  Reloads <- MCReloads
  MaxReloads = 1
  MaxPanics = 2
  MaxRps = 2
  Ips = {i1, i2}
  Callers = {q1, q2}
  CleanEvery = 2
  IdleLimit = 2
  MaxRequests = 5
  Window = 2
  Threads = {t1, t2}
  MaxSamples = 2
  LatTime = 5
  GKeys = {"k1", "k2"}
  Bodies = {"b0", "b1", "b2"}
  Length <- MCLength
  ObMin = 2
  Conns = {c1, c2}
  Disks = 2
  Headers <- MCHeaders
  GEvents = {"put", "get", "delete", "fail", "stop"}
  GBudgets <- MCGBudgets
  SShards = 2
  MaxSeg = 2
  Calendars <- MCCalendars
  Nonces = {0, 1}
  Keeps = {1, 2}
  Requests = {a1, a2}
  SEvents = {"create", "delete", "old", "append", "rotate", "gc", "fail"}
  SBudgets <- MCSBudgets
INVARIANT Paced
INVARIANT LimitsEachAlone
INVARIANT WindowSound
INVARIANT RangesSound
INVARIANT DrainFlushesAll
INVARIANT SnapshotComplete
INVARIANT RetentionKeepsNewest
PROPERTY DrainEnds
CHECK_DEADLOCK FALSE
