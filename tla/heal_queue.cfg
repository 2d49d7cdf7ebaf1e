SPECIFICATION FairSpec
CONSTANTS
  k1 = k1  k2 = k2  k3 = k3  d1 = d1  d2 = d2
  Keys = {k1, k2, k3}
  Disks = {d1, d2}
  TargetsOf <- MCTargets
  Prios = {1, 3}
  Cap = 2
  Parallelism = 2
  MaxPerShard = 1
  MaxBatch = 2
  MaxAsks = 3
  MaxTroubles = 1
INVARIANT QueueSound
INVARIANT Bulkhead
PROPERTY KeepsRequests
PROPERTY LoneRequestServed
CHECK_DEADLOCK FALSE
