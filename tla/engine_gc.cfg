SPECIFICATION Spec
CONSTANTS
  k1 = k1  k2 = k2  a1 = a1  a2 = a2  b1 = b1
  Keys = {k1, k2}
  BodyOf <- MCBodyOf
  Small = {}
  None = None
  Putters = {p1, p2}
  Readers = {}
  Collectors = {g1}
  Loops = {g1}
  Evictors = {}
  MaxSegId = 1
  SegMax = 2
  FsyncItems = 2
  RatioNum = 1
  RatioDen = 2
  SweepEvery = 2
  MaxKills = 0
  MaxPowerLosses = 0
  MaxIoErrors = 0
INVARIANT RowsReadable
INVARIANT GarbageCounted
PROPERTY GcKeepsBodies
SYMMETRY PutterSymmetry
CHECK_DEADLOCK FALSE
