SPECIFICATION Spec
CONSTANTS
  k1 = k1  k2 = k2  a1 = a1  a2 = a2  b1 = b1
  Keys = {k1, k2}
  BodyOf <- MCBodyOfOne
  Small = {}
  None = None
  Putters = {p1}
  Readers = {r1}
  Collectors = {}
  Loops = {}
  Evictors = {e1}
  MaxSegId = 1
  SegMax = 1
  FsyncItems = 2
  RatioNum = 1
  RatioDen = 2
  SweepEvery = 2
  MaxKills = 1
  MaxPowerLosses = 1
  MaxIoErrors = 1
INVARIANT Inv
INVARIANT GetReturnsOwnBody
CHECK_DEADLOCK FALSE
