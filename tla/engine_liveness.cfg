SPECIFICATION FairSpec
CONSTANTS
  k1 = k1  k2 = k2  a1 = a1  a2 = a2  b1 = b1
  Keys = {k1}
  BodyOf <- MCBodyOf
  Small = {a2}
  None = None
  Putters = {p1}
  Readers = {}
  Collectors = {g1}
  Loops = {g1}
  Evictors = {}
  MaxSegId = 2
  SegMax = 2
  FsyncItems = 1
  RatioNum = 1
  RatioDen = 2
  SweepEvery = 2
  MaxKills = 0
  MaxPowerLosses = 0
  MaxIoErrors = 1
PROPERTY DeadSegmentGoes
CHECK_DEADLOCK FALSE
