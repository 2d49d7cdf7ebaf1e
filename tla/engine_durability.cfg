SPECIFICATION MSpec
CONSTANTS
  k1 = k1  k2 = k2  a1 = a1  b1 = b1
  Keys = {k1}
  BodyOf <- MCBodyOf
  Small = {}
  None = None
  Putters = {p1}
  Readers = {r1}
  Collectors = {g1}
  Loops = {g1}
  Evictors = {}
  MaxSegId = 1
  SegMax = 2
  FsyncItems = 2
  RatioNum = 1
  RatioDen = 2
  SweepEvery = 2
  MaxKills = 0
  MaxPowerLosses = 1
  MaxIoErrors = 0
INVARIANT UnchangedRowIsLost
INVARIANT CopyStaysOnDisk
CHECK_DEADLOCK FALSE
