SPECIFICATION FairSpec
CONSTANTS
  k1 = k1  k2 = k2  a1 = a1  a2 = a2  b1 = b1
  Keys = {k1}
  BodyOf <- MCBodyOf
  Small = {a2}
  None = None
  Bad = Bad
  Threads = {t1, t2}
  MaxBytes = 1
  BodySize = 1
  HeaderSize = 2
  SegRecs = 1
  MaxSegId = 2
  MaxRots = 1
  MaxErrors = 1
  MaxRestarts = 1
INVARIANT SingleFlight
INVARIANT AnswersWerePut
INVARIANT CacheAgrees
PROPERTY GetsReturn
CHECK_DEADLOCK FALSE
