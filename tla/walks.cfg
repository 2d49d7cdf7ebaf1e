SPECIFICATION CarFairSpec
CONSTANTS
  NK = 4
  N = 2
  Lo = 2
  Hi = 4
  Batch = 1
  Admins = {a1, a2}
  Stores <- MCStores
  Nulls <- MCNulls
  Events = {"resilver", "migrate", "run_scrub", "export", "s3", "migrate_loop", "scrub_loop", "import", "add", "remove", "error", "crash"}
  Budgets <- MCBudgets
  Archives <- MCArchives
  Workers = {t1, t2}
  ChanCap = 1
INVARIANT PassExact
INVARIANT CursorTrailsWork
INVARIANT ReportAddsUp
PROPERTY PassesComeRound
PROPERTY ImportReturns
CHECK_DEADLOCK FALSE
