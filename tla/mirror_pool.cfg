SPECIFICATION FairSpec
CONSTANTS
  N = 3
  Rankings <- MCRankings
  R = 2
  Quorum = 2
  Bodies = {b1, b2}
  None = None
  Bad = Bad
  Clients = {c1, c2}
  Healers = {h1}
  Events = {"put", "delete", "lookup", "repair", "flip", "move", "rot"}
  Budgets <- MCBudgets
INVARIANT BodiesSound
INVARIANT NothingOverlooked
INVARIANT CopiesAgree
PROPERTY HandoffHeals
CHECK_DEADLOCK FALSE
