SPECIFICATION Spec
CONSTANTS
  N = 4
  Rankings <- MCRankings
  R = 2
  K = 2
  M = 1
  Quorum = 3
  Bodies = {"b1", "b2"}
  Clients = {c1}
  Healers = {h1}
  Events = {"put", "get", "delete", "repair", "migrate", "flip", "move", "rot", "crash"}
  Budgets <- FaultBudgets
INVARIANT SurvivesFault
CHECK_DEADLOCK FALSE
