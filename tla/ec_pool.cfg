SPECIFICATION Spec
CONSTANTS
  N = 4
  Rankings <- MCRankings
  R = 2
  K = 2
  M = 1
  Quorum = 3
  Bodies = {"b1", "b2"}
  Clients = {c1, c2}
  Healers = {h1, h2}
  Events = {"put", "get", "delete", "repair", "migrate", "flip", "move", "rot", "crash"}
  Budgets <- MCBudgets
SYMMETRY ClientSymmetry
INVARIANT PiecesSound
INVARIANT StaysReadable
INVARIANT SurvivesOneLoss
CHECK_DEADLOCK FALSE
