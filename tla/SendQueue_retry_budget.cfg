SPECIFICATION Spec
CONSTANTS
  Rows = {r1}
  NoRow = NoRow
  Workers = {w1, w2}
  Sessions = {s1}
  MaxAttempts = 2
  OperatorOps = {}
  LatestEnd = "live"
  SerialMaintenance = TRUE
  MaxFaults = 2
  MaxOps = 0
  AgingBound = 8
SYMMETRY Symmetry
INVARIANTS
  RetryBudget
