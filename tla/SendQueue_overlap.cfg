SPECIFICATION Spec
CONSTANTS
  Rows = {r1}
  NoRow = NoRow
  Workers = {w1, w2}
  Sessions = {s1, s2}
  MaxAttempts = 2
  OperatorOps = {"release"}
  LatestEnd = "live"
  SerialMaintenance = FALSE
  MaxFaults = 1
  MaxOps = 2
  AgingBound = 8
SYMMETRY Symmetry
INVARIANTS
  WorkerExclusion
