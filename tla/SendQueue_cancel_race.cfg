SPECIFICATION Spec
CONSTANTS
  Rows = {r1}
  NoRow = NoRow
  Workers = {w1, w2}
  Sessions = {s1}
  MaxAttempts = 2
  OperatorOps = {"cancel"}
  LatestEnd = "live"
  SerialMaintenance = TRUE
  MaxFaults = 0
  MaxOps = 1
  AgingBound = 8
SYMMETRY Symmetry
PROPERTIES
  CancelledNotProcessed
