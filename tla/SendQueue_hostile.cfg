SPECIFICATION Spec
CONSTANTS
  Rows = {r1}
  NoRow = NoRow
  Workers = {w1, w2}
  Sessions = {s1}
  MaxAttempts = 2
  OperatorOps = {"cancel", "retry", "release", "replay", "deactivate"}
  LatestEnd = "stale"
  SerialMaintenance = FALSE
  MaxFaults = 1
  MaxOps = 1
  AgingBound = 1
SYMMETRY Symmetry
INVARIANTS
  NoOrphanedSending
  JournalTells
