SPECIFICATION Spec
CONSTANTS
  Rows = {r1, r2, r3, r4}
  NoRow = NoRow
  Requests = {q1}
  ItemCount = 2
  MaxEnqueues = 2
  MaxCancels = 0
  MaxFailures = 0
  MaxLapses = 0
  MaxClosers = 1
SYMMETRY Symmetry
CHECK_DEADLOCK FALSE
INVARIANTS
  OneRowPerItem
