SPECIFICATION Spec
CONSTANTS
  Rows = {r1, r2}
  NoRow = NoRow
  Requests = {q1}
  ItemCount = 2
  MaxEnqueues = 1
  MaxCancels = 1
  MaxFailures = 0
  MaxLapses = 0
  MaxClosers = 1
SYMMETRY Symmetry
CHECK_DEADLOCK FALSE
PROPERTIES
  CancelSparesSending
