SPECIFICATION Spec
CONSTANTS
  Rows = {r1, r2, r3, r4}
  NoRow = NoRow
  Requests = {q1}
  ItemCount = 2
  MaxEnqueues = 2
  MaxCancels = 1
  MaxFailures = 1
  MaxLapses = 1
  MaxClosers = 1
SYMMETRY Symmetry
CHECK_DEADLOCK FALSE
INVARIANTS
  TypeOK
  CancelStopsUnstarted
  BatchSpeaksForItems
  TargetSentOncePerEnqueue
  AcceptedOncePerLapse
  ForgottenRowsExplained
