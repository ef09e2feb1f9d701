SPECIFICATION FairProgressSpec
CONSTANTS
  Rows = {r1}
  NoRow = NoRow
  Workers = {w1, w2}
  Sessions = {s1}
  MaxAttempts = 2
  OperatorOps = {"cancel", "retry", "release"}
  LatestEnd = "live"
  SerialMaintenance = TRUE
  MaxFaults = 1
  MaxOps = 1
  AgingBound = 8
  Parts = {"queue", "limiter", "unit", "polling"}
  BucketCount = 2
  SendLists <- Lists
  Window = 2
  MaxLimit = 2
  MaxLostExpiries = 1
  Units = {1, 2}
  NoUnit = 0
  Processes = {"api", "worker"}
  Home <- HomeOf
  LockTimeout = 2
  LockWait = 1
  MaxOutages = 1
  MaxMishaps = 1
  PolledBots = {1, 2}
  Updates <- TwoBots
  MaxDeaths = 1
  MaxSwitches = 0
CHECK_DEADLOCK FALSE
PROPERTIES
  QueuedRowsSettle
  FullBucketsReopen
  WaitingEnds
  MembershipsAreFound
