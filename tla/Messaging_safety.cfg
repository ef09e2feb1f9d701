SPECIFICATION MessagingSpec
CONSTANTS
  Rows = {r1}
  NoRow = NoRow
  Workers = {w1, w2}
  Sessions = {s1}
  MaxAttempts = 2
  OperatorOps = {"cancel", "retry", "release", "replay", "deactivate"}
  LatestEnd = "live"
  SerialMaintenance = TRUE
  MaxFaults = 1
  MaxOps = 2
  AgingBound = 8
  Parts = {"queue", "limiter", "policy", "admission", "unit", "polling", "events"}
  BucketCount = 3
  SendLists <- Lists
  Window = 2
  MaxLimit = 2
  MaxLostExpiries = 1
  MaxBase = 3
  MaxCap = 9
  MaxBudget = 4
  Asked = {0, 1, 7}
  Callers = {q1, q2}
  Keys = {k1}
  NoKey = NoKey
  Prints = {p1, p2}
  PolicyLimit = 1
  MaxSends = 3
  MaxRevivals = 1
  MaxAborts = 1
  Units = {1, 2, 3}
  NoUnit = 0
  Processes = {"api", "worker"}
  Home <- HomeOf
  LockTimeout = 2
  LockWait = 1
  MaxOutages = 1
  MaxMishaps = 1
  PolledBots = {1, 2}
  Updates <- TwoBots
  MaxDeaths = 1
  MaxSwitches = 1
  Pages = {"p1", "p2"}
  MaxEvents = 4
  MaxRestarts = 1
CHECK_DEADLOCK FALSE
INVARIANTS
  MessagingTypeOK
  WorkerExclusion
  StatusTellsDelivery
  DuplicatesExplained
  LimitsHold
  RetriesStayInBounds
  RequestsExplained
  UnitsOfWorkHold
  
  
  NoEventPassedOver
PROPERTIES
  EndsAreFinal
  ImplementsContract
  RetryAfterHonoured
