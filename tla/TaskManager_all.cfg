SPECIFICATION Spec
CONSTANTS
  None = None
  Tasks = {"down", "make"}
  Workers = {"w1", "w2"}
  Pools = {"slow"}
  PoolOf <- AllSlow
  WPool <- TwoWorkers
  QueueCap = 1
  MaxRetry <- RetryDown
  Broken = {}
  Cancellable = {"make"}
  Deletable = {"down", "make"}
  MaxFaults = 1
  MaxCrashes = 1
INVARIANTS SingleCustody AtMostBudget NothingLost
PROPERTIES SuccessIsFinal ImplementsLedger
