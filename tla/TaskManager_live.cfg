SPECIFICATION FairSpec
CONSTANTS
  None = None
  Tasks = {"down", "make"}
  Workers = {"w1", "w2"}
  Pools = {"slow"}
  PoolOf <- AllSlow
  WPool <- TwoWorkers
  QueueCap = 1
  MaxRetry <- RetryDown
  Broken = {"make"}
  Cancellable = {}
  Deletable = {"down"}
  MaxFaults = 0
  MaxCrashes = 1
PROPERTIES
  Converges
