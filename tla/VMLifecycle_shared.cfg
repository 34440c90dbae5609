SPECIFICATION Spec
CONSTANTS
  Calls = {c1, c2}
  Old = v0
  Names = {a, b}
  OldName = a
  SlowWorkers = 2
  Mixes <- CloneMixes
  TwoDisks = TRUE
  PoolListed = TRUE
  MaxFaults = 0
  None = None
CHECK_DEADLOCK FALSE
PROPERTY MountedKept
