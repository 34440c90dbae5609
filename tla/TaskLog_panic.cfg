SPECIFICATION Spec
CONSTANTS
  None = None
  Exec = {"stdout"}
  Clients = {"c1"}
  Leavers = {"c1"}
  MaxLines = 1
  MaxEntries = 3
  SubBuffer = 3
  Abandons = FALSE
  Cancels = FALSE
  MaxFaults = 0
CHECK_DEADLOCK FALSE
INVARIANTS
  NoSendOnClosed
