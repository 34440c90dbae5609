SPECIFICATION FairSpec
CONSTANTS
  None = None
  Exec = {"stdout"}
  Clients = {"c1"}
  Leavers = {"c1"}
  MaxLines = 2
  MaxEntries = 3
  SubBuffer = 2
  Abandons = TRUE
  Cancels = TRUE
  MaxFaults = 1
CHECK_DEADLOCK FALSE
INVARIANTS LinesInOrder StreamsComplete
PROPERTIES StreamsEnd
