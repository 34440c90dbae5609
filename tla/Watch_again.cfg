SPECIFICATION WatchSpec
\* Deliveries are used up: a behaviour ends when there are none left.
CHECK_DEADLOCK FALSE
CONSTANTS
  Keys = {"url", "ttl"}
  Legal <- MCLegal
  Prints = {"x", "y"}
  People = {"root", "ann", "bob"}
  Clerks = {k1, k2}
  Lasting = {"root"}
  WatchMixes <- Returning
INVARIANT ToldOfEachRise
