SPECIFICATION Spec
CONSTANTS
  s1 = s1
  s2 = s2
  Ids <- MCIds
  Casts <- MCCasts
  None = None
INVARIANTS WsListed NothingHeld
PROPERTIES SessionsSettle
