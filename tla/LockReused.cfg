SPECIFICATION Spec
CONSTANTS
  Rebuilder = {r1}
  Other = {o1, o2}
  MaxIdent = 1
  Reuse = TRUE
  MaxRemovals = 1
  MaxFaults = 0
  MaxHelpers = 1
  Retries = 2
CHECK_DEADLOCK FALSE
PROPERTIES
  RemovalIsAlwaysSeen
