SPECIFICATION FairSpec
CONSTANTS
  Rebuilder = {r1, r2}
  Other = {o1}
  MaxIdent = 2
  Reuse = FALSE
  MaxRemovals = 0
  MaxFaults = 1
  MaxHelpers = 2
  Retries = 2
CHECK_DEADLOCK FALSE
PROPERTIES
  WaitsEnd
  ExitEnds
