SPECIFICATION Spec
CONSTANTS
  Rebuilder = {r1, r2}
  Other = {o1}
  MaxIdent = 2
  Reuse = TRUE
  MaxRemovals = 1
  MaxFaults = 0
  MaxHelpers = 2
  Retries = 2
SYMMETRY Symmetry
CHECK_DEADLOCK FALSE
INVARIANTS
  OneHelperPerFile
  LockIsWanted
  TransactionsExclude
PROPERTIES
  RemovalIsSeen
  NeverCut
