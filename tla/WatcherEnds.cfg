SPECIFICATION FairSpec
CHECK_DEADLOCK FALSE
CONSTANTS
  Slot = {s1}
  Caller = {c1}
  MaxPairs = 1
  MaxEdits = 3
  Cap = 1
  MayDisconnect = TRUE
INVARIANTS
  TypeOK
PROPERTIES
  StoppedPairsEnd
  ChangesAreDispatched
