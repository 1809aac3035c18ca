SPECIFICATION Spec
CHECK_DEADLOCK FALSE
CONSTANTS
  Slot = {s1, s2}
  Caller = {c1, c2}
  MaxPairs = 2
  MaxEdits = 1
  Cap = 1
  MayDisconnect = TRUE
SYMMETRY Symmetry
INVARIANTS
  WatcherIsRegistered
  TombstoneIsUnwatched
  ResidentIsWatched
  ShutdownStopsAll
