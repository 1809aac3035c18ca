SPECIFICATION Spec
CONSTANTS
  Caller = {c1, c2, c3}
  Workspace = {w1, w2}
  NoWorkspace = NoWorkspace
  Options = {o1, o2}
  NoOptions = NoOptions
  NoPending = NoPending
  MayUnwind = TRUE
SYMMETRY LaneSymmetry
INVARIANTS
  OneRunner
  WaitersShareOptions
  PendingIsOwned
