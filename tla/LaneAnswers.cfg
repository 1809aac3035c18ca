SPECIFICATION FairSpec
CONSTANTS
  Caller = {c1, c2, c3}
  Workspace = {w1}
  NoWorkspace = NoWorkspace
  Options = {o1}
  NoOptions = NoOptions
  NoPending = NoPending
  MayUnwind = FALSE
INVARIANTS
  ParkedHasRunner
PROPERTIES
  CallersAreAnswered
