SPECIFICATION DispatcherSpec
CONSTANTS
  ka = ka
  s1 = s1
  s2 = s2
  l1 = l1
  Key = {ka}
  Slot = {s1}
  NoSlot = NoSlot
  KeyOf <- OneSlotKeyOf
  Loader = {l1}
  LoaderKey <- OneLoaderKey
  Runner = {r1, r2}
  Calls = {"reset", "watch"}
  Reader = {}
  Graph = {g1, g2}
  Placeholder = Placeholder
  PinnedInConfig = {}
  Limit = 9
  Estimates = {1}
  MayUnwind = FALSE
  Sizes = {1}
  Options = {}
  NoOptions = NoOptions
  NoPending = NoPending
SYMMETRY RunnerSymmetry
INVARIANTS
  ResetStaysReset
PROPERTIES
  ImplementsLane
