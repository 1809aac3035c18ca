SPECIFICATION DispatcherSpec
CONSTANTS
  ka = ka
  s1 = s1
  s2 = s2
  l1 = l1
  Key = {ka}
  Slot = {s1, s2}
  NoSlot = NoSlot
  KeyOf <- TwoSlotsKeyOf
  Loader = {l1}
  LoaderKey <- OneLoaderKey
  Runner = {r1}
  Calls = {"unload"}
  Reader = {}
  Graph = {g1, g2}
  Placeholder = Placeholder
  PinnedInConfig = {}
  Limit = 4
  Estimates = {1}
  MayUnwind = TRUE
  Sizes = {1, 5}
  Options = {}
  NoOptions = NoOptions
  NoPending = NoPending
SYMMETRY RunnerSymmetry
INVARIANTS
  UnregisteredIsBare
  RebuildingHasRunner
