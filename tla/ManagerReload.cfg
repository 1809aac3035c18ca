SPECIFICATION FairSpec
CONSTANTS
  ka = ka
  kb = kb
  s1 = s1
  s2 = s2
  l1 = l1
  l2 = l2
  Key = {ka}
  Slot = {s1, s2}
  NoSlot = NoSlot
  KeyOf <- OneKeyKeyOf
  Loader = {l1}
  LoaderKey <- OneLoaderKey
  Runner = {}
  Calls = {"evict_lru", "unload", "reset"}
  Reader = {r1}
  Graph = {g1, g2}
  Placeholder = Placeholder
  PinnedInConfig = {}
  Limit = 3
  Estimates = {1}
  MayUnwind = TRUE
  Sizes = {1}
INVARIANTS
  ResidencyInv
  LedgerExact
PROPERTIES
  LoadingEnds
  RetainedDrains
