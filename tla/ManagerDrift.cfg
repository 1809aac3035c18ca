SPECIFICATION Spec
CONSTANTS
  ka = ka
  kb = kb
  s1 = s1
  s2 = s2
  l1 = l1
  l2 = l2
  Key = {ka}
  Slot = {s1}
  NoSlot = NoSlot
  KeyOf <- OneSlotKeyOf
  Loader = {l1, l2}
  LoaderKey <- OneKeyLoaderKey
  Runner = {}
  Calls = {"evict_lru", "unload", "reset"}
  Reader = {}
  Graph = {g1, g2, g3}
  Placeholder = Placeholder
  PinnedInConfig = {}
  Limit = 2
  Estimates = {1}
  MayUnwind = FALSE
  Sizes = {1}
SYMMETRY OneKeySymmetry
INVARIANTS
  LedgerExact
