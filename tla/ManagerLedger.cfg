SPECIFICATION Spec
CONSTANTS
  ka = ka
  kb = kb
  s1 = s1
  s2 = s2
  l1 = l1
  l2 = l2
  Key = {ka, kb}
  Slot = {s1, s2}
  NoSlot = NoSlot
  KeyOf <- TwoKeysKeyOf
  Loader = {l1, l2}
  LoaderKey <- TwoKeysLoaderKey
  Runner = {}
  Calls = {"unload"}
  Reader = {r1}
  Graph = {g1, g2, g3}
  Placeholder = Placeholder
  PinnedInConfig = {}
  Limit = 2
  Estimates = {1}
  MayUnwind = FALSE
  Sizes = {1, 2}
SYMMETRY TwoKeysSymmetry
INVARIANTS
  TypeOK
  ResidencyInv
  TombstoneIsBare
  LedgerExact
  HeldGraphsAreCharged
