SPECIFICATION Spec
CONSTANTS
  MaxTxn = 2
  Faults = {"crash", "step", "undo", "put snapshot", "committed"}
  Observer = {o1}
  Attempts = 2
INVARIANTS
  NeverTorn
  RecoveryRestores
  WindowIsMarked
  WindowIsWaitedOut
  ProbeIsRight
