SPECIFICATION Spec
CONSTANTS
  MaxTxn = 2
  Faults = {"crash", "put manifest"}
  Observer = {}
  Attempts = 1
INVARIANTS
  NeverTorn
