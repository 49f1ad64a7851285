CONSTANTS
  Swaps = {s1}
  Taproot = {}
  Conns = {c1}
  Beats = {}
  NumTx = 1
  MaxSets = 1
  MaxSwaps = 1
  None = None
SPECIFICATION Spec
INVARIANT DiscardSafe
CHECK_DEADLOCK FALSE
