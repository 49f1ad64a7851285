CONSTANTS
  Swaps = {s1}
  Taproot = {}
  Conns = {c1}
  Beats = {b1}
  NumTx = 1
  MaxSets = 1
  MaxSwaps = 1
  None = None
SPECIFICATION Spec
INVARIANT ReleasedUnfunded
CHECK_DEADLOCK FALSE
