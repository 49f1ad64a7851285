CONSTANTS
  Swaps = {s1}
  Taproot = {}
  Conns = {c1, c2}
  Beats = {}
  NumTx = 2
  MaxSets = 1
  MaxSwaps = 1
  None = None
SPECIFICATION Spec
INVARIANTS TypeOK EntryReclaimable FundedOnDisk OnlyAdmittedFunded
CHECK_DEADLOCK FALSE
SYMMETRY Symmetry
