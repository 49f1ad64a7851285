CONSTANTS
  Swaps = {t1}
  Taproot = {t1}
  Conns = {c1, c2}
  Beats = {b1}
  NumTx = 2
  MaxSets = 1
  MaxSwaps = 1
  None = None
SPECIFICATION FairSpec
PROPERTIES SlotReleased 
CHECK_DEADLOCK FALSE
