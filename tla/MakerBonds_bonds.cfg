SPECIFICATION Spec
CONSTANTS
  NCoins = 2
  Timelock = 2
  MinLock = 1
  MaxLock = 3
  MaxHeight = 4
  MaxBonds = 2
  MaxFaults = 2
INVARIANTS TypeOK  ServedVerifies
CHECK_DEADLOCK FALSE
PROPERTIES MarkedIsRedeemed ExpiredRedeemed SwapWrites Announced
