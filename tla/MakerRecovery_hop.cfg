CONSTANTS
  TOut = 3
  Step = 20
  Reaction = 10
  Lag = 1
  Delay = 2
  MaxHeight = 26
SPECIFICATION Spec
INVARIANT HopAtomic
CHECK_DEADLOCK FALSE
