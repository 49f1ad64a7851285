CONSTANTS
  Makers = 2
  Spares = 1
  TxCount = 1
  Confirms = 1
  Attempts = 2
  Protocols = {"Legacy", "Taproot"}
  Payments = {FALSE, TRUE}
  Backlogs = {TRUE}
SPECIFICATION Spec
CHECK_DEADLOCK FALSE
INVARIANTS TypeOK  KeysOnlyForIncoming 
PROPERTIES  Atomic SwapReturns 
