CONSTANTS
  Makers = 2
  Spares = 1
  TxCount = 2
  Confirms = 1
  Attempts = 2
  Protocols = {"Legacy"}
  Payments = {FALSE}
  Backlogs = {FALSE}
SPECIFICATION Spec
CHECK_DEADLOCK FALSE
INVARIANT SubstitutedUnfunded
