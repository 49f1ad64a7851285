SPECIFICATION MarketSpec
CONSTANTS
  Makers = {"m1"}
  Relays = {"r1","r2"}
  BadAfter = 1
  MaxSeen = 2
  BookFaults = 3
  Schedules <- MCSchedules
  SendAmounts = {9, 37, 200}
  TxCounts = {1, 2}
  LockBase = 3
  LockStep = 2
  MinReaction = 2
  MiningFee = 1
  SettleFee = 2
  SplitFloor = 4
  DustFloor = 3
  Spendable = 110
  FeeBuffer = 5
  Liquidity = 80
  MaxMoney = 400
  Tip = 10
INVARIANTS MarketTypeOK NotBlamed SeenIsListed QuoteExact HonestAccepted 
PROPERTIES  CallersGetAnswers
CHECK_DEADLOCK FALSE
