CONSTANTS
  o1 = o1
  o2 = o2
  o3 = o3
  s1 = s1
  s2 = s2
  a = a
  b = b
  c = c
  NoTx = NoTx
  Idle = Idle
  Outpoints = {o1, o2, o3}
  Scripts = {s1, s2}
  Txs = {a, b, c}
  Spends <- MCSpends
  Wallets <- MCWallets
  Backends = {"core", "electrum"}
  Cap = 1
  MaxFaults = 2
  MaxCmds = 1
  MaxFeed = 3
SPECIFICATION Spec
INVARIANTS TypeOK WatchedIsHeld NeverDeaf  CoreCaughtUp
  
CHECK_DEADLOCK FALSE
