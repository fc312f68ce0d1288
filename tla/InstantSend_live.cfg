SPECIFICATION FairSpec
CONSTANTS
  t1 = t1
  t2 = t2
  t3 = t3
  g = g
  a1 = a1
  b1 = b1
  coin = coin
  None = None
  Txs = {t1, t2, t3}
  Inputs <- MCInputs
  TxAncestors <- MCTxAncestors
  Locks <- MCLock
  Blocks = {g, a1, b1}
  Genesis = g
  Ancestors <- MCAncestors
  TxOf <- MCTxOf
  MaxQueue = 1
  MaxEvictions = 1
PROPERTIES
  ChainLockPrevails
CHECK_DEADLOCK FALSE
