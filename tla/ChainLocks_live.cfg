SPECIFICATION FairSpec
CONSTANTS
  g = g
  a1 = a1
  a2 = a2
  b1 = b1
  b2 = b2
  Null = Null
  Genesis = g
  Blocks <- MCBlocks
  Parent <- MCParent
  Ancestors <- MCAncestors
  Clsigs <- MCFirstClsig
  Threads = {"net", "recsig"}
  OtherSubmitters = FALSE
  MaxSporkChanges = 2
  MaxRestarts = 0
PROPERTY EventuallyEnforced
