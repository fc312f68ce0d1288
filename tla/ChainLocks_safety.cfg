SPECIFICATION Spec
CONSTANTS
  g = g
  a1 = a1
  a2 = a2
  b1 = b1
  b2 = b2
  Null = Null
  Genesis = g
  Blocks <- MCBlocks
  Parent <- MCParent
  Ancestors <- MCAncestors
  Clsigs <- MCClsigs
  Threads = {"net", "recsig"}
  OtherSubmitters = FALSE
  MaxSporkChanges = 0
  MaxRestarts = 1
INVARIANTS TypeOK KnownBestIsIndexed AnnouncedStaysActive
PROPERTY NoLockedBlockDisconnected
