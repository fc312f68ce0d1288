SPECIFICATION Spec
CONSTANTS
  r3 = r3
  a4 = a4
  a5 = a5
  a6 = a6
  d6 = d6
  n5 = n5
  n6 = n6
  u5 = u5
  b4 = b4
  b5 = b5
  Null = Null
  None = None
  Blocks = {r3, a4, a5, a6, d6, n5, n6, u5, b4, b5}
  Genesis = r3
  Parent <- MCParent
  Ancestors <- MCAncestors
  Height <- MCHeight
  Content <- MCContent
  Unsound = {u5}
  Commitments <- MCCommitments
  DkgInterval = 4
  MiningStart = 1
  MiningEnd = 2
  Readers = {"r"}
INVARIANTS
  TypeOK
  MinedIsOnChain
  BlocksFollowTheChain
  KnownStaysMineable
CHECK_DEADLOCK FALSE
