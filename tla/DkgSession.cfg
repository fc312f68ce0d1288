SPECIFICATION Spec
CONSTANTS
  h1 = h1
  h2 = h2
  h3 = h3
  f1 = f1
  vv1 = vv1
  Honest = {h1, h2, h3}
  Faulty = {f1}
  Vvecs <- MCVvecs
  Own <- MCOwn
  Lies <- MCLies
  MinSize = 3
  BadVotes = 2
  BadConnections = {{}, {f1}}
  MaxSkew = 0
  MaxMissed = 1
INVARIANTS
  TypeOK
  QuorumCanSign
  DiesOnlyUnheard
  HonestStayValid
  Succeeds
PROPERTY
  MakesOneKey
CONSTRAINT OneFault
SYMMETRY OthersAlike
CHECK_DEADLOCK FALSE
