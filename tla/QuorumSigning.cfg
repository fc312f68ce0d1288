SPECIFICATION Spec
CONSTANTS
  n1 = n1 n2 = n2 n3 = n3 n4 = n4
  m1 = m1 m2 = m2 id1 = id1 q1 = q1 t1 = t1 t2 = t2
  Honest = {n1, n2}
  Faulty = {n3}
  Quorums = {q1}
  MembersOf <- PairN1N3
  Threshold <- Threshold2
  Ids = {id1}
  Msgs = {m1, m2}
  QuorumsFor <- AnyQuorum
  RecoveryMembers = 2
  RecoveryOrder <- OrderN1N3
  Threads = {t1, t2}
  CallersOf <- AnyThread
  ReSignIds = {id1}
  DiffIds = {}
  TruncIds = {id1}
  MaxCrashes = 2
  Lossy = TRUE
  SessionsTimeOut = TRUE
  RecordsAge = TRUE
  None = None
INVARIANTS TypeOK VoteOnce NoConflictingRecSigs
PROPERTY Refines
SYMMETRY Symmetry
CONSTRAINT VotesBind
CHECK_DEADLOCK FALSE
