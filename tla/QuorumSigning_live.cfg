SPECIFICATION FairSpec
CONSTANTS
  n1 = n1 n2 = n2 n3 = n3 n4 = n4
  m1 = m1 m2 = m2 id1 = id1 q1 = q1 t1 = t1 t2 = t2
  Honest = {n1, n2, n3}
  Faulty = {n4}
  Quorums = {q1}
  MembersOf <- OneQuorum
  Threshold <- Threshold3
  Ids = {id1}
  Msgs = {m1}
  QuorumsFor <- AnyQuorum
  RecoveryMembers = 2
  RecoveryOrder <- OrderN4N1
  Threads = {t1}
  CallersOf <- AnyThread
  ReSignIds = {}
  DiffIds = {}
  TruncIds = {}
  MaxCrashes = 0
  Lossy = FALSE
  SessionsTimeOut = FALSE
  RecordsAge = FALSE
  None = None
PROPERTY EventuallyRecovered
CHECK_DEADLOCK FALSE
