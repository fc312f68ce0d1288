SPECIFICATION Spec
CONSTANTS
  i = i
  m1 = m1
  m2 = m2
  None = None
  Ids = {i}
  Sigs <- MCSigs
  Threads = {"worker", "isman"}
  Work <- MCWork
  DiffIds = {i}
  MaxAge = 1
  MaxTime = 2
CONSTRAINTS VotesApart FewOvertaken
INVARIANTS TypeOK Indexed CacheCoherent
PROPERTIES VoteKeptForMaxAge KeptForMaxAge
