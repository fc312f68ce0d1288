SPECIFICATION FairSpec
CONSTANTS
  n1 = n1 n2 = n2 s1 = s1 s2 = s2 s3 = s3
  Nodes = {n1, n2}
  Signers = {s1, s2, s3}
  KeySets <- MCKeySets
  MinKeys <- MCMinKeys
  KeyOf <- MCKeyOf
  Readers = {1}
  HomeOf <- MCHomeOf
  Values = {1, 9}
  Default = 9
  MaxTime = 2
  MaxMessages = 3
  MaxRestarts = 1
  None = None
INVARIANTS TypeOK OneMajority CachedValueIsMajority OnlyOvertakenGoStale
PROPERTY EventuallyAgree
CHECK_DEADLOCK FALSE
