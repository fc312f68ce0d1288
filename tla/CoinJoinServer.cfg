SPECIFICATION FairSpec
CONSTANTS
  c1 = c1
  c2 = c2
  c3 = c3
  Clients <- ThreeClients
  MinParticipants = 2
  MaxParticipants = 3
  MaxSessions = 2
  None = None
INVARIANTS
  TypeOK
  MixesOneSession
  NobodyChargedEarly
PROPERTY
  Recovers
CHECK_DEADLOCK FALSE
