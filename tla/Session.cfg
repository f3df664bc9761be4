SPECIFICATION FairSpec
CONSTANTS
  u1 = u1
  dev = dev
  ghost = ghost
  NoUser = NoUser
  Names <- MCNames
  Accounts <- MCAccounts
  AccountRole <- MCAccountRole
  MinVersion = 1
  PeerVersions = {0, 1}
  Conns = {k1}
  ThrowingRequests = {"IOCopyFile"}
  Asked <- EveryKind
  MaxAsked = 3
  MaxWrong = 2
INVARIANTS
  AnswersInOrder
PROPERTY
  AbandonedSessionEnds
CHECK_DEADLOCK FALSE
