SPECIFICATION Spec
CONSTANTS
  u1 = u1
  dev = dev
  ghost = ghost
  NoUser = NoUser
  Names <- MCNames
  Accounts <- MCAccounts
  AccountRole <- MCAccountRole
  MinVersion = 1
  PeerVersions = {1}
  Conns = {k1}
  ThrowingRequests = {"IOCopyFile"}
  Asked <- Concurrent
  MaxAsked = 1
  MaxWrong = 2
INVARIANTS
  LoggedMeansAccepted
CHECK_DEADLOCK FALSE
