SPECIFICATION Spec
CONSTANTS
  u1 = u1
  dev = dev
  ghost = ghost
  NoUser = NoUser
  Names <- MCNames
  Accounts <- MCAccounts
  AccountRole <- MCAccountRole
  MinVersion = 1
  PeerVersions = {1}
  Conns = {k1, k2}
  ThrowingRequests = {}
  Asked <- Concurrent
  MaxAsked = 2
  MaxWrong = 3
INVARIANTS
  CountsExact
  ShutdownStops
SYMMETRY ConnSymmetry
CHECK_DEADLOCK FALSE
