SPECIFICATION FairSpec
CONSTANTS
  u1 = u1
  dev = dev
  ghost = ghost
  c1 = c1
  c2 = c2
  NoUser = NoUser
  NoConn = NoConn
  Names <- MCNames
  Accounts <- MCAccounts
  AccountRole <- MCAccountRole
  MinVersion = 1
  Clients = {c1}
  ClientVersion <- Current
  Conns = {k1}
  ThrowingRequests = {"RunSyscmd"}
  Commands <- Everyday
  MaxWrong = 2
PROPERTIES
  CommandEnds
CHECK_DEADLOCK FALSE
