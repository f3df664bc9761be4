SPECIFICATION FairSpec
CONSTANTS
  u1 = u1
  dev = dev
  ghost = ghost
  c1 = c1
  c2 = c2
  NoUser = NoUser
  NoConn = NoConn
  Names <- MCNames
  Accounts <- MCAccounts
  AccountRole <- MCAccountRole
  MinVersion = 1
  Clients = {c1}
  ClientVersion <- Current
  Conns = {k1, k2}
  ThrowingRequests = {"RunSyscmd"}
  Commands <- Everyday
  MaxWrong = 1
INVARIANTS
  TypeOK
  OneOutstanding
  AnswerOwed
  BelievedUser
PROPERTIES
  AnsweredCommandEnds
CHECK_DEADLOCK FALSE
