SPECIFICATION Spec
CONSTANTS
  a = a
  b = b
  Sessions = {a, b}
  Role <- Roles
  PersoName <- Persos
  Drive <- ServerDrive
  Args <- Paths
  NewNames <- Typeable
  Names <- NamesUsed
  MaxDepth = 6
  MaxRequests <- Requests
INVARIANT
  TypeOK
PROPERTIES
  Confined
  UserFilesGuarded
  CreateKeepsContent
  ArrivesWhereAsked
CHECK_DEADLOCK FALSE
