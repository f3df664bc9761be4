SPECIFICATION MCSpec
CONSTANTS
  a = a
  b = b
  Sessions = {a, b}
  Sizes = {0, 1, 2, 3, 4}
  OriginalSize = 3
  ClientBuffer <- Buffers
  MaxBuffer = 4
  MaxTransfers = 4
  Paths <- Touched
  Contents = {"one", "two"}
  ServerTrees <- Nothing
  LocalTrees <- Doubled
  Inputs <- Typed
  MaxChanges = 0
INVARIANT
  UploadTakesInput
CHECK_DEADLOCK FALSE
