SPECIFICATION MCSpec
CONSTANTS
  a = a
  b = b
  Sessions = {a, b}
  Sizes = {0, 1, 2, 3, 4}
  OriginalSize = 3
  ClientBuffer <- Buffers
  MaxBuffer = 4
  MaxTransfers = 4
  Paths <- Touched
  Contents = {"one", "two"}
  ServerTrees <- Others
  LocalTrees <- Others
  Inputs <- Typed
  MaxChanges = 2
INVARIANTS
  TypeOK
  ReadsWithinBuffer
  Aligned
  DownloadExact
  OneFileAtRisk
  SuccessComplete
PROPERTIES
  TransfersEnd
  UploadStored
CHECK_DEADLOCK FALSE
