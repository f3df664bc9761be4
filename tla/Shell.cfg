SPECIFICATION MCSpec
CONSTANTS
  Languages = {"en", "fr", "notes"}
  Installed = {"en", "fr"}
  Entries = {"notes"}
  Words = {"a"}
  Strings = {"x"}
  FirstFile <- DeepFile
  LaterFiles <- FlatFiles
  MaxCommands = 3
  WatchedKeys <- Keys
  Environment <- OneVariableSet
  Longest = 5
INVARIANTS
  TypeOK
  HeaderAsRead
  LanguageOfSettings
  
  LineAsTyped
  FileAsWritten
PROPERTIES
  PrefixRestored
  NoTextLost
  LoadEnds
CHECK_DEADLOCK FALSE
