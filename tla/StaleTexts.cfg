SPECIFICATION MCSpec
CONSTANTS
  Languages = {"en", "fr", "notes"}
  Installed = {"en", "fr"}
  Entries = {"notes"}
  Words = {"a"}
  Strings = {"x", "y"}
  FirstFile <- FlatFiles
  LaterFiles <- FlatFiles
  MaxCommands = 2
  WatchedKeys <- Keys
  Environment <- OneVariableSet
  Longest = 5
PROPERTY
  TextOfFile
CHECK_DEADLOCK FALSE
