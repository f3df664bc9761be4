SPECIFICATION MCSpec
CONSTANTS
  Sessions = {"s", "t"}
  Restarts = {"r"}
  MaxMessages <- Messages1
  ServerEnvironment <- SomeVariables
  Colors = {"red"}
  Base = 3
  LongestName = 2
INVARIANTS
  TypeOK
  ConsoleFaithful
  LabelTells
  StartSound
  StringsAsMeant
  WrittenIsRead
PROPERTY
  MessagesShown
CHECK_DEADLOCK FALSE
