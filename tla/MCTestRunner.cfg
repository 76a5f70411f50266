CONSTANTS
  MacroWord <- MacroWords
  BuiltInWord <- BuiltInWords
  Source <- Sources
  Script <- Scripts_
  Directory <- Directories

SPECIFICATION Spec

INVARIANTS
  TypeOK
  TokensInOrder
  NothingIsLost
  LongestTokens
  LinesLagByStrings
  ColumnsTell
  CommentsBracketed
  VerdictsAreOfTheScript
  ExitTellsVerdicts

PROPERTIES
  TestsEnd

CHECK_DEADLOCK FALSE
