CONSTANTS
  IntHalf = 8
  DoubleMax = 20
  ExitRange = 4
  HasOutputHandler = FALSE
  MaxScopes = 3
  Char <- MCChar
  Name <- MCName
  FunctionName <- MCFunctionName
  Statement <- MCStatement
  Expression <- MCExpression
  Document <- MCDocument

SPECIFICATION ReplSpec

INVARIANTS
  ReplTypeOK
  RunsLiveDocument
  LinesLeaveNothing

PROPERTIES
  FailedSessionIsSilent
  LinesEnd

CHECK_DEADLOCK FALSE
