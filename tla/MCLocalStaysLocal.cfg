CONSTANTS
  IntHalf = 32
  DoubleMax = 200
  ExitRange = 16
  HasOutputHandler = TRUE
  Char <- MCChar
  Name <- MCName
  FunctionName <- MCFunctionName
  Statement <- MCStatement
  Expression <- MCExpression
  Document <- MCDocument
SPECIFICATION Spec
PROPERTY
  LocalStaysLocal
CHECK_DEADLOCK FALSE
