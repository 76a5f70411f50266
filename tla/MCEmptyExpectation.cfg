CONSTANTS
  MacroWord <- MacroWords
  BuiltInWord <- BuiltInWords
  Source <- TwinSources
  Script <- TwinScripts
  Directory <- TwinDirectories
SPECIFICATION Spec
INVARIANT EmptyExpectationsIgnored
CHECK_DEADLOCK FALSE
