SPECIFICATION Spec
CONSTANTS
  CommandLines <- MCCommandLines
  Files <- MCFiles
  Numbers <- MCNumbers
  IntTexts <- MCIntTexts
INVARIANT TypeAsConfigured
CHECK_DEADLOCK FALSE
