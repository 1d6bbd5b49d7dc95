SPECIFICATION Spec
CONSTANTS
  CommandLines <- MCCommandLines
  Files <- MCFiles
  Numbers <- MCNumbers
  IntTexts <- MCIntTexts
INVARIANTS
  TypeOK
  RunsAsTold
  RefusesOnlyIncomplete
CHECK_DEADLOCK FALSE
