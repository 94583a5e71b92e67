SPECIFICATION LoggingSpec
CONSTANTS
  MaxOptions = 3
  MaxValue = 12
  Texts <- MCTexts
  num_rotated_files = 3
  MaxLines = 7
  MaxRotations = 4
INVARIANTS RunsAsAsked RefusedRightly LogKept
CHECK_DEADLOCK FALSE
