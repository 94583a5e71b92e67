SPECIFICATION Spec
CONSTANTS
  Word = 4
  Limits <- MCLimits
  Scale = 3
INVARIANTS UnsignedClassified
CHECK_DEADLOCK FALSE
