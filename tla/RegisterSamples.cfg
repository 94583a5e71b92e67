SPECIFICATION Spec
CONSTANTS
  Word = 4
  Limits <- MCLimits
  Scale = 3
INVARIANTS LimitsAsGiven NoWrongSample SignedClassified
CHECK_DEADLOCK FALSE
