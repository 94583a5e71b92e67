SPECIFICATION Spec
CONSTANTS
  s1 = s1
  s2 = s2
  s3 = s3
  l1 = l1
  l2 = l2
  Servers = {s1, s2, s3}
  Lines = {l1, l2}
  Measures <- MCMeasures
  Server <- MCServer
  Shape <- MCShape
  Line <- MCLine
  answering_time <- MCanswering_time
  Second = 2
  DefaultTimeout = 2
  Delays = {0, 2, 6}
  MaxResends = 1
  MaxCalls = 3
INVARIANTS OwnAnswer RightServer FailsOnItsOwn BlocksNoLonger
CHECK_DEADLOCK FALSE
