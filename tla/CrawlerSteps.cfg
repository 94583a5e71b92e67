SPECIFICATION Spec
CONSTANTS
  Volts = Volts
  Amps = Amps
  East = East
  West = West
  NaN = NaN
  ReportGenerator = ReportGenerator
  LogRotator = LogRotator
  Configs <- MCConfigs
  Measures <- MCMeasures
  Servers <- MCServers
  SamplingPeriod <- MCSampling
  ReportingPeriod = 2
  LogRotationPeriod = 3
  LogPath = FALSE
  MaxCost <- MCCost
  ReadResults = {"regular", "read_failure"}
  WriteOutcomes = {"written", "truncated"}
  RawReported = {}
  Values = {1}
  Minute = 2
  Second = 1
  MaxStart = 1
  MaxClock = 4
  MaxSteps = 1
INVARIANTS AllOrNothing EveryCallCounted ReportsKept
