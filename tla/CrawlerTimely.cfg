SPECIFICATION TimelySpec
CONSTANTS
  Volts = Volts
  Amps = Amps
  East = East
  West = West
  NaN = NaN
  ReportGenerator = ReportGenerator
  LogRotator = LogRotator
  Configs <- MCTimelyConfigs
  Measures <- MCMeasures
  Servers <- MCServers
  SamplingPeriod <- MCTimelySampling
  ReportingPeriod = 3
  LogRotationPeriod = 3
  LogPath = TRUE
  MaxCost <- MCTimelyCost
  ReadResults = {"regular"}
  WriteOutcomes = {"written"}
  RawReported = {}
  Values = {1}
  Minute = 2
  Second = 2
  MaxStart = 3
  MaxClock = 20
  MaxSteps = 0
INVARIANTS ReportWindow
PROPERTIES SamplesReported
