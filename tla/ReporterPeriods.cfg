SPECIFICATION Spec
CONSTANTS
  Volts = Volts
  Amps = Amps
  NaN = NaN
  Measures <- MCMeasures
  RawReported <- MCRawReported
  Values = {1}
  Instants <- MCInstants
  Minute = 60
  MaxCalls = 2
  MaxPeriods = 2
INVARIANTS TypeOK SamplesOnce TotalsChain
CHECK_DEADLOCK FALSE
