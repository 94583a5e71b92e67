SPECIFICATION Spec
CONSTANTS
  Report = Report
  Log = Log
  Meas = Meas
  Tasks <- MCTasks
  Interval <- MCInterval
  Mode <- MCMode
  MaxCost <- MCCost
  Second = 2
  MaxStart = 2
  MaxClock = 7
  MaxSteps = 1
  MaxCancels = 1
INVARIANTS TypeOK OneChainPerTask NeverCancelled ReportsOnGrid
PROPERTIES KeepsTime EveryInstantServed
