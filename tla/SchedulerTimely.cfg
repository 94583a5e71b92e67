SPECIFICATION TimelySpec
CONSTANTS
  Report = Report
  Log = Log
  Meas = Meas
  Tasks <- MCTasks
  Interval <- MCTimelyInterval
  Mode <- MCMode
  MaxCost <- MCTimelyCost
  Second = 2
  MaxStart = 3
  MaxClock = 52
  MaxSteps = 0
  MaxCancels = 0
INVARIANTS NoBacklog
