SPECIFICATION FairSpec
CONSTANTS
  t1 = t1
  t2 = t2
  p1 = p1
  p2 = p2
  Tasks <- TwoTasks
  Pollers <- OnePoller
  Suno <- OnlyT2
  Realtime <- OneTask
  PerCall <- OneTask
  Limited <- NoTasks
  Estimates = {1}
  Prices = {1}
  MaxFaults = 1
  MaxCrashes = 0
  MaxBulk = 1
  MaxRepeats = 1
  MaxFetches = 1
INVARIANT SunoRefundedOnce
PROPERTY TasksEnd
CONSTRAINT TwoIncidents
