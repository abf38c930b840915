SPECIFICATION Spec
CONSTANTS
  t1 = t1
  t2 = t2
  p1 = p1
  p2 = p2
  Tasks <- OneTask
  Pollers <- OnePoller
  Suno <- NoTasks
  Realtime <- OneTask
  PerCall <- NoTasks
  Limited <- NoTasks
  Estimates = {1}
  Prices = {1}
  MaxFaults = 0
  MaxCrashes = 0
  MaxBulk = 0
  MaxRepeats = 0
  MaxFetches = 2
INVARIANT RefundWithinCharge
