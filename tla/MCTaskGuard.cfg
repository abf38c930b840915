SPECIFICATION Spec
CONSTANTS
  t1 = t1
  t2 = t2
  p1 = p1
  p2 = p2
  Tasks <- OneTask
  Pollers <- TwoPollers
  Suno <- NoTasks
  Realtime <- NoTasks
  PerCall <- NoTasks
  Limited <- OneTask
  Estimates = {1}
  Prices = {0,1,2}
  MaxFaults = 2
  MaxCrashes = 2
  MaxBulk = 0
  MaxRepeats = 0
  MaxFetches = 0
SYMMETRY PollerSymmetry
INVARIANT NoDoubleRefund
INVARIANT TasksBilledAsShown
INVARIANT TaskInv
PROPERTY TerminalStays
