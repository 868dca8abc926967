\* A worker that gave up while its supervisor runs.
CONSTANTS
  d1 = d1
  t1 = t1
  t2 = t2
  Dialers <- OneDialer
  Tasks <- TwoTasks
  StartAttempts = 2
  MinBackoff = 1
  MaxBackoff = 2
  MaxConns = 2
  MaxFaults = 1
  MaxDials = 0
CHECK_DEADLOCK FALSE
SPECIFICATION Spec
INVARIANT GaveUpMeansNeverUp
