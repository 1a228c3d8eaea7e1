SPECIFICATION FairSpec
CONSTANTS
  w1 = w1
  j1 = j1
  j2 = j2
  Notes = {x1, x2}
  Procs = {w1, j1}
  Jobs = {j1}
  Limit = 1
  MaxCalls = 2
  MaxFaults = 0
PROPERTY QueuedIsRetired
CHECK_DEADLOCK FALSE
