SPECIFICATION Spec
CONSTANTS
  w1 = w1
  j1 = j1
  j2 = j2
  Notes = {x1, x2}
  Procs = {j1, j2}
  Jobs = {j1, j2}
  Limit = 1
  MaxCalls = 1
  MaxFaults = 1
SYMMETRY Interchangeable
INVARIANTS TypeOK OneDigestPerQueuing
PROPERTY ReadStaysRead
CHECK_DEADLOCK FALSE
