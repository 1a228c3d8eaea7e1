SPECIFICATION FairSpec
CONSTANTS
  Conns = {c1, c2}
  Sessions = {s1, s2}
  Faults = {"gone", "stalled"}
  MaxInputs = 4
  MaxFaults = 1
PROPERTY TeardownEnds
CHECK_DEADLOCK FALSE
