SPECIFICATION FairSpec
CONSTANTS
  Drones = {d1, d2}
  Public = {d1}
  d1 = d1
  d2 = d2
  Registered <- PublicFirst
  Limit = 1
  ProbeLimits = {0, 1}
  None = None
  MaxLoads = 1
  MaxFaults = 1
PROPERTIES StatusSettles ReachabilitySettles
CHECK_DEADLOCK FALSE
