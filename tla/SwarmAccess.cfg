SPECIFICATION Spec
CONSTANTS
  u1 = u1
  u2 = u2
  Workers = {w1, w2}
  Users = {u1, u2}
  Founders = {u1}
  FirstSwarm <- FirstSwarmOfU1
  Admin = u1
  AutoVerify = {TRUE, FALSE}
  Providers = TRUE
  None = None
  MaxSwarms = 3
  MaxInvites = 2
  MaxDay = 1
  MaxCalls = 3
  MaxFaults = 2
SYMMETRY Interchangeable
INVARIANTS AccessIsEarned OnlyFoundersAreOverlords OwnerIsMember
CHECK_DEADLOCK FALSE
