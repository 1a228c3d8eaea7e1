SPECIFICATION Spec
CONSTANTS
  c1 = c1
  c2 = c2
  c3 = c3
  n1 = n1
  n2 = n2
  Conns = {c1, c2, c3}
  NoConn = NoConn
  Nodes = {n1, n2}
  Devices = {d1}
  Home <- TwoNodesHome
  NoDevice = NoDevice
  NoNode = NoNode
  MayStall = {}
  MaxMissed = 2
  MaxDbFailures = 1
  MaxCrashes = 1
SYMMETRY SameHome
INVARIANTS TypeOK TablesAgree NewestIsPresent PresentHasHandler RowFollowsItsNode
PROPERTY ImplementsLease
CHECK_DEADLOCK FALSE
