SPECIFICATION FairSpec
CONSTANTS
  c1 = c1
  c2 = c2
  c3 = c3
  n1 = n1
  n2 = n2
  Conns = {c1, c2, c3}
  NoConn = NoConn
  Nodes = {n1, n2}
  Devices = {d1}
  Home <- TwoNodesHome
  NoDevice = NoDevice
  NoNode = NoNode
  MayStall = {c2}
  MaxMissed = 2
  MaxDbFailures = 0
  MaxCrashes = 0
PROPERTIES GoneIsEvicted MirrorSettles
CHECK_DEADLOCK FALSE
