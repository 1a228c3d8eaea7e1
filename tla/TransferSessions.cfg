SPECIFICATION FairSpec
CONSTANTS
  c1 = c1
  c2 = c2
  Sessions = {s1, s2}
  Conns = {c1, c2}
  Roles <- RelayRoles
  Peers <- OneWay
  NoRow = NoRow
  MaxReports = 2
  MaxFaults = 1
INVARIANTS TypeOK RowSaysWhatWasReported
PROPERTIES RowsMoveByReports PendingEnds
CHECK_DEADLOCK FALSE
