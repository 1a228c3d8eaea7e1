SPECIFICATION FairSpec
CONSTANTS
  g1 = g1
  g2 = g2
  Games = {g1, g2}
  System <- Systems
  GameId <- SharedId
  Workers = {w1, w2}
  Held <- OneGame
  Registrar = w1
  None = None
  MaxChanges = 2
  MaxCalls = 1
  MaxFaults = 1
INVARIANT OnlyLostIsMissing
PROPERTY UploadingEnds
CHECK_DEADLOCK FALSE
