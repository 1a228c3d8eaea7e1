SPECIFICATION Spec
CONSTANTS
  t1 = t1
  t2 = t2
  u1 = u1
  u2 = u2
  Workers = {w1, w2}
  Drones = {d1, d2}
  Users = {u1, u2}
  Tokens = {t1, t2}
  Issuer <- OneEach
  SwarmOwner = u1
  None = None
  Minted = Minted
  MaxIds = 2
  MaxCalls = 3
  MaxFaults = 1
SYMMETRY Interchangeable
INVARIANTS OwnedByConsent AuthorizedByOwner KnownByItsOwnCredential
PROPERTY RegisteredCanReport
CHECK_DEADLOCK FALSE
