SPECIFICATION Spec
CONSTANTS
  Conns = {c1, c2, c3}
  Sessions = {s1}
  Faults = {"gone", "stalled"}
  MaxInputs = 4
  MaxFaults = 1
SYMMETRY Interchangeable
INVARIANTS TypeOK NoStrayLegs DataInOrder AbortsArePaired NobodyWaitsForReady
PROPERTY ImplementsLifecycle
CHECK_DEADLOCK FALSE
