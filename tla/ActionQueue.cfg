SPECIFICATION FairSpec
CONSTANTS
  a1 = a1
  a2 = a2
  Actions = {a1, a2}
  Silent = {a2}
  Reports = {r1, r2}
  Limit = 1
  MaxFaults = 1
INVARIANTS TypeOK NotifiedOnce OneResultPerAction
PROPERTIES OutcomeIsFinal OldestFirst EveryActionEnds
CHECK_DEADLOCK FALSE
