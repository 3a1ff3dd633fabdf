CONSTANTS
  Request = {r1, r2, r3}
  Worker = {w1, w2}
  Shutdown = Shutdown
  None = None
SPECIFICATION FairSpec
INVARIANTS
  InOnePlace
  CountExact
  NeverAsleep
PROPERTIES
  RunWaits
  RunReturns
  DropEnds
CHECK_DEADLOCK FALSE
