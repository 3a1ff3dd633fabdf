CONSTANTS
  ONCE = ONCE
  Interval = {0, 1}
  Cap = {1}
  MaxTimer = 3
  MaxTime = 2
SPECIFICATION FairSpec
INVARIANTS
  TimersBeforeDeferred
PROPERTIES
  InDeadlineOrder
  LateTimersCatchUp
