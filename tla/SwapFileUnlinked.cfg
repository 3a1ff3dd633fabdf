CONSTANTS
  Editor = {a, b}
  Names = 1
  MaxStarts = 2
SPECIFICATION Spec
INVARIANT KeptReachable
CHECK_DEADLOCK FALSE
