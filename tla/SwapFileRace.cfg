CONSTANTS
  Editor = {a, b, c}
  Names = 1
  MaxStarts = 3
SPECIFICATION Spec
INVARIANT KeptWhole
CHECK_DEADLOCK FALSE
