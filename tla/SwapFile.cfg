CONSTANTS
  Editor = {a, b}
  Names = 2
  MaxStarts = 4
SPECIFICATION Spec
INVARIANTS
  TypeOK
  KeptWhole
CHECK_DEADLOCK FALSE
