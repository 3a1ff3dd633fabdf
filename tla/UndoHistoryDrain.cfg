CONSTANTS
  x = x
  EMPTY = EMPTY
  Line <- MCLine
  Files <- MCFiles
  Drains = TRUE
  MaxLines = 2
  MaxEdits = 2
  MaxSavedEdits = 2
SPECIFICATION Spec
INVARIANT TextIsVersion
