CONSTANTS
  x = x
  EMPTY = EMPTY
  Line <- MCLine
  Files <- MCFiles
  Drains = FALSE
  MaxLines = 2
  MaxEdits = 3
  MaxSavedEdits = 2
SPECIFICATION Spec
INVARIANTS
  TextIsVersion
  OpenIsLeaf
  LinksReachAll
  SavedMeansClean
