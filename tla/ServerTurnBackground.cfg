\* A tick writes to a peer that says nothing.
CONSTANTS
  Peers = {p1}
  Stdio = stdio
  Kinds = {"call"}
  MaxTurns = 2
  MaxAsked = 1
  MaxStdio = 1
  p1 = p1
  stdio = stdio
SPECIFICATION Spec
PROPERTIES BackgroundArrives
CHECK_DEADLOCK FALSE
