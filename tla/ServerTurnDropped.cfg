\* A turn of the primary channel writes for a peer.
CONSTANTS
  Peers = {p1}
  Stdio = stdio
  Kinds = {"call"}
  MaxTurns = 1
  MaxAsked = 1
  MaxStdio = 1
  p1 = p1
  stdio = stdio
SPECIFICATION Spec
INVARIANTS NothingDropped
CHECK_DEADLOCK FALSE
