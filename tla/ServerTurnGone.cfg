\* A peer attaches a UI and hangs up.
CONSTANTS
  Peers = {p1}
  Stdio = stdio
  Kinds = {"ui_attach"}
  MaxTurns = 1
  MaxAsked = 1
  MaxStdio = 1
  p1 = p1
  stdio = stdio
SPECIFICATION Spec
INVARIANTS UisConnected
CHECK_DEADLOCK FALSE
