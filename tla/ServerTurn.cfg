\* The primary channel and a peer that may send bytes that do not decode.
CONSTANTS
  Peers = {p1}
  Stdio = stdio
  Kinds = {"call", "ui_attach", "quit", "malformed"}
  MaxTurns = 2
  MaxAsked = 2
  MaxStdio = 1
  p1 = p1
  stdio = stdio
SPECIFICATION Spec
INVARIANTS InTurnOrder AnsweredOnce
PROPERTY AnswersArrive
CHECK_DEADLOCK FALSE
