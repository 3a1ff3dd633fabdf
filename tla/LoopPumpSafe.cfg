CONSTANTS
  Poster = {t1}
  Source = {s1}
  SignalNo = {g1}
  WAKE = WAKE
  SIGNAL = SIGNAL
  Modes = {"run", "wait", "once"}
  Failing = {s1}
  Removes = TRUE
  EventCap = 2
  MaxOwner = 2
  MaxEvent = 4
  MaxPost = 2
  MaxFrame = 1
SPECIFICATION Spec
INVARIANTS
  RunsInPostOrder
PROPERTIES
  RemovedNeverRuns
  SignalsKept
