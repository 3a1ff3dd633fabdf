CONSTANTS
  Poster = {t1}
  Source = {s1}
  SignalNo = {}
  WAKE = WAKE
  SIGNAL = SIGNAL
  Modes = {"run"}
  Failing = {}
  Removes = TRUE
  EventCap = 2
  MaxOwner = 2
  MaxEvent = 3
  MaxPost = 2
  MaxFrame = 1
SPECIFICATION Spec
INVARIANT WorkConserved
