CONSTANTS
  Poster = {t1, t2}
  Source = {s1}
  SignalNo = {}
  WAKE = WAKE
  SIGNAL = SIGNAL
  Modes = {"run"}
  Failing = {}
  Removes = FALSE
  EventCap = 1
  MaxOwner = 2
  MaxEvent = 4
  MaxPost = 3
  MaxFrame = 1
SPECIFICATION FairSpec
INVARIANT NothingStranded
PROPERTIES
  StopReturns
  WorkRuns
