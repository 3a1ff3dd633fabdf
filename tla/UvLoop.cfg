CONSTANTS
  Timer = {t1, t2}
  Idle = {}
  Prepare = {}
  Check = {c1}
  Async = {a1}
  Signal = {s1}
  Started = {t1, t2}
  Unrefs = {a1}
  NestModes = {"once", "nowait"}
  Nesting = {"work", "deliver", "work2", "deliver2", "check", "closes"}
  PollErrors = TRUE
  MaxDepth = 2
  MaxOps = 2
  MaxSends = 1
SPECIFICATION FairSpec
PROPERTIES
  CloseOnce
  OnlyCurrentFires
  SendsKept
  StopEndsRun
  CloseDelivered
