CONSTANTS
  Timer = {t1, t2}
  Idle = {}
  Prepare = {}
  Check = {c1}
  Async = {a1}
  Signal = {s1}
  Started = {t1, t2}
  Unrefs = {a1}
  NestModes = {"once", "nowait"}
  Nesting = {"timers"}
  PollErrors = FALSE
  MaxDepth = 2
  MaxOps = 2
  MaxSends = 1
SPECIFICATION Spec
PROPERTY OnlyCurrentFires
