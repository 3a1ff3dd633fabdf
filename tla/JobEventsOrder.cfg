CONSTANTS
  Job = {v, l}
  Pty = {v, l}
  Lua = {l}
  Buffered = {}
  HandlerCalls = {"sweep"}
  Failing = FALSE
  MaxData = 1
  MaxCalls = 2
SPECIFICATION Spec
INVARIANT Fifo
