CONSTANTS
  Job = {v, l}
  Pty = {v, l}
  Lua = {l}
  Buffered = {}
  HandlerCalls = {"wait"}
  Failing = FALSE
  MaxData = 1
  MaxCalls = 2
SPECIFICATION Spec
PROPERTY WaitCompletes
