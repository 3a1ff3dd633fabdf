CONSTANTS
  Job = {v, l}
  Pty = {v, l}
  Lua = {l}
  Buffered = {l}
  HandlerCalls = {"sweep"}
  Failing = TRUE
  MaxData = 1
  MaxCalls = 2
SPECIFICATION Spec
INVARIANTS
  Conserved
  FifoUnlessSwept
PROPERTY WaitCompletes
