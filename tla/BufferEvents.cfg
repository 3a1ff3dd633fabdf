\* Two buffers, a channel that may refuse bytes, a Lua attachment of either
\* kind in each buffer.
CONSTANTS
  NBuffers = 2
  Chans = {c1}
  Shapes = {{"lines", "bytes", "reload"}, {"lines", "detach"}}
  Faulty = TRUE
  MaxLua = 1
  MaxTick = 2
  MaxHeld = 1
  c1 = c1
SPECIFICATION Spec
INVARIANTS OwedWaits RefsOnce AnsweredAfterEvents
PROPERTIES InCommitOrder LiveRefsOnly
