\* One buffer, a channel that refuses an event and accepts the next.
CONSTANTS
  NBuffers = 1
  Chans = {c1}
  Shapes = {{"lines", "bytes", "reload"}, {"lines", "detach"}}
  Faulty = TRUE
  MaxLua = 1
  MaxTick = 2
  MaxHeld = 1
  c1 = c1
SPECIFICATION Spec
PROPERTY CommitOrderKept
