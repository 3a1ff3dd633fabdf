\* One buffer, a channel attached to it when it is unloaded.
CONSTANTS
  NBuffers = 1
  Chans = {c1}
  Shapes = {{"lines", "bytes", "reload"}, {"lines", "detach"}}
  Faulty = FALSE
  MaxLua = 1
  MaxTick = 2
  MaxHeld = 1
  c1 = c1
SPECIFICATION Spec
PROPERTY EndAnnounced
