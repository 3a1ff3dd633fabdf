\* Two buffers, a Lua attachment of the same number in each.
CONSTANTS
  NBuffers = 2
  Chans = {c1}
  Shapes = {{"lines", "bytes", "reload"}, {"lines", "detach"}}
  Faulty = FALSE
  MaxLua = 1
  MaxTick = 2
  MaxHeld = 1
  c1 = c1
SPECIFICATION Spec
INVARIANT LuaServed
