CONSTANTS
  Event = {e1, e2}
  MaxOwner = 4
  MaxEvent = 3
SPECIFICATION Spec
INVARIANTS
  Mirrored
  InPutOrder
PROPERTY ImplementsBoard
