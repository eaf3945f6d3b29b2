SPECIFICATION MCSpec
CONSTANTS
  object1 = object1
  object2 = object2
  pool1 = pool1
  pool2 = pool2
  pool3 = pool3
  Null = Null
  Object = {object1, object2}
  Pool = {pool1, pool2}
  Sizes = {0, 1, 2}
  W = 16
  PointerSize = 2
  MaxPools = 2
  Chunk = 1
  MaxRefs = 1
  MaxHeld = 1
SYMMETRY Alike
CHECK_DEADLOCK FALSE
INVARIANTS FreedWhenReleased
