SPECIFICATION MCSpec
CONSTANTS
  p = p
  q = q
  one = one
  x = x
  y = y
  Null = Null
  Name = {p, q}
  Value = {one, Null}
  Observer = {x, y}
  MaxWatchers = 2
SYMMETRY Alike
INVARIANTS TypeOK PoliteWatchersKnow
CHECK_DEADLOCK FALSE
