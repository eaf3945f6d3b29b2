SPECIFICATION FairSpec
CONSTANTS
  root = root
  p1 = p1
  p2 = p2
  c1 = c1
  c2 = c2
  Proc = {root, p1, p2}
  Root = root
  Conn = {c1, c2}
  NoConn = NoConn
  Backlog = 1
  BufferSize = 4
  Sizes = {1}
  MaxBytes = 2
  MayFail = {"create", "accept", "fork"}
PROPERTIES NobodyWaitsForEver EveryClientIsGreeted SilentClientIsLetGo
CHECK_DEADLOCK FALSE
