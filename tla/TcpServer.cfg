SPECIFICATION Spec
CONSTANTS
  root = root
  p1 = p1
  p2 = p2
  c1 = c1
  c2 = c2
  Proc = {root, p1, p2}
  Root = root
  Conn = {c1, c2}
  NoConn = NoConn
  Backlog = 1
  BufferSize = 4
  Sizes = {1, 2}
  MaxBytes = 5
  MayFail = {"create", "accept", "fork", "fdopen", "select"}
SYMMETRY Alike
INVARIANTS TypeOK NoForeignDescriptor OneServer EchoWithinBuffer
PROPERTIES ImplementsLifecycle
CHECK_DEADLOCK FALSE
