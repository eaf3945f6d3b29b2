SPECIFICATION MCSpec
CONSTANTS
  Full = 12
  Length = 9
  p1 = p1
  p2 = p2
  p3 = p3
  Pid = {p1, p2, p3}
  Slop = 1
  Unset = Unset
  f1 = f1
  f2 = f2
  File = {f1, f2}
  Entries <- EntriesOfEachKind
  NoStat = NoStat
  MaxClasses = 3
  Note = {"NOTE_WRITE", "NOTE_DELETE"}
  s1 = s1
  s2 = s2
  c1 = c1
  c2 = c2
  c3 = c3
  Server = {s1, s2}
  Client = {c1, c2, c3}
  Nobody = Nobody
  Limit = 1
  t1 = t1
  t2 = t2
  Thread = {t1, t2}
  NoClient = NoClient
  MaxClients = 3
  MaxMessages = 3
INVARIANTS SystemTyped AnswersAreTrue HandlersComeBack NothingGetsLost
PROPERTIES ChangesAreReported ClientsEnd
CHECK_DEADLOCK FALSE
