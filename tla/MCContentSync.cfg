CONSTANTS
  w1 = w1
  w2 = w2
  e1 = e1
  r1 = r1
  None = None
  Absent = Absent
  StreamError = StreamError
  Window = {w1, w2}
  Edit = {e1}
  Revision = {r1}
  RecentMax = 4
  MaxConflicts = 3
  MaxWatchRetries = 1
  MaxEdits = 2
  MaxMarked = 1
  MaxActs = 3
  MaxFaults = 1
SPECIFICATION ScenesSpec
INVARIANTS WindowsKeepUp
PROPERTIES EchoNotApplied
SYMMETRY Symmetric
CHECK_DEADLOCK FALSE
