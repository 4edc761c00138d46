CONSTANTS
  a = a
  b = b
  s1 = s1
  t1 = t1
  t2 = t2
  Nobody = Nobody
  Content = {a, b}
  Absent = Absent
  Unguarded = Unguarded
  Unreadable = {}
  Oversized = {b}
  Sub = {s1}
  Task = {t1, t2}
  Free = Free
  Cap = 2
  Natives = {TRUE, FALSE}
  Cancellable = {"notifying"}
  MaxEdits = 0
  MaxWrites = 2
SPECIFICATION DaemonSpec
INVARIANTS WireAgrees
PROPERTIES  StreamsConverge EventsQuiet ExitEndsStreams
CHECK_DEADLOCK FALSE
