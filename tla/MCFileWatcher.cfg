CONSTANTS
  a = a
  b = b
  s1 = s1
  s2 = s2
  t1 = t1
  t2 = t2
  Content = {a, b}
  Absent = Absent
  Unguarded = Unguarded
  Unreadable = {b}
  Oversized = {}
  Sub = {s1, s2}
  Task = {t1, t2}
  Free = Free
  Cap = 1
  Natives = {TRUE}
  Cancellable = {"committing", "notifying"}
  MaxEdits = 1
  MaxWrites = 2
SPECIFICATION Spec
INVARIANTS StreamsFollow
PROPERTIES CasIsAtomic
SYMMETRY Symmetric
CHECK_DEADLOCK FALSE
