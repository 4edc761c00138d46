CONSTANTS
  w1 = w1
  w2 = w2
  a = a
  b = b
  Conn = {w1, w2}
  Listener = {w1, w2}
  Task = {w1, w2}
  Nobody = Nobody
  Heartbeat = Heartbeat
  RefList <- MCRefLists
  NoRefs <- NoRefsYet
  AnyVersion = AnyVersion
  MaxStreams = 1
  Never = Never
  Cap = 1
  MaxVersion = 4
  Id = {a, b}
  Slot = {1}
  Remote = {}
  Operations <- Roots
  MaxAttempts = 3
  MaxOps = 1
  MaxFailures = 0
  LockMayExpire = FALSE
SPECIFICATION RefFairSpec
PROPERTIES WindowsConverge
CHECK_DEADLOCK FALSE
