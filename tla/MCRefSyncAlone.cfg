CONSTANTS
  w1 = w1
  w2 = w2
  a = a
  b = b
  Conn = {w1}
  Listener = {w1}
  Task = {w1}
  Nobody = Nobody
  Heartbeat = Heartbeat
  RefList <- MCRefLists
  NoRefs <- NoRefsYet
  AnyVersion = AnyVersion
  MaxStreams = 1
  Never = Never
  Cap = 1
  MaxVersion = 7
  Id = {a, b}
  Slot = {1, 2}
  Remote = {}
  Operations <- AllOperations
  MaxAttempts = 2
  MaxOps = 2
  MaxFailures = 2
  LockMayExpire = TRUE
SPECIFICATION RefSpec
INVARIANTS ListsConsistent LockHeld
SYMMETRY IdSym
CHECK_DEADLOCK FALSE
