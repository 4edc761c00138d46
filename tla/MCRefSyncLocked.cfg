CONSTANTS
  w1 = w1
  w2 = w2
  a = a
  b = b
  Conn = {w1, w2}
  Listener = {w1, w2}
  Task = {w1, w2}
  Nobody = Nobody
  Heartbeat = Heartbeat
  RefList <- MCRefLists
  NoRefs <- NoRefsYet
  AnyVersion = AnyVersion
  MaxStreams = 1
  Never = Never
  Cap = 1
  MaxVersion = 5
  Id = {a, b}
  Slot = {1, 2}
  Remote = {}
  Operations <- RootsAndAdoptions
  MaxAttempts = 3
  MaxOps = 2
  MaxFailures = 0
  LockMayExpire = FALSE
SPECIFICATION SlotSpec
INVARIANTS LockHeld RejectionIsRetried
PROPERTIES OwnWorkSurvives
SYMMETRY Symmetric
CHECK_DEADLOCK FALSE
