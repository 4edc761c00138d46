CONSTANTS
  t1 = t1
  t2 = t2
  Nobody = Nobody
  Att = {t1, t2}
  Terminals = {t1, t2}
  RawCap = 1
  QueueCap = 1
  MaxChunks = 2
  MaxMessages = 2
SPECIFICATION Spec
INVARIANTS StreamsIntact SizeInStep OnlyOvertakenWrites
PROPERTIES KeepsPromise
SYMMETRY Symmetric
CHECK_DEADLOCK FALSE
