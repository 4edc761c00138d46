CONSTANTS
  c1 = c1
  c2 = c2
  l1 = l1
  t1 = t1
  t2 = t2
  r0 = r0
  r1 = r1
  Conn = {c1, c2}
  Listener = {l1}
  Nobody = Nobody
  Task = {t1, t2}
  Heartbeat = Heartbeat
  RefList = {r0, r1}
  NoRefs = r0
  AnyVersion = AnyVersion
  MaxStreams = 1
  Cap = 1
  MaxVersion = 3
SPECIFICATION FairSpec
INVARIANTS WatchersAgree
PROPERTIES WatchersConverge RegisterRefinement
CHECK_DEADLOCK FALSE
