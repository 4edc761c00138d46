CONSTANTS
  MaxConns = 3
  MaxTunnels = 5
  MaxFailures = 2
  MaxRequests = 4
SPECIFICATION FairSpec
INVARIANTS StatusIsTrue NothingStalls
PROPERTIES Recovers
CHECK_DEADLOCK FALSE
