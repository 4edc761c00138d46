CONSTANTS
  None = None
  Caller = {c1, c2}
  Handle = {h1}
  MaxSessions = 3
  MaxKills = 2
  Call = {1, 2, 3}
  MaxDisposals = 1
  Result = Result
  Failure = Failure
  Pipe = {stdout, stderr}
  QueueCap = 1
  MaxWrites = 2
  Window = {w1, w2}
  Path = {h1, s1}
  MaxAttempts = 2
  MaxOps = 3
  Size = 3
  MaxMoves = 2
  Blank = Blank
  Screen = {s1, s2}
  NoModel = {1}
  MaxConfig = 1
  MaxOutputs = 3
  MaxStarts = 2
  MaxFailures = 1
SPECIFICATION PartsSpec
INVARIANTS LiveIsFound ResultIsComplete MovesKeepForest RestIsClassified
PROPERTIES KilledEnds AskedIsAnswered TimedOutEnds OnlyItsEntry
CHECK_DEADLOCK FALSE
