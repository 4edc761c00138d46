CONSTANTS
  Peer = {h, r}
  Home = h
  Lively = {h, r}
  MaxStores = 3
  MaxCalls = 2
  MaxChanges = 1
  Window = {1}
  MaxEdits = 2
  MaxRequests = 2
  MaxCreations = 2
  MaxEffects = 2
  MaxBodies = 1
  MaxConns = 2
  MaxClients = 5
  MaxFiles = 1
  MaxDrops = 2
  Name = {1, 2, 3}
  MaxKeys = 4
  MaxWork = 1
  MaxSwitch = 1
  Slot = {1, 2}
  MaxOps = 2
  MaxFaults = 1
SPECIFICATION AppSpec
INVARIANTS SessionsFollow SettingsKept TabKept MainFollows WorktreesKept
CHECK_DEADLOCK FALSE
