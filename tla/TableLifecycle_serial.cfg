\* One request at a time, every kind of request, every restart.
SPECIFICATION FairSpec
CONSTANTS
  MaxTime = 2
  Window = 0
  MaxLatency = 0
  Ptrs = {0, 1, 2, 3}
  Handlers = {h1}
  Fams = {f1}
  Views = {v1, v2}
  ProtViews = {v2}
  Ops = {"write", "drop", "update", "families", "view", "delete", "deleteInstance"}
  None = None
PROPERTIES ImplementsService ExpiredTombstonesPurged
