\* UndeleteTable is retried after a storage error.
SPECIFICATION FaultySpec
CONSTANTS
  MaxTime = 3
  Window = 1
  MaxLatency = 1
  Ptrs = {0, 1, 2, 3, 4}
  Handlers = {h1}
  Fams = {f1}
  Views = {}
  ProtViews = {}
  Ops = {"write", "delete"}
  None = None
PROPERTY UndeleteRestores
