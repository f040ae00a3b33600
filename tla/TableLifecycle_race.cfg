SPECIFICATION Spec
CONSTANTS
  MaxTime = 3
  Window = 1
  MaxLatency = 1
  Ptrs = {0, 1, 2, 3, 4}
  Handlers = {h1, h2}
  Fams = {f1}
  Views = {}
  ProtViews = {}
  Ops = {"write", "families", "delete"}
  None = None
VIEW HeapView
SYMMETRY Symmetry
INVARIANTS MemoryMatchesStore RowsInFamilies
PROPERTY ImplementsService
