SPECIFICATION SpecResources
CONSTANTS
  Names = {1}
  KindOf <- MCView
  Clients = {"a", "b"}
  MaxData = 2
  Unreliable = FALSE
PROPERTY RecreatedViewStartsEmpty
