SPECIFICATION SpecResources
CONSTANTS
  Names = {1}
  KindOf <- MCLogical
  Clients = {"a", "b"}
  MaxData = 2
  Unreliable = FALSE
PROPERTY StaleLogicalEtagsFail
