SPECIFICATION FairSpec
CONSTANTS
  MaxOrders = 3
  MaxQuantity = 2
  MaxPrice = 2
  MaxLoaded = 1
  Kinds <- MCKinds
INVARIANTS
  RestingAreLive
  FillsAreTrades
PROPERTIES
  ImplementsLifecycle
  CallsReturn
CHECK_DEADLOCK FALSE
