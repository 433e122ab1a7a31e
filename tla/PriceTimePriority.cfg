SPECIFICATION Spec
CONSTANTS
  MaxOrders = 4
  MaxQuantity = 2
  MaxPrice = 2
  MaxLoaded = 0
  Kinds <- MCBookKinds
PROPERTY
  PriceTimePriority
CHECK_DEADLOCK FALSE
