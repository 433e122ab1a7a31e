SPECIFICATION Spec
CONSTANTS
  MaxOrders = 4
  MaxQuantity = 2
  MaxPrice = 3
  MaxLoaded = 1
  Kinds <- MCBookKinds
INVARIANTS
  IndexAgrees
  LevelsSorted
  FifoWithinLevel
  TradesHonourLimits
  TakerWalksAway
  FeedFollowsBook
PROPERTY
  GoneStaysGone
CHECK_DEADLOCK FALSE
