SPECIFICATION FairSpec
CONSTANTS
  MaxOrders = 3
  MaxQuantity = 2
  MaxRestarts = 1
  MaxFailures = 1
  BatchSize = 2
  MaxCalls = 2
  Menu <- MCMenu
  Failing <- Calls
INVARIANTS
  TradesAccountedFor
  AcceptedIsRecoverable
  RowsLagBehindTrades
PROPERTIES
  CancelledStaysOut
  ImplementsOutbox
  TradesGetOut
CHECK_DEADLOCK FALSE
