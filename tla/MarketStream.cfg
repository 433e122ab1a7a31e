SPECIFICATION StreamSpec
CONSTANTS
  Symbols = {s1}
  Listed = {s1}
  RequestLimit = 2
  MaxSockets = 2
  MaxCount = 2
  MaxWire = 2
INVARIANTS
  BroadcastsReachFollowers
PROPERTY
  SilentClientsGo
CHECK_DEADLOCK FALSE
