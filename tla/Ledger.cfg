SPECIFICATION FairSpec
CONSTANTS
  a = a
  b = b
  c = c
  bid = bid
  ask = ask
  Accounts <- MCAccounts
  Orders <- MCOrders
  HoldKey <- MCHoldKey
  Opening <- MCOpening
  Held <- MCHeld
  Menu <- MCMenu
INVARIANTS
  NeverOverdrawn
  HeldIsHolds
  EntriesExplainBalances
PROPERTIES
  ImplementsAtomic
  CallsEnd
CHECK_DEADLOCK FALSE
