SPECIFICATION Spec
CONSTANTS
  root = root
  clerk = clerk
  w1 = w1
  w2 = w2
  o1 = o1
  o2 = o2
  c1 = c1
  c2 = c2
  Users <- MCUsers
  Staff <- MCStaff
  Wallets <- MCWallets
  Orders <- MCOrders
  WalletOf <- MCWalletOf
  Slots <- MCSlots
  MaxCalls = 2
  MaxOutside = 1
  Identified = {TRUE, FALSE}
SYMMETRY Symmetry
PROPERTIES
  FinishedStaysFinished
  
CHECK_DEADLOCK FALSE
