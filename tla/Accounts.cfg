SPECIFICATION Spec
CONSTANTS
  alice = alice
  bob = bob
  c1 = c1
  c2 = c2
  Holders <- MCHolders
  Slots <- MCSlots
  MaxAccounts = 2
  MaxAmount = 2
  MaxCalls = 6
SYMMETRY Symmetry
INVARIANTS
  UpdatesAddUp
  UndisturbedSolvent
  MoneyConserved
PROPERTY
  ClosedStaysClosed
CHECK_DEADLOCK FALSE
