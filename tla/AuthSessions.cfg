SPECIFICATION Spec
CONSTANTS
  c1 = c1
  c2 = c2
  Slots <- MCSlots
  MaxPerUser = 1
  MaxCalls = 5
  MaxSessions = 4
  MaxTokens = 5
  MaxOthers = 2
SYMMETRY Symmetry
INVARIANTS
  OneMoreThanLimit
  OldSessionsExplained
  SingleUse
PROPERTY
  EndedStaysEnded
CHECK_DEADLOCK FALSE
