SPECIFICATION Spec
CONSTANTS
  Symbols = {s1}
  Threshold = 5
PROPERTY
  Recovers
CHECK_DEADLOCK FALSE
