SPECIFICATION CandleSpec
CONSTANTS
  s1 = s1
  s2 = s2
  Symbols <- MCSymbols
  Prices = {1, 2}
  Period = 2
  MaxAge = 2
  MaxFuture = 1
  RepeatWindow = 2
  BufferSize = 2
  MaxTime = 3
  MaxTicks = 3
SYMMETRY Symmetry
INVARIANTS
  EveryTickCounted
  
CHECK_DEADLOCK FALSE
