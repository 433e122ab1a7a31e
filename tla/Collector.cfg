SPECIFICATION Spec
CONSTANTS
  Symbols = {s1, s2}
  Threshold = 5
INVARIANTS
  OneReconnect
  SubscribedAreFollowed
PROPERTIES
  NoAttemptWhileCooling
  PollRecovers
CHECK_DEADLOCK FALSE
