CONSTANTS
  Msg = {1, 2, 3, 4}
  Priority <- MCPriority
  Delays <- MCDelays
  MaxTime = 3
  MaxTaken = 1
  MayFail = TRUE
  NULL = NULL
SPECIFICATION FairSpec
INVARIANT OnePlace
INVARIANT NeverLater
PROPERTY LifeSpec
PROPERTY Released
