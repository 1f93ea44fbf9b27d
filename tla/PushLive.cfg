CONSTANTS
  Msg = {m1}
  s1 = s1
  s2 = s2
  Sub = {s1, s2}
  Copies <- MCTwice
  MaxRead = 2
  MayClose = TRUE
  NULL = NULL
SPECIFICATION FairSpec
PROPERTY DeliverySpec
PROPERTY AllFreed
PROPERTY NoneWaits
