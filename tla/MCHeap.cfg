CONSTANTS
  m1 = m1
  m2 = m2
  m3 = m3
  m4 = m4
  m5 = m5
  m6 = m6
  NULL = NULL
  Item <- MCItem
  Less <- MCLess
SPECIFICATION FairSpec
INVARIANT HeapOrder
INVARIANT HeapInv
PROPERTY CallsReturn
PROPERTY QueueSpec
