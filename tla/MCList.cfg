CONSTANTS
  h = h
  n1 = n1
  n2 = n2
  n3 = n3
  Item = {a, b}
  NULL = NULL
  Node <- MCNode
  Header <- h
SPECIFICATION FairSpec
INVARIANT ListInv
INVARIANT WalkInOrder
PROPERTY CallsReturn
PROPERTY SequenceSpec
