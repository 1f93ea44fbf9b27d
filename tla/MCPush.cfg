CONSTANTS
  Msg = {m1, m2, m3}
  s1 = s1
  s2 = s2
  Sub = {s1, s2}
  Copies <- MCOnce
  MaxRead = 2
  MayClose = FALSE
  NULL = NULL
SYMMETRY Symmetry
SPECIFICATION Spec
INVARIANT Accounted
INVARIANT AgreeOnOrder
PROPERTY SlotKept
PROPERTY DeliverySpec
