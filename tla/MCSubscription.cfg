CONSTANTS
  both = both
  exact = exact
  otherCase = otherCase
  a = a
  b = b
  Sub = {both, exact, otherCase}
  Topic = {a, b}
  Exact <- MCExact
  AnyCase <- MCAnyCase
  MaxFreed = 2
SPECIFICATION Spec
INVARIANT Served
INVARIANT Agree
INVARIANT SubInv
