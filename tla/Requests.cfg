CONSTANTS
  MaxReq = 5
  NULL = NULL
SPECIFICATION FairSpec
INVARIANT Paired
INVARIANT InOrder
INVARIANT LostByAnswers
PROPERTY FirstAnswered
PROPERTY NextServed
