CONSTANTS
  MaxFrame = 3
  MaxCut = 3
  Size <- MCSize
SPECIFICATION FairSpec
CHECK_DEADLOCK FALSE
INVARIANT CopyFits
INVARIANT Intact
INVARIANT Resync
PROPERTY ReadsOn
