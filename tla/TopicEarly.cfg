CONSTANTS
  Msg = {1, 2}
  Priority <- MCEither
  Delays = {0, 1, 2}
  MaxTime = 6
  MaxTaken = 0
  MayFail = FALSE
  NULL = NULL
SPECIFICATION Spec
INVARIANT NotEarly
