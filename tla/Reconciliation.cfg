SPECIFICATION Spec
CONSTANTS
  i1 = i1
  i2 = i2
  Ids <- TwoIds
  Amounts <- AllAmounts
  InTypes <- AllTypes
  MaxCents = 1
  MaxRows = 3
  None = None
INVARIANTS TypeOK AccountsExactly UnbalancedOnlyByDisputed MissingIsUnaccounted
PROPERTIES UnbalancedForEver
CHECK_DEADLOCK FALSE
