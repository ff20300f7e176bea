SPECIFICATION McSpec
CONSTANTS
  Keys = {1, 2}
  Workers = {w1}
  Changing = {"market", "industry"}
  MaxAttempts = 1
  Limits <- Dying
  None = None
  OverlapKeys = {1}
  OverlapWorkers = {w1, w2}
  RetryKeys = {1, 2, 3}
INVARIANT RefreshesConsistent
PROPERTY SwitchesSound
