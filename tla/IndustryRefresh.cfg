SPECIFICATION Spec
CONSTANTS
  Keys = {1, 2}
  Workers = {w1, w2}
  Contents = {a, b}
  HeadTries = 2
  MaxAttempts = 2
  Limits <- McLimits
  None = None
SYMMETRY Symm
ACTION_CONSTRAINT Within
INVARIANTS OperationsSound NoLeakedCandidate
PROPERTY SwitchesExtend
