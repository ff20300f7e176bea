SPECIFICATION McSpec
CONSTANTS
  Batches = {b1}
  Workers = {w1, w2}
  NItems = 2
  Kinds = {"factor_evaluation", "strategy_sweep"}
  MaxTaskAttempts = 2
  HeadMoves = FALSE
INVARIANT RowsAgree
PROPERTY ImplementsContract
CHECK_DEADLOCK FALSE
