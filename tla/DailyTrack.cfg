SPECIFICATION McSpec
CONSTANTS
  Tracks = {t1}
  Workers = {w1, w2}
  Requests = {q1}
  MaxSession = 2
  MaxFits = 2
  MaxCycleAttempts = 2
SYMMETRY WorkerSymmetry
CHECK_DEADLOCK FALSE
INVARIANTS PinsAgree RowsAgree HistorySound
PROPERTY ImplementsContract
