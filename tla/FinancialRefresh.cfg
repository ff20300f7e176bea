SPECIFICATION McSpec
CONSTANTS
  k1 = k1 k2 = k2 r1 = r1 r2 = r2 i1 = i1 i2 = i2 None = None
  Reports = {r1} Insts = {i1} Keys = {k1} Workers = {w1, w2}
  Inst <- InstOne Day <- DayOne Target <- TargetOne Mode <- OneFinancial
  Overlap = 1 RecheckLimit = 1 LastDay = 1 HeadTries = 2 MaxAttempts = 2
  MaxOutside = 1 MaxPauses = 1 MaxDeaths = 0 MaxLost = 1 MaxErrors = 0 MaxGaps = 0
CHECK_DEADLOCK FALSE
INVARIANT ReceiptsSound
PROPERTY PublicationsSound
