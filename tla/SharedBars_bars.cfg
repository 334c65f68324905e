SPECIFICATION FairSpec
CONSTANTS
  Jobs = {j1}
  Lookbacks = {3, 10}
  Intervals = {"1d", "60m"}
  Sessions = {0, 1, 2, 3, 4, 5, 6, 7, 8, 10, 11, 12}
  FirstDay = 10
  MaxDay = 11
  Tiers = {3, 10, 18}
  HourTiers = {3, 10}
  Slack = 2
  Overlap = 2
  MinFull = 2
  Retention = 10
  MaxGap = 2
  Plans = {6, 12}
  MaxBasis = 1
INVARIANTS TypeOK OneBasis NoRatchet
PROPERTIES WidthKept BarsSettle
CHECK_DEADLOCK FALSE
