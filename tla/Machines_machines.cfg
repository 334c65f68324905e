SPECIFICATION Spec
CONSTANTS
  Levels <- MCLevels
  Lows <- MCLows
  BlueWithin = 2
  YellowCap = 4
  Closes <- MCCloses
  Length = 3
  Lookback = 2
  Band = 5
  Margin = 1
  Horizon = 5
  t1 = t1
  t2 = t2
  f1 = f1
  f2 = f2
  Cadence = 2
  Counts <- MCCounts
  MaxHour = 3
  MaxStarts = 3
  Tickers <- MCTickers
  Kinds <- MCKinds
  IdleDays = 1
  LastDay = 2
  Candles <- MCCandles
  ArrowSets <- MCArrowSets
  MaxCandle = 3
  RowWindow = 2
  MaxSession = 3
  MaxFlagRuns = 2
  Clis <- MCClis
  ByHand <- MCByHand
  Horizons <- MCHorizons
  Grace = 1
  ReviveDays = 2
  MaxSpy = 4
  MaxDay = 6
  MaxRevisions = 1
INVARIANTS TypeOK IndicatorsHold StopHolds RemovedStaysAway OkIsEarned FlagsAccountFor RowsKeepUp
PROPERTIES WipeSparesTouched SettledStays
CHECK_DEADLOCK FALSE
