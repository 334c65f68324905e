SPECIFICATION JobsSpec
CONSTANTS
  t1 = t1
  Tickers <- MCTickers
  Kinds <- MCKinds
  MaxDay = 8
  NotLandedMin = 1
  Window = 4
  DailyAttempts = 2
  ThirdNight = 2
  ChronicDays = 6
  MaxCalls = 2
  QuarterDays <- MCQuarterDays
  KEEP_DAILY = 2
  KEEP_WEEKLY = 1
  Week = 3
  Starters <- MCStarters
  LastNight = 9
  BackupMishaps = 3
  Order <- MCOrder
  News <- MCNews
  PriceDays <- MCPriceDays
  PRICE_TARGET_STALENESS_DAYS = 1
  TAB_STALENESS_DAYS = 2
  SNAPSHOT_TOLERANCE_DAYS = 2
  Month = 3
  LIVE_DAY = 5
  LEGACY_DAY = 7
  FirstDay = 7
  LastDay = 8
  TargetMishaps = 2
  Lists <- MCLists
  Horizon = 2
  MaxSpy = 3
  RunMishaps = 2
  Companies <- MCCompanies
  Prices <- MCPrices
  LastMoment = 4
  cache_staleness = 2
  profile_staleness = 2
INVARIANTS TypeOK AttemptsBounded ArchivesHold
PROPERTIES NoRegression EpisodesKeepUp
CHECK_DEADLOCK FALSE
