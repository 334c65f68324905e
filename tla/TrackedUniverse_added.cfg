SPECIFICATION UniverseSpec
CONSTANTS
  Tickers = {t1}
  Kinds = {watchlist}
  IdleDays = 1
  LastDay = 2
PROPERTIES UniverseNeverWiped
CHECK_DEADLOCK FALSE
