CONSTANTS
  NoPid = NoPid
  Callers = {c1}
  Pids = {p1}
  MaxRuns = 2
  Tickers = 3
  PROGRESS_EVERY = 2
  MaxRestarts = 1
  HasLimit = TRUE
SPECIFICATION FairSpec
INVARIANTS SupersededWorkerBounded
PROPERTIES RunsAndStoppersEnd
CHECK_DEADLOCK FALSE
