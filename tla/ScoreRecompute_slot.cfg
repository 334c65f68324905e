CONSTANTS
  NoPid = NoPid
  Callers = {c1, c2}
  Pids = {p1, p2}
  MaxRuns = 2
  Tickers = 1
  PROGRESS_EVERY = 1
  MaxRestarts = 0
  HasLimit = TRUE
SPECIFICATION Spec
SYMMETRY Symmetry
INVARIANTS TypeOK
PROPERTIES SlotSafety StopsOnlyClosedRuns
CHECK_DEADLOCK FALSE
