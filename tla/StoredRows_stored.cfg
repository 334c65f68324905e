SPECIFICATION StoresSpec
CONSTANTS
  k1 = k1
  v1 = v1
  v2 = v2
  j1 = j1
  s1 = s1
  w1 = w1
  w2 = w2
  n1 = n1
  n2 = n2
  m1 = m1
  h1 = h1
  Api = Api
  None = None
  Failed = Failed
  Refused = Refused
  Tickers <- MCTickers
  Views <- MCViews
  Jobs <- MCJobs
  Savers <- MCSavers
  WeightSets <- MCWeightSets
  Narrows <- MCNarrows
  Moats <- MCMoats
  MaxRuns = 2
  MaxFailures = 0
  Starters <- MCViews
  Mapped = {"picked"}
  Unmapped = {"orphan"}
  Names = {"view"}
  Known <- MCTickers
  Ddl <- MCDdl
  MaxStarts = 3
  LastDay = 2
  Never = Never
SYMMETRY Symmetry
INVARIANTS TypeOK StampIsHonest RecomputeUsesTheSave UpMeansMigrated
PROPERTIES OnlyStaleCopiesShorten StartLosesNothing
CHECK_DEADLOCK FALSE
