SPECIFICATION RowSpec
CONSTANTS
  Sheets <- MCSheets
  Debts <- MCDebts
  Servicing <- MCServicing
  Covers <- MCCovers
  BreachContexts <- MCBreachContexts
  DebtWeightSets <- MCDebtWeightSets
  Gearings <- MCGearings
  Cet1s <- MCCet1s
  Npls <- MCNpls
  Funds = {"ARKK", "TLT"}
  EtfAnswers <- MCEtfAnswers
  FAILURE_RATE = 60
  MIN_ATTEMPTED = 2
  ScreenerDays = 3
  ScreenerMishaps = 3
  MoatCompanies <- MCMoatCompanies
  MoatJudgements <- MCMoatJudgements
  RUN_MAX_AGE = 0
  MoatHours = 2
  MoatRunLimit = 2
  MoatMishaps = 1
INVARIANTS StepFailureKeepsTheRow
CHECK_DEADLOCK FALSE
