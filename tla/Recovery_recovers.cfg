SPECIFICATION StoresSpec
CONSTANTS
  k1 = k1
  v1 = v1
  j1 = j1
  s1 = s1
  w1 = w1
  n1 = n1
  m1 = m1
  h1 = h1
  h2 = h2
  Api = Api
  None = None
  Failed = Failed
  Refused = Refused
  HistoryKeys <- MCHistoryKeys
  SnapshotKeys <- MCSnapshotKeys
  Views <- MCViews
  Crons = {}
  Window = 2
  MaxEdition = 1
  MaxSwitches = 1
PROPERTIES ScoreRowsCatchUp LiveComputeKeepsScore StatementRowsRecover
