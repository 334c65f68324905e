SPECIFICATION Spec
CONSTANTS
  None = None
  Failed = Failed
  Refused = Refused
  HistoryKeys = {h1}
  SnapshotKeys = {}
  Views = {v1, v2}
  Crons = {}
  Window = 2
  MaxEdition = 1
  MaxSwitches = 0
PROPERTIES HistoryNeverShorter
