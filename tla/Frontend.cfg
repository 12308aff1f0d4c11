SPECIFICATION Spec
CONSTANTS
  FirstJobs <- MCFirstJobs
INVARIANTS
  GridTellsTruth
  DocumentsSettle
  LinesAreTheirs
  PanelReachable
  ReadAsWritten
PROPERTIES
  SplitRowsInStep
  ChartKeepsItsWord
  PanelCatchesUp
  CallsStoredAsShown
  SavedWasShown
  WaitingEnds
  OutputsStoredAsShown
CHECK_DEADLOCK FALSE
