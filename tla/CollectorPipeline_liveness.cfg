CONSTANTS
  j1 = j1
  j2 = j2
  db1 = db1
  db2 = db2
  Jobs = {j1, j2}
  Databases = {db1, db2}
  DatabaseOf <- OwnDatabase
  Capacity = 2
  MaxBatches = 2
  PeriodicOnly = TRUE
  NoStream = noStream
SPECIFICATION LiveSpec
PROPERTIES
  StopReturnsInTheEnd
  ShutdownEnds
CHECK_DEADLOCK FALSE
