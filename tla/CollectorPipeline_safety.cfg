CONSTANTS
  j1 = j1
  j2 = j2
  db1 = db1
  db2 = db2
  Jobs = {j1, j2}
  Databases = {db1, db2}
  DatabaseOf <- OwnDatabase
  Capacity = 1
  MaxBatches = 3
  PeriodicOnly = FALSE
  NoStream = noStream
SPECIFICATION Spec
INVARIANTS
  Balanced
  StopDrains
  NoSendAfterClose
PROPERTIES
  AnsweredOnceInOrder
CHECK_DEADLOCK FALSE
