CONSTANTS
  Procs = {p1, p2, p3}
  MaxAttempts = 2
  First = p1
  Survivor = p3
  OwnerJson = ownerJson
  NoDoc = noDoc
SPECIFICATION RecoverySpec
PROPERTIES
  SurvivorAcquires
CHECK_DEADLOCK FALSE
