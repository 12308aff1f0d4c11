CONSTANTS
  Procs = {p1, p2, p3}
  MaxAttempts = 3
  OwnerJson = ownerJson
  NoDoc = noDoc
SPECIFICATION Spec
SYMMETRY Symmetry
INVARIANTS
  IInv
  ExclusiveUnlessStolen
  GuardExclusive
  GuardNeverAmbiguous
PROPERTIES
  OnlyOwnerReleases
CHECK_DEADLOCK FALSE
