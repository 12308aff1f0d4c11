SPECIFICATION Spec
CONSTANTS
  j1 = j1
  j2 = j2
  Jobs <- TwoJobs
SYMMETRY JobSymmetry
INVARIANTS
  StateTellsTruth
  StopIsFinal
  SurvivesUnlessLate
  WaitsForAWorker
