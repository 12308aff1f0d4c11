SPECIFICATION Spec
CONSTANTS
  c1 = c1
  a = a
  b = b
  Jobs <- TwoJobs
  Callers <- OneCaller
  Scripts <- PackageScript
  Shapes <- NoShape
INVARIANTS
  AloneUnlessOvertaken
  LocksAreSound
PROPERTY
  DeleteLeavesNoService
