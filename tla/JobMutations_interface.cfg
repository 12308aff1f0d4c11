SPECIFICATION Spec
CONSTANTS
  c1 = c1
  a = a
  b = b
  Jobs <- TwoJobs
  Callers <- OneCaller
  Scripts <- InterfaceApi
  Shapes <- TwoShapes
INVARIANT
  ReferencesHold
PROPERTY
  RunningIsFixed
