SPECIFICATION Spec
CONSTANTS
  CollectorJobs <- MCCollectorJobs
  WireTypes <- MCWireTypes
  OperatorParameters <- MCOperatorParameters
  InputValues <- MCInputValues
INVARIANTS
  ControlInForce
  CycleTellsTruth
  CallsStayCallable
  ViewerTellsTruth
PROPERTIES
  NameNeverLost
  TablesFit
  ProfilesKept
CHECK_DEADLOCK FALSE
