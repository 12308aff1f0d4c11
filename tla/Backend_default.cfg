SPECIFICATION Spec
CONSTANTS
  CollectorJobs <- MCCollectorJobs
  WireTypes <- MCWireTypes
  OperatorParameters <- MCOperatorParameters
  InputValues <- MCInputValues
INVARIANT DefaultRegistered
CHECK_DEADLOCK FALSE
