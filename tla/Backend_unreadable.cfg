SPECIFICATION Spec
CONSTANTS
  CollectorJobs <- MCCollectorJobs
  WireTypes <- MCWireTypes
  OperatorParameters <- MCOperatorParameters
  InputValues <- MCInputValues
INVARIANT StoredIsReadable
CHECK_DEADLOCK FALSE
