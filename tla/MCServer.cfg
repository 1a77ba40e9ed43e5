SPECIFICATION Spec
CONSTANTS
  Int32Half = 1048576
  Int64Half = 1073741824
  Calls = {1, 2}
  Requests = {3}
  Sockets = {4}
  Environments <- MCEnvironments
CHECK_DEADLOCK FALSE
INVARIANTS
  TypeOK
  StoreOutlivesCalls
  MalformedNeverServes
PROPERTIES
  SignalEndsProcess
  FailedServerEndsProcess
