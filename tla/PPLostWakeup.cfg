\* A doorbell between the comparison with WRITE_INDEX and the clearing of AQL_LEFT.
CONSTANTS
  W = 2
  Cores <- OneCore
  Q = 4
  N = 3
  Shapes <- SignalledKernels
  Producers = 2
  HostPolicy = "header"
  AdminInts <- NoAdmin
SPECIFICATION Spec
INVARIANTS DisabledOnlyWhenEmpty
CHECK_DEADLOCK FALSE
