\* Kernels that finish out of order.
CONSTANTS
  W = 2
  Cores <- OneCore
  Q = 4
  N = 3
  Shapes <- Kernels
  Producers = 1
  HostPolicy = "header"
  AdminInts <- NoAdmin
SPECIFICATION Spec
INVARIANTS ReadIndexIsLastCompleted
CHECK_DEADLOCK FALSE
