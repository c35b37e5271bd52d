\* A barrier packet with a completion signal behind a kernel in flight.
CONSTANTS
  W = 2
  Cores <- OneCore
  Q = 4
  N = 2
  Shapes <- KernelsAndSignalledBarriers
  Producers = 1
  HostPolicy = "header"
  AdminInts <- NoAdmin
SPECIFICATION Spec
INVARIANTS StackHoldsFreeSlots
CHECK_DEADLOCK FALSE
