\* A packet with the barrier bit behind a kernel in flight.
CONSTANTS
  W = 2
  Cores <- OneCore
  Q = 4
  N = 2
  Shapes <- FencedKernels
  Producers = 1
  HostPolicy = "header"
  AdminInts <- NoAdmin
SPECIFICATION FairSpec
PROPERTIES BarrierBitOpens
CHECK_DEADLOCK FALSE
