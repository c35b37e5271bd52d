\* Every shape of packet and the core management interrupts.
\* The firmware may wait for ever in a busy wait or after a corrupted window.
CONSTANTS
  W = 2
  Cores <- OneCore
  Q = 4
  N = 3
  Shapes <- EveryShape
  Producers = 1
  HostPolicy = "header"
  AdminInts <- AddCore
SPECIFICATION Spec
INVARIANTS OneRequestPerEngine BarrierWaits CountNeverAhead
CHECK_DEADLOCK FALSE
