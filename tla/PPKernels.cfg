\* Two cores share the window; kernels with and without a completion signal.
CONSTANTS
  W = 2
  Cores <- TwoCores
  Q = 4
  N = 3
  Shapes <- Kernels
  Producers = 1
  HostPolicy = "header"
  AdminInts <- NoAdmin
SPECIFICATION FairSpec
INVARIANTS TypeOK SlotConservation QueuesFit OneRequestPerEngine DataReady ResultBeforeSignal CompletionAccounting
PROPERTIES ImplementsKernelDispatch EveryDispatchEnds
