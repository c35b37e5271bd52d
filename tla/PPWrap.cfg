\* One core, two producers; the host goes round the AQL queue, reusing a slot once READ_INDEX has passed it.
CONSTANTS
  W = 2
  Cores <- OneCore
  Q = 4
  N = 5
  Shapes <- SignalledKernels
  Producers = 2
  HostPolicy = "read_index"
  AdminInts <- NoAdmin
SPECIFICATION Spec
INVARIANTS CompletionAccounting StartsOnlySubmitted
PROPERTIES ImplementsKernelDispatch
