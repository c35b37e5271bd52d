\* A DMA request and a signal decrement at the same time.
CONSTANTS
  Sources = {"transfer", "completion"}
SPECIFICATION Spec
INVARIANTS RemovedWasProcessed
CHECK_DEADLOCK FALSE
