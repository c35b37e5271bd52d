\* 4-bit words and 8-bit double words; the exceptions of all four processors.
CONSTANTS
  W = 4
  Arguments <- MCArguments
  DoubleArguments <- MCDoubleArguments
  Undefined <- MCUndefined
  AddressSpace = 131072
  Instructions <- MCInstructions
  Interruptible <- MCInterruptible
  InterruptCodes <- MCInterruptCodes
  Memories <- MCMemories
  BaseWord <- MCBaseWord
  FrameWords <- MCFrameWords
  MaxAllocations = 2
  MaxInterrupts = 2
SPECIFICATION Spec
CHECK_DEADLOCK FALSE
INVARIANTS TypeOK LoopInvariant ReturnsExpected RegistersPreserved ResumesAfterAccess HeapDisjoint
PROPERTIES EveryCallEnds
