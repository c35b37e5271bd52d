\* Memory accesses may raise exceptions.
CONSTANTS
  N = 1
  Sources = {0, 4}
  Exceptions = TRUE
SPECIFICATION Spec
INVARIANTS AckCausedByInterrupt
