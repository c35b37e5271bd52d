\* One core, its lane, the transfer lane and the doorbell; accesses may raise exceptions.
CONSTANTS
  N = 1
  Sources = {0, 4, 5}
  Exceptions = TRUE
SPECIFICATION FairSpec
INVARIANTS TypeOK OnePlace HandlerMatches
PROPERTIES ImplementsDelivery OnlyLowerLanesDelay
