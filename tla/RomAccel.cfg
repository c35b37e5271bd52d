\* Two tasks one after the other; bursts of at most 4 bytes, 4-bit sizes.
CONSTANTS
  Word = 16
  MaxBurst = 4
  Configs <- MCConfigs
  MaxLaunches = 2
SPECIFICATION FairSpec
CHECK_DEADLOCK FALSE
INVARIANTS TypeOK LanesExclusive BurstsCoverImage PeConfigured
PROPERTIES ImplementsService EveryLaunchAnswered
