SPECIFICATION FairSpec
CONSTANTS
  Threshold = 2
  MaxVram = 2
  Timeout = 2
  Settle = 1
INVARIANTS EarlyReleaseIsDrained ErrorMeansKilled
PROPERTIES KillIsLastResort EvictionIsOneStep EvictionEnds
