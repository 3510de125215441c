CONSTANTS
  CountMod = 3
  Kinds = {"coords"}
  MaxSamples = 1
SPECIFICATION FairSpec
INVARIANT NeverCrashes
CHECK_DEADLOCK FALSE
