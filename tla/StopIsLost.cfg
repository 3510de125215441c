CONSTANTS
  SeqMod = 8
  MaxTicks = 3
  MaxReaders = 2
SPECIFICATION FairSpec
PROPERTY StopEndsRun
CHECK_DEADLOCK FALSE
