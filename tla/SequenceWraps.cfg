CONSTANTS
  SeqMod = 3
  MaxTicks = 4
  MaxReaders = 2
SPECIFICATION FairSpec
PROPERTY DifferentIsPublished
CHECK_DEADLOCK FALSE
