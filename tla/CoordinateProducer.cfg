CONSTANTS
  SeqMod = 4
  MaxTicks = 6
SPECIFICATION FairSpec
INVARIANTS
  TypeOK
  ChainUnbroken
PROPERTIES
  FeedsConsumers
  NoTickAfterStop
  StopEndsThread
  KeepsTicking
CHECK_DEADLOCK FALSE
