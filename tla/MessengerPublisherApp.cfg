CONSTANTS
  SeqMod = 4
  MaxTicks = 3
  MaxReaders = 2
SPECIFICATION FairSpec
INVARIANTS
  TypeOK
  SamplesNotTorn
  NoLostMatch
PROPERTIES
  ForwardsSubStream
  WrittenWhileMatched
  LastSample
  LatestPublished
  StopWakesSleeper
  StopEndsMatchedRun
CHECK_DEADLOCK FALSE
