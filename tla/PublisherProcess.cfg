CONSTANTS
  SeqMod = 4
  MaxTicks = 1
  MaxReaders = 1
SPECIFICATION FairSpec
INVARIANTS
  ShutdownInOrder
PROPERTIES
  ComponentsFit
  ForwardsGenerated
  SourceStopsFirst
  SignalEndsProducer
  SignalsEndPublisher
\* main is over
CHECK_DEADLOCK FALSE
