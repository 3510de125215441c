CONSTANTS
  SeqMod = 8
  MaxTicks = 2
  Clients = {c1, c2}
SPECIFICATION FairSpec
INVARIANTS
  TypeOK
  UndisturbedUntilStop
PROPERTIES
  ClientsSeeSubStreams
  LastBroadcast
  EveryClientFollows
  StopEndsOnceClosed
CHECK_DEADLOCK FALSE
