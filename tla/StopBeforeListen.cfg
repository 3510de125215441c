CONSTANTS
  SeqMod = 8
  MaxTicks = 2
  Clients = {}
SPECIFICATION FairSpec
PROPERTY StopEndsServer
CHECK_DEADLOCK FALSE
