CONSTANTS
  SeqMod = 8
  MaxTicks = 1
  Clients = {c1, c2}
SPECIFICATION FairSpec
PROPERTY ClosesAll
CHECK_DEADLOCK FALSE
