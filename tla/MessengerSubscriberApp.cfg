CONSTANTS
  CountMod = 3
  Kinds = {"coords", "unparsed", "garbled", "invalid"}
  MaxSamples = 3
SPECIFICATION FairSpec
INVARIANTS
  TypeOK
  Accounted
  EndsWhenTold
PROPERTIES
  EverySampleTaken
  SignalsEndRun
CHECK_DEADLOCK FALSE
