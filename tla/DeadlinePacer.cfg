CONSTANTS
  Period = 3
  MaxStall = 13
  MaxNow = 40
SPECIFICATION Spec
INVARIANTS
  CatchUpBounded
  RateKept
CHECK_DEADLOCK FALSE
