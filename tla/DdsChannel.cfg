CONSTANTS
  Byte = 4
  Representation = "XCDR"
  Readers = {r1, r2}
  Fixes = {1, 127, 128}
  Capacity = 2
SPECIFICATION FairSpec
INVARIANTS
  TypeOK
  ReceivedAsWritten
  RetainedUntilReceived
  TypeSupportAgrees
PROPERTIES
  HistoryReachesReaders
  FullHistoryYields
\* the publisher has left and its readers are drained
CHECK_DEADLOCK FALSE
