SPECIFICATION FairSpec
CONSTANTS
  RequestSlots = 2
  ResponseSlots = 1
INVARIANTS
  TypeOK
  NothingSleptThrough
PROPERTIES
  WaitsEnd
  ShutdownEnds
CHECK_DEADLOCK FALSE
