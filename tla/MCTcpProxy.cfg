SPECIFICATION Spec
CONSTANTS
  MAX_CONNS = 2
  CONN_ID_PEER_IN_BASE = 4
  Peers = {7}
  Requests = {1}
  MAX_PENDING_WRITE = 1
  MAX_PENDING_CONNECT_WRITE = 1
  InSlots = 1
  OutSlots = 2
  Wraps = FALSE
  MaxGenerations = 1
  MaxWrites = 1
  MaxControls = 0
INVARIANTS AnnouncedFirst AnsweredOnce WithinCap
CHECK_DEADLOCK FALSE
