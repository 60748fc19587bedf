SPECIFICATION Spec
CONSTANTS
  MAX_CONNS = 1
  CONN_ID_PEER_IN_BASE = 3
  Peers = {}
  Requests = {}
  MAX_PENDING_WRITE = 1
  MAX_PENDING_CONNECT_WRITE = 1
  InSlots = 2
  OutSlots = 3
  Wraps = TRUE
  MaxGenerations = 3
  MaxWrites = 0
  MaxControls = 3
INVARIANTS TypeOK PausedAsAsked
