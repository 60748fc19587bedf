SPECIFICATION LiveSpec
CONSTANTS
  MAX_CONNS = 1
  CONN_ID_PEER_IN_BASE = 3
  Peers = {7}
  Requests = {1}
  MAX_PENDING_WRITE = 1
  MAX_PENDING_CONNECT_WRITE = 1
  InSlots = 2
  OutSlots = 2
  Wraps = FALSE
  MaxGenerations = 1
  MaxWrites = 2
  MaxControls = 0
INVARIANT HeldByBoth
PROPERTIES ConnectsAnswered SocketsReturned
CHECK_DEADLOCK FALSE
