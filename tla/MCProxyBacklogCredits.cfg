SPECIFICATION Spec
CONSTANTS
  Conns = {c1, c2}
  MAX_CONNS = 2
  MAX_PENDING_TO_ENCLAVE = 300
  TCP_READ_BUF = 150
  CHANNEL_MSG_HEADER = 5
  WordBytes = 13
  NewBytes = 7
  RingBytes = 160
  MSG_HEADER_SIZE = 4
  MaxCredits = 8
  MaxConnects = 0
  Marks = 0
INVARIANT ProxyNeverStops
CHECK_DEADLOCK FALSE
