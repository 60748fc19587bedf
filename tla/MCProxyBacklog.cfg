SPECIFICATION Spec
CONSTANTS
  Conns = {c1, c2}
  MAX_CONNS = 2
  MAX_PENDING_TO_ENCLAVE = 80
  TCP_READ_BUF = 30
  CHANNEL_MSG_HEADER = 5
  WordBytes = 13
  NewBytes = 7
  RingBytes = 40
  MSG_HEADER_SIZE = 4
  MaxCredits = 1
  MaxConnects = 1
  Marks = 0
INVARIANTS TypeOK ReserveKept
CHECK_DEADLOCK FALSE
