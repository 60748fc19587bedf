SPECIFICATION LiveSpec
CONSTANTS
  Conns = {c1}
  MAX_CONNS = 1
  MAX_PENDING_TO_ENCLAVE = 60
  TCP_READ_BUF = 30
  CHANNEL_MSG_HEADER = 5
  WordBytes = 13
  NewBytes = 7
  RingBytes = 40
  MSG_HEADER_SIZE = 4
  MaxCredits = 1
  MaxConnects = 1
  Marks = 2
INVARIANT InOrder
PROPERTY BacklogDrains
CHECK_DEADLOCK FALSE
