SPECIFICATION FairSpec
CONSTANTS
  Window = 4
  Quantum = 3
  Step = 2
  MaxPending = 4
  Flights = {1, 4}
  MaxSent = 8
  Backlog = 3
  Inbox = 3
INVARIANTS
  TypeOK
  NeverOverflows
  UncountedIgnored
  NoCreditDeadlock
PROPERTIES
  CreditReturns
  BothForget
CHECK_DEADLOCK FALSE
