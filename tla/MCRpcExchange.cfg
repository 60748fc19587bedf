SPECIFICATION FairSpec
CONSTANTS
  Threads = {"worker", "module", "admin"}
  KindsOf <- MCExecution
  RequestSlots = 1
  ResponseSlots = 1
  MaxId = 4
INVARIANTS
  TypeOK
  ExclusiveEndpoints
  AnsweredOnce
  StaleOnlyAfterAbandon
PROPERTIES
  OperationEnds
