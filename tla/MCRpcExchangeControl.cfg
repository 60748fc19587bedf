SPECIFICATION Spec
CONSTANTS
  Threads = {"module", "admin"}
  KindsOf <- MCControl
  RequestSlots = 2
  ResponseSlots = 2
  MaxId = 5
INVARIANTS
  SerialisedNeverRefused
