SPECIFICATION FairSpec
CONSTANTS
  Codes = {0, 1}
INVARIANTS
  TypeOK
  ClassifiedFirst
  NoneLeftBehind
  SuccessIsGraceful
PROPERTIES
  HostStops
