SPECIFICATION FairSpec
CONSTANTS
  Capacity = 12
  PosMod = 24
  MAX_RING_FRAME_BYTES = 12
  Payloads <- MCPayloads
  OutputLens <- MCLens
  OwnerLens <- MCLens
INVARIANTS
  TypeOK
  NoSharedByte
  FramesIntact
PROPERTIES
  ImplementsMessageQueue
  BoundedSendReturns
