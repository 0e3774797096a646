CONSTANTS
  PayloadSize = 3
  PerBuffer = 2
  InitialCount = 2
  GrowCount = 2
  MaxBuffers = 8
  MaxBytes = 8
  Sizes <- AllSizes
SPECIFICATION BufferSpec
INVARIANTS BatchesAreSequences
CHECK_DEADLOCK FALSE
