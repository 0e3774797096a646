SPECIFICATION FairSpec
CONSTANTS
  Packets <- SomePackets
  MaxBatch <- SmallBatch
  MaxPacketsPerFlush <- SmallFlush
  OperationBudget <- SmallBudget
  RetryDelay <- ShortDelay
  SocketRoom <- LittleRoom
INVARIANTS PacketOrder PendingRetried
PROPERTY BacklogDrains
CHECK_DEADLOCK FALSE
