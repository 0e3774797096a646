SPECIFICATION FairSpec
CONSTANTS
  Total <- FewBytes
  MaxWrite <- SmallWrites
  HighWatermark <- SmallWatermark
  InitialCredit <- LittleCredit
INVARIANTS ProducerBounded UnackedRetained FinAfterData AckedMeansDelivered
PROPERTY WriterDone
CHECK_DEADLOCK FALSE
