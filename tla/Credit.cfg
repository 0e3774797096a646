SPECIFICATION FairSpec
CONSTANTS
  StreamWindow <- SmallStreamWindow
  DataWindow <- SmallDataWindow
  StreamLength <- LongStream
INVARIANTS UnreadWithinWindow CreditConserved NoStall
PROPERTIES StreamImplemented StreamEnds
CHECK_DEADLOCK FALSE
