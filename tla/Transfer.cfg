SPECIFICATION FairSpec
CONSTANTS
  FileLength <- FewParts
  Offsets <- SomeOffsets
INVARIANTS CountedMeansConsumed WholeFile
PROPERTY TransferCompletes
CHECK_DEADLOCK FALSE
