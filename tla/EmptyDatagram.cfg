CONSTANTS
  Packets = 7
  MaxBatch = 4
  MaxSegments = 3
  Capacity = 2
  Fairness = 3
  MaxCoalesced = 4
  MaxDatagrams = 5
SPECIFICATION BothSpec
INVARIANT ReturnsValidDatagrams
CHECK_DEADLOCK FALSE
