SPECIFICATION FairSpec
CONSTANTS
  s1 = s1
  s2 = s2
  Session = {s1}
  Foreign = {s2}
  NoSession = NoSession
  MaxStarts = 2
  MaxBatch = 1
INVARIANTS PointersValid SendsReachLiveAgent
PROPERTY HandshakeCompletes
CHECK_DEADLOCK FALSE
