SPECIFICATION Spec
CONSTANTS
  k1 = k1
  k2 = k2
  k3 = k3
  c1 = c1
  c2 = c2
  Connection = {c1}
  Server = {}
  Call = {k1, k2, k3}
  Kinds = {"start", "send", "close", "receive"}
  Budget = 2
  NoCall = NoCall
SYMMETRY CallSymmetry
INVARIANTS NoStrandedCall TimerCovered OneStartSucceeds ReceiveNotStranded
CHECK_DEADLOCK FALSE
