SPECIFICATION FairSpec
CONSTANTS
  k1 = k1
  k2 = k2
  k3 = k3
  c1 = c1
  c2 = c2
  Connection = {c1, c2}
  Server = {c2}
  Call = {k1, k2}
  Kinds = {"start", "close", "receive", "read", "stop"}
  Budget = 2
  NoCall = NoCall
INVARIANTS SchedulingInv
PROPERTIES CallsReturn StopJoins KeepsServing KeepsOrder
CHECK_DEADLOCK FALSE
