SPECIFICATION FairSpec
CONSTANTS
  e1 = e1
  e2 = e2
  d1 = d1
  d2 = d2
  t1 = t1
  t2 = t2
  Event = {e1, e2}
  Datagram = {d1, d2}
  Consumer = {t1, t2}
  Limits = {1, 2}
INVARIANTS BinaryTokens NoSleep NothingLost
PROPERTY WaiterWoken
CHECK_DEADLOCK FALSE
