CONSTANTS
  Publisher = publisher
  Connectors = {c1, c2}
  UsesMapping = {publisher, c1}
  None = none
SPECIFICATION FairSetup
INVARIANTS OffererControls HoldCoversMapping NothingLeft
PROPERTY PeersMeet
CHECK_DEADLOCK FALSE
