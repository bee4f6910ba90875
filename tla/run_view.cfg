SPECIFICATION FairSpec
CONSTANTS
  Run = {r1, r2}
  Waiting = 1
  Final = 2
  retryAttempts = 1
  MaxDrops = 3
  MaxTurns = 2
  MaxWire = 2
  None = None
CHECK_DEADLOCK FALSE
INVARIANTS
  PanelIsOfRun
PROPERTIES
  ViewConverges
