SPECIFICATION FairSpec
CONSTANTS
  a = a
  b = b
  c = c
  d = d
  StepId <- MCStepId
  Workflows <- EditedDefinitions
  Delivery = {d1, d2, d3}
  Approval = {u1}
  DefaultAttempts = 2
  MaxFaults = 1
  MaxEdits = 0
  None = None
  End = End
  Missing = Missing
CHECK_DEADLOCK FALSE
PROPERTIES
  CrashDoesNotOrphan
