SPECIFICATION Spec
CONSTANTS
  Org = {A}
  User = {u, v}
  Workflow = {w}
  Step = {s}
  Trigger = {}
  Run = {r}
  Call = {c}
  Status <- MCStatus
  StepType <- MCStepType
  TriggerType <- MCTriggerType
  MaxAdmin = 1
  MaxSecrets = 1
  None = None
SYMMETRY MCSymmetry
CONSTRAINT HandlersOverPlainRows
CHECK_DEADLOCK FALSE
INVARIANTS
  AccountsDeletable
