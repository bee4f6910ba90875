SPECIFICATION Spec
CONSTANTS
  a = a
  b = b
  c = c
  d = d
  StepId <- MCStepId
  Workflows <- MixedDefinitions
  Delivery = {d1, d2}
  Approval = {u1, u2}
  DefaultAttempts = 2
  MaxFaults = 2
  MaxEdits = 0
  None = None
  End = End
  Missing = Missing
SYMMETRY MCSymmetry
CHECK_DEADLOCK FALSE
INVARIANTS
  TypeOK
  SingleExecutor
  GateRespected
  OutcomeMatchesRecord
  ResumePointExact
  AttemptsBounded
  AttemptCountHonest
  ContextFaithful
PROPERTIES
  TerminalIsFinal
  ApprovalIsFinal
  ImplementsLifecycle
