SPECIFICATION FairSpec
CONSTANTS
  Step <- MCStep
  Channel <- MCChannel
  MaxAttempts <- MCMaxAttempts
  Mode = "slack"
  Tries = 3
  MaxFaults = 2
CHECK_DEADLOCK FALSE
INVARIANTS
  TypeOK
  SentWasReceived
  DuplicatesCostFaults
PROPERTIES
  NotificationSettles
