SPECIFICATION FairSpec
CONSTANTS
  A = A
  B = B
  Org = {A, B}
  Request = {}
  Trigger = {1, 2}
  OrgOfRequest <- MCOrgOfRequest
  OrgOfTrigger <- MCOrgOfTrigger
  EveryMinutes <- MCEveryMinutes
  Limit <- MCLimit
  CronPeriod = 2
  LastEvent = 1
  Tries = 2
  MaxDuration = 1
  MinInterval = 2
  DefaultInterval = 3
  MonthOf <- TwoMonths
  Horizon = 3
  MaxFaults = 1
  None = None
  NaN = NaN
CHECK_DEADLOCK FALSE
INVARIANTS
  DispatchesSpaced
PROPERTIES
  SweepCompletes
