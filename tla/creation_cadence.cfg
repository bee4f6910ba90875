SPECIFICATION Spec
CONSTANTS
  A = A
  B = B
  Org = {A, B}
  Request = {}
  Trigger = {1, 2}
  OrgOfRequest <- MCOrgOfRequest
  OrgOfTrigger <- MCOrgOfTrigger
  EveryMinutes <- MCEveryMinutes
  Limit <- MCLimit
  CronPeriod = 2
  LastEvent = 1
  Tries = 1
  MaxDuration = 1
  MinInterval = 2
  DefaultInterval = 3
  MonthOf <- TwoMonths
  Horizon = 3
  MaxFaults = 0
  None = None
  NaN = NaN
CHECK_DEADLOCK FALSE
INVARIANTS
  CadenceKept
