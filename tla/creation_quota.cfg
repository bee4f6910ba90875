SPECIFICATION Spec
CONSTANTS
  A = A
  B = B
  Org = {A, B}
  Request = {r1, r2}
  Trigger = {1, 2}
  OrgOfRequest <- MCOrgOfRequest
  OrgOfTrigger <- MCOrgOfTrigger
  EveryMinutes <- MCEveryMinutes
  Limit <- MCLimit
  CronPeriod = 2
  LastEvent = 0
  Tries = 1
  MaxDuration = 1
  MinInterval = 2
  DefaultInterval = 3
  MonthOf <- MonthlyTicks
  Horizon = 2
  MaxFaults = 2
  None = None
  NaN = NaN
SYMMETRY MCSymmetry
CHECK_DEADLOCK FALSE
INVARIANTS
  TypeOK
  QuotaRespected
  NothingOvercharged
  UnitsAccounted
  CreationInv
