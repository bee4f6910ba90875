SPECIFICATION Spec
CONSTANTS
  Tab = {t1, t2}
  Request = {q1, q2, q3}
  Existing = {a, b, c}
  MaxFaults = 2
  None = None
SYMMETRY MCSymmetry
CHECK_DEADLOCK FALSE
INVARIANTS
  TypeOK
  OrderIntact
  ListIsOfOrg
