SPECIFICATION BudgetSpec
CONSTANTS
  Quotes = {q1, q2, q3}
  Clients = {c1, c2}
  Networks = {n1, n2, n3}
  Gone = Gone
  Cooldown = 2
  Retention = 3
  Day = 3
  NetworkLimit = 1
  DailyLimit = 2
  MaxTime = 7
INVARIANTS
  BudgetTypeOK
  LimitsHold
SYMMETRY Symmetric
CHECK_DEADLOCK FALSE
