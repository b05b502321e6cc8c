SPECIFICATION FairSpec
CONSTANTS
  Quotes = {q1}
  Gone = Gone
  None = None
  Cooldown = 1
  Retention = 3
  Day = 2
  NetworkLimit = 1
  DailyLimit = 1
  RecoveryDelay = 1
  Margin = 0
  Expiry = 4
  MaxTime = 4
  MaxFaults = 2
INVARIANTS
  TypeOK
  NeverPaysTwice
PROPERTIES
  OutcomesStand
  SettledIsReported
CHECK_DEADLOCK FALSE
