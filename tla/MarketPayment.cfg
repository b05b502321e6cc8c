SPECIFICATION Spec
CONSTANTS
  Payers = {a1, a2}
  MaxOrders = 1
  Ttl = 2
  Retention = 2
  Period = 1
  MaxTime = 4
  MaxFaults = 1
  None = None
INVARIANTS
  TypeOK
  StoredIsReadable
  ValueIsRecoverable
  OutcomesAgree
PROPERTIES
  ImplementsVault
  
CHECK_DEADLOCK FALSE
