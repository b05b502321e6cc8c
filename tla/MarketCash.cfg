SPECIFICATION Spec
CONSTANTS
  Tabs = {t1, t2}
  Seeds = {s1}
  MaxAdds = 1
  MaxOuts = 1
  MaxFaults = 1
INVARIANTS
  TypeOK
  ValueIsInOnePlace
  OutcomeIsFinal
PROPERTIES
  ImplementsVault
  
CHECK_DEADLOCK FALSE
