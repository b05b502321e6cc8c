SPECIFICATION Spec
CONSTANTS
  Sends = {s1}
  Receives = {r1}
  Adds = {a1}
  Outs = {c1}
  Seeds = {p1}
  Overlap = FALSE
  MaxOps = 3
  MaxFaults = 1
INVARIANTS
  TypeOK
  ValueIsInOnePlace
  OutcomesAreTrue
PROPERTY
  ImplementsVault
CHECK_DEADLOCK FALSE
