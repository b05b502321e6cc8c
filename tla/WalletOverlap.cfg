SPECIFICATION Spec
CONSTANTS
  Sends = {}
  Receives = {}
  Adds = {}
  Outs = {c1}
  Seeds = {p1, p2}
  Overlap = TRUE
  MaxOps = 1
  MaxFaults = 0
INVARIANT
  BalanceIsReal
CHECK_DEADLOCK FALSE
