SPECIFICATION Spec
CONSTANTS
  Mints = {m1, m2}
  Units = {rusd}
  Ops = {o1}
  None = None
  MaxMoves = 1
INVARIANT
  MintsKeptApart
CHECK_DEADLOCK FALSE
