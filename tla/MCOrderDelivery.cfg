SPECIFICATION OrderSpec
CONSTANTS
  Orders = {o1}
  Caps = {c1}
  Proofs = {p1, p2}
  None = None
  MaxTtl = 3
  Retention = 2
  Period = 2
  MaxTime = 7
  Catalog <- MCCatalog
  Lifetime = 2
  Window = 4
  MemoLimit = 4
  MaxSafe = 2
  MaxQuantity = 2
  Balance = 3
  Skews <- MCSkews
  Fees = {0, 1}
INVARIANTS
  TypeOK
  PayloadIsKept
  OneWinner
  ReviewIsKept
PROPERTIES
  FirstPayloadWins
  
SYMMETRY Symmetric
CHECK_DEADLOCK FALSE
