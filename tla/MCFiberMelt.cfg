SPECIFICATION FairSpec
CONSTANTS
  i1 = i1
  i2 = i2
  foreign = foreign
  native = native
  amountless = amountless
  NoAmount = NoAmount
  Invoices <- MCInvoices
  Calls = {c1, c2}
  Network = "Fibt"
  Asset = "rusd"
  Decoded <- MCDecoded
  MaxFaults = 2
INVARIANTS
  TypeOK
  ProofsCoverPayment
  DispatchIsSound
PROPERTIES
  ImplementsEscrow
  
  
CHECK_DEADLOCK FALSE
