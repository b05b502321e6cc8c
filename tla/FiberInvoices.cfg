SPECIFICATION FairSpec
CONSTANTS
  Invoices = {h1, h2}
  NoInvoice = NoInvoice
  EventBuffer = 1
  MaxFaults = 2
INVARIANTS
  TypeOK
  CreditOnlyPaid
  NothingForgotten

  
CHECK_DEADLOCK FALSE
