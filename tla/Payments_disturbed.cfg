CONSTANTS
  i1 = i1
  t1 = t1
  t2 = t2
  Invoices <- OneInvoice
  Transfers <- TwoTransfers
  InvoiceOf <- ToFirst
  AmountOf <- TwoThree
  HashOf <- OwnHash
  InvoiceChains <- ChainType
  SwapInvoices <- None
  Amounts = {3, 4}
  UnderTolerance = 1
  OverTolerance = 0
  Budget <- NoBreak
SPECIFICATION Spec
INVARIANTS TypeOK SerialMeansExact EventsTell NothingLeavesEarly ActiveIsMonitored
PROPERTY ImplementsLifecycle
CHECK_DEADLOCK FALSE
