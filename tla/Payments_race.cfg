CONSTANTS
  i1 = i1
  t1 = t1
  t2 = t2
  Invoices <- OneInvoice
  Transfers <- TwoTransfers
  InvoiceOf <- ToFirst
  AmountOf <- TwoTwo
  HashOf <- OwnHash
  InvoiceChains <- OnlyPolygon
  SwapInvoices <- OneInvoice
  Amounts = {4}
  UnderTolerance = 0
  OverTolerance = 0
  Budget <- NoRequest
SPECIFICATION FairSpec
INVARIANTS TotalsAreBacked CountedOnce
PROPERTY EveryInvoiceCloses
CHECK_DEADLOCK FALSE
