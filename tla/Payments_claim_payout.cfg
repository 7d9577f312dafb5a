CONSTANTS
  i1 = i1
  t1 = t1
  t2 = t2
  Invoices <- OneInvoice
  Transfers <- TwoTransfers
  InvoiceOf <- ToFirst
  AmountOf <- TwoTwo
  HashOf <- OwnHash
  InvoiceChains <- OnlyPolygon
  SwapInvoices <- OneInvoice
  Amounts = {2}
  UnderTolerance = 0
  OverTolerance = 0
  Budget <- Calm
SPECIFICATION Spec
INVARIANT OnePayoutPerInvoice
