CONSTANTS
  p1 = p1
  p2 = p2
  i1 = i1
  i2 = i2
  k1 = k1
  k2 = k2
  NoRow = NoRow
  Keep = Keep
  Products <- MCProducts
  Invoices <- MCInvoices
  Keys <- MCKeys
  Carts <- MCCarts
  MaxInt = 3
  InitialStock <- MCStock
  Drafts <- TwoDrafts
  Reqs = {r1, r2}
  Calls <- StockCalls
  Editors = {e1, e2}
  Edits <- CountAndRename
SPECIFICATION Spec
INVARIANT NotFoundMeansGone
CHECK_DEADLOCK FALSE
