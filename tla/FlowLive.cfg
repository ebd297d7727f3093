CONSTANTS
  p1 = p1
  p2 = p2
  i1 = i1
  i2 = i2
  k1 = k1
  k2 = k2
  NoRow = NoRow
  Keep = Keep
  Products <- MCProducts
  Invoices <- MCInvoices
  Keys <- MCKeys
  Carts <- MCCarts
  MaxInt = 3
  InitialStock <- MCStock
  Drafts <- CrossedDrafts
  Reqs = {r1, r2}
  Calls <- CrossedCalls
  Editors = {e1}
  Edits <- Count
SPECIFICATION FairSpec
PROPERTY EveryRequestAnswered
PROPERTY RetriesReplay
CHECK_DEADLOCK FALSE
