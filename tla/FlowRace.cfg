CONSTANTS
  p1 = p1
  p2 = p2
  i1 = i1
  i2 = i2
  k1 = k1
  k2 = k2
  NoRow = NoRow
  Keep = Keep
  Products <- MCProducts
  Invoices <- MCInvoices
  Keys <- MCKeys
  Carts <- MCCarts
  MaxInt = 3
  InitialStock <- MCStock
  Drafts <- OneDraft
  Reqs = {r1, r2, r3}
  Calls <- RaceCalls
  Editors = {}
  Edits = {}
SPECIFICATION Spec
CONSTRAINT NoDeletion
SYMMETRY Symmetry
INVARIANT TypeOK
INVARIANT OneWinner
INVARIANT AnswersMatchRecords
PROPERTY Refines
CHECK_DEADLOCK FALSE
