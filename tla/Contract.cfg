CONSTANTS
  p1 = p1
  p2 = p2
  i1 = i1
  i2 = i2
  NoRow = NoRow
  Products <- MCProducts
  Invoices <- MCInvoices
  Keys = {k1, k2, k3, k4}
  Carts <- MCCarts
  MaxInt = 3
  InitialStock <- MCStock
  Drafts <- MCDrafts
  Readers = {r1}
SPECIFICATION ReadsSpec
SYMMETRY Symmetry
INVARIANT StockMatchesLedger
INVARIANT MovementsMatchStatus
INVARIANT VersionsAccounted
INVARIANT OutstandingMatches
INVARIANT ShownIsCurrent
INVARIANT SettledIsWhole
CHECK_DEADLOCK FALSE
