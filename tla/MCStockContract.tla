-------------------------- MODULE MCStockContract --------------------------
(***************************************************************************)
(* A small instance of StockContract and its readers for TLC: two          *)
(* invoices, one of them not created yet, two products with little stock,  *)
(* four keys, and one reader (readers share nothing).                      *)
(***************************************************************************)
EXTENDS InvoiceReads, TLC

CONSTANTS p1, p2, i1, i2

Cart(a, b) == (p1 :> a) @@ (p2 :> b)

MCProducts == {p1, p2}
MCInvoices == {i1, i2}
MCCarts == {Cart(1, 1), Cart(2, 0)}
MCStock == Cart(2, 1)
MCDrafts == (i1 :> Cart(2, 0)) @@ (i2 :> Empty)

Symmetry == Permutations(Keys)
=============================================================================
