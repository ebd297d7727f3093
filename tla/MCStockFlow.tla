---------------------------- MODULE MCStockFlow ----------------------------
(***************************************************************************)
(* Small instances of StockFlow for TLC, and the properties of its runs.   *)
(***************************************************************************)
EXTENDS StockFlow, FiniteSets, FiniteSetsExt, TLC

CONSTANTS p1, p2, i1, i2, k1, k2

Cart(a, b) == (p1 :> a) @@ (p2 :> b)

MCProducts == {p1, p2}
MCInvoices == {i1, i2}
MCKeys == {k1, k2}
MCCarts == {Cart(1, 1), Cart(2, 0)}
MCStock == Cart(2, 1)

Status(i, k, v, to) ==
    [op |-> "STATUS", inv |-> i, key |-> k, ver |-> v, to |-> to, items |-> Empty]
Update(i, k, v, items) ==
    [op |-> "DRAFT_UPDATE", inv |-> i, key |-> k, ver |-> v, to |-> "DRAFT", items |-> items]
New(items) ==
    [op |-> "CREATE", inv |-> i1, key |-> k1, ver |-> 1, to |-> "DRAFT", items |-> items]

(* Three requests that race on one draft: every transition, the same key   *)
(* used again for the same request and for another, a stale version, and   *)
(* a new draft on the free id.                                             *)
OneDraft == (i1 :> Cart(1, 1)) @@ (i2 :> Empty)
RaceCalls ==
    {Status(i1, k1, 1, "ISSUED"), Status(i1, k2, 1, "ISSUED"), Status(i1, k1, 1, "CANCELLED"),
     Update(i1, k2, 1, Cart(2, 0)), Status(i1, k2, 2, "CANCELLED"), Status(i1, k1, 2, "PAID"),
     Update(i1, k1, 1, Cart(1, 1)), Status(i1, k2, 2, "ISSUED"), Status(i1, k1, 3, "CANCELLED"),
     New(Cart(1, 1))}

(* Two drafts that want the same products, more than there is of them,     *)
(* while somebody counts the shelves, somebody renames a product and an    *)
(* administrator deletes one.                                              *)
TwoDrafts == (i1 :> Cart(1, 1)) @@ (i2 :> Cart(2, 0))
StockCalls ==
    {Status(i1, k1, 1, "ISSUED"), Status(i2, k2, 1, "ISSUED"), Status(i1, k2, 2, "CANCELLED"),
     Update(i1, k2, 1, Cart(2, 0))}
CountAndRename ==
    {[product |-> p1, quantity |-> 3], [product |-> p1, quantity |-> Keep]}

(* Two drafts with the same two lines: transactions that lock each other   *)
(* out, whose requests are repeated by the client.                         *)
CrossedDrafts == (i1 :> Cart(1, 1)) @@ (i2 :> Cart(1, 1))
CrossedCalls ==
    {Status(i1, k1, 1, "ISSUED"), Status(i2, k2, 1, "ISSUED"), Status(i1, k2, 2, "CANCELLED")}
Count == {[product |-> p1, quantity |-> 3]}

(* One key given to two different status changes.                          *)
KeyReuseCalls ==
    {Status(i1, k1, 1, "ISSUED"), Status(i1, k2, 2, "CANCELLED"), Status(i2, k2, 1, "CANCELLED")}

(* No product is deleted while invoices race: a deletion touches the lines *)
(* of an invoice as any other product update does.                         *)
NoDeletion == \A p \in Products : active[p]

(* One of the two products may be deleted.                                 *)
OneDeletion == active[p2]

Symmetry == Permutations(Reqs) \union Permutations(Editors)
=============================================================================
