--------------------------- MODULE StockContract ---------------------------
(***************************************************************************)
(* What the invoice and product services promise about the tables, each    *)
(* request that succeeds being one atomic step: no transactions, no locks, *)
(* no retries.  StockFlow is the concurrent implementation of it.          *)
(***************************************************************************)
EXTENDS StockTables

TypeOK == TablesTypeOK

(* A mutation under a key needs an unused key and takes it for good.       *)
Unused(k) == keyrow[k] = NoRow

(* POST /invoices: a new draft, at version 1, on a fresh id.               *)
Create(i, items) ==
    /\ invoice[i].status = "NONE"
    /\ invoice' = [invoice EXCEPT ![i] = DraftOf(items)]
    /\ UNCHANGED <<stock, ledger, moved, keyrow>>

(* Mutant: any invoice can be edited.                                      *)
EditableAny(i) == invoice[i].status # "NONE"

Editable(i) == invoice[i].status = "DRAFT"

(* PATCH /invoices/:id replaces the lines of a draft.                      *)
EditDraft(i, k, items) ==
    /\ Editable(i)
    /\ Unused(k)
    /\ SetItems(i, items)
    /\ RecordKey(k, "DRAFT_UPDATE", i, "DRAFT", items)
    /\ UNCHANGED <<stock, ledger, moved>>

InStock(items) == \A p \in Products : stock[p] >= items[p]

(* DRAFT -> ISSUED takes every line's quantity from stock, or none at all. *)
Issue(i, k) ==
    /\ invoice[i].status = "DRAFT"
    /\ Unused(k)
    /\ InStock(invoice[i].items)
    /\ SetStatusTo(i, "ISSUED")
    /\ RecordKey(k, "STATUS", i, "ISSUED", Empty)
    /\ MoveGoods(i, invoice[i].items, -1, "INVOICE_ISSUED")

(* Mutant: an issued invoice may be cancelled the way a draft is.          *)
SettlementsAll == {<<"ISSUED", "PAID">>, <<"DRAFT", "CANCELLED">>, <<"ISSUED", "CANCELLED">>}

Settlements == {<<"ISSUED", "PAID">>, <<"DRAFT", "CANCELLED">>}

(* ISSUED -> PAID and DRAFT -> CANCELLED move no goods.                    *)
Settle(i, k, from, to) ==
    /\ <<from, to>> \in Settlements
    /\ invoice[i].status = from
    /\ Unused(k)
    /\ SetStatusTo(i, to)
    /\ RecordKey(k, "STATUS", i, to, Empty)
    /\ UNCHANGED <<stock, ledger, moved>>

(* ISSUED -> CANCELLED puts every line back, if the column can hold it.    *)
CancelIssued(i, k) ==
    /\ invoice[i].status = "ISSUED"
    /\ Unused(k)
    /\ \A p \in Products : stock[p] + invoice[i].items[p] <= MaxInt
    /\ SetStatusTo(i, "CANCELLED")
    /\ RecordKey(k, "STATUS", i, "CANCELLED", Empty)
    /\ MoveGoods(i, invoice[i].items, 1, "INVOICE_CANCELLED")

(* Mutant: the movement is the quantity instead of the difference.         *)
AdjustAbsolute(p, quantity) ==
    /\ stock' = [stock EXCEPT ![p] = quantity]
    /\ ledger' = [ledger EXCEPT ![p]["MANUAL_ADJUSTMENT"] = quantity]
    /\ UNCHANGED <<invoice, moved, keyrow>>

(* PATCH /products/:id with a quantity: the difference goes in the ledger. *)
Adjust(p, quantity) ==
    /\ stock' = [stock EXCEPT ![p] = quantity]
    /\ ledger' = [ledger EXCEPT ![p]["MANUAL_ADJUSTMENT"] = @ + quantity - stock[p]]
    /\ UNCHANGED <<invoice, moved, keyrow>>

Init == TablesInit

Next ==
    \/ \E i \in Invoices, items \in Carts : Create(i, items)
    \/ \E i \in Invoices, k \in Keys, items \in Carts : EditDraft(i, k, items)
    \/ \E i \in Invoices, k \in Keys : Issue(i, k)
    \/ \E i \in Invoices, k \in Keys, from, to \in InvoiceStatus : Settle(i, k, from, to)
    \/ \E i \in Invoices, k \in Keys : CancelIssued(i, k)
    \/ \E p \in Products, quantity \in 0 .. MaxInt : Adjust(p, quantity)

Spec == Init /\ [][Next]_tables
=============================================================================
