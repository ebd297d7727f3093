---------------------------- MODULE StockTables ----------------------------
(***************************************************************************)
(* The five PostgreSQL tables the invoice and product services share, cut  *)
(* down to the columns that decide what a request may do, and the          *)
(* invariants that tie them together.  Everything is one user's slice of   *)
(* the database: every query of the two repositories filters by userId.    *)
(***************************************************************************)
EXTENDS Integers, Functions

CONSTANTS
    Products,       \* product ids of the user
    Invoices,       \* invoice ids the database may hand out
    Keys,           \* values of the Idempotency-Key header
    Carts,          \* line items a client may submit: product -> quantity, 0 when absent
    MaxInt,         \* largest value of a PostgreSQL INTEGER column
    InitialStock,   \* quantityOnHand each product was created with
    Drafts,         \* the line items of each draft that exists at the start
    NoRow           \* no row has been committed under a key

(***************************************************************************)
(* A cart with no line is not an invoice: in Drafts it marks a free id.    *)
(***************************************************************************)
Empty == [p \in Products |-> 0]

ASSUME MaxIntAssumption == MaxInt \in Nat
ASSUME CartsAssumption == Carts \subseteq [Products -> 0 .. MaxInt] /\ Empty \notin Carts
ASSUME InitialStockAssumption == InitialStock \in [Products -> 0 .. MaxInt]
ASSUME DraftsAssumption == Drafts \in [Invoices -> Carts \union {Empty}]

VARIABLES
    invoice,    \* Invoice joined with InvoiceItem
    stock,      \* Product.quantityOnHand
    ledger,     \* SUM(quantityDelta) over StockMovement, by product and reason
    moved,      \* the (invoiceId, productId, reason) of the StockMovement rows of invoices
    keyrow      \* InvoiceIdempotency

tables == <<invoice, stock, ledger, moved, keyrow>>
-----------------------------------------------------------------------------
InvoiceStatus == {"DRAFT", "ISSUED", "PAID", "CANCELLED"}
StockMovementReason ==
    {"INITIAL_STOCK", "MANUAL_ADJUSTMENT", "INVOICE_ISSUED", "INVOICE_CANCELLED"}

(***************************************************************************)
(* An invoice row with its lines.  Status "NONE": no such row.             *)
(***************************************************************************)
InvoiceRow ==
    [status : InvoiceStatus \union {"NONE"}, version : Nat, items : [Products -> 0 .. MaxInt]]

NoInvoice == [status |-> "NONE", version |-> 0, items |-> Empty]

DraftOf(items) == [status |-> "DRAFT", version |-> 1, items |-> items]

(***************************************************************************)
(* What a committed idempotency row says: the operation, the invoice, the  *)
(* request body (its sha256 is the fingerprint column; "to" is the body of *)
(* a status change, "items" that of a draft update) and the version of the *)
(* response.                                                               *)
(***************************************************************************)
KeyRow ==
    [op : {"STATUS", "DRAFT_UPDATE"}, inv : Invoices, to : InvoiceStatus,
     items : Carts \union {Empty}, version : Nat]

(***************************************************************************)
(* The columns of an invoice that an answer shows beside its lines.        *)
(***************************************************************************)
Header == [status : InvoiceStatus, version : Nat \ {0}]

ASSUME NoRowAssumption == NoRow \notin KeyRow \union Header

(***************************************************************************)
(* The products on an invoice: one InvoiceItem row each (validateLineItems *)
(* refuses a product that appears twice).                                  *)
(***************************************************************************)
ItemsOf(items) == {p \in Products : items[p] > 0}

(***************************************************************************)
(* The database the service starts on: products created with their         *)
(* INITIAL_STOCK movement, a few drafts, and no idempotency row yet.       *)
(***************************************************************************)
TablesInit ==
    /\ invoice = [i \in Invoices |-> IF Drafts[i] = Empty THEN NoInvoice ELSE DraftOf(Drafts[i])]
    /\ stock = InitialStock
    /\ ledger = [p \in Products |-> [r \in StockMovementReason |->
                    IF r = "INITIAL_STOCK" THEN InitialStock[p] ELSE 0]]
    /\ moved = {}
    /\ keyrow = [k \in Keys |-> NoRow]
-----------------------------------------------------------------------------
(***************************************************************************)
(* What committing each kind of transaction writes.                        *)
(***************************************************************************)

(* The stock and the movements of one invoice, all lines in the same       *)
(* direction: sign = -1 takes the goods out, sign = 1 puts them back.      *)
MoveGoods(i, items, sign, reason) ==
    /\ stock' = [p \in Products |-> stock[p] + sign * items[p]]
    /\ ledger' = [p \in Products |->
                    [ledger[p] EXCEPT ![reason] = @ + sign * items[p]]]
    /\ moved' = moved \union {<<i, p, reason>> : p \in ItemsOf(items)}

(* Mutant: the version is left as it was.                                  *)
SetStatusSameVersion(i, to) == invoice' = [invoice EXCEPT ![i].status = to]

SetStatusTo(i, to) ==
    invoice' = [invoice EXCEPT ![i].status = to, ![i].version = @ + 1]

SetItems(i, items) ==
    invoice' = [invoice EXCEPT ![i].items = items, ![i].version = @ + 1]

RecordKey(k, op, i, to, items) ==
    keyrow' = [keyrow EXCEPT ![k] =
        [op |-> op, inv |-> i, to |-> to, items |-> items, version |-> invoice[i].version + 1]]
-----------------------------------------------------------------------------
TablesTypeOK ==
    /\ invoice \in [Invoices -> InvoiceRow]
    /\ stock \in [Products -> Int]
    /\ ledger \in [Products -> [StockMovementReason -> Int]]
    /\ moved \subseteq Invoices \X Products \X {"INVOICE_ISSUED", "INVOICE_CANCELLED"}
    /\ keyrow \in [Keys -> KeyRow \union {NoRow}]

(***************************************************************************)
(* The quantity on hand stays within what the column and its CHECK         *)
(* constraint (migration 20260903020000) admit: issuing never takes a      *)
(* product below zero, cancelling never takes it over the INTEGER range.   *)
(***************************************************************************)
StockInRange == \A p \in Products : stock[p] \in 0 .. MaxInt

(***************************************************************************)
(* The ledger explains the stock: the quantity on hand of a product is the *)
(* sum of its movements, whatever issues, cancellations and manual         *)
(* adjustments interleaved to produce it.                                  *)
(***************************************************************************)
StockMatchesLedger ==
    \A p \in Products :
        stock[p] = ledger[p]["INITIAL_STOCK"] + ledger[p]["MANUAL_ADJUSTMENT"]
                    + ledger[p]["INVOICE_ISSUED"] + ledger[p]["INVOICE_CANCELLED"]

(***************************************************************************)
(* Goods leave once and come back at most once: an invoice that never left *)
(* DRAFT moved nothing, an issued or paid one has exactly one              *)
(* INVOICE_ISSUED movement per line, and a cancelled one either none at    *)
(* all or both movements for every line (the lines are those the invoice   *)
(* shows now: they cannot change once goods moved).                        *)
(***************************************************************************)
MovementsOf(i, reason) == {p \in Products : <<i, p, reason>> \in moved}

MovementsMatchStatus ==
    \A i \in Invoices :
        LET lines == ItemsOf(invoice[i].items)
            out   == MovementsOf(i, "INVOICE_ISSUED")
            back  == MovementsOf(i, "INVOICE_CANCELLED")
        IN  /\ invoice[i].status \in {"NONE", "DRAFT"} => out = {} /\ back = {}
            /\ invoice[i].status \in {"ISSUED", "PAID"} => out = lines /\ back = {}
            /\ invoice[i].status = "CANCELLED" => out = back /\ out \in {{}, lines}

(***************************************************************************)
(* Every version step of an invoice is owned by exactly one idempotency    *)
(* key: versions 2 .. n of an invoice at version n are recorded under      *)
(* different keys, each once.  A mutation applied twice, or applied        *)
(* without its record, or recorded without being applied breaks it.        *)
(***************************************************************************)
KeysOf(i) == {k \in Keys : keyrow[k] # NoRow /\ keyrow[k].inv = i}

VersionsAccounted ==
    \A i \in Invoices :
        /\ \A v \in 2 .. invoice[i].version :
                \E k \in KeysOf(i) : keyrow[k].version = v
        /\ \A k \in KeysOf(i) : keyrow[k].version \in 2 .. invoice[i].version
        /\ \A k, l \in KeysOf(i) : keyrow[k].version = keyrow[l].version => k = l

(***************************************************************************)
(* The goods that are out are on the invoices that show them: what the     *)
(* issue and cancel movements of a product add up to is minus the quantity *)
(* on the issued and paid invoices, so that nothing has to be known of the *)
(* history to account for the stock.                                       *)
(***************************************************************************)
GoodsOut == {i \in Invoices : invoice[i].status \in {"ISSUED", "PAID"}}

Outstanding(p) == SumFunctionOnSet([i \in Invoices |-> invoice[i].items[p]], GoodsOut)

OutstandingMatches ==
    \A p \in Products :
        ledger[p]["INVOICE_ISSUED"] + ledger[p]["INVOICE_CANCELLED"] = - Outstanding(p)
=============================================================================
