----------------------------- MODULE ProductClock -----------------------------
(***************************************************************************)
(* StockFlow and ProductCatalog count the writes to a product and call the *)
(* count updatedAt.  Here it is what the column holds, a time in whole     *)
(* milliseconds that Prisma takes when it sends a statement: two writes    *)
(* may bear one time, and a write that had to wait, or whose server's      *)
(* clock was set back, bears an earlier one than the write before it.      *)
(* One product; its editors and the invoices that take it out and put it   *)
(* back.                                                                   *)
(***************************************************************************)
EXTENDS Integers

CONSTANTS
    Editors,    \* requests to PATCH the product
    Times,      \* what the clocks may show while they run
    MaxStock,   \* bound: the largest quantity on hand
    Keep        \* a body that leaves quantityOnHand out

ClockAssumption == Times \subseteq Nat /\ Keep \notin Int /\ MaxStock \in Nat

VARIABLES
    stock,      \* quantityOnHand
    ledger,     \* the sum of the product's movements
    updatedAt,
    stamps,     \* the times its writes have borne
    again,      \* a write has borne the time of an earlier one
    edit        \* each editor: where it stands, what it wants, what it read

vars == <<stock, ledger, updatedAt, stamps, again, edit>>

Edit == [pc : {"read", "write", "saved", "missing"}, want : 0 .. MaxStock \union {Keep},
         quantity : 0 .. MaxStock, at : Times]

TypeOK ==
    /\ stock \in 0 .. MaxStock
    /\ ledger \in Int
    /\ stamps \subseteq Times /\ updatedAt \in stamps
    /\ again \in BOOLEAN
    /\ edit \in [Editors -> Edit]

Init ==
    /\ stock \in 0 .. MaxStock
    /\ ledger = stock
    /\ updatedAt \in Times
    /\ stamps = {updatedAt}
    /\ again = FALSE
    /\ edit \in [Editors -> {[pc |-> "read", want |-> w, quantity |-> 0, at |-> updatedAt] :
                                w \in 0 .. MaxStock \union {Keep}}]
-----------------------------------------------------------------------------
(* @updatedAt: every write of the row sets it.                             *)
Stamp(t) ==
    /\ updatedAt' = t
    /\ stamps' = stamps \union {t}
    /\ again' = (again \/ t \in stamps)

(* PrismaProductRepository.update, its first statement.                    *)
Read(e) ==
    /\ edit[e].pc = "read"
    /\ edit' = [edit EXCEPT ![e].pc = "write", ![e].quantity = stock, ![e].at = updatedAt]
    /\ UNCHANGED <<stock, ledger, updatedAt, stamps, again>>

(* Mutant: the UPDATE has no WHERE on updatedAt.                           *)
AsFound(e) == TRUE

AsRead(e) == updatedAt = edit[e].at

NextQuantity(e) == IF edit[e].want = Keep THEN edit[e].quantity ELSE edit[e].want

(* What the UPDATE writes: a column that data leaves out keeps its value.  *)
Written(e) == IF edit[e].want = Keep THEN stock ELSE edit[e].want

(* The rest of it: the update and the movement commit together.            *)
Write(e, t) ==
    /\ edit[e].pc = "write"
    /\ IF AsRead(e)
       THEN /\ stock' = Written(e)
            /\ ledger' = ledger + NextQuantity(e) - edit[e].quantity
            /\ Stamp(t)
            /\ edit' = [edit EXCEPT ![e].pc = "saved"]
       ELSE /\ edit' = [edit EXCEPT ![e].pc = "missing"]
            /\ UNCHANGED <<stock, ledger, updatedAt, stamps, again>>

(* A line of an invoice that is issued.                                    *)
Take(t) ==
    /\ stock >= 1
    /\ stock' = stock - 1
    /\ ledger' = ledger - 1
    /\ Stamp(t)
    /\ UNCHANGED edit

(* A line of one that is cancelled.                                        *)
PutBack(t) ==
    /\ stock < MaxStock
    /\ stock' = stock + 1
    /\ ledger' = ledger + 1
    /\ Stamp(t)
    /\ UNCHANGED edit

Next ==
    \/ \E e \in Editors : Read(e)
    \/ \E e \in Editors, t \in Times : Write(e, t)
    \/ \E t \in Times : Take(t)
    \/ \E t \in Times : PutBack(t)

Spec == Init /\ [][Next]_vars
-----------------------------------------------------------------------------
(***************************************************************************)
(* The ledger explains the stock as long as no two writes of the row bore  *)
(* one time: neither the order of the times nor a clock that was set back  *)
(* matters, only that a time does not come again.                          *)
(***************************************************************************)
LedgerUnlessAgain == again \/ stock = ledger
=============================================================================
