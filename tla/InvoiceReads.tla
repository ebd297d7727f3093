---------------------------- MODULE InvoiceReads ----------------------------
(***************************************************************************)
(* Reads of invoices while they are created, edited and settled.           *)
(*                                                                         *)
(* Prisma reads an invoice and its items with two statements, the rows     *)
(* first and then the items of the rows found.  Outside a transaction, and *)
(* in the READ COMMITTED one of the list, each statement sees the latest   *)
(* commit: the answer of a GET may pair the row of one moment with the     *)
(* lines of a later one.  The steps of the others are those of             *)
(* StockContract, which StockFlow implements.                              *)
(***************************************************************************)
EXTENDS StockContract

CONSTANT Readers    \* GET /invoices and GET /invoices/:id

VARIABLES
    next,       \* the statement a reader is at
    shown,      \* the status and version it found, by invoice
    lines       \* the lines it found

reads == <<next, shown, lines>>

ReadsInit ==
    /\ Init
    /\ next = [r \in Readers |-> 1]
    /\ shown = [r \in Readers |-> [i \in Invoices |-> NoRow]]
    /\ lines = [r \in Readers |-> [i \in Invoices |-> Empty]]
-----------------------------------------------------------------------------
(* Mutant: the items are read before the rows they belong to.              *)
StatementsSwapped == <<"items", "invoices">>

Statements == <<"invoices", "items">>

At(r, statement) ==
    /\ next[r] <= 2
    /\ Statements[next[r]] = statement
    /\ next' = [next EXCEPT ![r] = @ + 1]

Found(asked) == {i \in asked : invoice[i].status # "NONE"}

(* One invoice by its id, or those of a page of the list.                  *)
ReadInvoices(r) ==
    /\ At(r, "invoices")
    /\ \E asked \in SUBSET Invoices :
        shown' = [shown EXCEPT ![r] = [i \in Invoices |->
            IF i \in Found(asked)
            THEN [status |-> invoice[i].status, version |-> invoice[i].version]
            ELSE NoRow]]
    /\ UNCHANGED <<tables, lines>>

ReadItems(r) ==
    /\ At(r, "items")
    /\ lines' = [lines EXCEPT ![r] = [i \in Invoices |-> invoice[i].items]]
    /\ UNCHANGED <<tables, shown>>

ReadsNext ==
    \/ Next /\ UNCHANGED reads
    \/ \E r \in Readers : ReadInvoices(r) \/ ReadItems(r)

ReadsSpec == ReadsInit /\ [][ReadsNext]_<<tables, reads>>
-----------------------------------------------------------------------------
(* An answer shows invoices that exist.                                    *)
ReadsTypeOK ==
    /\ TablesTypeOK
    /\ next \in [Readers -> 1 .. 3]
    /\ shown \in [Readers -> [Invoices -> Header \union {NoRow}]]
    /\ lines \in [Readers -> [Invoices -> [Products -> 0 .. MaxInt]]]

Answered(r, i) == next[r] = 3 /\ shown[r][i] # NoRow

(***************************************************************************)
(* A client may act on what it was shown: while the version of an answer   *)
(* is still the invoice's, so that a mutation with it in If-Match would be *)
(* accepted, the answer's lines and status are the invoice's, even if row  *)
(* and lines were read at different moments.                               *)
(***************************************************************************)
ShownIsCurrent ==
    \A r \in Readers, i \in Invoices :
        Answered(r, i) /\ shown[r][i].version = invoice[i].version =>
            lines[r][i] = invoice[i].items /\ shown[r][i].status = invoice[i].status

(***************************************************************************)
(* Only drafts can be mixed up: an answer that shows an invoice issued,    *)
(* paid or cancelled shows the lines it was settled with, for ever.        *)
(***************************************************************************)
SettledIsWhole ==
    \A r \in Readers, i \in Invoices :
        Answered(r, i) /\ shown[r][i].status # "DRAFT" => lines[r][i] = invoice[i].items
=============================================================================
