---------------------------- MODULE InvoiceTotals ----------------------------
(***************************************************************************)
(* The amounts of an invoice, as InvoicesService.resolveInvoice computes   *)
(* them: a total per line, their sum line by line, the tax and the total,  *)
(* each of them refused as soon as it does not fit an INTEGER column.      *)
(*                                                                         *)
(* JavaScript's numbers are exact here: what is refused as unsafe (beyond  *)
(* 2^53) is beyond MaxCents too, and the division by 10000 of a product    *)
(* below 2^31 * 10^4 rounds to the same cent as the exact quotient.        *)
(***************************************************************************)
EXTENDS Integers, Sequences, SequencesExt

CONSTANTS
    Lines,          \* what a line may be: [price, quantity]
    MaxLines,       \* bound on the number of lines
    Rates,          \* taxRateBasisPoints
    MaxCents        \* MAX_POSTGRES_INTEGER

LinesAssumption == Lines \subseteq [price : Nat, quantity : Nat \ {0}] /\ MaxLines \in Nat
RatesAssumption == Rates \subseteq 0 .. 10000 /\ MaxCents \in Nat

VARIABLES
    input,      \* the lines of the request, with the prices of their products
    rate,       \* the configured tax rate
    items,      \* the line totals computed so far
    summed,     \* how many of them the subtotal has
    amounts,    \* subtotal, tax and total
    step        \* what comes next, or how it ended

vars == <<input, rate, items, summed, amounts, step>>

(* Whatever has been computed fits an INTEGER column and its CHECK.        *)
TypeOK ==
    /\ input \in BoundedSeq(Lines, MaxLines)
    /\ rate \in Rates
    /\ items \in Seq(0 .. MaxCents)
    /\ summed \in 0 .. MaxLines
    /\ amounts \in [subtotal : 0 .. MaxCents, tax : 0 .. MaxCents, total : 0 .. MaxCents]
    /\ step \in {"lines", "sum", "tax", "total", "stored", "refused"}

Init ==
    /\ input \in BoundedSeq(Lines, MaxLines) \ {<<>>}
    /\ rate \in Rates
    /\ items = <<>>
    /\ summed = 0
    /\ amounts = [subtotal |-> 0, tax |-> 0, total |-> 0]
    /\ step = "lines"
-----------------------------------------------------------------------------
(* Mutants: the largest amount is refused; the check looks for a sign only.*)
StorableBelow(value) == value < MaxCents
StorableSigned(value) == value >= 0

Storable(value) == 0 <= value /\ value <= MaxCents

(* Mutant: the fraction of a cent is dropped.                              *)
TaxDropped(subtotal) == (subtotal * rate) \div 10000

(* Math.round: to the nearest cent, halves up.                             *)
Tax(subtotal) == (subtotal * rate + 5000) \div 10000

Refuse == step' = "refused" /\ UNCHANGED <<items, summed, amounts>>

(* input.items.map: the total of the next line.                            *)
PriceLine ==
    LET line  == input[Len(items) + 1]
        total == line.price * line.quantity
    IN  /\ step = "lines"
        /\ \/ ~ Storable(total) /\ Refuse
           \/ /\ Storable(total)
              /\ items' = Append(items, total)
              /\ step' = IF Len(items') = Len(input) THEN "sum" ELSE "lines"
              /\ UNCHANGED <<summed, amounts>>

(* items.reduce: one line more in the subtotal.                            *)
AddLine ==
    LET subtotal == amounts.subtotal + items[summed + 1]
    IN  /\ step = "sum"
        /\ \/ ~ Storable(subtotal) /\ Refuse
           \/ /\ Storable(subtotal)
              /\ amounts' = [amounts EXCEPT !.subtotal = subtotal]
              /\ summed' = summed + 1
              /\ step' = IF summed' = Len(items) THEN "tax" ELSE "sum"
              /\ UNCHANGED items

AddTax ==
    LET tax == Tax(amounts.subtotal)
    IN  /\ step = "tax"
        /\ \/ ~ Storable(tax) /\ Refuse
           \/ /\ Storable(tax)
              /\ amounts' = [amounts EXCEPT !.tax = tax]
              /\ step' = "total"
              /\ UNCHANGED <<items, summed>>

AddUp ==
    LET total == amounts.subtotal + amounts.tax
    IN  /\ step = "total"
        /\ \/ ~ Storable(total) /\ Refuse
           \/ /\ Storable(total)
              /\ amounts' = [amounts EXCEPT !.total = total]
              /\ step' = "stored"
              /\ UNCHANGED <<items, summed>>

Next == (PriceLine \/ AddLine \/ AddTax \/ AddUp) /\ UNCHANGED <<input, rate>>

Spec == Init /\ [][Next]_vars
-----------------------------------------------------------------------------
(* The sum of the lines, and the amount due, in unbounded arithmetic.      *)
Goods == SumFunction([i \in DOMAIN input |-> input[i].price * input[i].quantity])

(* The exact tax is Goods * rate / 10000: half a cent at most is rounded   *)
(* away, and less than half a cent down.                                   *)
NearestCent(cents) ==
    LET error == 10000 * cents - Goods * rate IN -5000 < error /\ error <= 5000

(***************************************************************************)
(* An invoice that is stored says what is due: the sum of its lines, the   *)
(* tax to the nearest cent, and their sum.                                 *)
(***************************************************************************)
StoredExactly ==
    step = "stored" =>
        /\ amounts.subtotal = Goods
        /\ NearestCent(amounts.tax)
        /\ amounts.total = Goods + amounts.tax

(***************************************************************************)
(* Nothing that fits is refused: the intermediate checks refuse only       *)
(* invoices whose amount due does not fit the column.                      *)
(***************************************************************************)
RefusedOnlyTooLarge ==
    step = "refused" =>
        \A tax \in 0 .. Goods : NearestCent(tax) => Goods + tax > MaxCents

=============================================================================
