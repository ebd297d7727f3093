------------------------------ MODULE Listing ------------------------------
(***************************************************************************)
(* GET /products and GET /invoices: a client walks through the pages of a  *)
(* list while rows come into it and leave it (by creation and deletion, or *)
(* because a change makes them match the filter, or no longer).            *)
(*                                                                         *)
(* A page is two statements, the rows of the page and the count, each of   *)
(* which sees the latest commit: the array form of $transaction is READ    *)
(* COMMITTED.  The client asks for pages 1, 2, ... until page * pageSize   *)
(* reaches the total it was told last.                                     *)
(***************************************************************************)
EXTENDS Integers, Sequences, FiniteSets, SequencesExt

CONSTANTS
    Rows,           \* ids, in their order
    CreatedAt,      \* the createdAt of each row
    PageSize,
    MaxChanges      \* bound on the rows that come and go during the walk

RowsAssumption ==
    Rows \subseteq Nat /\ IsFiniteSet(Rows) /\ CreatedAt \in [Rows -> Nat]
BoundsAssumption == PageSize \in Nat \ {0} /\ MaxChanges \in Nat

VARIABLES
    list,       \* which of the two it walks through
    listed,     \* the rows that match the filter
    page,       \* the page the client is at
    next,       \* the statement it is at; 3: answered, 4: the walk is over
    total,      \* what the count said
    shown,      \* how often the client was shown each row
    kept,       \* the rows listed ever since the walk began (history)
    entered,    \* how many rows came in during the walk (history)
    left        \* how many left (history)

vars == <<list, listed, page, next, total, shown, kept, entered, left>>

TypeOK ==
    /\ list \in {"products", "invoices"}
    /\ listed \subseteq Rows
    /\ page \in 1 .. Cardinality(Rows) + 1
    /\ next \in 1 .. 4
    /\ total \in 0 .. Cardinality(Rows)
    /\ shown \in [Rows -> 0 .. Cardinality(Rows)]
    /\ kept \subseteq listed
    /\ entered \in 0 .. MaxChanges /\ left \in 0 .. MaxChanges

Init ==
    /\ list \in {"products", "invoices"}
    /\ listed \in SUBSET Rows
    /\ page = 1
    /\ next = 1
    /\ total = 0
    /\ shown = [row \in Rows |-> 0]
    /\ kept = listed
    /\ entered = 0 /\ left = 0
-----------------------------------------------------------------------------
(* Products are also ordered by id.                                        *)
TieBreak == list = "products"

(* ORDER BY createdAt DESC, and id DESC where there is a tie-break.        *)
Before(x, y) ==
    CreatedAt[x] > CreatedAt[y] \/ (TieBreak /\ CreatedAt[x] = CreatedAt[y] /\ x > y)

(* The database may return the rows in any order that ORDER BY admits.     *)
Orders(rows) ==
    {s \in SetToSeqs(rows) : \A i, j \in 1 .. Len(s) : Before(s[i], s[j]) => i < j}

paginationOffset(p) == (p - 1) * PageSize

PageOf(s) ==
    {s[i] : i \in {j \in 1 .. Len(s) :
                    paginationOffset(page) < j /\ j <= paginationOffset(page) + PageSize}}

(* Mutant: the count comes first.                                          *)
CountFirst == <<"count", "findMany">>

Statements == <<"findMany", "count">>

At(statement) ==
    /\ next \in 1 .. 2
    /\ Statements[next] = statement
    /\ next' = next + 1

FindMany ==
    /\ At("findMany")
    /\ \E s \in Orders(listed) :
        shown' = [row \in Rows |-> shown[row] + IF row \in PageOf(s) THEN 1 ELSE 0]
    /\ UNCHANGED <<listed, page, total, kept, entered, left>>

Matching == Cardinality(listed)

Count ==
    /\ At("count")
    /\ total' = Matching
    /\ UNCHANGED <<listed, page, shown, kept, entered, left>>

(* A total of 0 is a 404, and the end of the walk as well.                 *)
Turn ==
    /\ next = 3
    /\ \/ page * PageSize < total /\ page' = page + 1 /\ next' = 1
       \/ page * PageSize >= total /\ next' = 4 /\ UNCHANGED page
    /\ UNCHANGED <<listed, total, shown, kept, entered, left>>

Enter(row) ==
    /\ entered + left < MaxChanges
    /\ row \notin listed
    /\ listed' = listed \union {row}
    /\ entered' = entered + 1
    /\ UNCHANGED <<page, next, total, shown, kept, left>>

Leave(row) ==
    /\ entered + left < MaxChanges
    /\ row \in listed
    /\ listed' = listed \ {row}
    /\ kept' = kept \ {row}
    /\ left' = left + 1
    /\ UNCHANGED <<page, next, total, shown, entered>>

Next ==
    /\ \/ next < 4 /\ \E row \in Rows : Enter(row) \/ Leave(row)
       \/ FindMany \/ Count \/ Turn
    /\ UNCHANGED list

Spec == Init /\ [][Next]_vars
-----------------------------------------------------------------------------
(* A row whose place in the list is determined by its own columns.         *)
Placed(row) == TieBreak \/ \A other \in Rows : CreatedAt[other] = CreatedAt[row] => other = row

MissedAccounted ==
    next = 4 => Cardinality({row \in kept : Placed(row) /\ shown[row] = 0}) <= left

RepeatsAccounted ==
    Cardinality({row \in kept : Placed(row) /\ shown[row] > 1}) <= entered

(***************************************************************************)
(* The client misses no more rows than left the list while it was walking: *)
(* without departures it sees every row that was there all along, whatever *)
(* came in between the rows of a page and its count.  Nor is it shown more *)
(* rows a second time than came in.  Rows that share their createdAt are   *)
(* only covered where ids break the tie.                                   *)
(***************************************************************************)
WalkAccounted == MissedAccounted /\ RepeatsAccounted
=============================================================================
