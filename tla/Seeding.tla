------------------------------- MODULE Seeding -------------------------------
(***************************************************************************)
(* prisma/seed.ts run any number of times, at once with itself and with    *)
(* the service.  A seed writes its two accounts in statements of their     *)
(* own, then all its products and their INITIAL_STOCK movements in one     *)
(* READ COMMITTED transaction: each statement sees what is committed, and  *)
(* an insertion that meets an uncommitted row in a unique index waits for  *)
(* the transaction that wrote it.  The upsert of a product has nothing to  *)
(* update, so that Prisma reads the row and inserts it when there is none. *)
(***************************************************************************)
EXTENDS Integers, Sequences

CONSTANTS
    Seeds,      \* runs of prisma db seed
    Service,    \* the writer of the rows that no seed wrote
    Accounts,   \* the addresses of the seed's accounts, in the order they are written
    Lines,      \* the seed's products, in order: [sku, quantity]
    Handed,     \* product ids the service may be handed, or was
    NoRow,      \* no product has this id
    Stored,     \* the products at the start
    Legacy,     \* those of them that are older than the ledger
    Creatable,  \* the quantities the service creates products with
    Deltas      \* the adjustments of stock its clients ask for

Skus == {Lines[n].sku : n \in DOMAIN Lines}
AccountNames == {Accounts[n] : n \in DOMAIN Accounts}

(* Ids are UUIDs: a seed's products get ids that nobody else has.          *)
Ids == Handed \union (Seeds \X DOMAIN Lines)

ProductRow == [sku : Skus, stock : Nat, active : BOOLEAN, by : Seeds \union {Service}]

ASSUME IdsAssumption ==
    /\ Service \notin Seeds
    /\ Handed \intersect (Seeds \X DOMAIN Lines) = {}
    /\ NoRow \notin ProductRow \union Ids
ASSUME StoredAssumption ==
    /\ Stored \in [Ids -> ProductRow \union {NoRow}]
    /\ \A p \in Ids : Stored[p] # NoRow => p \in Handed /\ Stored[p].by = Service
    /\ Legacy \subseteq {p \in Ids : Stored[p] # NoRow}
ASSUME LinesAssumption ==
    /\ Accounts \in Seq(AccountNames) /\ Accounts # <<>>
    /\ Lines \in Seq([sku : Skus, quantity : Nat]) /\ Lines # <<>>
    /\ \A m, n \in DOMAIN Lines : Lines[m].sku = Lines[n].sku => m = n
    /\ Creatable \subseteq Nat /\ Deltas \subseteq Int

VARIABLES
    accounts,   \* the seed's accounts that exist
    product,    \* Product, by id
    opening,    \* the INITIAL_STOCK rows of StockMovement
    rest,       \* the sum of a product's other movements
    pc,         \* where each seed stands
    line,       \* the account or the product it is at
    found,      \* the product its upsert answered
    crossed     \* someone has committed a product or a movement since the seed began

vars == <<accounts, product, opening, rest, pc, line, found, crossed>>

InTransaction == {"find", "insert", "look", "move", "commit"}

TypeOK ==
    /\ accounts \subseteq AccountNames
    /\ product \in [Ids -> ProductRow \union {NoRow}]
    /\ opening \subseteq [id : Ids, quantity : Int, by : Seeds \union {Service}]
    /\ rest \in [Ids -> Int]
    /\ pc \in [Seeds -> InTransaction \union {"account", "done", "duplicate", "lost"}]
    /\ line \in [Seeds -> Nat \ {0}]
    /\ found \in [Seeds -> Ids \union {NoRow}]
    /\ crossed \in [Seeds -> BOOLEAN]
    /\ \A s \in Seeds : pc[s] \in {"look", "move"} => found[s] # NoRow

(* The database a seed may find: empty, or with products that a seed or a  *)
(* client made, some before there was a ledger.                            *)
Init ==
    /\ \E n \in 0 .. Len(Accounts) : accounts = {Accounts[m] : m \in 1 .. n}
    /\ \E there \in SUBSET {p \in Ids : Stored[p] # NoRow} :
        /\ there # {} => accounts = AccountNames
        /\ product = [p \in Ids |-> IF p \in there THEN Stored[p] ELSE NoRow]
        /\ opening = {[id |-> p, quantity |-> Stored[p].stock, by |-> Service] :
                        p \in there \ Legacy}
    /\ rest = [p \in Ids |-> 0]
    /\ pc = [s \in Seeds |-> "account"]
    /\ line = [s \in Seeds |-> 1]
    /\ found = [s \in Seeds |-> NoRow]
    /\ crossed = [s \in Seeds |-> FALSE]
-----------------------------------------------------------------------------
(***************************************************************************)
(* What a statement sees, and what a unique index holds against it.        *)
(***************************************************************************)
Pending(row) == row.by \in Seeds /\ pc[row.by] \in InTransaction
Visible(s, row) == row.by = s \/ ~ Pending(row)

(* Mutant: two seeds take the products in different orders.                *)
LineReversed(s) ==
    IF s = CHOOSE t \in Seeds : TRUE THEN Lines[Len(Lines) + 1 - line[s]] ELSE Lines[line[s]]

Line(s) == Lines[line[s]]

Holding(sku) == {p \in Ids : product[p] # NoRow /\ product[p].sku = sku}

InIndex(sku) == {p \in Holding(sku) : product[p].active}

Opened(p) == {m \in opening : m.id = p}

(* Mutant: there is no StockMovement_initial_stock_once.                   *)
OnceDropped(p) == {}

Once(p) == Opened(p)

Goto(s, where) == pc' = [pc EXCEPT ![s] = where]

(* The end of a transaction that did not commit: its rows are gone.        *)
RollBack(s, how) ==
    /\ Goto(s, how)
    /\ product' = [p \in Ids |->
            IF product[p] # NoRow /\ product[p].by = s THEN NoRow ELSE product[p]]
    /\ opening' = {m \in opening : m.by # s}
    /\ UNCHANGED <<accounts, rest, line, found, crossed>>

Crossed == crossed' = [s \in Seeds |->
            crossed[s] \/ pc[s] \in InTransaction \union {"account"}]
-----------------------------------------------------------------------------
UpsertAccount(s) ==
    /\ pc[s] = "account"
    /\ accounts' = accounts \union {Accounts[line[s]]}
    /\ IF line[s] < Len(Accounts)
       THEN line' = [line EXCEPT ![s] = @ + 1] /\ UNCHANGED pc
       ELSE line' = [line EXCEPT ![s] = 1] /\ Goto(s, "find")
    /\ UNCHANGED <<product, opening, rest, found, crossed>>

(* product.upsert, its reading: userId_sku knows nothing of deletedAt, so  *)
(* that a deleted product is found too.                                    *)
Find(s) ==
    LET rows == {p \in Holding(Line(s).sku) : Visible(s, product[p])} IN
    /\ pc[s] = "find"
    /\ \/ rows = {} /\ Goto(s, "insert") /\ UNCHANGED found
       \/ \E p \in rows : found' = [found EXCEPT ![s] = p] /\ Goto(s, "look")
    /\ UNCHANGED <<accounts, product, opening, rest, line, crossed>>

Writer(s) == s

(* product.upsert, its insertion.                                          *)
Insert(s) ==
    LET clash == InIndex(Line(s).sku) IN
    /\ pc[s] = "insert"
    /\ \A p \in clash : Visible(s, product[p])
    /\ \/ clash # {} /\ RollBack(s, "duplicate")
       \/ /\ clash = {}
          /\ product' = [product EXCEPT ![<<s, line[s]>>] =
                [sku |-> Line(s).sku, stock |-> Line(s).quantity,
                 active |-> TRUE, by |-> Writer(s)]]
          /\ found' = [found EXCEPT ![s] = <<s, line[s]>>]
          /\ Goto(s, "look")
          /\ UNCHANGED <<accounts, opening, rest, line, crossed>>

NextLine(s) ==
    IF line[s] < Len(Lines)
    THEN line' = [line EXCEPT ![s] = @ + 1] /\ Goto(s, "find")
    ELSE UNCHANGED line /\ Goto(s, "commit")

(* Mutant: a product that was found is taken to be complete.               *)
FoundComplete(s, p) ==
    IF product[p].by # s THEN {NoRow} ELSE {m \in Opened(p) : Visible(s, m)}

InitialStock(s, p) == {m \in Opened(p) : Visible(s, m)}

(* stockMovement.findFirst.                                                *)
Look(s) ==
    /\ pc[s] = "look"
    /\ IF InitialStock(s, found[s]) = {}
       THEN Goto(s, "move") /\ UNCHANGED line
       ELSE NextLine(s)
    /\ UNCHANGED <<accounts, product, opening, rest, found, crossed>>

(* stockMovement.create.                                                   *)
Move(s) ==
    /\ pc[s] = "move"
    /\ \A m \in Once(found[s]) : Visible(s, m)
    /\ \/ Once(found[s]) # {} /\ RollBack(s, "duplicate")
       \/ /\ Once(found[s]) = {}
          /\ opening' = opening \union
                {[id |-> found[s], quantity |-> Line(s).quantity, by |-> Writer(s)]}
          /\ NextLine(s)
          /\ UNCHANGED <<accounts, product, rest, found, crossed>>

Commit(s) ==
    /\ pc[s] = "commit"
    /\ Goto(s, "done")
    /\ Crossed
    /\ UNCHANGED <<accounts, product, opening, rest, line, found>>

(* The process dies, the connection is lost or the transaction takes       *)
(* longer than the five seconds Prisma gives it.                           *)
Lose(s) ==
    /\ pc[s] \in InTransaction \union {"account"}
    /\ RollBack(s, "lost")
-----------------------------------------------------------------------------
(***************************************************************************)
(* What the service does to the same products meanwhile, a commit each.    *)
(***************************************************************************)
Create(sku, quantity) ==
    /\ accounts = AccountNames
    /\ InIndex(sku) = {}
    /\ \E p \in Handed :
        /\ product[p] = NoRow
        /\ product' = [product EXCEPT ![p] =
                [sku |-> sku, stock |-> quantity, active |-> TRUE, by |-> Service]]
        /\ opening' = opening \union {[id |-> p, quantity |-> quantity, by |-> Service]}
    /\ Crossed
    /\ UNCHANGED <<accounts, rest, pc, line, found>>

Stands(p) == product[p] # NoRow /\ ~ Pending(product[p]) /\ product[p].active

Adjust(p, delta) ==
    /\ Stands(p)
    /\ product[p].stock + delta >= 0
    /\ product' = [product EXCEPT ![p].stock = @ + delta]
    /\ rest' = [rest EXCEPT ![p] = @ + delta]
    /\ UNCHANGED <<accounts, opening, pc, line, found, crossed>>

Delete(p) ==
    /\ Stands(p)
    /\ product' = [product EXCEPT ![p].active = FALSE]
    /\ UNCHANGED <<accounts, opening, rest, pc, line, found, crossed>>
-----------------------------------------------------------------------------
SeedStep(s) ==
    \/ UpsertAccount(s)
    \/ Find(s)
    \/ Insert(s)
    \/ Look(s)
    \/ Move(s)
    \/ Commit(s)

Serve ==
    \/ \E sku \in Skus, quantity \in Creatable : Create(sku, quantity)
    \/ \E p \in Ids, delta \in Deltas : Adjust(p, delta)
    \/ \E p \in Ids : Delete(p)

Next ==
    \/ \E s \in Seeds : SeedStep(s)
    \/ \E s \in Seeds : Lose(s)
    \/ Serve

Spec == Init /\ [][Next]_vars

(* A seed is one process that goes on as long as PostgreSQL answers.       *)
FairSpec == Spec /\ \A s \in Seeds : WF_vars(SeedStep(s))
-----------------------------------------------------------------------------
(***************************************************************************)
(* However seeds and service interleave, the ledger opens every product at *)
(* most once (a seed reads and then inserts: of two that both find a       *)
(* product without its movement one must fail), and it explains the stock  *)
(* of every committed product that is not older than the ledger: a seed    *)
(* that dies midway leaves no product without its movement.                *)
(***************************************************************************)
Explained == \A p \in Ids :
    /\ \A m, n \in Opened(p) : m = n
    /\ p \notin Legacy /\ product[p] # NoRow /\ ~ Pending(product[p]) =>
        \E m \in Opened(p) : ~ Pending(m) /\ product[p].stock = m.quantity + rest[p]

SeededWhenDone ==
    (\E s \in Seeds : pc[s] = "done") =>
        /\ accounts = AccountNames
        /\ \A n \in DOMAIN Lines : \E p \in Holding(Lines[n].sku) :
            ~ Pending(product[p]) /\ \E m \in Opened(p) : ~ Pending(m)

FailedForCause == \A s \in Seeds : pc[s] = "duplicate" => crossed[s]

(***************************************************************************)
(* What a seed ends with is true.  One that reports success has done all   *)
(* of its work, whatever an earlier one left undone and whatever others    *)
(* did at the same time: both accounts are there and, for each line, a     *)
(* committed product with its movement.  And it can be run again: it fails *)
(* on a duplicate only when someone else committed a product or a movement *)
(* while it ran.                                                           *)
(***************************************************************************)
EndsTruly == SeededWhenDone /\ FailedForCause

(* A statement that meets somebody else's uncommitted row in an index.     *)
Waits(s) ==
    \/ pc[s] = "insert" /\ \E p \in InIndex(Line(s).sku) : ~ Visible(s, product[p])
    \/ pc[s] = "move" /\ \E m \in Once(found[s]) : ~ Visible(s, m)

(***************************************************************************)
(* However many seeds are in their transactions, they do not all wait for  *)
(* one another's rows, although two indexes make them wait, and although   *)
(* products that were there already are passed over by some and not by     *)
(* others.                                                                 *)
(***************************************************************************)
SomebodyGoesOn ==
    (\E s \in Seeds : pc[s] \in InTransaction) =>
        \E s \in Seeds : pc[s] \in InTransaction /\ ~ Waits(s)

(***************************************************************************)
(* Seeds that wait for one another's rows do not wait for ever: every seed *)
(* ends, none needs to be the victim of PostgreSQL's deadlock detection.   *)
(***************************************************************************)
EverySeedEnds == \A s \in Seeds : <>(pc[s] \in {"done", "duplicate", "lost"})
=============================================================================
